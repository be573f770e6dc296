---------------------------- MODULE MCSwiftSession ----------------------------
(* Instances of SwiftSession for TLC.                                      *)
EXTENDS SwiftSession, TLC

(* Calls are interchangeable, and so are flushes.                          *)
Symmetry == Permutations(Calls) \cup Permutations(Flushes)
===============================================================================
