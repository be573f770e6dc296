---------------------------- MODULE MCSwiftCommand ----------------------------
(* Instances of SwiftCommand for TLC.                                      *)
EXTENDS SwiftCommand, TLC

(* Calls of one kind are interchangeable, and so are flushes.              *)
Symmetry == Permutations(SyncCalls) \cup Permutations(CallbackCalls)
            \cup Permutations(BareCalls) \cup Permutations(Flushes)
===============================================================================
