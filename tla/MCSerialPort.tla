------------------------------ MODULE MCSerialPort ------------------------------
(* Instances of SerialPort for TLC.                                        *)
EXTENDS SerialPort, TLC

(* Calls of one kind are interchangeable.                                  *)
Symmetry == Permutations(Readers) \cup Permutations(Writers)
===============================================================================
