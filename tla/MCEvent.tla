------------------------------ MODULE MCEvent ------------------------------
(* Instances of IPT_Event for TLC. *)
EXTENDS IPT_Event, TLC

CONSTANTS gui, worker1, worker2

OneThread == {gui}
TwoThreads == {gui, worker1}
ThreeThreads == {gui, worker1, worker2}
Symmetry == Permutations(ThreeThreads)
=============================================================================
