------------------------------ MODULE MCDialog ------------------------------
(* Instances of Dialog for TLC. *)
EXTENDS Dialog, TLC

CONSTANTS t1, t2

AllCalls == AppCalls
OneThread == {t1}
TwoThreads == {t1, t2}
Symmetry == Permutations(TwoThreads)
=============================================================================
