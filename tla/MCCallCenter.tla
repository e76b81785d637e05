---------------------------- MODULE MCCallCenter ----------------------------
(* Instances of CallCenter for TLC. *)
EXTENDS CallCenter, TLC

CONSTANTS c1, c2, c3, x1, x2, x3, w1, w2

OneCall == {c1}
TwoCalls == {c1, c2}
ThreeCalls == {c1, c2, c3}
OneContext == {x1}
TwoContexts == {x1, x2}
ThreeContexts == {x1, x2, x3}
OneWorker == {w1}
TwoWorkers == {w1, w2}
Symmetry == Permutations(Calls) \cup Permutations(Contexts) \cup Permutations(Workers)
=============================================================================
