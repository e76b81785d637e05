--------------------------- MODULE EventQueueSpec ---------------------------
(***************************************************************************)
(* What the comment of IPT_Event promises (IPT_Event.java:5-9): events are *)
(* queued; the observers are told of them one at a time, each once, in the *)
(* order in which they were posted, and every event is told in the end.    *)
(* Events are numbered in the order in which they are posted.              *)
(***************************************************************************)
EXTENDS Naturals

CONSTANT MaxPosts        \* bound on the number of events

VARIABLES posted,        \* number of events posted
          told           \* number of events the observers were told of

Init == posted = 0 /\ told = 0

Post == posted < MaxPosts /\ posted' = posted + 1 /\ UNCHANGED told

Tell == told < posted /\ told' = told + 1 /\ UNCHANGED posted

Next == Post \/ Tell

Spec == Init /\ [][Next]_<<posted, told>> /\ WF_<<posted, told>>(Tell)
=============================================================================
