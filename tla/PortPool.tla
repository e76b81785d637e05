------------------------------ MODULE PortPool ------------------------------
(***************************************************************************)
(* The port manager together with the calls that use it.  A call keeps the *)
(* pair it obtained last and nothing of an earlier one (Call.getLSDP), so  *)
(* it can give back only that one (Call.freeLSDP), and it may end without  *)
(* doing so.  dropped and seen record history for the properties.          *)
(***************************************************************************)
EXTENDS PortManager

CONSTANTS Clients,
          None      \* the null reference

VARIABLES localmedia,  \* localmedia[c]: the RTP port c announces, or None
          dropped,     \* dropped: pairs whose call lost its reference to them without
                       \* giving them back
          seen         \* seen[p]: the pairs found in use or granted since p was
                       \* last granted (for README.config:119)

vars == <<portbusy, next, localmedia, dropped, seen>>

Ports == {first + p : p \in Pairs}

ASSUME NoneIsNoPort == None \notin Ports

Init == /\ PMInit
        /\ localmedia = [c \in Clients |-> None]
        /\ dropped = {}
        /\ seen = [p \in Pairs |-> Pairs]

Busy == Pairs \ FreePairs

\* The pair a call announces, a set of at most one.
Own(c) == {p \in Pairs : localmedia[c] = p + first}

Obtain(c) ==
  \E port \in Ports :
    /\ GetPort(port)
    /\ localmedia' = [localmedia EXCEPT ![c] = port]
    /\ dropped' = dropped \cup Own(c)
    /\ seen' = [p \in Pairs |-> IF p = port - first
                                  THEN {p}
                                  ELSE seen[p] \cup Busy \cup {port - first}]

\* No pair is free: the call keeps the descriptor it had.
ObtainThrows(c) == GetPortThrows /\ UNCHANGED vars

Release(c) ==
  /\ localmedia[c] # None
  /\ FreePort(localmedia[c])
  /\ localmedia' = [localmedia EXCEPT ![c] = None]
  /\ UNCHANGED <<dropped, seen>>

\* A call is removed from the list without MED_STOP (a cancel while it rings):
\* its descriptor goes with it.
Abandon(c) ==
  /\ localmedia[c] # None
  /\ localmedia' = [localmedia EXCEPT ![c] = None]
  /\ dropped' = dropped \cup Own(c)
  /\ UNCHANGED <<pmvars, seen>>

Next == \E c \in Clients : Obtain(c) \/ ObtainThrows(c) \/ Release(c) \/ Abandon(c)

Spec == Init /\ [][Next]_vars
-----------------------------------------------------------------------------
\* The flags and the search pointer of the manager, and the ports of the calls.
TypeOK == /\ PMTypeOK
          /\ localmedia \in [Clients -> Ports \cup {None}]
          /\ dropped \in SUBSET Pairs
          /\ seen \in [Pairs -> SUBSET Pairs]

\* Two calls never announce the same pair, and what a call announces stays
\* marked in use, RTP and RTCP port both, whatever other calls give back or
\* lose (PortManager.getPort, freePort; Call.getLSDP, freeLSDP).
Exclusive ==
  \A c \in Clients : localmedia[c] # None =>
    /\ \A d \in Clients \ {c} : localmedia[d] # localmedia[c]
    /\ portbusy[localmedia[c] - first] /\ portbusy[localmedia[c] - first + 1]

\* Exactly the pairs that some call announces or lost without giving them back
\* are in use, except for the first one, which freePort refuses: freeing is never
\* forgotten, and a lost pair is never granted again (PortManager.freePort,
\* Call.java:203, 437 and 453).
LossesKnown ==
  \A p \in Pairs \ {0} :
    portbusy[p] <=> (p \in dropped \/ \E c \in Clients : localmedia[c] = p + first)

\* The two flags of a pair always agree, so a pair is never half granted.
PairsWhole == \A p \in Pairs : portbusy[p] = portbusy[p + 1]

\* README.config:119 "Bonephone cycles through this port space to re-use former
\* port numbers as late as possible": a pair is granted again only after every
\* other pair was granted, or found in use by getPort, since its last grant.
CyclesThroughRange ==
  [][\A p \in Pairs : (portbusy'[p] /\ ~portbusy[p]) => seen[p] \cup Busy \cup {p} = Pairs]_vars

\* PortManager.java:34 "free (release) a former obtained pair of ports": a pair
\* that no call announces and none lost is free.  The code contradicts it for the
\* first pair of the range.
ReleasedIsFree ==
  \A p \in Pairs \ dropped : portbusy[p] => \E c \in Clients : localmedia[c] = p + first
=============================================================================
