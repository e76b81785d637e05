---------------------------- MODULE PortManager ----------------------------
(***************************************************************************)
(* bonephone/PortManager.java: the pool of RTP/RTCP port pairs.  The two   *)
(* synchronized methods are atomic, so each is one action; an index p of   *)
(* portbusy stands for the port p + first, as in the code.                 *)
(***************************************************************************)
EXTENDS Integers

CONSTANTS RTPFirstPort,  \* constructor argument "first"
          RTPPorts       \* constructor argument "count"

ASSUME PortRange == RTPFirstPort \in Nat /\ RTPPorts \in Int

VARIABLES portbusy,  \* portbusy[p]: the port p + first is in use
          next       \* index at which the next search starts

pmvars == <<portbusy, next>>

Word(x) == (x % 65536) - (x % 2)    \* x & 65534 on a Java int

first == Word(RTPFirstPort)
count == Word(IF RTPPorts < 2 THEN 2 ELSE RTPPorts)

Index == 0 .. count - 1
Pairs == {p \in Index : p % 2 = 0}

FreePairs == {p \in Pairs : ~portbusy[p]}

\* How far getPort walks from next to p: upwards, then from 0 to next.
Walk(p) == IF p >= next THEN p - next ELSE p - next + count

PMInit == /\ portbusy = [p \in Index |-> FALSE]
          /\ next = 0

\* Mutants of getPort: the search pointer is left on the granted pair; it is
\* advanced by one port only.
GetPort_PointerStays(port) ==
  /\ port - first \in FreePairs
  /\ \A q \in FreePairs : Walk(port - first) <= Walk(q)
  /\ portbusy' = [portbusy EXCEPT ![port - first] = TRUE,
                                  ![port - first + 1] = TRUE]
  /\ next' = port - first

GetPort_OnePort(port) ==
  /\ port - first \in FreePairs
  /\ \A q \in FreePairs : Walk(port - first) <= Walk(q)
  /\ portbusy' = [portbusy EXCEPT ![port - first] = TRUE,
                                  ![port - first + 1] = TRUE]
  /\ next' = port - first + 1

\* getPort() returns port; it throws exactly when no pair is free.
GetPort(port) ==
  /\ port - first \in FreePairs
  /\ \A q \in FreePairs : Walk(port - first) <= Walk(q)
  /\ portbusy' = [portbusy EXCEPT ![port - first] = TRUE,
                                  ![port - first + 1] = TRUE]
  /\ next' = port - first + 2

GetPortThrows == FreePairs = {}

\* Mutants of freePort: the pair after the released one goes too; the RTCP
\* flag is forgotten; the lower guard is one pair too high.
FreePort_TwoPairs(port) ==
  /\ portbusy' = [p \in Index |-> portbusy[p] /\ (p + first) \notin port .. port + 3]
  /\ next' = next

FreePort_OnlyRTP(port) ==
  /\ portbusy' = IF port > first /\ port < count + first
                   THEN [portbusy EXCEPT ![port - first] = FALSE]
                   ELSE portbusy
  /\ next' = next

FreePort_HighGuard(port) ==
  /\ portbusy' = IF port > first + 2 /\ port < count + first
                   THEN [portbusy EXCEPT ![port - first] = FALSE,
                                         ![port - first + 1] = FALSE]
                   ELSE portbusy
  /\ next' = next

FreePort(port) ==
  /\ portbusy' = IF port > first /\ port < count + first
                   THEN [portbusy EXCEPT ![port - first] = FALSE,
                                         ![port - first + 1] = FALSE]
                   ELSE portbusy
  /\ next' = next

PMTypeOK == /\ portbusy \in [Index -> BOOLEAN]
            /\ next \in 0 .. count
            /\ next % 2 = 0
=============================================================================
