--------------------------- MODULE PortPool_proofs ---------------------------
(***************************************************************************)
(* The port pool is correct for every range and any number of calls.       *)
(***************************************************************************)
EXTENDS PortPool, CallParts_proofs, TLAPS

\* A port of the range stands for exactly one pair.
LEMMA PortPair ==
  ASSUME NEW port \in Ports
  PROVE  port - first \in Pairs /\ port = first + (port - first) /\ port \in Int
  BY RangeEven, PairInRange DEF Ports

-----------------------------------------------------------------------------
\* TypeOK alone is inductive.
LEMMA TypeStep == TypeOK /\ [Next]_vars => TypeOK'
<1> SUFFICES ASSUME TypeOK, [Next]_vars PROVE TypeOK'
  OBVIOUS
<1>1. ASSUME NEW c \in Clients, Obtain(c) PROVE TypeOK'
  <2>1. PICK port \in Ports :
          /\ GetPort(port)
          /\ localmedia' = [localmedia EXCEPT ![c] = port]
          /\ dropped' = dropped \cup Own(c)
          /\ seen' = [p \in Pairs |-> IF p = port - first
                                        THEN {p}
                                        ELSE seen[p] \cup Busy \cup {port - first}]
    BY <1>1 DEF Obtain
  <2>2. PMTypeOK'
    BY <2>1, PortPair, GrantTyped DEF TypeOK
  <2>3. localmedia' \in [Clients -> Ports \cup {None}] /\ dropped' \in SUBSET Pairs
    BY <2>1 DEF TypeOK, Own
  <2>4. seen' \in [Pairs -> SUBSET Pairs]
    BY <2>1, PortPair DEF TypeOK, Busy
  <2> QED BY <2>2, <2>3, <2>4 DEF TypeOK
<1>2. ASSUME NEW c \in Clients, Release(c) PROVE TypeOK'
  BY <1>2, ReleaseTyped DEF Release, TypeOK
<1>3. ASSUME NEW c \in Clients, Abandon(c) PROVE TypeOK'
  BY <1>3 DEF Abandon, TypeOK, Own, pmvars, PMTypeOK
<1>4. CASE UNCHANGED vars
  BY <1>4 DEF vars, TypeOK, PMTypeOK
<1> QED BY <1>1, <1>2, <1>3, <1>4 DEF Next, ObtainThrows

\* The state of the pool is always well typed (every method of PortManager).
THEOREM TypeCorrect == Spec => []TypeOK
<1>1. Init => TypeOK
  BY RangeEven DEF Init, PMInit, TypeOK, PMTypeOK
<1> QED BY <1>1, TypeStep, PTL DEF Spec

-----------------------------------------------------------------------------
(***************************************************************************)
(* Safety of the pool, said of one pair at a time: who owns it, when it is *)
(* in use, and that a lost pair stays in use and is owned by nobody.       *)
(***************************************************************************)
PairSafe ==
  \A p \in Pairs :
    /\ \A c \in Clients : p \in Own(c) => portbusy[p] /\ portbusy[p + 1]
    /\ \A c, d \in Clients : p \in Own(c) /\ p \in Own(d) => c = d
    /\ p \in dropped => portbusy[p] /\ \A c \in Clients : p \notin Own(c)
    /\ p # 0 /\ portbusy[p] => p \in dropped \/ \E c \in Clients : p \in Own(c)

Safe == TypeOK /\ PairsWhole /\ PairSafe

\* A call announces a port exactly when it owns the pair of that port.
LEMMA OwnPair ==
  ASSUME TypeOK, NEW c \in Clients, NEW p \in Pairs
  PROVE  /\ p \in Own(c) <=> localmedia[c] = p + first
         /\ p \in Own(c) <=> localmedia[c] # None /\ localmedia[c] - first = p
<1>1. p + first = first + p /\ p \in Int /\ first \in Int
  BY PairInRange, RangeEven
<1>2. p + first \in Ports
  BY <1>1 DEF Ports
<1>3. p \in Own(c) <=> localmedia[c] = p + first
  BY DEF Own
<1>4. CASE localmedia[c] = None
  BY <1>2, <1>3, <1>4, NoneIsNoPort
<1>5. CASE localmedia[c] # None
  <2>1. localmedia[c] \in Ports
    BY <1>5 DEF TypeOK
  <2>2. localmedia[c] \in Int
    BY <2>1, PortPair
  <2>3. p + first # None
    BY <1>2, NoneIsNoPort
  <2>4. localmedia[c] = p + first <=> localmedia[c] - first = p
    BY <1>1, <2>2
  <2> QED BY <1>3, <1>5, <2>4
<1> QED BY <1>4, <1>5

\* The claims about single pairs are the claims about the ports of the calls.
LEMMA SafeMeans == Safe => Exclusive /\ LossesKnown
<1> SUFFICES ASSUME Safe PROVE Exclusive /\ LossesKnown
  OBVIOUS
<1>1. Exclusive
  <2> SUFFICES ASSUME NEW c \in Clients, localmedia[c] # None
               PROVE  /\ \A d \in Clients \ {c} : localmedia[d] # localmedia[c]
                      /\ portbusy[localmedia[c] - first]
                      /\ portbusy[localmedia[c] - first + 1]
    BY DEF Exclusive
  <2>1. localmedia[c] \in Ports
    BY DEF Safe, TypeOK
  <2>2. localmedia[c] - first \in Pairs
    BY <2>1, PortPair
  <2>3. localmedia[c] - first \in Own(c)
    BY <2>2, OwnPair DEF Safe
  <2>4. \A d \in Clients : localmedia[d] = localmedia[c] => localmedia[c] - first \in Own(d)
    BY <2>2, OwnPair DEF Safe
  <2> QED BY <2>2, <2>3, <2>4 DEF Safe, PairSafe
<1>2. LossesKnown
  <2>1. \A p \in Pairs : \A c \in Clients : p \in Own(c) <=> localmedia[c] = p + first
    BY OwnPair DEF Safe
  <2> QED BY <2>1 DEF LossesKnown, Safe, PairSafe
<1> QED BY <1>1, <1>2

\* What a step of call c does to what is owned.
LEMMA OwnAfter ==
  ASSUME TypeOK, NEW c \in Clients, NEW x, localmedia' = [localmedia EXCEPT ![c] = x]
  PROVE  /\ \A p \in Pairs : p \in Own(c)' <=> x = p + first
         /\ \A d \in Clients : d # c => Own(d)' = Own(d)
  BY DEF Own, TypeOK

LEMMA ObtainSafe ==
  ASSUME Safe, NEW c \in Clients, Obtain(c)
  PROVE  PairsWhole' /\ PairSafe'
<1>1. PICK port \in Ports : /\ GetPort(port)
                            /\ localmedia' = [localmedia EXCEPT ![c] = port]
                            /\ dropped' = dropped \cup Own(c)
  BY DEF Obtain
<1>2. TypeOK BY DEF Safe
<1> DEFINE g == port - first
<1>3. g \in Pairs /\ port = first + g /\ g \in Int /\ first \in Int
  BY PortPair, PairInRange, RangeEven
<1>4. /\ portbusy'[g] = TRUE /\ portbusy'[g + 1] = TRUE
      /\ \A q \in Index : q # g /\ q # g + 1 => portbusy'[q] = portbusy[q]
  BY <1>1, <1>2, <1>3, GrantFlags DEF TypeOK
<1>5. \A q \in Pairs : q # g => /\ portbusy'[q] = portbusy[q]
                                /\ portbusy'[q + 1] = portbusy[q + 1]
  <2> SUFFICES ASSUME NEW q \in Pairs, q # g
               PROVE  portbusy'[q] = portbusy[q] /\ portbusy'[q + 1] = portbusy[q + 1]
    OBVIOUS
  <2>1. q # g + 1 /\ q + 1 # g /\ q + 1 # g + 1
    BY <1>3, PairInRange
  <2> QED BY <1>4, <2>1, PairInRange
<1>6. g \notin dropped /\ \A d \in Clients : g \notin Own(d)
  <2>1. ~portbusy[g]
    BY <1>1 DEF GetPort, FreePairs
  <2> QED BY <1>3, <2>1 DEF Safe, PairSafe
<1>7. /\ \A p \in Pairs : p \in Own(c)' <=> p = g
      /\ \A d \in Clients : d # c => Own(d)' = Own(d)
  <2>1. \A q \in Pairs : port = q + first <=> q = g
    BY <1>3, PairInRange
  <2> QED BY <1>1, <1>2, <2>1, OwnAfter
<1>8. PairSafe'
  <2> SUFFICES ASSUME NEW p \in Pairs
               PROVE  /\ \A d \in Clients : p \in Own(d)' => portbusy'[p] /\ portbusy'[p + 1]
                      /\ \A d, e \in Clients : p \in Own(d)' /\ p \in Own(e)' => d = e
                      /\ p \in dropped' => portbusy'[p] /\ \A d \in Clients : p \notin Own(d)'
                      /\ p # 0 /\ portbusy'[p]
                           => p \in dropped' \/ \E d \in Clients : p \in Own(d)'
    BY DEF PairSafe
  <2>1. CASE p = g
    BY <1>1, <1>4, <1>6, <1>7, <2>1
  <2>2. CASE p # g
    <3>1. \A d \in Clients : p \in Own(d)' <=> p \in Own(d) /\ d # c
      BY <1>7, <2>2
    <3> QED BY <1>1, <1>5, <2>2, <3>1 DEF Safe, PairSafe
  <2> QED BY <2>1, <2>2
<1>9. PairsWhole'
  <2>1. ASSUME NEW q \in Pairs PROVE portbusy'[q] = portbusy'[q + 1]
    <3>1. CASE q = g
      BY <1>4, <3>1
    <3>2. CASE q # g
      BY <1>5, <3>2 DEF Safe, PairsWhole
    <3> QED BY <3>1, <3>2
  <2> QED BY <2>1 DEF PairsWhole
<1> QED BY <1>8, <1>9

LEMMA ReleaseSafe ==
  ASSUME Safe, NEW c \in Clients, Release(c)
  PROVE  PairsWhole' /\ PairSafe'
<1> DEFINE port == localmedia[c]
           g == port - first
<1>1. TypeOK BY DEF Safe
<1>2. port # None /\ FreePort(port) /\ localmedia' = [localmedia EXCEPT ![c] = None]
      /\ dropped' = dropped
  BY DEF Release
<1>3. port \in Ports
  BY <1>1, <1>2 DEF TypeOK
<1>4. g \in Pairs /\ port = first + g /\ port \in Int /\ first \in Int
  BY <1>3, PortPair, RangeEven
<1>5. g \in Own(c)
  BY <1>1, <1>2, <1>4, OwnPair
<1>6. /\ \A p \in Pairs : p \notin Own(c)'
      /\ \A d \in Clients : d # c => Own(d)' = Own(d)
  <2>1. \A p \in Pairs : None # p + first
    BY NoneIsNoPort, PairInRange, RangeEven DEF Ports
  <2> QED BY <1>1, <1>2, <2>1, OwnAfter
<1>7. \A q \in Pairs : q # g => /\ portbusy'[q] = portbusy[q]
                                /\ portbusy'[q + 1] = portbusy[q + 1]
  <2> SUFFICES ASSUME NEW q \in Pairs, q # g
               PROVE  portbusy'[q] = portbusy[q] /\ portbusy'[q + 1] = portbusy[q + 1]
    OBVIOUS
  <2>1. q # g + 1 /\ q + 1 # g /\ q + 1 # g + 1
    BY <1>4, PairInRange
  <2> QED BY <1>1, <1>2, <1>4, <2>1, PairInRange, ReleaseFlags DEF TypeOK
<1>8. portbusy'[g] = portbusy'[g + 1]
  BY <1>1, <1>2, <1>4, ReleaseFlags DEF TypeOK, Safe, PairsWhole
<1>9. g # 0 => portbusy'[g] = FALSE
  <2>1. g # 0 => port # first
    BY <1>4
  <2> QED BY <1>1, <1>2, <1>4, <2>1, ReleaseFlags DEF TypeOK
<1>10. PairSafe'
  <2> SUFFICES ASSUME NEW p \in Pairs
               PROVE  /\ \A d \in Clients : p \in Own(d)' => portbusy'[p] /\ portbusy'[p + 1]
                      /\ \A d, e \in Clients : p \in Own(d)' /\ p \in Own(e)' => d = e
                      /\ p \in dropped' => portbusy'[p] /\ \A d \in Clients : p \notin Own(d)'
                      /\ p # 0 /\ portbusy'[p]
                           => p \in dropped' \/ \E d \in Clients : p \in Own(d)'
    BY DEF PairSafe
  <2>1. CASE p = g
    <3>1. p \notin dropped /\ \A d \in Clients : d # c => p \notin Own(d)
      BY <1>5, <2>1 DEF Safe, PairSafe
    <3>2. \A d \in Clients : p \notin Own(d)'
      BY <1>6, <3>1
    <3> QED BY <1>2, <1>9, <2>1, <3>1, <3>2
  <2>2. CASE p # g
    <3>1. p \notin Own(c)
      BY <1>1, <1>4, <2>2, OwnPair
    <3>2. \A d \in Clients : p \in Own(d)' <=> p \in Own(d)
      BY <1>6, <3>1
    <3> QED BY <1>2, <1>7, <2>2, <3>2 DEF Safe, PairSafe
  <2> QED BY <2>1, <2>2
<1>11. PairsWhole'
  <2>1. ASSUME NEW q \in Pairs PROVE portbusy'[q] = portbusy'[q + 1]
    BY <1>7, <1>8 DEF Safe, PairsWhole
  <2> QED BY <2>1 DEF PairsWhole
<1> QED BY <1>10, <1>11

LEMMA AbandonSafe ==
  ASSUME Safe, NEW c \in Clients, Abandon(c)
  PROVE  PairsWhole' /\ PairSafe'
<1>1. TypeOK BY DEF Safe
<1>2. /\ localmedia' = [localmedia EXCEPT ![c] = None] /\ dropped' = dropped \cup Own(c)
      /\ portbusy' = portbusy
  BY DEF Abandon, pmvars
<1>3. /\ \A p \in Pairs : p \notin Own(c)'
      /\ \A d \in Clients : d # c => Own(d)' = Own(d)
  <2>1. \A p \in Pairs : None # p + first
    BY NoneIsNoPort, PairInRange, RangeEven DEF Ports
  <2> QED BY <1>1, <1>2, <2>1, OwnAfter
<1>4. \A p \in Pairs : \A d \in Clients : p \in Own(d)' <=> p \in Own(d) /\ d # c
  BY <1>3
<1>5. PairSafe'
  BY <1>2, <1>4 DEF Safe, PairSafe
<1> QED BY <1>2, <1>5 DEF Safe, PairsWhole

\* Safe is an invariant (PortManager.getPort and freePort, used as Call does).
LEMMA SafeInvariant == Spec => []Safe
<1>1. Init => Safe
  <2> SUFFICES ASSUME Init PROVE Safe
    OBVIOUS
  <2>1. TypeOK
    BY RangeEven DEF Init, PMInit, TypeOK, PMTypeOK
  <2>2. \A p \in Pairs : portbusy[p] = FALSE /\ portbusy[p + 1] = FALSE
    BY PairInRange DEF Init, PMInit
  <2>3. \A c \in Clients : \A p \in Pairs : p \notin Own(c)
    <3>1. \A c \in Clients : localmedia[c] = None
      BY DEF Init
    <3> QED BY <2>1, <3>1, OwnPair
  <2> QED BY <2>1, <2>2, <2>3 DEF Init, Safe, PairsWhole, PairSafe
<1>2. Safe /\ [Next]_vars => Safe'
  <2> SUFFICES ASSUME Safe, [Next]_vars PROVE Safe'
    OBVIOUS
  <2>1. TypeOK'
    BY TypeStep DEF Safe
  <2>2. ASSUME NEW c \in Clients, Obtain(c) PROVE Safe'
    BY <2>1, <2>2, ObtainSafe DEF Safe
  <2>3. ASSUME NEW c \in Clients, Release(c) PROVE Safe'
    BY <2>1, <2>3, ReleaseSafe DEF Safe
  <2>4. ASSUME NEW c \in Clients, Abandon(c) PROVE Safe'
    BY <2>1, <2>4, AbandonSafe DEF Safe
  <2>5. CASE UNCHANGED vars
    BY <2>1, <2>5 DEF vars, Safe, PairsWhole, PairSafe, Own
  <2> QED BY <2>2, <2>3, <2>4, <2>5 DEF Next, ObtainThrows
<1> QED BY <1>1, <1>2, PTL DEF Spec

\* No pair is ever granted to two calls, and what a call announces stays in use,
\* whatever the range and the number of calls, although calls lose pairs
\* (PortManager.getPort, Call.getLSDP, freeLSDP).
THEOREM PairsExclusive == Spec => []Exclusive
<1> QED BY SafeInvariant, SafeMeans, PTL

\* The pairs in use are those that a call announces and those that a call lost,
\* and perhaps the first one: nothing else is ever lost, and what is lost stays so
\* (PortManager.freePort, Call.java:203 and 437).
THEOREM LossesAccounted == Spec => []LossesKnown
<1> QED BY SafeInvariant, SafeMeans, PTL

\* A pair is granted and released as a whole: its two flags agree.
THEOREM NeverHalf == Spec => []PairsWhole
<1>1. Safe => PairsWhole BY DEF Safe
<1> QED BY <1>1, SafeInvariant, PTL

-----------------------------------------------------------------------------
(***************************************************************************)
(* The range is used in turns.  What makes it true at a grant has to be    *)
(* said between grants: a pair q not seen since p was granted lies on the  *)
(* way from next to p, so getPort will look at it first.                   *)
(***************************************************************************)
InTurn == \A p, q \in Pairs : q \notin seen[p] => Walk(q) < Walk(p)

\* Walk counts the pairs from next, and the pair before next comes last.
LEMMA WalkOrder ==
  ASSUME PMTypeOK, NEW p \in Pairs, NEW q \in Pairs
  PROVE  /\ Walk(p) \in 0 .. count - 2
         /\ p # q => Walk(p) # Walk(q)
  BY PairInRange, RangeEven DEF PMTypeOK, Walk

\* After g is granted the walk starts behind g: g is now the last pair, and two
\* pairs that were behind g keep their order.
LEMMA WalkAfterGrant ==
  ASSUME PMTypeOK, NEW g \in Pairs, next' = g + 2, NEW p \in Pairs, NEW q \in Pairs
  PROVE  /\ q # g => Walk(q)' < Walk(g)'
         /\ Walk(g) < Walk(q) /\ Walk(q) < Walk(p) => Walk(q)' < Walk(p)'
<1>1. /\ p \in Nat /\ q \in Nat /\ g \in Nat /\ next \in Nat /\ count \in Nat
      /\ p % 2 = 0 /\ q % 2 = 0 /\ g % 2 = 0 /\ next % 2 = 0 /\ count % 2 = 0
      /\ p < count /\ q < count /\ g < count /\ next <= count
      /\ p + 2 <= count /\ q + 2 <= count
  <2>1. \A r \in Pairs : r \in Nat /\ r % 2 = 0 /\ r + 2 <= count /\ r < count
    BY PairInRange, RangeEven
  <2>2. next \in Nat /\ next % 2 = 0 /\ next <= count
    BY RangeEven DEF PMTypeOK
  <2> QED BY <2>1, <2>2, RangeEven
<1>2. /\ Walk(p)' = IF p >= g + 2 THEN p - (g + 2) ELSE p - (g + 2) + count
      /\ Walk(q)' = IF q >= g + 2 THEN q - (g + 2) ELSE q - (g + 2) + count
      /\ Walk(g)' = g - (g + 2) + count
  BY <1>1 DEF Walk
<1>3. q # g => Walk(q)' < Walk(g)'
  BY <1>1, <1>2
<1>4. Walk(g) < Walk(q) /\ Walk(q) < Walk(p) => Walk(q)' < Walk(p)'
  BY <1>1, <1>2 DEF Walk
<1> QED BY <1>3, <1>4

\* The pair getPort grants has been in turn: all the others were seen.
LEMMA GrantInTurn ==
  ASSUME TypeOK, InTurn, NEW port \in Ports, GetPort(port)
  PROVE  seen[port - first] \cup Busy \cup {port - first} = Pairs
<1>1. port - first \in Pairs
  BY PortPair
<1>2. ASSUME NEW q \in Pairs, q \notin seen[port - first] PROVE q \in Busy
  <2>1. Walk(q) < Walk(port - first)
    BY <1>1, <1>2 DEF InTurn
  <2>2. Walk(q) \in Int /\ Walk(port - first) \in Int
    BY <1>1, WalkOrder DEF TypeOK
  <2>3. q \notin FreePairs
    BY <2>1, <2>2 DEF GetPort
  <2> QED BY <2>3 DEF Busy
<1>3. seen[port - first] \subseteq Pairs /\ Busy \subseteq Pairs
  BY <1>1 DEF TypeOK, Busy
<1> QED BY <1>1, <1>2, <1>3

LEMMA InTurnStep == TypeOK /\ InTurn /\ [Next]_vars => InTurn'
<1> SUFFICES ASSUME TypeOK, InTurn, [Next]_vars PROVE InTurn'
  OBVIOUS
<1>1. ASSUME NEW c \in Clients, Obtain(c) PROVE InTurn'
  <2>1. PICK port \in Ports :
          /\ GetPort(port)
          /\ seen' = [p \in Pairs |-> IF p = port - first
                                        THEN {p}
                                        ELSE seen[p] \cup Busy \cup {port - first}]
    BY <1>1 DEF Obtain
  <2> DEFINE g == port - first
  <2>2. g \in Pairs /\ next' = g + 2 /\ PMTypeOK
    BY <2>1, PortPair DEF GetPort, TypeOK
  <2>3. ASSUME NEW p \in Pairs, NEW q \in Pairs, q \notin seen'[p]
        PROVE  Walk(q)' < Walk(p)'
    <3>1. CASE p = g
      <4>1. q # g
        BY <2>1, <2>3, <3>1
      <4> QED BY <2>2, <3>1, <4>1, WalkAfterGrant
    <3>2. CASE p # g
      <4>1. q \notin seen[p] /\ q \in FreePairs /\ q # g
        BY <2>1, <2>3, <3>2 DEF Busy
      <4>2. Walk(q) < Walk(p)
        BY <4>1 DEF InTurn
      <4>3. Walk(g) <= Walk(q)
        BY <2>1, <4>1 DEF GetPort
      <4>4. /\ Walk(g) # Walk(q)
            /\ Walk(g) \in Int /\ Walk(q) \in Int
        BY <2>2, <4>1, WalkOrder
      <4>5. Walk(g) < Walk(q)
        BY <4>3, <4>4
      <4> QED BY <2>2, <4>2, <4>5, WalkAfterGrant
    <3> QED BY <3>1, <3>2
  <2> QED BY <2>3 DEF InTurn
<1>2. ASSUME NEW c \in Clients, Release(c) \/ Abandon(c) PROVE InTurn'
  BY <1>2 DEF Release, Abandon, pmvars, FreePort, InTurn, Walk
<1>3. CASE UNCHANGED vars
  BY <1>3 DEF vars, InTurn, Walk
<1> QED BY <1>1, <1>2, <1>3 DEF Next, ObtainThrows

\* README.config:119, "re-use former port numbers as late as possible": getPort
\* grants a pair again only after every other pair was granted or found in use.
THEOREM RangeUsedInTurn == Spec => CyclesThroughRange
<1>1. Init => InTurn
  BY DEF Init, InTurn
<1>2. TypeOK /\ InTurn /\ [Next]_vars
        => [\A p \in Pairs : (portbusy'[p] /\ ~portbusy[p])
                                => seen[p] \cup Busy \cup {p} = Pairs]_vars
  <2> SUFFICES ASSUME TypeOK, InTurn, Next,
                      NEW p \in Pairs, portbusy'[p], ~portbusy[p]
               PROVE  seen[p] \cup Busy \cup {p} = Pairs
    OBVIOUS
  <2>1. ASSUME NEW c \in Clients, Obtain(c) PROVE seen[p] \cup Busy \cup {p} = Pairs
    <3>1. PICK port \in Ports : GetPort(port)
      BY <2>1 DEF Obtain
    <3>2. p = port - first
      <4>1. p \in Index /\ p # port - first + 1
        BY PortPair, PairInRange
      <4> QED BY <3>1, <4>1, PortPair, GrantFlags DEF TypeOK
    <3> QED BY <3>1, <3>2, GrantInTurn
  <2>2. ASSUME NEW c \in Clients, Release(c) PROVE FALSE
    <3>1. localmedia[c] \in Ports /\ FreePort(localmedia[c])
      BY <2>2 DEF Release, TypeOK
    <3>2. p \in Index
      BY PairInRange
    <3> QED BY <3>1, <3>2, PortPair, ReleaseFlags DEF TypeOK
  <2>3. ASSUME NEW c \in Clients, Abandon(c) PROVE FALSE
    BY <2>3 DEF Abandon, pmvars
  <2> QED BY <2>1, <2>2, <2>3 DEF Next, ObtainThrows, vars
<1> QED BY <1>1, <1>2, TypeCorrect, InTurnStep, PTL DEF Spec, CyclesThroughRange
=============================================================================
