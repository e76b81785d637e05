--------------------------- MODULE RatSetup_proofs ---------------------------
(***************************************************************************)
(* For any number of clicks, rediscoveries and losses: the engine gets one *)
(* RTP session with the addresses of the call before it processes audio,   *)
(* and a microphone as the user last wished it.                            *)
(***************************************************************************)
EXTENDS RatSetup, SequenceTheorems, TLAPS

USE SetupParameters

Ats == {"go", "poll", "configure", "release", "codec", "mute", "send", "done", "quitting",
        "ended"}
Msg == [kind : Kinds, value : BOOLEAN]

-----------------------------------------------------------------------------
(* What is said of the messages q on their way. *)

Control(m) == m.kind \in {"rtp.addr", "mbus.go"}

NoControl(q) == \A i \in 1 .. Len(q) : ~Control(q[i])
HasAddr(q)   == \E i \in 1 .. Len(q) : q[i].kind = "rtp.addr"
HasGo(q)     == \E i \in 1 .. Len(q) : q[i].kind = "mbus.go"

\* The address is sent once, after it is known, and before the go.
AddrThenGo(q) ==
  \A i, j \in 1 .. Len(q) :
    /\ q[i].kind = "rtp.addr" => q[i].value = TRUE
    /\ q[i].kind = "rtp.addr" /\ q[j].kind = "rtp.addr" => i = j
    /\ q[i].kind = "mbus.go" /\ q[j].kind = "rtp.addr" => j < i

\* The control messages of r are messages of q, in the same order.
Within(r, q) ==
  \E f \in [1 .. Len(r) -> Nat] :
    /\ \A i \in 1 .. Len(r) : Control(r[i]) => f[i] \in 1 .. Len(q) /\ r[i] = q[f[i]]
    /\ \A i, j \in 1 .. Len(r) : i < j => f[i] < f[j]

-----------------------------------------------------------------------------
(* The invariant. *)

\* The timers: one runs while the controller waits for the engine's first go.
Timed == /\ renewals \in 0 .. MaxRenewals /\ losses \in Nat
         /\ ControllerState = 0 => timers = 0
         /\ timers <= renewals + 1
         /\ ControllerState = 1 => timers >= 1

\* start() sets the addresses before it releases the controller.
InTurn == /\ thread.at \notin {"go", "poll", "configure"} => configured
          /\ released => configured
          /\ thread.at = "go" => engine = "off"

\* The controller has not sent the addresses yet.
Unaddressed == \/ thread.at = "go" \/ engine \in {"waiting", "answering", "heard"}
               \/ engine = "asking" /\ ControllerState = 2

\* SessionOnce says nothing of what is on its way to the engine.
Addressed == /\ rtp \in {<<>>, <<TRUE>>}
             /\ AddrThenGo(toEngine)
             /\ HasAddr(toEngine) => rtp = <<>>
             /\ HasGo(toEngine) => rtp = <<TRUE>> \/ HasAddr(toEngine) \/ losses > 0
             /\ Unaddressed => NoControl(toEngine) /\ rtp = <<>>
             /\ engine = "main" => ~HasAddr(toEngine)
             /\ SessionOnce

IInv == TypeOK /\ Timed /\ InTurn /\ Addressed

(* The invariant of the mute, on top of IInv. *)

Mute(m) == m.kind = "mute"

\* After the messages q, an engine that sends as "open" says is muted as v says.
Ends(q, open, v) ==
  \/ (\A i \in 1 .. Len(q) : ~Mute(q[i])) /\ open = ~v
  \/ \E i \in 1 .. Len(q) : /\ Mute(q[i]) /\ q[i].value = v
                           /\ \A j \in 1 .. Len(q) : j > i => ~Mute(q[j])

\* The user interface is heard when the engine is in its main loop, and the commands
\* of start() are given after that.
Reached == /\ UiState = 1 => engine \in {"main", "off"} /\ thread.at # "go"
           /\ running => UiState = 1
           /\ thread.at \in {"mute", "send", "done"} => running

\* The engine gets to its main loop by the controller's answer.
Answered == renewals = 0 =>
              (engine = "main" \/ HasGo(toEngine) \/ UiState = 1 => ControllerState = 3)

\* The mute that was commanded last: the wish, or its opposite when the start's command
\* came after the click's.
Commanded == IF crossed THEN ~mi ELSE mi

\* What the window is about to send is the wish; what is on its way to a started engine
\* ends with the mute that was commanded last.
Wished == /\ button.at = "send" => button.mute = mi
          /\ thread.at = "done" /\ button.at = "idle" /\ renewals = 0 /\ losses = 0
               => Ends(toEngine, sending, Commanded)

MInv == Reached /\ Answered /\ Wished

-----------------------------------------------------------------------------
(* Lemmas about sequences of messages. *)

LEMMA WithinKeeps ==
  ASSUME NEW q \in Seq(Msg), NEW r \in Seq(Msg), Within(r, q)
  PROVE  /\ NoControl(q) => NoControl(r)
         /\ AddrThenGo(q) => AddrThenGo(r)
         /\ HasAddr(r) => HasAddr(q)
         /\ HasGo(r) => HasGo(q)
<1>1. PICK f \in [1 .. Len(r) -> Nat] :
        /\ \A i \in 1 .. Len(r) : Control(r[i]) => f[i] \in 1 .. Len(q) /\ r[i] = q[f[i]]
        /\ \A i, j \in 1 .. Len(r) : i < j => f[i] < f[j]
  BY DEF Within
<1>2. NoControl(q) => NoControl(r)
  BY <1>1 DEF NoControl
<1>3. HasAddr(r) => HasAddr(q)
  BY <1>1 DEF HasAddr, Control
<1>4. HasGo(r) => HasGo(q)
  BY <1>1 DEF HasGo, Control
<1>5. ASSUME AddrThenGo(q) PROVE AddrThenGo(r)
  <2> SUFFICES ASSUME NEW i \in 1 .. Len(r), NEW j \in 1 .. Len(r)
               PROVE  /\ r[i].kind = "rtp.addr" => r[i].value = TRUE
                      /\ r[i].kind = "rtp.addr" /\ r[j].kind = "rtp.addr" => i = j
                      /\ r[i].kind = "mbus.go" /\ r[j].kind = "rtp.addr" => j < i
    BY DEF AddrThenGo
  <2>1. r[i].kind = "rtp.addr" => r[i].value = TRUE
    BY <1>1, <1>5 DEF AddrThenGo, Control
  <2>2. ASSUME r[i].kind = "rtp.addr", r[j].kind = "rtp.addr" PROVE i = j
    <3>1. f[i] = f[j]
      BY <1>1, <1>5, <2>2 DEF AddrThenGo, Control
    <3>2. i < j \/ j < i \/ i = j
      OBVIOUS
    <3> QED BY <1>1, <3>1, <3>2
  <2>3. ASSUME r[i].kind = "mbus.go", r[j].kind = "rtp.addr" PROVE j < i
    <3>0. /\ f[i] \in 1 .. Len(q) /\ q[f[i]].kind = "mbus.go"
          /\ f[j] \in 1 .. Len(q) /\ q[f[j]].kind = "rtp.addr"
      BY <1>1, <2>3 DEF Control
    <3>1. f[j] < f[i]
      BY <1>5, <3>0 DEF AddrThenGo
    <3>2. i # j
      BY <2>3
    <3>3. i < j \/ j < i
      BY <3>2
    <3> QED BY <1>1, <3>1, <3>3
  <2> QED BY <2>1, <2>2, <2>3
<1> QED BY <1>2, <1>3, <1>4, <1>5

LEMMA WithinSelf == ASSUME NEW q \in Seq(Msg) PROVE Within(q, q)
<1> DEFINE f == [i \in 1 .. Len(q) |-> i]
<1>1. f \in [1 .. Len(q) -> Nat]
  OBVIOUS
<1>2. /\ \A i \in 1 .. Len(q) : Control(q[i]) => f[i] \in 1 .. Len(q) /\ q[i] = q[f[i]]
      /\ \A i, j \in 1 .. Len(q) : i < j => f[i] < f[j]
  OBVIOUS
<1> HIDE DEF f
<1> QED BY <1>1, <1>2 DEF Within

LEMMA WithinEmpty == ASSUME NEW q \in Seq(Msg) PROVE Within(<<>>, q)
<1> DEFINE f == [i \in 1 .. 0 |-> 0]
<1>1. f \in [1 .. Len(<<>>) -> Nat]
  OBVIOUS
<1>2. \A i \in 1 .. Len(<<>>) : FALSE
  OBVIOUS
<1> HIDE DEF f
<1> QED BY <1>1, <1>2 DEF Within

LEMMA WithinTail ==
  ASSUME NEW q \in Seq(Msg), q # <<>>
  PROVE  Tail(q) \in Seq(Msg) /\ Within(Tail(q), q)
<1> DEFINE r == Tail(q)
           f == [i \in 1 .. Len(r) |-> i + 1]
<1>1. r \in Seq(Msg) /\ Len(r) = Len(q) - 1 /\ \A i \in 1 .. Len(r) : r[i] = q[i + 1]
  BY HeadTailProperties
<1> HIDE DEF r
<1>2. f \in [1 .. Len(r) -> Nat]
  BY <1>1
<1>3. /\ \A i \in 1 .. Len(r) : Control(r[i]) => f[i] \in 1 .. Len(q) /\ r[i] = q[f[i]]
      /\ \A i, j \in 1 .. Len(r) : i < j => f[i] < f[j]
  BY <1>1
<1> HIDE DEF f
<1>4. Within(r, q)
  BY <1>2, <1>3 DEF Within
<1> QED BY <1>1, <1>4 DEF r

\* A message is lost.
LEMMA WithinLoss ==
  ASSUME NEW q \in Seq(Msg), NEW k \in 1 .. Len(q)
  PROVE  LET r == SubSeq(q, 1, k - 1) \o SubSeq(q, k + 1, Len(q))
         IN  r \in Seq(Msg) /\ Within(r, q)
<1> DEFINE a == SubSeq(q, 1, k - 1)
           b == SubSeq(q, k + 1, Len(q))
           r == a \o b
           f == [i \in 1 .. Len(r) |-> IF i < k THEN i ELSE i + 1]
<1>1. /\ 1 \in Int /\ k - 1 \in Int /\ k + 1 \in Int /\ Len(q) \in Int
      /\ \A i \in 1 .. k - 1 : q[i] \in Msg
      /\ \A i \in k + 1 .. Len(q) : q[i] \in Msg
  OBVIOUS
<1>2. /\ a \in Seq(Msg) /\ Len(a) = (IF 1 <= k - 1 THEN k - 1 - 1 + 1 ELSE 0)
      /\ \A i \in 1 .. k - 1 - 1 + 1 : a[i] = q[1 + i - 1]
  BY <1>1, SubSeqProperties
<1>3. /\ b \in Seq(Msg)
      /\ Len(b) = (IF k + 1 <= Len(q) THEN Len(q) - (k + 1) + 1 ELSE 0)
      /\ \A i \in 1 .. Len(q) - (k + 1) + 1 : b[i] = q[k + 1 + i - 1]
  BY <1>1, SubSeqProperties
<1> HIDE DEF a, b
<1>4. /\ r \in Seq(Msg) /\ Len(r) = Len(a) + Len(b)
      /\ \A i \in 1 .. Len(a) + Len(b) : r[i] = IF i <= Len(a) THEN a[i] ELSE b[i - Len(a)]
  BY <1>2, <1>3, ConcatProperties
<1> HIDE DEF r
<1> DEFINE la == Len(a)
           lb == Len(b)
           n == Len(q)
<1>5. la = k - 1 /\ lb = n - k /\ Len(r) = n - 1
  <2>1. /\ la = (IF 1 <= k - 1 THEN k - 1 - 1 + 1 ELSE 0)
        /\ lb = (IF k + 1 <= n THEN n - (k + 1) + 1 ELSE 0)
        /\ n \in Nat /\ k \in 1 .. n /\ Len(r) = la + lb
    BY <1>2, <1>3, <1>4
  <2> HIDE DEF la, lb, n
  <2>2. la = k - 1 /\ lb = n - k
    BY <2>1
  <2> QED BY <2>1, <2>2
<1>6. \A i \in 1 .. Len(r) : r[i] = q[IF i < k THEN i ELSE i + 1]
  <2> SUFFICES ASSUME NEW i \in 1 .. Len(r) PROVE r[i] = q[IF i < k THEN i ELSE i + 1]
    OBVIOUS
  <2>1. CASE i < k
    <3>1. i \in 1 .. k - 1 - 1 + 1 /\ 1 + i - 1 = i /\ i <= Len(a)
      BY <1>5, <2>1
    <3> QED BY <1>2, <1>4, <1>5, <2>1, <3>1
  <2>2. CASE ~(i < k)
    <3>1. /\ i - Len(a) \in 1 .. Len(q) - (k + 1) + 1 /\ ~(i <= Len(a))
          /\ k + 1 + (i - Len(a)) - 1 = i + 1
      BY <1>5, <2>2
    <3>2. b[i - Len(a)] = q[i + 1]
      BY <1>3, <3>1
    <3> QED BY <1>4, <1>5, <2>2, <3>1, <3>2
  <2> QED BY <2>1, <2>2
<1>7. f \in [1 .. Len(r) -> Nat]
  BY <1>5
<1>8. /\ \A i \in 1 .. Len(r) : Control(r[i]) => f[i] \in 1 .. Len(q) /\ r[i] = q[f[i]]
      /\ \A i, j \in 1 .. Len(r) : i < j => f[i] < f[j]
  BY <1>5, <1>6
<1> HIDE DEF f
<1>9. Within(r, q)
  BY <1>7, <1>8 DEF Within
<1> QED BY <1>4, <1>9 DEF r, a, b

\* A message is sent that is no control message.
LEMMA WithinSend ==
  ASSUME NEW q \in Seq(Msg), NEW m \in Msg, ~Control(m)
  PROVE  /\ q \o <<m>> \in Seq(Msg) /\ Within(q \o <<m>>, q)
         /\ HasAddr(q) => HasAddr(q \o <<m>>)
<1> DEFINE r == q \o <<m>>
           f == [i \in 1 .. Len(r) |-> i]
<1>1. <<m>> \in Seq(Msg) /\ Len(<<m>>) = 1 /\ <<m>>[1] = m
  OBVIOUS
<1>2. /\ r \in Seq(Msg) /\ Len(r) = Len(q) + 1
      /\ \A i \in 1 .. Len(q) + 1 : r[i] = IF i <= Len(q) THEN q[i] ELSE <<m>>[i - Len(q)]
  BY <1>1, ConcatProperties
<1>3. \A i \in 1 .. Len(r) : r[i] = IF i <= Len(q) THEN q[i] ELSE m
  <2> SUFFICES ASSUME NEW i \in 1 .. Len(r) PROVE r[i] = IF i <= Len(q) THEN q[i] ELSE m
    OBVIOUS
  <2>1. ~(i <= Len(q)) => i - Len(q) = 1
    BY <1>2
  <2> QED BY <1>1, <1>2, <2>1
<1> HIDE DEF r
<1>4. f \in [1 .. Len(r) -> Nat]
  BY <1>2
<1>5. /\ \A i \in 1 .. Len(r) : Control(r[i]) => f[i] \in 1 .. Len(q) /\ r[i] = q[f[i]]
      /\ \A i, j \in 1 .. Len(r) : i < j => f[i] < f[j]
  BY <1>2, <1>3
<1> HIDE DEF f
<1>6. Within(r, q)
  BY <1>4, <1>5 DEF Within
<1>7. HasAddr(q) => HasAddr(r)
  BY <1>2, <1>3 DEF HasAddr
<1> QED BY <1>2, <1>6, <1>7 DEF r

-----------------------------------------------------------------------------
(* Lemmas about one step. *)

LEMMA Typed ==
  ASSUME TypeOK
  PROVE  /\ thread \in [at : Ats, mute : BOOLEAN] /\ thread.at \in Ats /\ thread.mute \in BOOLEAN
         /\ toEngine \in Seq(Msg)
         /\ \A to \in Ats : [thread EXCEPT !.at = to] \in [at : Ats, mute : BOOLEAN]
         /\ \A to \in Ats : [thread EXCEPT !.at = to].at = to
<1>1. thread \in [at : Ats, mute : BOOLEAN]
  BY DEF TypeOK, Ats
<1>2. thread.at \in Ats /\ thread.mute \in BOOLEAN
  BY <1>1
<1>3. ASSUME NEW to \in Ats
      PROVE  /\ [thread EXCEPT !.at = to] \in [at : Ats, mute : BOOLEAN]
             /\ [thread EXCEPT !.at = to].at = to
  <2>1. [thread EXCEPT !.at = to] = [at |-> to, mute |-> thread.mute]
    BY <1>1
  <2> QED BY <1>2, <2>1
<1>4. toEngine \in Seq(Msg)
  BY DEF TypeOK, Msg
<1> QED BY <1>1, <1>2, <1>3, <1>4

\* Messages of RATControl, for a value of one type.
LEMMA Messages ==
  ASSUME NEW kind \in Kinds, NEW value \in BOOLEAN
  PROVE  /\ Message(kind, value) \in Msg
         /\ Message(kind, value).kind = kind /\ Message(kind, value).value = value
BY DEF Message, Msg

\* A step that sends no control message and does not bring the engine further.
LEMMA AddressedKept ==
  ASSUME TypeOK, Addressed, toEngine' \in Seq(Msg), Within(toEngine', toEngine),
         losses \in Nat, losses' \in Nat, losses' >= losses, rtp' = rtp,
         (HasAddr(toEngine) => HasAddr(toEngine')) \/ losses' > 0,
         Unaddressed' => Unaddressed,
         engine' = "main" => engine = "main",
         engine' = "aborted" => engine = "aborted"
  PROVE  Addressed'
<1>1. /\ NoControl(toEngine) => NoControl(toEngine')
      /\ AddrThenGo(toEngine) => AddrThenGo(toEngine')
      /\ HasAddr(toEngine') => HasAddr(toEngine)
      /\ HasGo(toEngine') => HasGo(toEngine)
  BY Typed, WithinKeeps
<1>2. HasGo(toEngine') => rtp' = <<TRUE>> \/ HasAddr(toEngine') \/ losses' > 0
  <2>1. losses > 0 => losses' > 0
    OBVIOUS
  <2> QED BY <1>1, <2>1 DEF Addressed
<1>3. SessionOnce'
  <2>1. losses > 0 => losses' > 0
    OBVIOUS
  <2> QED BY <2>1 DEF Addressed, SessionOnce
<1>4. Unaddressed' => NoControl(toEngine') /\ rtp' = <<>>
  BY <1>1 DEF Addressed
<1> QED BY <1>1, <1>2, <1>3, <1>4 DEF Addressed

\* The same for a step that leaves the messages alone.
LEMMA AddressedQuiet ==
  ASSUME TypeOK, Addressed, UNCHANGED <<toEngine, rtp, losses>>, losses \in Nat,
         Unaddressed' => Unaddressed,
         engine' = "main" => engine = "main",
         engine' = "aborted" => engine = "aborted"
  PROVE  Addressed'
<1>1. toEngine \in Seq(Msg) /\ Within(toEngine, toEngine)
  BY Typed, WithinSelf
<1> QED BY <1>1, AddressedKept

\* The same for a step that sends at most one command.
LEMMA AddressedSend ==
  ASSUME TypeOK, Addressed, UNCHANGED <<rtp, engine, losses>>, losses \in Nat,
         NEW m \in Msg, ~Control(m), NEW b \in BOOLEAN,
         SendOnce(IF b THEN <<m>> ELSE <<>>),
         Unaddressed' => Unaddressed
  PROVE  Addressed' /\ toEngine' \in Seq(Msg)
<1>1. toEngine \in Seq(Msg) /\ Within(toEngine, toEngine)
  BY Typed, WithinSelf
<1>2. CASE b
  <2>1. toEngine' = toEngine \o <<m>>
    BY <1>2 DEF SendOnce
  <2>2. /\ toEngine' \in Seq(Msg) /\ Within(toEngine', toEngine)
        /\ HasAddr(toEngine) => HasAddr(toEngine')
    BY <1>1, <2>1, WithinSend
  <2> QED BY <2>2, AddressedKept
<1>3. CASE ~b
  <2>1. toEngine' = toEngine
    BY <1>1, <1>3 DEF SendOnce
  <2> QED BY <1>1, <2>1, AddressedQuiet
<1> QED BY <1>2, <1>3

-----------------------------------------------------------------------------
(* The actions. *)

\* What Step does to the thread.
LEMMA Stepping ==
  ASSUME TypeOK, NEW from \in Ats, NEW to \in Ats, Step(from, to)
  PROVE  /\ thread.at = from /\ thread'.at = to
         /\ thread' \in [at : Ats, mute : BOOLEAN]
BY Typed DEF Step

LEMMA StartKeeps == ASSUME IInv, Start PROVE IInv'
<1> USE DEF IInv
<1>0. losses \in Nat /\ UNCHANGED <<losses, renewals>>
  BY DEF Start, Timed, Launch, GoReturns, Configure, Release, SetCodec, ReadMute, SendMute,
         faults
<1> DEFINE Typed1 == thread' \in [at : Ats, mute : BOOLEAN]
<1>1. CASE Launch
  <2>1. /\ thread.at = "go" /\ thread'.at = "poll" /\ Typed1
    BY <1>1, Stepping DEF Launch, Ats
  <2>2. /\ engine' = "waiting"
        /\ UNCHANGED <<ControllerState, timers, configured, released, started, UiState, running,
                       ready, rtp, ui_on, title, sending, mi, button, toggles, crossed,
                       toEngine, renewals, losses>>
    BY <1>1 DEF Launch, control, ui, window, faults
  <2>3. Addressed'
    BY <1>0, <2>1, <2>2, AddressedQuiet DEF Unaddressed
  <2>4. TypeOK'
    BY <2>1, <2>2 DEF TypeOK, Ats
  <2>5. Timed' /\ InTurn'
    BY <2>1, <2>2 DEF Timed, InTurn
  <2> QED BY <2>3, <2>4, <2>5
<1>2. CASE GoReturns
  <2>1. /\ thread.at = "poll" /\ thread'.at = "configure" /\ Typed1
    BY <1>2, Stepping DEF GoReturns, Ats
  <2>2. /\ started' = TRUE
        /\ UNCHANGED <<ControllerState, timers, configured, released, UiState, running, ready,
                       engine, rtp, ui_on, title, sending, mi, button, toggles, crossed,
                       toEngine, renewals, losses>>
    BY <1>2 DEF GoReturns, ui, rat, window, faults
  <2>3. Addressed'
    BY <1>0, <2>1, <2>2, AddressedQuiet DEF Unaddressed
  <2>4. TypeOK'
    BY <2>1, <2>2 DEF TypeOK, Ats
  <2>5. Timed' /\ InTurn'
    BY <2>1, <2>2 DEF Timed, InTurn
  <2> QED BY <2>3, <2>4, <2>5
<1>3. CASE Configure
  <2>1. /\ thread.at = "configure" /\ thread'.at = "release" /\ Typed1
    BY <1>3, Stepping DEF Configure, Ats
  <2>2. /\ configured' = TRUE
        /\ UNCHANGED <<ControllerState, timers, released, started, UiState, running, ready,
                       engine, rtp, ui_on, title, sending, mi, button, toggles, crossed,
                       toEngine, renewals, losses>>
    BY <1>3 DEF Configure, ui, rat, window, faults
  <2>3. Addressed'
    BY <1>0, <2>1, <2>2, AddressedQuiet DEF Unaddressed
  <2>4. TypeOK'
    BY <2>1, <2>2 DEF TypeOK, Ats
  <2>5. Timed' /\ InTurn'
    BY <2>1, <2>2 DEF Timed, InTurn
  <2> QED BY <2>3, <2>4, <2>5
<1>4. CASE Release
  <2>1. /\ thread.at = "release" /\ thread'.at = "codec" /\ Typed1
    BY <1>4, Stepping DEF Release, Ats
  <2>2. /\ released' = TRUE
        /\ UNCHANGED <<ControllerState, timers, configured, started, UiState, running, ready,
                       engine, rtp, ui_on, title, sending, mi, button, toggles, crossed,
                       toEngine, renewals, losses>>
    BY <1>4 DEF Release, ui, rat, window, faults
  <2>3. Addressed'
    BY <1>0, <2>1, <2>2, AddressedQuiet DEF Unaddressed
  <2>4. TypeOK'
    BY <2>1, <2>2 DEF TypeOK, Ats
  <2>5. Timed' /\ InTurn'
    BY <2>1, <2>2 DEF Timed, InTurn
  <2> QED BY <2>3, <2>4, <2>5
<1>5. CASE SetCodec
  <2>1. /\ thread.at = "codec" /\ thread'.at = "mute" /\ Typed1
    BY <1>5, Stepping DEF SetCodec, Ats
  <2>2. UNCHANGED <<ControllerState, timers, configured, released, started, UiState, running,
                    ready, engine, rtp, ui_on, title, sending, mi, button, toggles, crossed,
                    toEngine, renewals, losses>>
    BY <1>5 DEF SetCodec, control, ui, rat, window, faults
  <2>3. Addressed'
    BY <1>0, <2>1, <2>2, AddressedQuiet DEF Unaddressed
  <2>4. TypeOK'
    BY <2>1, <2>2 DEF TypeOK, Ats
  <2>5. Timed' /\ InTurn'
    BY <2>1, <2>2 DEF Timed, InTurn
  <2> QED BY <2>3, <2>4, <2>5
<1>6. CASE ReadMute
  <2>1. /\ thread.at = "mute" /\ thread' = [at |-> "send", mute |-> mi]
        /\ crossed' = crossed
    BY <1>6 DEF ReadMute, window
  <2>2. UNCHANGED <<ControllerState, timers, configured, released, started, UiState, running,
                    ready, engine, rtp, ui_on, title, sending, mi, button, toggles,
                    toEngine, renewals, losses>>
    BY <1>6 DEF ReadMute, control, ui, rat, window, faults
  <2>3. thread'.at = "send" /\ Typed1 /\ crossed' \in BOOLEAN
    BY <2>1 DEF TypeOK, Ats
  <2>4. Addressed'
    BY <1>0, <2>2, <2>3, AddressedQuiet DEF Unaddressed
  <2>5. TypeOK'
    BY <2>2, <2>3 DEF TypeOK, Ats
  <2>6. Timed' /\ InTurn'
    BY <2>1, <2>2, <2>3 DEF Timed, InTurn
  <2> QED BY <2>4, <2>5, <2>6
<1>7. CASE SendMute
  <2>1. /\ thread.at = "send" /\ thread'.at = "done" /\ Typed1
    BY <1>7, Stepping DEF SendMute, Ats
  <2>2. /\ MuteInput(thread.mute) /\ crossed' = (thread.mute # mi /\ button.at = "idle")
        /\ UNCHANGED <<ControllerState, timers, configured, released, started, UiState, running,
                       engine, rtp, ui_on, title, sending, mi, button, toggles,
                       renewals, losses>>
    BY <1>7 DEF SendMute, control, rat, faults
  <2>3. Message("mute", thread.mute) \in Msg /\ ~Control(Message("mute", thread.mute))
    BY Typed, Messages DEF Kinds, Control
  <2>4. IsReady \in BOOLEAN /\ ready' \in BOOLEAN /\ crossed' \in BOOLEAN
    BY <2>2 DEF TypeOK, IsReady, MuteInput
  <2>5. SendOnce(IF IsReady THEN <<Message("mute", thread.mute)>> ELSE <<>>)
    BY <2>2 DEF MuteInput
  <2>6. Addressed' /\ toEngine' \in Seq(Msg)
    BY <1>0, <2>1, <2>2, <2>3, <2>4, <2>5, AddressedSend DEF Unaddressed
  <2>7. TypeOK'
    BY <2>1, <2>2, <2>4, <2>6 DEF TypeOK, Ats, Msg
  <2>8. Timed' /\ InTurn'
    BY <2>1, <2>2 DEF Timed, InTurn
  <2> QED BY <2>6, <2>7, <2>8
<1> QED BY <1>1, <1>2, <1>3, <1>4, <1>5, <1>6, <1>7 DEF Start

LEMMA StopKeeps == ASSUME IInv, Stop PROVE IInv'
<1> USE DEF IInv
<1>0. losses \in Nat
  BY DEF Timed
<1>1. CASE Terminate
  <2>1. /\ thread.at = "done" /\ thread'.at = "quitting"
        /\ thread' \in [at : Ats, mute : BOOLEAN]
    BY <1>1, Stepping DEF Terminate, Ats
  <2>2. /\ started' = FALSE /\ SendOnce(<<Message("quit", FALSE)>>)
        /\ UNCHANGED <<ControllerState, timers, configured, released, UiState, running,
                       ready, engine, rtp, ui_on, title, sending, mi, button, toggles,
                       crossed, renewals, losses>>
    BY <1>1 DEF Terminate, ui, rat, window, faults
  <2>3. Message("quit", FALSE) \in Msg /\ ~Control(Message("quit", FALSE))
    BY Messages DEF Kinds, Control
  <2>4. Addressed' /\ toEngine' \in Seq(Msg)
    BY <1>0, <2>1, <2>2, <2>3, AddressedSend DEF Unaddressed
  <2>5. started' \in BOOLEAN
    BY <2>2
  <2>6. TypeOK'
    BY <2>1, <2>2, <2>4, <2>5 DEF TypeOK, Ats, Msg
  <2>7. Timed' /\ InTurn'
    BY <2>1, <2>2 DEF Timed, InTurn
  <2> QED BY <2>4, <2>6, <2>7
<1>2. CASE Destroy
  <2>1. /\ thread.at = "quitting" /\ thread'.at = "ended"
        /\ thread' \in [at : Ats, mute : BOOLEAN]
    BY <1>2, Stepping DEF Destroy, Ats
  <2>2. /\ engine' = "off" /\ toEngine' = <<>>
        /\ UNCHANGED <<ControllerState, timers, configured, released, started, UiState,
                       running, ready, rtp, ui_on, title, sending, mi, button, toggles,
                       crossed, renewals, losses>>
    BY <1>2 DEF Destroy, control, ui, window, faults
  <2>3. toEngine' \in Seq(Msg) /\ ~HasAddr(toEngine') /\ ~HasGo(toEngine') /\ AddrThenGo(toEngine')
    BY <2>2 DEF HasAddr, HasGo, AddrThenGo
  <2>4. Addressed'
    BY <2>1, <2>2, <2>3 DEF Addressed, Unaddressed, SessionOnce
  <2>5. TypeOK'
    BY <2>1, <2>2, <2>3 DEF TypeOK, Ats, Msg
  <2>6. Timed' /\ InTurn'
    BY <2>1, <2>2 DEF Timed, InTurn
  <2> QED BY <2>4, <2>5, <2>6
<1> QED BY <1>1, <1>2 DEF Stop

LEMMA WindowKeeps == ASSUME IInv, Window PROVE IInv'
<1> USE DEF IInv
<1>0. losses \in Nat
  BY DEF Timed
<1>1. CASE Click
  <2>1. /\ mi' = ~mi /\ button' = [at |-> "send", mute |-> ~mi]
        /\ crossed' = crossed
        /\ UNCHANGED <<ControllerState, timers, configured, released, started, UiState,
                       running, ready, engine, rtp, ui_on, title, sending, thread, toEngine,
                       renewals, losses>>
    BY <1>1 DEF Click, control, ui, rat, faults
  <2>2. mi' \in BOOLEAN /\ button' \in [at : {"idle", "send"}, mute : BOOLEAN] /\ crossed' \in BOOLEAN
    BY <2>1 DEF TypeOK
  <2>3. Addressed'
    BY <1>0, <2>1, AddressedQuiet DEF Unaddressed
  <2>4. TypeOK'
    BY <2>1, <2>2 DEF TypeOK
  <2>5. Timed' /\ InTurn'
    BY <2>1 DEF Timed, InTurn
  <2> QED BY <2>3, <2>4, <2>5
<1>2. CASE ButtonSend
  <2>1. /\ button' = [button EXCEPT !.at = "idle"] /\ crossed' = FALSE
        /\ UNCHANGED <<ControllerState, timers, configured, released, started, UiState,
                       running, engine, rtp, ui_on, title, sending, mi, toggles, thread,
                       renewals, losses>>
    BY <1>2 DEF ButtonSend, control, rat, faults
  <2>2. button \in [at : {"idle", "send"}, mute : BOOLEAN]
    BY DEF TypeOK
  <2>3. button.mute \in BOOLEAN /\ button' = [at |-> "idle", mute |-> button.mute]
    BY <2>1, <2>2
  <2>4. button' \in [at : {"idle", "send"}, mute : BOOLEAN] /\ crossed' \in BOOLEAN
    BY <2>1, <2>3 DEF TypeOK
  <2>5. Message("mute", button.mute) \in Msg /\ ~Control(Message("mute", button.mute))
    BY <2>3, Messages DEF Kinds, Control
  <2> DEFINE sent == thread.at # "ended" /\ IsReady
  <2>6. /\ SendOnce(IF sent THEN <<Message("mute", button.mute)>> ELSE <<>>)
        /\ ready' \in BOOLEAN /\ sent \in BOOLEAN
    <3>1. CASE thread.at = "ended"
      <4>1. ready' = ready /\ toEngine' = toEngine
        BY <1>2, <3>1 DEF ButtonSend
      <4>2. toEngine \o <<>> = toEngine
        BY Typed
      <4> QED BY <3>1, <4>1, <4>2 DEF SendOnce, TypeOK
    <3>2. CASE thread.at # "ended"
      BY <1>2, <3>2 DEF ButtonSend, MuteInput, IsReady, TypeOK
    <3> QED BY <3>1, <3>2
  <2> HIDE DEF sent
  <2>7. Addressed' /\ toEngine' \in Seq(Msg)
    BY <1>0, <2>1, <2>5, <2>6, AddressedSend DEF Unaddressed
  <2>8. TypeOK'
    BY <2>1, <2>4, <2>6, <2>7 DEF TypeOK, Msg
  <2>9. Timed' /\ InTurn'
    BY <2>1 DEF Timed, InTurn
  <2> QED BY <2>7, <2>8, <2>9
<1> QED BY <1>1, <1>2 DEF Window

\* The listeners' actions that send nothing.
LEMMA ListenKeeps ==
  ASSUME IInv, \/ NewEntity \/ EngineHearsWaiting \/ ControllerHearsGo \/ GoAcknowledged
               \/ UiHearsTitle \/ Renewed
  PROVE  IInv'
<1> USE DEF IInv
<1>0. losses \in Nat
  BY DEF Timed
<1>1. CASE NewEntity
  <2>1. /\ EngineRuns /\ ControllerState = 0 /\ ControllerState' = 1 /\ timers' = timers + 1
        /\ UNCHANGED <<configured, released, started, UiState, running, ready, engine, rtp,
                       ui_on, title, sending, mi, button, toggles, crossed, thread,
                       toEngine, renewals, losses>>
    BY <1>1 DEF NewEntity, control, ui, rat, window, faults, EngineRuns
  <2>2. Addressed'
    BY <1>0, <2>1, AddressedQuiet DEF Unaddressed, InTurn, EngineRuns
  <2>3. TypeOK'
    BY <2>1 DEF TypeOK, Timed
  <2>4. Timed' /\ InTurn'
    BY <2>1 DEF Timed, InTurn, TypeOK, EngineRuns
  <2> QED BY <2>2, <2>3, <2>4
<1>2. CASE EngineHearsWaiting
  <2>1. /\ engine = "waiting" /\ engine' = "answering"
        /\ UNCHANGED <<ControllerState, timers, configured, released, started, UiState,
                       running, ready, rtp, ui_on, title, sending, mi, button, toggles,
                       crossed, thread, toEngine, renewals, losses>>
    BY <1>2 DEF EngineHearsWaiting, control, ui, rat, window, faults, EngineRuns
  <2>2. Addressed'
    BY <1>0, <2>1, AddressedQuiet DEF Unaddressed, InTurn, EngineRuns
  <2>3. TypeOK'
    BY <2>1 DEF TypeOK, Timed
  <2>4. Timed' /\ InTurn'
    BY <2>1 DEF Timed, InTurn, TypeOK, EngineRuns
  <2> QED BY <2>2, <2>3, <2>4
<1>3. CASE ControllerHearsGo
  <2>1. /\ engine \in {"answering", "heard"} /\ engine' = "heard"
        /\ \/ ControllerState = 1 /\ ControllerState' = 2 /\ timers' = timers - 1
           \/ UNCHANGED <<ControllerState, timers>>
        /\ UNCHANGED <<configured, released, started, UiState, running, ready, rtp, ui_on,
                       title, sending, mi, button, toggles, crossed, thread, toEngine,
                       renewals, losses>>
    BY <1>3 DEF ControllerHearsGo, control, ui, rat, window, faults, EngineRuns
  <2>2. Addressed'
    BY <1>0, <2>1, AddressedQuiet DEF Unaddressed, InTurn, EngineRuns
  <2>3. TypeOK'
    BY <2>1 DEF TypeOK, Timed
  <2>4. Timed' /\ InTurn'
    BY <2>1 DEF Timed, InTurn, TypeOK, EngineRuns
  <2> QED BY <2>2, <2>3, <2>4
<1>4. CASE GoAcknowledged
  <2>1. /\ engine = "heard" /\ engine' = "asking"
        /\ UNCHANGED <<ControllerState, timers, configured, released, started, UiState,
                       running, ready, rtp, ui_on, title, sending, mi, button, toggles,
                       crossed, thread, toEngine, renewals, losses>>
    BY <1>4 DEF GoAcknowledged, control, ui, rat, window, faults, EngineRuns
  <2>2. Addressed'
    BY <1>0, <2>1, AddressedQuiet DEF Unaddressed, InTurn, EngineRuns
  <2>3. TypeOK'
    BY <2>1 DEF TypeOK, Timed
  <2>4. Timed' /\ InTurn'
    BY <2>1 DEF Timed, InTurn, TypeOK, EngineRuns
  <2> QED BY <2>2, <2>3, <2>4
<1>5. CASE UiHearsTitle
  <2>1. /\ title' = FALSE /\ running' = (UiState = 1)
        /\ UNCHANGED <<ControllerState, timers, configured, released, started, UiState,
                       ready, engine, rtp, ui_on, sending, mi, button, toggles, crossed,
                       thread, toEngine, renewals, losses>>
    BY <1>5 DEF UiHearsTitle, control, ui, rat, window, faults, EngineRuns
  <2>2. Addressed'
    BY <1>0, <2>1, AddressedQuiet DEF Unaddressed, InTurn, EngineRuns
  <2>3. running' \in BOOLEAN /\ title' \in BOOLEAN
    BY <2>1
  <2>4. TypeOK'
    BY <2>1, <2>3 DEF TypeOK, Timed
  <2>5. Timed' /\ InTurn'
    BY <2>1 DEF Timed, InTurn, TypeOK, EngineRuns
  <2> QED BY <2>2, <2>4, <2>5
<1>6. CASE Renewed
  <2>1. /\ EngineRuns /\ ControllerState > 0 /\ renewals < MaxRenewals
        /\ ControllerState' = 1 /\ timers' = timers + 1 /\ renewals' = renewals + 1
        /\ UNCHANGED <<configured, released, started, UiState, running, ready, engine, rtp,
                       ui_on, title, sending, mi, button, toggles, crossed, thread,
                       toEngine, losses>>
    BY <1>6 DEF Renewed, control, ui, rat, window, faults, EngineRuns
  <2>2. Addressed'
    BY <1>0, <2>1, AddressedQuiet DEF Unaddressed, InTurn, EngineRuns
  <2>3. TypeOK'
    BY <2>1 DEF TypeOK, Timed
  <2>4. Timed' /\ InTurn'
    BY <2>1 DEF Timed, InTurn, TypeOK, EngineRuns
  <2> QED BY <2>2, <2>3, <2>4
<1> QED BY <1>1, <1>2, <1>3, <1>4, <1>5, <1>6

LEMMA AnswerKeeps == ASSUME IInv, ControllerHearsWaiting \/ UiHearsWaiting PROVE IInv'
<1> USE DEF IInv
<1>0. losses \in Nat
  BY DEF Timed
<1>1. CASE ControllerHearsWaiting
  <2> DEFINE addr == Message("rtp.addr", configured)
             go == Message("mbus.go", TRUE)
             q == toEngine
             r == toEngine'
  <2>1. /\ engine = "asking" /\ ControllerState = 2 /\ released /\ ControllerState' = 3
        /\ r = q \o <<addr, go>>
        /\ UNCHANGED <<timers, configured, released, started, UiState, running, ready,
                       engine, rtp, ui_on, title, sending, mi, button, toggles, crossed,
                       thread, renewals, losses>>
    BY <1>1 DEF ControllerHearsWaiting, SendOnce, ui, rat, window, faults
  <2>2. configured = TRUE
    BY <2>1 DEF InTurn, TypeOK
  <2>3. /\ addr \in Msg /\ addr.kind = "rtp.addr" /\ addr.value = TRUE
        /\ go \in Msg /\ go.kind = "mbus.go"
    BY <2>2, Messages DEF Kinds
  <2>4. NoControl(q) /\ rtp = <<>> /\ q \in Seq(Msg)
    BY <2>1, Typed DEF Addressed, Unaddressed
  <2> HIDE DEF addr, go, q
  <2>5. <<addr, go>> \in Seq(Msg) /\ Len(<<addr, go>>) = 2
    BY <2>3
  <2>6. /\ r \in Seq(Msg) /\ Len(r) = Len(q) + 2
        /\ \A i \in 1 .. Len(q) + 2 : r[i] = IF i <= Len(q) THEN q[i] ELSE <<addr, go>>[i - Len(q)]
    BY <2>1, <2>4, <2>5, ConcatProperties
  <2> HIDE DEF r
  <2>7. \A i \in 1 .. Len(r) :
          /\ i <= Len(q) => r[i].kind # "rtp.addr" /\ r[i].kind # "mbus.go"
          /\ i = Len(q) + 1 => r[i] = addr
          /\ i = Len(q) + 2 => r[i] = go
    <3> SUFFICES ASSUME NEW i \in 1 .. Len(r)
                 PROVE  /\ i <= Len(q) => r[i].kind # "rtp.addr" /\ r[i].kind # "mbus.go"
                        /\ i = Len(q) + 1 => r[i] = addr
                        /\ i = Len(q) + 2 => r[i] = go
      OBVIOUS
    <3>1. CASE i <= Len(q)
      <4>1. i \in 1 .. Len(q) /\ i # Len(q) + 1 /\ i # Len(q) + 2
        BY <2>4, <3>1
      <4>2. ~Control(q[i])
        BY <2>4, <4>1 DEF NoControl
      <4>3. r[i] = q[i]
        BY <2>6, <3>1
      <4> QED BY <4>1, <4>2, <4>3 DEF Control
    <3>2. CASE i = Len(q) + 1
      <4>1. i - Len(q) = 1 /\ ~(i <= Len(q)) /\ i # Len(q) + 2
        BY <2>4, <3>2
      <4> QED BY <2>6, <4>1
    <3>3. CASE i = Len(q) + 2
      <4>1. i - Len(q) = 2 /\ ~(i <= Len(q)) /\ i # Len(q) + 1
        BY <2>4, <3>3
      <4> QED BY <2>6, <4>1
    <3>4. i <= Len(q) \/ i = Len(q) + 1 \/ i = Len(q) + 2
      BY <2>4, <2>6
    <3> QED BY <3>1, <3>2, <3>3, <3>4
  <2>8. \A i \in 1 .. Len(r) : i <= Len(q) \/ i = Len(q) + 1 \/ i = Len(q) + 2
    BY <2>4, <2>6
  <2>9. \A i \in 1 .. Len(r) : /\ r[i].kind = "rtp.addr" => i = Len(q) + 1 /\ r[i] = addr
                               /\ r[i].kind = "mbus.go" => i = Len(q) + 2
    BY <2>3, <2>7, <2>8
  <2>10. AddrThenGo(r)
    <3>1. Len(q) \in Nat
      BY <2>4
    <3> QED BY <2>3, <2>9, <3>1 DEF AddrThenGo
  <2>11. HasAddr(r)
    <3>1. Len(q) + 1 \in 1 .. Len(r)
      BY <2>4, <2>6
    <3> QED BY <2>3, <2>7, <3>1 DEF HasAddr
  <2>12. thread.at # "go"
    BY <2>1 DEF InTurn
  <2>13. Addressed'
    BY <2>1, <2>4, <2>10, <2>11, <2>12 DEF Addressed, Unaddressed, SessionOnce, r
  <2>14. TypeOK'
    BY <2>1, <2>6 DEF TypeOK, Msg, r
  <2>15. Timed' /\ InTurn'
    BY <2>1 DEF Timed, InTurn
  <2> QED BY <2>13, <2>14, <2>15
<1>2. CASE UiHearsWaiting
  <2>1. /\ UiState' = 1 /\ SendOnce(<<Message("ui.go", TRUE)>>)
        /\ UNCHANGED <<ControllerState, timers, configured, released, started, running,
                       ready, engine, rtp, ui_on, title, sending, mi, button, toggles,
                       crossed, thread, renewals, losses>>
    BY <1>2 DEF UiHearsWaiting, control, rat, window, faults
  <2>2. Message("ui.go", TRUE) \in Msg /\ ~Control(Message("ui.go", TRUE))
    BY Messages DEF Kinds, Control
  <2>3. Addressed' /\ toEngine' \in Seq(Msg)
    BY <1>0, <2>1, <2>2, AddressedSend DEF Unaddressed
  <2>4. TypeOK'
    BY <2>1, <2>3 DEF TypeOK, Msg
  <2>5. Timed' /\ InTurn'
    BY <2>1 DEF Timed, InTurn
  <2> QED BY <2>3, <2>4, <2>5
<1> QED BY <1>1, <1>2

LEMMA ReceiveKeeps == ASSUME IInv, EngineReceives PROVE IInv'
<1> USE DEF IInv
<1> DEFINE q == toEngine
           r == toEngine'
           m == Head(toEngine)
<1>1. /\ EngineRuns /\ q # <<>> /\ r = Tail(q)
      /\ rtp' = (IF m.kind = "rtp.addr" THEN Append(rtp, m.value) ELSE rtp)
      /\ ui_on' = (ui_on \/ m.kind = "ui.go")
      /\ title' = (title \/ (m.kind = "ui.go" /\ m.value))
      /\ CASE m.kind = "mbus.go" -> EndRendezvous
           [] m.kind = "mute" -> sending' = ~m.value /\ UNCHANGED engine
           [] m.kind = "quit" -> engine' = (IF engine = "main" THEN "off" ELSE engine)
                                 /\ UNCHANGED sending
           [] OTHER -> UNCHANGED <<engine, sending>>
      /\ UNCHANGED <<ControllerState, timers, configured, released, started, UiState,
                     running, ready, mi, button, toggles, crossed, thread, renewals,
                     losses>>
  BY DEF EngineReceives, control, ui, window, faults
<1>2. q \in Seq(Msg)
  BY Typed
<1>3. /\ m \in Msg /\ r \in Seq(Msg) /\ Within(r, q) /\ Len(r) = Len(q) - 1
      /\ \A i \in 1 .. Len(r) : r[i] = q[i + 1]
      /\ 1 \in 1 .. Len(q) /\ q[1] = m
  BY <1>1, <1>2, HeadTailProperties, WithinTail
<1>4. m.kind \in Kinds /\ m.value \in BOOLEAN
  BY <1>3 DEF Msg
<1>5. losses \in Nat /\ Len(q) \in Nat
  BY <1>2 DEF Timed
<1> HIDE DEF m, q, r
<1>6. /\ NoControl(q) => NoControl(r)
      /\ AddrThenGo(q) => AddrThenGo(r)
      /\ HasAddr(r) => HasAddr(q)
      /\ HasGo(r) => HasGo(q)
  BY <1>2, <1>3, WithinKeeps
<1>7. HasAddr(q) /\ m.kind # "rtp.addr" => HasAddr(r)
  <2> SUFFICES ASSUME HasAddr(q), m.kind # "rtp.addr" PROVE HasAddr(r)
    OBVIOUS
  <2>1. PICK i \in 1 .. Len(q) : q[i].kind = "rtp.addr"
    BY DEF HasAddr
  <2>2. i # 1
    BY <1>3, <2>1
  <2>3. i - 1 \in 1 .. Len(r) /\ (i - 1) + 1 = i
    BY <1>3, <1>5, <2>2
  <2>4. r[i - 1] = q[i]
    BY <1>3, <2>3
  <2> QED BY <2>1, <2>3, <2>4 DEF HasAddr
<1>8. /\ rtp \in {<<>>, <<TRUE>>} /\ AddrThenGo(q)
      /\ HasAddr(q) => rtp = <<>>
      /\ HasGo(q) => rtp = <<TRUE>> \/ HasAddr(q) \/ losses > 0
      /\ Unaddressed => NoControl(q) /\ rtp = <<>>
      /\ engine = "main" => ~HasAddr(q) /\ rtp = <<TRUE>>
      /\ engine = "aborted" => losses > 0
  BY DEF Addressed, SessionOnce, q
<1>9. InTurn' /\ Timed' /\ thread.at # "go"
  <2>1. thread.at # "go"
    BY <1>1 DEF InTurn, EngineRuns
  <2> QED BY <1>1, <2>1 DEF InTurn, Timed
\* The address is the call's, and no other one follows.
<1>10. CASE m.kind = "rtp.addr"
  <2>1. HasAddr(q) /\ m.value = TRUE
    BY <1>3, <1>8, <1>10 DEF HasAddr, AddrThenGo
  <2>2. rtp' = <<TRUE>> /\ engine' = engine /\ sending' = sending /\ ui_on' \in BOOLEAN /\ title' \in BOOLEAN
    <3>1. rtp' = Append(<<>>, TRUE)
      BY <1>1, <1>8, <1>10, <2>1
    <3>2. engine' = engine /\ sending' = sending
      BY <1>1, <1>10
    <3>3. ui_on' \in BOOLEAN /\ title' \in BOOLEAN
      BY <1>1, <1>10 DEF TypeOK
    <3> QED BY <3>1, <3>2, <3>3
  <2>3. ~HasAddr(r)
    <3> SUFFICES ASSUME NEW i \in 1 .. Len(r), r[i].kind = "rtp.addr" PROVE FALSE
      BY DEF HasAddr
    <3>1. i + 1 \in 1 .. Len(q) /\ q[i + 1].kind = "rtp.addr" /\ i + 1 # 1
      BY <1>3, <1>5
    <3> QED BY <1>3, <1>8, <1>10, <3>1 DEF AddrThenGo
  <2>4. ~Unaddressed /\ engine # "main"
    <3>1. Control(q[1])
      BY <1>3, <1>10 DEF Control
    <3>2. ~NoControl(q)
      BY <1>3, <3>1 DEF NoControl
    <3> QED BY <1>8, <2>1, <3>2
  <2>5. ~Unaddressed'
    BY <1>1, <2>2, <2>4 DEF Unaddressed
  <2>6. Addressed'
    BY <1>1, <1>6, <1>8, <2>2, <2>3, <2>4, <2>5 DEF Addressed, SessionOnce, r
  <2>7. rtp' \in Seq(BOOLEAN) /\ engine' = engine /\ sending' = sending
    BY <2>2
  <2>8. ui_on' \in BOOLEAN /\ title' \in BOOLEAN
    BY <2>2
  <2>9. TypeOK'
    BY <1>1, <1>3, <2>7, <2>8 DEF TypeOK, Msg, r
  <2> QED BY <1>9, <2>6, <2>9
\* The address, if it was not lost, came before.
<1>11. CASE m.kind = "mbus.go"
  <2>1. HasGo(q) /\ ~HasAddr(q) /\ ~HasAddr(r)
    <3>1. HasGo(q)
      BY <1>3, <1>11 DEF HasGo
    <3>2. ASSUME NEW i \in 1 .. Len(q), q[i].kind = "rtp.addr" PROVE FALSE
      <4>1. i < 1
        BY <1>3, <1>8, <1>11, <3>2 DEF AddrThenGo
      <4> QED BY <4>1
    <3>3. ~HasAddr(q)
      BY <3>2 DEF HasAddr
    <3> QED BY <1>6, <3>1, <3>3
  <2>2. /\ rtp' = rtp /\ EndRendezvous /\ ui_on' \in BOOLEAN /\ title' \in BOOLEAN
    BY <1>1, <1>11 DEF TypeOK
  <2>3. rtp = <<TRUE>> \/ losses > 0
    BY <1>8, <2>1
  <2>4. ~Unaddressed
    <3>1. ~NoControl(q)
      BY <1>3, <1>11 DEF NoControl, Control
    <3> QED BY <1>8, <3>1
  <2>5. \/ engine' = engine /\ sending' = sending
        \/ engine' = "aborted" /\ rtp = <<>> /\ sending' = sending
        \/ engine' = "main" /\ rtp # <<>> /\ sending' \in BOOLEAN
    BY <2>2 DEF EndRendezvous
  <2>6. <<TRUE>> # <<>>
    OBVIOUS
  <2>7. ~Unaddressed'
    BY <1>1, <2>4, <2>5 DEF Unaddressed
  <2>8. Addressed'
    <3>1. AddrThenGo(r)
      BY <1>6, <1>8
    <3>2. SessionOnce'
      BY <1>1, <1>8, <2>2, <2>3, <2>5, <2>6 DEF SessionOnce
    <3>3. HasGo(r) => rtp = <<TRUE>> \/ losses > 0
      BY <2>3
    <3> QED BY <1>1, <1>8, <2>1, <2>2, <2>7, <3>1, <3>2, <3>3 DEF Addressed, r
  <2>9. TypeOK'
    BY <1>1, <1>3, <2>2, <2>5 DEF TypeOK, Msg, r
  <2> QED BY <1>9, <2>8, <2>9
<1>12. CASE m.kind \notin {"rtp.addr", "mbus.go"}
  <2>1. /\ rtp' = rtp /\ engine' \in {engine, "off"} /\ sending' \in BOOLEAN
        /\ ui_on' \in BOOLEAN /\ title' \in BOOLEAN
    <3>1. rtp' = rtp /\ engine' \in {engine, "off"}
      BY <1>1, <1>4, <1>12 DEF Kinds
    <3>2. sending' \in BOOLEAN
      BY <1>1, <1>4, <1>12 DEF Kinds, TypeOK
    <3>3. ui_on' \in BOOLEAN /\ title' \in BOOLEAN
      BY <1>1, <1>4 DEF TypeOK
    <3> QED BY <3>1, <3>2, <3>3
  <2>2. Unaddressed' => Unaddressed
    BY <1>1, <1>9, <2>1 DEF Unaddressed
  <2>3. Addressed'
    BY <1>1, <1>2, <1>3, <1>5, <1>7, <1>12, <2>1, <2>2, AddressedKept DEF q, r
  <2>4. TypeOK'
    BY <1>1, <1>3, <2>1 DEF TypeOK, Msg, r
  <2> QED BY <1>9, <2>3, <2>4
<1> QED BY <1>10, <1>11, <1>12

LEMMA LossKeeps == ASSUME IInv, Lose PROVE IInv'
<1> USE DEF IInv
<1>1. losses \in Nat /\ losses' = losses + 1
  BY DEF Timed, Lose
<1>2. UNCHANGED <<ControllerState, timers, configured, released, started, UiState, running,
                  ready, engine, rtp, ui_on, title, sending, mi, button, toggles, crossed,
                  thread, renewals>>
  BY DEF Lose, control, ui, rat, window
<1>3. PICK i \in 1 .. Len(toEngine) :
        toEngine' = SubSeq(toEngine, 1, i - 1) \o SubSeq(toEngine, i + 1, Len(toEngine))
  BY DEF Lose
<1>4. toEngine' \in Seq(Msg) /\ Within(toEngine', toEngine)
  BY <1>3, Typed, WithinLoss
<1>5. Addressed'
  BY <1>1, <1>2, <1>4, AddressedKept DEF Unaddressed
<1>6. TypeOK'
  BY <1>2, <1>4 DEF TypeOK, Msg
<1>7. Timed' /\ InTurn'
  BY <1>1, <1>2 DEF Timed, InTurn
<1> QED BY <1>5, <1>6, <1>7

-----------------------------------------------------------------------------
LEMMA InitOK == ASSUME Init PROVE IInv
<1>1. thread.at = "go" /\ thread \in [at : Ats, mute : BOOLEAN]
  BY DEF Init, Ats
<1>2. button \in [at : {"idle", "send"}, mute : BOOLEAN] /\ mi \in BOOLEAN
  BY DEF Init
<1>3. rtp \in Seq(BOOLEAN) /\ toEngine \in Seq(Msg)
  BY DEF Init
<1>4. TypeOK
  <2>1. /\ configured \in BOOLEAN /\ released \in BOOLEAN /\ started \in BOOLEAN
        /\ running \in BOOLEAN /\ ready \in BOOLEAN /\ crossed \in BOOLEAN
    BY DEF Init
  <2>2. ui_on \in BOOLEAN /\ title \in BOOLEAN /\ sending \in BOOLEAN
    BY DEF Init
  <2>3. ControllerState \in 0 .. 3 /\ UiState \in 0 .. 1 /\ timers \in 0 .. MaxRenewals + 1
    BY SetupParameters DEF Init
  <2>4. engine \in {"off", "waiting", "answering", "heard", "asking", "main", "aborted"}
    BY DEF Init
  <2> QED BY <1>1, <1>2, <1>3, <2>1, <2>2, <2>3, <2>4 DEF TypeOK, Ats, Msg
<1>5. Timed /\ InTurn
  BY <1>1 DEF Init, Timed, InTurn
<1>6. NoControl(toEngine) /\ ~HasAddr(toEngine) /\ ~HasGo(toEngine) /\ AddrThenGo(toEngine)
  BY DEF Init, NoControl, HasAddr, HasGo, AddrThenGo
<1>7. Addressed
  BY <1>6 DEF Init, Addressed, SessionOnce
<1> QED BY <1>4, <1>5, <1>7 DEF IInv

LEMMA Inductive == ASSUME IInv, [Next]_vars PROVE IInv'
<1>1. CASE Next
  BY <1>1, StartKeeps, StopKeeps, WindowKeeps, ListenKeeps, AnswerKeeps, ReceiveKeeps,
     LossKeeps DEF Next, Listen
<1>2. CASE UNCHANGED vars
  <2>1. UNCHANGED <<ControllerState, timers, configured, released, started, UiState,
                    running, ready, engine, rtp, ui_on, title, sending, mi, button, toggles,
                    crossed, thread, toEngine, renewals, losses>>
    BY <1>2 DEF vars, control, ui, rat, window, faults
  <2>2. TypeOK'
    BY <2>1 DEF IInv, TypeOK
  <2>3. Timed' /\ InTurn' /\ Addressed'
    BY <2>1 DEF IInv, Timed, InTurn, Addressed, Unaddressed, SessionOnce
  <2> QED BY <2>2, <2>3 DEF IInv
<1> QED BY <1>1, <1>2

-----------------------------------------------------------------------------
(* The mute: lemmas about its messages, then the actions. *)

LEMMA EndsSent ==
  ASSUME NEW q \in Seq(Msg), NEW m \in Msg, Mute(m), NEW open
  PROVE  Ends(q \o <<m>>, open, m.value)
<1> DEFINE r == q \o <<m>>
<1>1. <<m>> \in Seq(Msg) /\ Len(<<m>>) = 1 /\ <<m>>[1] = m /\ Len(q) \in Nat
  OBVIOUS
<1>2. /\ Len(r) = Len(q) + 1
      /\ \A i \in 1 .. Len(q) + 1 : r[i] = IF i <= Len(q) THEN q[i] ELSE <<m>>[i - Len(q)]
  BY <1>1, ConcatProperties
<1>3. Len(q) + 1 - Len(q) = 1 /\ ~(Len(q) + 1 <= Len(q)) /\ Len(q) + 1 \in 1 .. Len(q) + 1
  BY <1>1
<1>4. r[Len(q) + 1] = m
  BY <1>1, <1>2, <1>3
<1> HIDE DEF r
<1>5. \A j \in 1 .. Len(r) : ~(j > Len(q) + 1)
  BY <1>1, <1>2
<1>6. Ends(r, open, m.value)
  BY <1>2, <1>3, <1>4, <1>5 DEF Ends
<1> QED BY <1>6 DEF r

\* The engine takes the first message: a mute, or another one.
LEMMA EndsTaken ==
  ASSUME NEW q \in Seq(Msg), q # <<>>, NEW open \in BOOLEAN, NEW v \in BOOLEAN, Ends(q, open, v)
  PROVE  /\ ~Mute(Head(q)) => Ends(Tail(q), open, v)
         /\ Mute(Head(q)) => Ends(Tail(q), ~Head(q).value, v)
<1>0. Tail(q) \in Seq(Msg) /\ Len(Tail(q)) \in Nat
  BY HeadTailProperties
<1>1. PICK r \in Seq(Msg), n \in Nat : r = Tail(q) /\ n = Len(r)
  BY <1>0
<1>2. Len(q) = n + 1 /\ Head(q) = q[1] /\ \A i \in 1 .. n : r[i] = q[i + 1]
  BY <1>1, HeadTailProperties
<1>3. CASE (\A i \in 1 .. Len(q) : ~Mute(q[i])) /\ open = ~v
  <2>1. \A i \in 1 .. Len(r) : ~Mute(r[i])
    BY <1>1, <1>2, <1>3
  <2>2. ~Mute(q[1])
    BY <1>2, <1>3
  <2> QED BY <1>1, <1>2, <1>3, <2>1, <2>2 DEF Ends
<1>4. CASE \E i \in 1 .. Len(q) : /\ Mute(q[i]) /\ q[i].value = v
                                /\ \A j \in 1 .. Len(q) : j > i => ~Mute(q[j])
  <2>1. PICK i \in 1 .. n + 1 : /\ Mute(q[i]) /\ q[i].value = v
                              /\ \A j \in 1 .. n + 1 : j > i => ~Mute(q[j])
    BY <1>2, <1>4
  <2>2. CASE i = 1
    <3>1. \A j \in 1 .. n : ~Mute(r[j])
      BY <1>2, <2>1, <2>2
    <3>2. Mute(Head(q)) /\ Head(q).value = v
      BY <1>2, <2>1, <2>2
    <3> QED BY <1>1, <3>1, <3>2 DEF Ends
  <2>3. CASE i # 1
    <3>1. i - 1 \in 1 .. n /\ (i - 1) + 1 = i
      BY <2>3
    <3>2. Mute(r[i - 1]) /\ r[i - 1].value = v
      BY <1>2, <2>1, <3>1
    <3>3. \A j \in 1 .. n : j > i - 1 => ~Mute(r[j])
      BY <1>2, <2>1
    <3>4. \A o : Ends(r, o, v)
      BY <1>1, <3>1, <3>2, <3>3 DEF Ends
    <3> QED BY <1>1, <3>4
  <2> QED BY <2>2, <2>3
<1> QED BY <1>3, <1>4 DEF Ends

\* A message other than the controller's answer brings no new answer.
LEMMA NoNewGo ==
  ASSUME TypeOK, NEW m \in Msg, ~Control(m), NEW b \in BOOLEAN,
         SendOnce(IF b THEN <<m>> ELSE <<>>)
  PROVE  HasGo(toEngine') => HasGo(toEngine)
<1>1. toEngine \in Seq(Msg)
  BY Typed
<1>2. CASE b
  <2>1. toEngine' = toEngine \o <<m>>
    BY <1>2 DEF SendOnce
  <2> QED BY <1>1, <2>1, WithinSend, WithinKeeps
<1>3. CASE ~b
  BY <1>1, <1>3 DEF SendOnce
<1> QED BY <1>2, <1>3

LEMMA MutesMessage ==
  ASSUME NEW v \in BOOLEAN
  PROVE  /\ Message("mute", v) \in Msg /\ ~Control(Message("mute", v))
         /\ Mute(Message("mute", v)) /\ Message("mute", v).value = v
BY Messages DEF Kinds, Control, Mute

LEMMA MuteStart == ASSUME IInv, MInv, Start PROVE MInv'
<1>0. TypeOK /\ losses' = losses /\ renewals' = renewals
  BY DEF IInv, Start, Launch, GoReturns, Configure, Release, SetCodec, ReadMute, SendMute, faults
<1>1. ASSUME NEW from \in Ats, NEW to \in Ats, Step(from, to),
             to \notin {"go", "send", "done"}, to = "mute" => running,
             UNCHANGED <<ControllerState, UiState, running, sending, mi, button, crossed, toEngine>>,
             engine' = engine \/ (from = "go" /\ engine' = "waiting")
      PROVE  MInv'
  <2>1. thread.at = from /\ thread'.at = to
    BY <1>0, <1>1, Stepping
  <2>2. Reached'
    BY <1>1, <2>1 DEF MInv, Reached
  <2>3. engine' = "main" => engine = "main"
    BY <1>1
  <2>4. Answered'
    BY <1>0, <1>1, <2>3 DEF MInv, Answered
  <2>5. Wished'
    BY <1>0, <1>1, <2>1 DEF MInv, Wished
  <2> QED BY <2>2, <2>4, <2>5 DEF MInv
<1>2. CASE Launch
  BY <1>1, <1>2 DEF Launch, control, ui, window, Ats
<1>3. CASE GoReturns
  BY <1>1, <1>3 DEF GoReturns, ui, rat, window, Ats
<1>4. CASE Configure
  BY <1>1, <1>4 DEF Configure, ui, rat, window, Ats
<1>5. CASE Release
  BY <1>1, <1>5 DEF Release, ui, rat, window, Ats
<1>6. CASE SetCodec
  BY <1>1, <1>6 DEF SetCodec, control, ui, rat, window, Ats
<1>7. CASE ReadMute
  <2>1. /\ thread.at = "mute" /\ thread'.at = "send"
        /\ UNCHANGED <<ControllerState, UiState, running, engine, sending, mi, button, toEngine>>
    BY <1>7 DEF ReadMute, control, ui, rat, window
  <2>2. Reached'
    BY <2>1 DEF MInv, Reached
  <2>3. Answered'
    BY <1>0, <2>1 DEF MInv, Answered
  <2>4. Wished'
    BY <1>0, <2>1 DEF MInv, Wished
  <2> QED BY <2>2, <2>3, <2>4 DEF MInv
<1>8. CASE SendMute
  <2>1. thread.at = "send" /\ thread'.at = "done"
    BY <1>0, <1>8, Stepping DEF SendMute, Ats
  <2>2. /\ MuteInput(thread.mute) /\ crossed' = (thread.mute # mi /\ button.at = "idle")
        /\ UNCHANGED <<ControllerState, UiState, running, engine, sending, mi, button>>
    BY <1>8 DEF SendMute, control, rat
  <2>3. PICK m : m = Message("mute", thread.mute)
    OBVIOUS
  <2>4. m \in Msg /\ ~Control(m) /\ Mute(m) /\ m.value = thread.mute
    BY <1>0, <2>3, Typed, MutesMessage
  <2>5. SendOnce(IF IsReady THEN <<m>> ELSE <<>>)
    BY <2>2, <2>3 DEF MuteInput
  <2>6. IsReady \in BOOLEAN
    BY <1>0 DEF IsReady, TypeOK
  <2>7. HasGo(toEngine') => HasGo(toEngine)
    BY <1>0, <2>4, <2>5, <2>6, NoNewGo
  <2>8. running /\ UiState = 1
    BY <2>1 DEF MInv, Reached
  <2>9. Reached'
    BY <2>1, <2>2, <2>8 DEF MInv, Reached
  <2>10. Answered'
    BY <1>0, <2>2, <2>7 DEF MInv, Answered
  <2>11. ASSUME button'.at = "idle", renewals' = 0, losses' = 0
         PROVE  Ends(toEngine', sending', Commanded')
    <3>1. ControllerState = 3
      BY <1>0, <2>8, <2>11 DEF MInv, Answered
    <3>2. IsReady
      BY <2>8, <3>1 DEF IsReady
    <3>3. toEngine' = toEngine \o <<m>>
      BY <2>5, <3>2 DEF SendOnce
    <3>4. thread.mute = Commanded'
      <4>1. thread.mute \in BOOLEAN /\ mi \in BOOLEAN
        BY <1>0 DEF TypeOK
      <4> QED BY <2>2, <2>11, <4>1 DEF Commanded
    <3>5. toEngine \in Seq(Msg)
      BY <1>0, Typed
    <3> QED BY <2>2, <2>4, <3>3, <3>4, <3>5, EndsSent
  <2>12. Wished'
    BY <2>1, <2>2, <2>11 DEF MInv, Wished
  <2> QED BY <2>9, <2>10, <2>12 DEF MInv
<1> QED BY <1>2, <1>3, <1>4, <1>5, <1>6, <1>7, <1>8 DEF Start

LEMMA MuteStop == ASSUME IInv, MInv, Stop PROVE MInv'
<1>0. TypeOK
  BY DEF IInv
<1>1. CASE Terminate
  <2>1. thread.at = "done" /\ thread'.at = "quitting"
    BY <1>0, <1>1, Stepping DEF Terminate, Ats
  <2>2. /\ SendOnce(<<Message("quit", FALSE)>>)
        /\ UNCHANGED <<ControllerState, UiState, running, engine, sending, mi, button, crossed,
                       renewals, losses>>
    BY <1>1 DEF Terminate, ui, rat, window, faults
  <2>3. Message("quit", FALSE) \in Msg /\ ~Control(Message("quit", FALSE))
    BY Messages DEF Kinds, Control
  <2>4. HasGo(toEngine') => HasGo(toEngine)
    BY <1>0, <2>2, <2>3, NoNewGo
  <2>5. Reached'
    BY <2>1, <2>2 DEF MInv, Reached
  <2>6. Answered'
    BY <2>2, <2>4 DEF MInv, Answered
  <2>7. Wished'
    BY <2>1, <2>2 DEF MInv, Wished
  <2> QED BY <2>5, <2>6, <2>7 DEF MInv
<1>2. CASE Destroy
  <2>1. thread.at = "quitting" /\ thread'.at = "ended"
    BY <1>0, <1>2, Stepping DEF Destroy, Ats
  <2>2. /\ engine' = "off" /\ toEngine' = <<>>
        /\ UNCHANGED <<ControllerState, UiState, running, sending, mi, button, crossed,
                       renewals, losses>>
    BY <1>2 DEF Destroy, control, ui, window, faults
  <2>3. ~HasGo(toEngine')
    BY <2>2 DEF HasGo
  <2>4. Reached'
    BY <2>1, <2>2 DEF MInv, Reached
  <2>5. Answered'
    BY <2>2, <2>3 DEF MInv, Answered
  <2>6. Wished'
    BY <2>1, <2>2 DEF MInv, Wished
  <2> QED BY <2>4, <2>5, <2>6 DEF MInv
<1> QED BY <1>1, <1>2 DEF Stop

\* A click is sent by its own thread, after the start's command.
LEMMA MuteWindow == ASSUME IInv, MInv, Window PROVE MInv'
<1>0. TypeOK
  BY DEF IInv
<1>1. CASE Click
  <2>1. /\ mi' = ~mi /\ button'.at = "send" /\ button'.mute = ~mi
        /\ UNCHANGED <<ControllerState, UiState, running, engine, sending, thread, toEngine,
                       renewals, losses>>
    BY <1>1 DEF Click, control, ui, rat, faults
  <2>2. Reached'
    BY <2>1 DEF MInv, Reached
  <2>3. Answered'
    BY <2>1 DEF MInv, Answered
  <2>4. Wished'
    BY <2>1 DEF Wished
  <2> QED BY <2>2, <2>3, <2>4 DEF MInv
<1>2. CASE ButtonSend
  <2>1. /\ button.at = "send" /\ crossed' = FALSE
        /\ UNCHANGED <<ControllerState, UiState, running, engine, sending, mi, thread,
                       renewals, losses>>
    BY <1>2 DEF ButtonSend, control, rat, faults
  <2>2. button'.at = "idle" /\ button.mute \in BOOLEAN
    BY <1>0, <1>2 DEF ButtonSend, TypeOK
  <2>3. PICK m : m = Message("mute", button.mute)
    OBVIOUS
  <2>4. m \in Msg /\ ~Control(m) /\ Mute(m) /\ m.value = button.mute
    BY <2>2, <2>3, MutesMessage
  <2>5. Reached'
    BY <2>1 DEF MInv, Reached
  <2>6. CASE thread.at = "ended"
    <3>1. toEngine' = toEngine
      BY <1>2, <2>6 DEF ButtonSend
    <3>2. Answered'
      BY <2>1, <3>1 DEF MInv, Answered
    <3>3. Wished'
      BY <2>1, <2>2, <2>6 DEF Wished
    <3> QED BY <2>5, <3>2, <3>3 DEF MInv
  <2>7. CASE thread.at # "ended"
    <3>1. SendOnce(IF IsReady THEN <<m>> ELSE <<>>)
      BY <1>2, <2>3, <2>7 DEF ButtonSend, MuteInput
    <3>2. IsReady \in BOOLEAN
      BY <1>0 DEF IsReady, TypeOK
    <3>3. HasGo(toEngine') => HasGo(toEngine)
      BY <1>0, <2>4, <3>1, <3>2, NoNewGo
    <3>4. Answered'
      BY <2>1, <3>3 DEF MInv, Answered
    <3>5. ASSUME thread.at = "done", renewals = 0 PROVE Ends(toEngine', sending', mi')
      <4>1. UiState = 1 /\ ControllerState = 3
        BY <3>5 DEF MInv, Reached, Answered
      <4>2. IsReady
        BY <4>1 DEF IsReady
      <4>3. toEngine' = toEngine \o <<m>>
        BY <3>1, <4>2 DEF SendOnce
      <4>4. button.mute = mi
        BY <2>1 DEF MInv, Wished
      <4>5. toEngine \in Seq(Msg)
        BY <1>0, Typed
      <4> QED BY <2>1, <2>4, <4>3, <4>4, <4>5, EndsSent
    <3>6. Wished'
      BY <2>1, <2>2, <3>5 DEF Wished, Commanded
    <3> QED BY <2>5, <3>4, <3>6 DEF MInv
  <2> QED BY <2>6, <2>7
<1> QED BY <1>1, <1>2 DEF Window

LEMMA MuteListen ==
  ASSUME IInv, MInv,
         \/ NewEntity \/ EngineHearsWaiting \/ ControllerHearsGo \/ GoAcknowledged \/ Renewed
  PROVE  MInv'
<1>1. /\ UNCHANGED <<UiState, running, sending, mi, button, crossed, thread, toEngine, losses>>
      /\ engine' = engine \/ (engine \notin {"main", "off"} /\ engine' \notin {"main", "off"})
  BY DEF NewEntity, EngineHearsWaiting, ControllerHearsGo, GoAcknowledged, Renewed,
         control, ui, rat, window, faults
<1>2. renewals' = renewals \/ renewals' > 0
  BY DEF NewEntity, EngineHearsWaiting, ControllerHearsGo, GoAcknowledged, Renewed, faults,
         IInv, Timed
<1>3. Reached'
  BY <1>1 DEF MInv, Reached
<1>4. ASSUME renewals' = 0, ControllerState = 3 PROVE ControllerState' = 3
  BY <1>2, <1>4 DEF NewEntity, EngineHearsWaiting, ControllerHearsGo, GoAcknowledged, Renewed,
                    control, IInv, Timed
<1>5. Answered'
  <2>1. renewals' = 0 => renewals = 0
    BY <1>2 DEF NewEntity, EngineHearsWaiting, ControllerHearsGo, GoAcknowledged, Renewed,
                faults, IInv, Timed
  <2> QED BY <1>1, <1>4, <2>1 DEF MInv, Answered
<1>6. Wished'
  <2>1. renewals' = 0 => renewals = 0
    BY <1>2 DEF NewEntity, EngineHearsWaiting, ControllerHearsGo, GoAcknowledged, Renewed,
                faults, IInv, Timed
  <2> QED BY <1>1, <2>1 DEF MInv, Wished, Commanded
<1> QED BY <1>3, <1>5, <1>6 DEF MInv

\* What the two entities hear of the engine's rendezvous and main loop.
LEMMA MuteAnswer ==
  ASSUME IInv, MInv, ControllerHearsWaiting \/ UiHearsWaiting \/ UiHearsTitle
  PROVE  MInv'
<1>0. TypeOK
  BY DEF IInv
<1>1. CASE ControllerHearsWaiting
  <2>1. /\ engine = "asking" /\ ControllerState' = 3
        /\ UNCHANGED <<UiState, running, engine, sending, mi, button, crossed, thread,
                       renewals, losses>>
    BY <1>1 DEF ControllerHearsWaiting, ui, rat, window, faults
  <2>2. thread.at # "done"
    BY <2>1 DEF MInv, Reached
  <2>3. Reached'
    BY <2>1 DEF MInv, Reached
  <2>4. Answered'
    BY <2>1 DEF Answered
  <2>5. Wished'
    BY <2>1, <2>2 DEF MInv, Wished
  <2> QED BY <2>3, <2>4, <2>5 DEF MInv
<1>2. CASE UiHearsWaiting
  <2>1. /\ engine = "main" /\ UiState = 0 /\ UiState' = 1 /\ SendOnce(<<Message("ui.go", TRUE)>>)
        /\ UNCHANGED <<ControllerState, running, engine, sending, mi, button, crossed, thread,
                       renewals, losses>>
    BY <1>2 DEF UiHearsWaiting, control, rat, window, faults
  <2>2. thread.at # "done" /\ thread.at # "go"
    BY <2>1 DEF MInv, Reached, IInv, InTurn
  <2>3. Reached'
    BY <2>1, <2>2 DEF MInv, Reached
  <2>4. Answered'
    BY <2>1 DEF MInv, Answered
  <2>5. Wished'
    BY <2>1, <2>2 DEF MInv, Wished
  <2> QED BY <2>3, <2>4, <2>5 DEF MInv
<1>3. CASE UiHearsTitle
  <2>1. /\ running' = (UiState = 1)
        /\ UNCHANGED <<ControllerState, UiState, engine, sending, mi, button, crossed, thread,
                       toEngine, renewals, losses>>
    BY <1>3 DEF UiHearsTitle, control, rat, window, faults
  <2>2. Reached'
    BY <2>1 DEF MInv, Reached
  <2>3. Answered'
    BY <2>1 DEF MInv, Answered
  <2>4. Wished'
    BY <2>1 DEF MInv, Wished, Commanded
  <2> QED BY <2>2, <2>3, <2>4 DEF MInv
<1> QED BY <1>1, <1>2, <1>3

\* The engine is in its main loop when it takes a command of a started call.
LEMMA MuteReceive == ASSUME IInv, MInv, EngineReceives PROVE MInv'
<1>0. TypeOK /\ toEngine \in Seq(Msg)
  BY Typed DEF IInv
<1>1. PICK q \in Seq(Msg) : q = toEngine
  BY <1>0
<1>2. PICK m : m = Head(q)
  OBVIOUS
<1>3. /\ EngineRuns /\ q # <<>> /\ toEngine' = Tail(q)
      /\ CASE m.kind = "mbus.go" -> EndRendezvous
           [] m.kind = "mute" -> sending' = ~m.value /\ UNCHANGED engine
           [] m.kind = "quit" -> engine' = (IF engine = "main" THEN "off" ELSE engine)
                                 /\ UNCHANGED sending
           [] OTHER -> UNCHANGED <<engine, sending>>
      /\ UNCHANGED <<ControllerState, UiState, running, mi, button, crossed, thread, renewals,
                     losses>>
  BY <1>1, <1>2 DEF EngineReceives, control, ui, window, faults
<1>4. m \in Msg /\ m.kind \in Kinds /\ q[1] = m /\ 1 \in 1 .. Len(q)
  <2>1. m \in Msg /\ q[1] = m /\ 1 \in 1 .. Len(q)
    BY <1>2, <1>3, HeadTailProperties
  <2> QED BY <2>1 DEF Msg
<1>5. HasGo(Tail(q)) => HasGo(q)
  BY <1>3, WithinTail, WithinKeeps
<1>6. engine' = "main" => engine = "main" \/ HasGo(q)
  <2>1. m.kind = "mbus.go" => HasGo(q)
    BY <1>4 DEF HasGo
  <2> QED BY <1>3, <1>4, <2>1 DEF Kinds
<1>7. engine \in {"main", "off"} => engine' \in {"main", "off"}
  BY <1>3, <1>4 DEF Kinds, EndRendezvous
<1>8. Reached'
  BY <1>3, <1>7 DEF MInv, Reached
<1>9. Answered'
  BY <1>1, <1>3, <1>5, <1>6 DEF MInv, Answered
<1>10. ASSUME thread.at = "done", Ends(q, sending, Commanded)
       PROVE  Ends(Tail(q), sending', Commanded)
  <2>1. engine = "main"
    BY <1>3, <1>10 DEF MInv, Reached, EngineRuns
  <2>2. sending \in BOOLEAN /\ Commanded \in BOOLEAN
    BY <1>0 DEF TypeOK, Commanded
  <2>3. CASE m.kind = "mute"
    <3>1. sending' = ~m.value /\ Mute(m)
      BY <1>3, <2>3 DEF Mute
    <3> QED BY <1>2, <1>3, <1>10, <2>2, <3>1, EndsTaken
  <2>4. CASE m.kind # "mute"
    <3>1. sending' = sending /\ ~Mute(m)
      BY <1>3, <1>4, <2>1, <2>4 DEF Kinds, EndRendezvous, Mute
    <3> QED BY <1>2, <1>3, <1>10, <2>2, <3>1, EndsTaken
  <2> QED BY <2>3, <2>4
<1>11. Wished'
  <2>1. Commanded' = Commanded
    BY <1>3 DEF Commanded
  <2> QED BY <1>1, <1>3, <1>10, <2>1 DEF MInv, Wished
<1> QED BY <1>8, <1>9, <1>11 DEF MInv

LEMMA MuteLoss == ASSUME IInv, MInv, Lose PROVE MInv'
<1>1. losses' > 0
  BY DEF IInv, Timed, Lose
<1>2. UNCHANGED <<ControllerState, UiState, running, engine, sending, mi, button, crossed,
                  thread, renewals>>
  BY DEF Lose, control, ui, rat, window
<1>3. PICK i \in 1 .. Len(toEngine) :
        toEngine' = SubSeq(toEngine, 1, i - 1) \o SubSeq(toEngine, i + 1, Len(toEngine))
  BY DEF Lose
<1>4. HasGo(toEngine') => HasGo(toEngine)
  BY <1>3, Typed, WithinLoss, WithinKeeps DEF IInv
<1>5. Reached'
  BY <1>2 DEF MInv, Reached
<1>6. Answered'
  BY <1>2, <1>4 DEF MInv, Answered
<1>7. Wished'
  BY <1>1, <1>2 DEF MInv, Wished
<1> QED BY <1>5, <1>6, <1>7 DEF MInv

LEMMA MuteInit == ASSUME Init PROVE MInv
<1>1. thread.at = "go" /\ button.at = "idle" /\ engine = "off" /\ UiState = 0 /\ ~running
  BY DEF Init
<1>2. ~HasGo(toEngine)
  BY DEF Init, HasGo
<1> QED BY <1>1, <1>2 DEF MInv, Reached, Answered, Wished

LEMMA MuteInductive == ASSUME IInv, MInv, [Next]_vars PROVE MInv'
<1>1. CASE Next
  BY <1>1, MuteStart, MuteStop, MuteWindow, MuteListen, MuteAnswer, MuteReceive, MuteLoss
     DEF Next, Listen
<1>2. CASE UNCHANGED vars
  <2>1. UNCHANGED <<ControllerState, UiState, running, engine, sending, mi, button, crossed,
                    thread, toEngine, renewals, losses>>
    BY <1>2 DEF vars, control, ui, rat, window, faults
  <2> QED BY <2>1 DEF MInv, Reached, Answered, Wished, Commanded
<1> QED BY <1>1, <1>2

\* A quiet engine has taken the last mute command.
LEMMA AppliedWhenQuiet == ASSUME IInv, MInv PROVE MuteApplied
<1> SUFFICES ASSUME Quiet, renewals = 0, losses = 0 PROVE sending = ~mi <=> ~crossed
  BY DEF MuteApplied
<1>1. Ends(<<>>, sending, Commanded)
  BY DEF MInv, Wished, Quiet
<1>2. sending = ~Commanded
  BY <1>1 DEF Ends
<1>3. mi \in BOOLEAN /\ crossed \in BOOLEAN /\ sending \in BOOLEAN
  BY DEF IInv, TypeOK
<1> QED BY <1>2, <1>3 DEF Commanded

-----------------------------------------------------------------------------
\* The fields keep their types; in particular each rediscovery of the engine leaves at
\* most one timer behind (RATControl.java:196).
THEOREM TypeCorrect == Spec => []TypeOK
<1>1. IInv => TypeOK
  BY DEF IInv
<1> QED BY InitOK, Inductive, <1>1, PTL DEF Spec

\* The engine processes audio with the one RTP session of this call, and the
\* assertion of main_engine.c:200 fails only when a message was lost.
THEOREM OneSession == Spec => []SessionOnce
<1>1. IInv => SessionOnce
  BY DEF IInv, Addressed
<1> QED BY InitOK, Inductive, <1>1, PTL DEF Spec

\* A started engine that has taken every command has the last wish, or, in exactly the
\* case that the start's own command carried an outdated wish and went out after the
\* click's (MediaControl.start line 61, MediaControl.muteInput lines 130-134,
\* RATControl.muteInput lines 426-432), its opposite; as long as no message was lost
\* and the engine was found once.
THEOREM MuteFollows == Spec => []MuteApplied
<1>1. Init => IInv /\ MInv
  BY InitOK, MuteInit
<1>2. IInv /\ MInv /\ [Next]_vars => (IInv /\ MInv)'
  BY Inductive, MuteInductive
<1>3. IInv /\ MInv => MuteApplied
  BY AppliedWhenQuiet
<1> QED BY <1>1, <1>2, <1>3, PTL DEF Spec
=============================================================================
