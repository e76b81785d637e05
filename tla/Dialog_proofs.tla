--------------------------- MODULE Dialog_proofs ---------------------------
(***************************************************************************)
(* No side enters the dialog without the callee's consent, however many    *)
(* calls the applications make and however many messages are lost,         *)
(* repeated or overtaken.                                                  *)
(***************************************************************************)
EXTENDS Dialog, CallParts_proofs, SequenceTheorems, TLAPS

\* What the legs can be, and what can be underway to them, before the callee's
\* application accepts.
Before == [caller |-> {"initial", "calling", "call_proceed", "cancel", "terminated"},
           callee |-> {"initial", "proceed", "failed", "terminated"}]
Gets   == [caller |-> {"INVITE 1xx", "INVITE 3xx", "CANCEL 2xx"},
           callee |-> {"INVITE", "ACK", "CANCEL"}]

\* Whatever a thread is about to send and to assign is of that kind.
EarlyThreads ==
  \A s \in Sides, t \in Threads : thread[s][t] \in Todo(Before[s], Gets[Peer(s)])

\* Consent is not inductive: it says nothing of an answer that is underway or
\* about to be sent, nor of the state a thread is about to assign.
Asking == ~accepted => /\ \A s \in Sides : leg[s] \in Before[s] /\ net[s] \in Seq(Gets[s])
                       /\ EarlyThreads

IInv == TypeOK /\ Asking

-----------------------------------------------------------------------------
\* A queue without one of its messages holds no other messages.
LEMMA WithoutMessage ==
  ASSUME NEW S, NEW q \in Seq(S), NEW i \in 1 .. Len(q)
  PROVE  Without(q, i) \in Seq(S)
<1>1. SubSeq(q, 1, i - 1) \in Seq(S)
  <2>1. \A j \in 1 .. i - 1 : q[j] \in S
    OBVIOUS
  <2> QED BY <2>1, SubSeqProperties
<1>2. SubSeq(q, i + 1, Len(q)) \in Seq(S)
  <2>1. \A j \in i + 1 .. Len(q) : q[j] \in S
    OBVIOUS
  <2> QED BY <2>1, SubSeqProperties
<1> QED BY <1>1, <1>2, ConcatProperties DEF Without

\* Before the consent the caller's leg stays out of the dialog and sends nothing
\* but requests that need none.
LEMMA CallerBefore ==
  ASSUME NEW l \in Before["caller"], NEW r \in Reactions[l],
         r.in \in AppCalls \cup Gets["caller"]
  PROVE  r.to \in Before["caller"] /\ r.send \in Seq(Gets["callee"])
<1> DEFINE Early == Kind({"invite", "hangup", "INVITE 1xx", "INVITE 3xx", "CANCEL 2xx"},
                        {"initial", "calling", "call_proceed", "cancel", "terminated"},
                        {"INVITE", "ACK", "CANCEL"})
           Late == Kind({"INVITE", "INVITE 2xx", "BYE 2xx"}, LegStates, Messages)
<1>1. CL_initial \subseteq Early \cup Late
  BY SMTT(30), LegStateNames DEF CL_initial, On, Kind, Messages, Requests, Responses, Notes
<1>2. CL_calling \subseteq Early \cup Late
  BY SMTT(30), LegStateNames DEF CL_calling, On, Kind, Messages, Requests, Responses, Notes
<1>3. CL_call_proceed \subseteq Early \cup Late
  BY SMTT(30), LegStateNames DEF CL_call_proceed, On, Kind, Messages, Requests, Responses, Notes
<1>4. CL_cancel \subseteq Early \cup Late
  BY SMTT(30), LegStateNames DEF CL_cancel, On, Kind, Messages, Requests, Responses, Notes
<1>5. CL_terminated \subseteq Early \cup Late
  BY SMTT(30), LegStateNames DEF CL_terminated, On, Kind, Messages, Requests, Responses, Notes
<1>6. r \in Early \cup Late
  BY <1>1, <1>2, <1>3, <1>4, <1>5, Table DEF Before
<1>7. r.in \notin {"INVITE", "INVITE 2xx", "BYE 2xx"}
  BY DEF AppCalls, Gets
<1>8. r \in Early
  BY <1>6, <1>7 DEF Kind
<1> QED BY <1>8 DEF Kind, Before, Gets

\* So does the callee's, and what it sends answers no INVITE with a 2xx.
LEMMA CalleeBefore ==
  ASSUME NEW l \in Before["callee"], NEW r \in Reactions[l],
         r.in \in (AppCalls \ {"accept"}) \cup Gets["callee"],
         r.in = "invite" => l # "initial"
  PROVE  r.to \in Before["callee"] /\ r.send \in Seq(Gets["caller"])
<1> DEFINE Early == Kind({"decline", "INVITE", "ACK", "CANCEL"},
                        {"initial", "proceed", "failed", "terminated"},
                        {"INVITE 1xx", "INVITE 3xx", "CANCEL 2xx"})
           Late == Kind({"accept", "INVITE 2xx", "INVITE 3xx"}, LegStates, Messages)
           Invite == Kind({"invite"}, LegStates, Messages)
<1>1. CL_initial \subseteq Early \cup Invite
  BY SMTT(30), LegStateNames DEF CL_initial, On, Kind, Messages, Requests, Responses, Notes
<1>2. CL_proceed \subseteq Early \cup Late
  BY SMTT(30), LegStateNames DEF CL_proceed, On, Kind, Messages, Requests, Responses, Notes
<1>3. CL_failed \subseteq Early \cup Late
  BY SMTT(30), LegStateNames DEF CL_failed, On, Kind, Messages, Requests, Responses, Notes
<1>4. CL_terminated \subseteq Early \cup Late
  BY SMTT(30), LegStateNames DEF CL_terminated, On, Kind, Messages, Requests, Responses, Notes
<1>5. r.in \notin {"accept", "INVITE 2xx", "INVITE 3xx"}
  BY DEF AppCalls, Gets
<1>6. CASE l = "initial"
  BY <1>1, <1>6, Table DEF Kind, Before, Gets
<1>7. CASE l # "initial"
  <2>1. r \in Early \cup Late
    BY <1>2, <1>3, <1>4, <1>7, Table DEF Before
  <2>2. r \in Early
    BY <1>5, <2>1 DEF Kind
  <2> QED BY <2>2 DEF Kind, Before, Gets
<1> QED BY <1>6, <1>7

\* The two lemmas, for the input of a call and for a message that is underway.
LEMMA BeforeStep ==
  ASSUME NEW s \in Sides, NEW l \in Before[s], NEW r \in Reactions[l],
         r.in \in AppCalls \cup Gets[s],
         s = "callee" => r.in # "accept" /\ (r.in = "invite" => l # "initial")
  PROVE  r.to \in Before[s] /\ r.send \in Seq(Gets[Peer(s)])
<1>1. CASE s = "caller"
  <2>1. Peer(s) = "callee"
    BY <1>1 DEF Peer
  <2> QED BY <1>1, <2>1, CallerBefore
<1>2. CASE s = "callee"
  <2>1. Peer(s) = "caller"
    BY <1>2 DEF Peer
  <2> QED BY <1>2, <2>1, CalleeBefore
<1> QED BY <1>1, <1>2 DEF Sides

LEMMA PeerSide == ASSUME NEW s \in Sides PROVE Peer(s) \in Sides /\ Peer(s) # s
  BY DEF Sides, Peer

-----------------------------------------------------------------------------
\* The steps.  What one thread has to do in a leg is replaced.
LEMMA Replaced ==
  ASSUME NEW S, NEW T, NEW f \in [S -> [Threads -> T]], NEW s \in S, NEW t \in Threads, NEW w \in T
  PROVE  [f EXCEPT ![s][t] = w] \in [S -> [Threads -> T]]
  OBVIOUS

LEMMA ReplaceTyped ==
  ASSUME TypeOK, NEW s \in Sides, NEW t \in Threads, NEW w \in Todo(LegStates, Messages),
         thread' = [thread EXCEPT ![s][t] = w]
  PROVE  thread' \in [Sides -> [Threads -> Todo(LegStates, Messages)]]
<1>1. thread \in [Sides -> [Threads -> Todo(LegStates, Messages)]]
  BY DEF TypeOK
<1> QED BY <1>1, Replaced

LEMMA ReplaceEarly ==
  ASSUME TypeOK, EarlyThreads, NEW s \in Sides, NEW t \in Threads,
         NEW w \in Todo(Before[s], Gets[Peer(s)]), thread' = [thread EXCEPT ![s][t] = w]
  PROVE  EarlyThreads'
<1> SUFFICES ASSUME NEW u \in Sides, NEW v \in Threads
             PROVE  thread'[u][v] \in Todo(Before[u], Gets[Peer(u)])
  BY DEF EarlyThreads
<1>1. thread[u][v] \in Todo(Before[u], Gets[Peer(u)])
  BY DEF EarlyThreads
<1>2. thread \in [Sides -> [Threads -> Todo(LegStates, Messages)]]
  BY DEF TypeOK
<1>3. thread'[u][v] = IF u = s /\ v = t THEN w ELSE thread[u][v]
  BY <1>2
<1> QED BY <1>1, <1>3

LEMMA TodoFields ==
  ASSUME NEW L, NEW M, NEW w \in Todo(L, M)
  PROVE  /\ w.to \in L /\ w.send \in Seq(M)
         /\ [w EXCEPT !.at = "assign", !.send = <<>>] \in Todo(L, M)
         /\ [w EXCEPT !.at = "assign", !.to = w.from, !.send = <<>>] \in Todo(L, M)
  BY EmptySend DEF Todo

LEMMA IdleEarly == ASSUME NEW s \in Sides PROVE Idle \in Todo(Before[s], Gets[Peer(s)])
<1>1. "initial" \in Before[s]
  BY DEF Sides, Before
<1> QED BY <1>1, EmptySend DEF Idle, Todo

\* A thread enters a leg with a reaction to its state.
LEMMA EnterStep ==
  ASSUME TypeOK, NEW s \in Sides, NEW t \in Threads, NEW r, Enter(s, t, r),
         r.to \in LegStates, r.send \in Seq(Messages)
  PROVE  /\ thread' \in [Sides -> [Threads -> Todo(LegStates, Messages)]]
         /\ /\ EarlyThreads /\ leg[s] \in Before[s]
            /\ r.to \in Before[s] /\ r.send \in Seq(Gets[Peer(s)])
            => EarlyThreads'
<1>1. PICK a \in {"send", "assign"} :
        thread' = [thread EXCEPT ![s][t] = [at |-> a, from |-> leg[s], to |-> r.to, send |-> r.send]]
  BY DEF Enter
<1>2. [at |-> a, from |-> leg[s], to |-> r.to, send |-> r.send] \in Todo(LegStates, Messages)
  BY DEF Todo, TypeOK
<1>3. ASSUME leg[s] \in Before[s], r.to \in Before[s], r.send \in Seq(Gets[Peer(s)])
      PROVE  [at |-> a, from |-> leg[s], to |-> r.to, send |-> r.send] \in Todo(Before[s], Gets[Peer(s)])
  BY <1>3 DEF Todo
<1>4. thread' \in [Sides -> [Threads -> Todo(LegStates, Messages)]]
  BY <1>1, <1>2, ReplaceTyped
<1> QED BY <1>1, <1>3, <1>4, ReplaceEarly

\* What a leg answers before the consent, to an input it lists or ignores.
LEMMA EarlyReaction ==
  ASSUME NEW s \in Sides, leg[s] \in Before[s], NEW in \in AppCalls \cup Gets[s],
         NEW r \in React(leg[s], in), ~Agrees(s, r)
  PROVE  r.to \in Before[s] /\ r.send \in Seq(Gets[Peer(s)])
<1>1. CASE r = On(in, leg[s], <<>>, "none")
  BY <1>1, EmptySend DEF On
<1>2. CASE r \in Reactions[leg[s]] /\ r.in = in
  <2>1. s = "callee" => r.in \notin {"accept", "invite"}
    BY <1>2 DEF Agrees
  <2> QED BY <1>2, <2>1, BeforeStep
<1> QED BY <1>1, <1>2 DEF React

LEMMA CallStep == ASSUME IInv, NEW s \in Sides, NEW t \in Threads, Call(s, t) PROVE IInv'
<1>0. PICK in \in AppInputs : \E r \in React(leg[s], in) :
        Enter(s, t, r) /\ accepted' = (accepted \/ Agrees(s, r))
  BY DEF Call
<1>1. PICK r \in React(leg[s], in) : Enter(s, t, r) /\ accepted' = (accepted \/ Agrees(s, r))
  BY <1>0
<1>2. leg[s] \in LegStates /\ UNCHANGED <<leg, net, known>>
  BY DEF IInv, TypeOK, Call
<1>3. r.to \in LegStates /\ r.send \in Seq(Messages)
  BY <1>2, ReactTyped
<1>4. accepted' \in BOOLEAN /\ (~accepted' => ~accepted /\ ~Agrees(s, r))
  BY <1>1, Zenon DEF IInv, TypeOK
<1>5. ~accepted' => r.to \in Before[s] /\ r.send \in Seq(Gets[Peer(s)])
  <2> SUFFICES ASSUME ~accepted' PROVE r.to \in Before[s] /\ r.send \in Seq(Gets[Peer(s)])
    OBVIOUS
  <2>1. leg[s] \in Before[s]
    BY <1>4 DEF IInv, Asking
  <2> QED BY <1>4, <2>1, EarlyReaction, Parameters
<1>6. /\ thread' \in [Sides -> [Threads -> Todo(LegStates, Messages)]]
      /\ ~accepted' => EarlyThreads'
  BY <1>1, <1>3, <1>4, <1>5, EnterStep DEF IInv, Asking
<1>7. TypeOK'
  BY <1>2, <1>4, <1>6 DEF IInv, TypeOK
<1>8. Asking'
  BY <1>2, <1>4, <1>6 DEF IInv, Asking
<1> QED BY <1>7, <1>8 DEF IInv

LEMMA DeliverStep == ASSUME IInv, NEW s \in Sides, NEW t \in Threads, Deliver(s, t) PROVE IInv'
<1>0. PICK i \in 1 .. Len(net[s]) : \E r \in React(leg[s], net[s][i]) :
        Enter(s, t, r) /\ net' = [net EXCEPT ![s] = Without(@, i)]
  BY DEF Deliver
<1>1. PICK r \in React(leg[s], net[s][i]) : Enter(s, t, r) /\ net' = [net EXCEPT ![s] = Without(@, i)]
  BY <1>0
<1>2. UNCHANGED <<leg, accepted>> /\ known' \in BOOLEAN
  BY DEF IInv, TypeOK, Deliver
<1>3. leg[s] \in LegStates /\ net[s] \in Seq(Messages)
  BY DEF IInv, TypeOK
<1>4. r.to \in LegStates /\ r.send \in Seq(Messages)
  BY <1>3, ReactTyped
<1>5. ~accepted => r.to \in Before[s] /\ r.send \in Seq(Gets[Peer(s)])
  <2> SUFFICES ASSUME ~accepted PROVE r.to \in Before[s] /\ r.send \in Seq(Gets[Peer(s)])
    OBVIOUS
  <2>1. leg[s] \in Before[s] /\ net[s][i] \in Gets[s]
    BY DEF IInv, Asking
  <2>2. net[s][i] \notin {"accept", "invite"}
    <3>1. Gets["caller"] \cap {"accept", "invite"} = {}
      BY DEF Gets
    <3>2. Gets["callee"] \cap {"accept", "invite"} = {}
      BY DEF Gets
    <3> QED BY <2>1, <3>1, <3>2 DEF Sides
  <2>3. r.in = net[s][i]
    BY DEF React, On
  <2>4. ~Agrees(s, r)
    BY <2>2, <2>3 DEF Agrees
  <2> QED BY <2>1, <2>4, EarlyReaction
<1>6. /\ thread' \in [Sides -> [Threads -> Todo(LegStates, Messages)]]
      /\ ~accepted => EarlyThreads'
  BY <1>1, <1>4, <1>5, EnterStep DEF IInv, Asking
<1>7. \A S : net[s] \in Seq(S) => Without(net[s], i) \in Seq(S)
  BY WithoutMessage
<1>8. TypeOK'
  BY <1>1, <1>2, <1>6, <1>7 DEF IInv, TypeOK
<1>9. Asking'
  BY <1>1, <1>2, <1>6, <1>7 DEF IInv, TypeOK, Asking
<1> QED BY <1>8, <1>9 DEF IInv

LEMMA SendStep == ASSUME IInv, NEW s \in Sides, NEW t \in Threads, Send(s, t) PROVE IInv'
<1>1. PICK w \in Todo(LegStates, Messages) : w = thread[s][t]
  BY DEF IInv, TypeOK
<1>2. /\ net' = [net EXCEPT ![Peer(s)] = @ \o w.send]
      /\ thread' = [thread EXCEPT ![s][t] = [w EXCEPT !.at = "assign", !.send = <<>>]]
      /\ UNCHANGED <<leg, known, accepted>>
  <2>1. thread \in [Sides -> [Threads -> Todo(LegStates, Messages)]]
    BY DEF IInv, TypeOK
  <2>2. [thread EXCEPT ![s][t].at = "assign", ![s][t].send = <<>>] =
          [thread EXCEPT ![s][t] = [w EXCEPT !.at = "assign", !.send = <<>>]]
    BY <1>1, <2>1
  <2> QED BY <1>1, <2>2 DEF Send
<1>3. \A S : net[Peer(s)] \in Seq(S) /\ w.send \in Seq(S) => net[Peer(s)] \o w.send \in Seq(S)
  BY ConcatProperties
<1>4. TypeOK'
  <2>1. net' \in [Sides -> Seq(Messages)]
    BY <1>1, <1>2, <1>3, PeerSide, TodoFields DEF IInv, TypeOK
  <2>2. thread' \in [Sides -> [Threads -> Todo(LegStates, Messages)]]
    BY <1>1, <1>2, TodoFields, ReplaceTyped DEF IInv, TypeOK
  <2> QED BY <1>2, <2>1, <2>2 DEF IInv, TypeOK
<1>5. ASSUME ~accepted PROVE Asking'
  <2>1. w \in Todo(Before[s], Gets[Peer(s)])
    BY <1>1, <1>5 DEF IInv, Asking, EarlyThreads
  <2>2. \A u \in Sides : leg[u] \in Before[u] /\ net[u] \in Seq(Gets[u])
    BY <1>5 DEF IInv, Asking
  <2>3. \A u \in Sides : net'[u] \in Seq(Gets[u])
    BY <1>2, <1>3, <2>1, <2>2, PeerSide, TodoFields DEF IInv, TypeOK
  <2>4. EarlyThreads'
    BY <1>2, <1>5, <2>1, TodoFields, ReplaceEarly DEF IInv, Asking
  <2> QED BY <1>2, <2>2, <2>3, <2>4 DEF Asking
<1>6. accepted => Asking'
  BY <1>2 DEF Asking
<1> QED BY <1>4, <1>5, <1>6 DEF IInv

LEMMA FailStep == ASSUME IInv, NEW s \in Sides, NEW t \in Threads, Fail(s, t) PROVE IInv'
<1>1. PICK w \in Todo(LegStates, Messages) : w = thread[s][t]
  BY DEF IInv, TypeOK
<1>0. PICK k \in 0 .. Len(w.send) - 1 : net' = [net EXCEPT ![Peer(s)] = @ \o SubSeq(w.send, 1, k)]
  BY <1>1 DEF Fail
<1>2. /\ net' = [net EXCEPT ![Peer(s)] = @ \o SubSeq(w.send, 1, k)]
      /\ thread' = [thread EXCEPT ![s][t] = [w EXCEPT !.at = "assign", !.to = w.from, !.send = <<>>]]
      /\ UNCHANGED <<leg, known, accepted>>
  <2>1. thread \in [Sides -> [Threads -> Todo(LegStates, Messages)]]
    BY DEF IInv, TypeOK
  <2>2. [thread EXCEPT ![s][t].at = "assign", ![s][t].to = thread[s][t].from, ![s][t].send = <<>>] =
          [thread EXCEPT ![s][t] = [w EXCEPT !.at = "assign", !.to = w.from, !.send = <<>>]]
    BY <1>1, <2>1
  <2> QED BY <1>0, <1>1, <2>2 DEF Fail
<1>3. \A S : net[Peer(s)] \in Seq(S) /\ w.send \in Seq(S) =>
        net[Peer(s)] \o SubSeq(w.send, 1, k) \in Seq(S)
  <2> SUFFICES ASSUME NEW S, net[Peer(s)] \in Seq(S), w.send \in Seq(S)
               PROVE  net[Peer(s)] \o SubSeq(w.send, 1, k) \in Seq(S)
    OBVIOUS
  <2>1. \A j \in 1 .. k : w.send[j] \in S
    OBVIOUS
  <2>2. SubSeq(w.send, 1, k) \in Seq(S)
    BY <2>1, SubSeqProperties
  <2> QED BY <2>2, ConcatProperties
<1>4. TypeOK'
  <2>1. net' \in [Sides -> Seq(Messages)]
    BY <1>1, <1>2, <1>3, PeerSide, TodoFields DEF IInv, TypeOK
  <2>2. thread' \in [Sides -> [Threads -> Todo(LegStates, Messages)]]
    BY <1>1, <1>2, TodoFields, ReplaceTyped DEF IInv, TypeOK
  <2> QED BY <1>2, <2>1, <2>2 DEF IInv, TypeOK
<1>5. ASSUME ~accepted PROVE Asking'
  <2>1. w \in Todo(Before[s], Gets[Peer(s)])
    BY <1>1, <1>5 DEF IInv, Asking, EarlyThreads
  <2>2. \A u \in Sides : leg[u] \in Before[u] /\ net[u] \in Seq(Gets[u])
    BY <1>5 DEF IInv, Asking
  <2>3. \A u \in Sides : net'[u] \in Seq(Gets[u])
    BY <1>2, <1>3, <2>1, <2>2, PeerSide, TodoFields DEF IInv, TypeOK
  <2>4. EarlyThreads'
    BY <1>2, <1>5, <2>1, TodoFields, ReplaceEarly DEF IInv, Asking
  <2> QED BY <1>2, <2>2, <2>3, <2>4 DEF Asking
<1>6. accepted => Asking'
  BY <1>2 DEF Asking
<1> QED BY <1>4, <1>5, <1>6 DEF IInv

LEMMA AssignStep == ASSUME IInv, NEW s \in Sides, NEW t \in Threads, Assign(s, t) PROVE IInv'
<1>1. PICK w \in Todo(LegStates, Messages) : w = thread[s][t]
  BY DEF IInv, TypeOK
<1>2. /\ leg' = [leg EXCEPT ![s] = w.to]
      /\ thread' = [thread EXCEPT ![s][t] = Idle]
      /\ UNCHANGED <<net, known, accepted>>
  BY <1>1 DEF Assign
<1>3. Idle \in Todo(LegStates, Messages)
  BY EmptySend, LegStateNames DEF Idle, Todo
<1>4. TypeOK'
  <2>1. thread' \in [Sides -> [Threads -> Todo(LegStates, Messages)]]
    BY <1>2, <1>3, ReplaceTyped DEF IInv, TypeOK
  <2>2. leg' \in [Sides -> LegStates]
    BY <1>1, <1>2, TodoFields DEF IInv, TypeOK
  <2> QED BY <1>2, <2>1, <2>2 DEF IInv, TypeOK
<1>5. ASSUME ~accepted PROVE Asking'
  <2>1. w \in Todo(Before[s], Gets[Peer(s)])
    BY <1>1, <1>5 DEF IInv, Asking, EarlyThreads
  <2>2. \A u \in Sides : leg[u] \in Before[u] /\ net[u] \in Seq(Gets[u])
    BY <1>5 DEF IInv, Asking
  <2>3. \A u \in Sides : leg'[u] \in Before[u]
    BY <1>2, <2>1, <2>2, TodoFields DEF IInv, TypeOK
  <2>4. EarlyThreads'
    BY <1>2, <1>5, IdleEarly, ReplaceEarly DEF IInv, Asking
  <2> QED BY <1>2, <2>2, <2>3, <2>4 DEF Asking
<1>6. accepted => Asking'
  BY <1>2 DEF Asking
<1> QED BY <1>4, <1>5, <1>6 DEF IInv

LEMMA LoseStep == ASSUME IInv, NEW s \in Sides, Lose(s) PROVE IInv'
<1>1. PICK i \in 1 .. Len(net[s]) :
        net' = [net EXCEPT ![s] = Without(@, i)] /\ UNCHANGED <<leg, thread, known, accepted>>
  BY DEF Lose
<1>2. \A S : net[s] \in Seq(S) => Without(net[s], i) \in Seq(S)
  BY WithoutMessage
<1>3. TypeOK'
  BY <1>1, <1>2 DEF IInv, TypeOK
<1>4. Asking'
  BY <1>1, <1>2 DEF IInv, TypeOK, Asking, EarlyThreads
<1> QED BY <1>3, <1>4 DEF IInv

LEMMA RepeatStep == ASSUME IInv, NEW s \in Sides, Repeat(s) PROVE IInv'
<1>1. PICK i \in 1 .. Len(net[s]) :
        net' = [net EXCEPT ![s] = Append(@, net[s][i])] /\ UNCHANGED <<leg, thread, known, accepted>>
  BY DEF Repeat
<1>2. \A S : net[s] \in Seq(S) => Append(net[s], net[s][i]) \in Seq(S)
  BY AppendProperties
<1>3. TypeOK'
  BY <1>1, <1>2 DEF IInv, TypeOK
<1>4. Asking'
  BY <1>1, <1>2 DEF IInv, TypeOK, Asking, EarlyThreads
<1> QED BY <1>3, <1>4 DEF IInv

LEMMA Start == Init => IInv
<1> SUFFICES ASSUME Init PROVE IInv
  OBVIOUS
<1>1. TypeOK
  <2>1. Idle \in Todo(LegStates, Messages)
    BY EmptySend, LegStateNames DEF Idle, Todo
  <2> QED BY <2>1, EmptySend, LegStateNames DEF Init, TypeOK
<1>2. Asking
  <2>1. EarlyThreads
    BY IdleEarly DEF Init, EarlyThreads
  <2> QED BY <2>1, EmptySend DEF Init, Asking, Before, Sides
<1> QED BY <1>1, <1>2 DEF IInv

LEMMA Step == IInv /\ [Next]_vars => IInv'
<1> SUFFICES ASSUME IInv, [Next]_vars PROVE IInv'
  OBVIOUS
<1>1. CASE Next
  BY <1>1, CallStep, DeliverStep, SendStep, FailStep, AssignStep, LoseStep, RepeatStep DEF Next, Work
<1>2. CASE UNCHANGED vars
  BY <1>2 DEF vars, IInv, TypeOK, Asking, EarlyThreads
<1> QED BY <1>1, <1>2

LEMMA Enough == IInv => TypeOK /\ Consent
<1> SUFFICES ASSUME IInv, ~accepted, NEW s \in Sides PROVE leg[s] \notin InDialog
  BY DEF IInv, Consent
<1>1. leg[s] \in Before[s]
  BY DEF IInv, Asking
<1> QED BY <1>1 DEF Before, Sides, InDialog

\* The legs stay in the states of the classes CL_* and exchange SIP messages
\* (CallLeg.java:274-330).
THEOREM LegsTyped == Spec => []TypeOK
<1>1. IInv => TypeOK
  BY Enough
<1> QED BY Start, Step, <1>1, PTL DEF Spec

\* No leg of either side is in the dialog unless the callee's application has
\* called accept (CL_proceed.accept), for any number of calls by the
\* applications and any loss, repetition and order of the messages.
THEOREM ConsentKept == Spec => []Consent
<1>1. IInv => Consent
  BY Enough
<1> QED BY Start, Step, <1>1, PTL DEF Spec
=============================================================================
