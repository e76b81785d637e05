------------------------------- MODULE Dialog -------------------------------
(***************************************************************************)
(* Two bonephones in one SIP dialog: the call legs of caller and callee    *)
(* (CallLeg), the messages between them, and the applications that call    *)
(* invite, hangup, accept and decline.  CallManager routes a message to    *)
(* the leg of its Call-ID and makes one for a first INVITE.  The network   *)
(* may lose, repeat and reorder messages (UDP); neither side sees a loop   *)
(* or a URL that is not its own.                                           *)
(*                                                                         *)
(* Nothing synchronises a leg: the stack runs a thread for each datagram   *)
(* (UDPMessageChannel), the application has its own.  Each of them reads   *)
(* currentState, sends what the class answers, and then assigns the state  *)
(* it returns, and these are three steps.  Where sending fails the class    *)
(* returns the state that was read.                                        *)
(***************************************************************************)
EXTENDS CallLeg, Naturals

CONSTANTS Threads,    \* bound: threads at a time in a leg; one thread: no races
          Reorder,    \* TRUE: messages overtake each other
          Patient,    \* TRUE: applications act only when nothing is underway
          AppInputs,  \* the calls the applications make
          MaxCalls,   \* bound: calls by the applications
          MaxFaults   \* bound: messages lost, repeated or not sent

ASSUME Parameters == /\ Reorder \in BOOLEAN /\ Patient \in BOOLEAN
                     /\ AppInputs \subseteq AppCalls
                     /\ MaxCalls \in Nat /\ MaxFaults \in Nat

VARIABLES leg,       \* leg[s]: currentState of the leg of side s
          thread,    \* thread[s][t]: what thread t has still to do in the leg of s
          net,       \* net[s]: the messages on their way to side s
          known,     \* the callee has a leg, and its application was told
          accepted,  \* the callee's application has accepted the call
          calls, faults

vars == <<leg, thread, net, known, accepted, calls, faults>>

Sides == {"caller", "callee"}
Peer(s) == IF s = "caller" THEN "callee" ELSE "caller"

\* What a thread can have to do: it read a state of L and leaves the leg in one
\* after sending messages of M.
Todo(L, M) == [at : {"idle", "send", "assign"}, from : L, to : L, send : Seq(M)]

Idle == [at |-> "idle", from |-> "initial", to |-> "initial", send |-> <<>>]

Init == /\ leg = [s \in Sides |-> "initial"]
        /\ thread = [s \in Sides |-> [t \in Threads |-> Idle]]
        /\ net = [s \in Sides |-> <<>>]
        /\ known = FALSE /\ accepted = FALSE
        /\ calls = 0 /\ faults = 0

Silent == \A s \in Sides : net[s] = <<>> /\ \A t \in Threads : thread[s][t] = Idle

\* currentState = currentState.in(this), up to what the class sends: the state
\* was read, and the reaction r to it is underway.
Enter(s, t, r) ==
  /\ thread[s][t] = Idle
  /\ thread' = [thread EXCEPT ![s][t] = [at |-> IF r.send = <<>> THEN "assign" ELSE "send",
                                         from |-> leg[s], to |-> r.to, send |-> r.send]]

\* What the callee's application does to be in the dialog: it accepts a call
\* that rings, or makes use of the leg to call back.
Agrees(s, r) == s = "callee" /\ r.in \in {"accept", "invite"} /\ r \in Reactions[leg[s]]

\* An application calls the CallProvider; the callee's has no leg before the
\* listener is told of the first INVITE.
Call(s, t) ==
  /\ calls < MaxCalls /\ calls' = calls + 1
  /\ Patient => Silent
  /\ s = "callee" => known
  /\ \E in \in AppInputs : \E r \in React(leg[s], in) :
       Enter(s, t, r) /\ accepted' = (accepted \/ Agrees(s, r))
  /\ UNCHANGED <<leg, net, known, faults>>

Without(q, i) == SubSeq(q, 1, i - 1) \o SubSeq(q, i + 1, Len(q))

\* The stack hands a message to the leg in a thread of its own.  The first INVITE
\* makes the callee's leg.
Deliver(s, t) ==
  \E i \in 1 .. Len(net[s]) :
    /\ Reorder \/ i = 1
    /\ net' = [net EXCEPT ![s] = Without(@, i)]
    /\ known' = (known \/ (s = "callee" /\ net[s][i] = "INVITE"))
    /\ \E r \in React(leg[s], net[s][i]) :
         /\ r.in = "INVITE" => r.send # <<"INVITE 3xx">>
         /\ Enter(s, t, r)
    /\ UNCHANGED <<leg, accepted, calls, faults>>

Send(s, t) ==
  /\ thread[s][t].at = "send"
  /\ net' = [net EXCEPT ![Peer(s)] = @ \o thread[s][t].send]
  /\ thread' = [thread EXCEPT ![s][t].at = "assign", ![s][t].send = <<>>]
  /\ UNCHANGED <<leg, known, accepted, calls, faults>>

\* A SipException before the last message is sent: the class returns
\* this.getState().
Fail(s, t) ==
  /\ thread[s][t].at = "send"
  /\ faults < MaxFaults /\ faults' = faults + 1
  /\ \E k \in 0 .. Len(thread[s][t].send) - 1 :
       net' = [net EXCEPT ![Peer(s)] = @ \o SubSeq(thread[s][t].send, 1, k)]
  /\ thread' = [thread EXCEPT ![s][t].at = "assign", ![s][t].to = thread[s][t].from,
                              ![s][t].send = <<>>]
  /\ UNCHANGED <<leg, known, accepted, calls>>

\* The state that was returned replaces whatever currentState has become.
Assign(s, t) ==
  /\ thread[s][t].at = "assign"
  /\ leg' = [leg EXCEPT ![s] = thread[s][t].to]
  /\ thread' = [thread EXCEPT ![s][t] = Idle]
  /\ UNCHANGED <<net, known, accepted, calls, faults>>

Lose(s) ==
  \E i \in 1 .. Len(net[s]) :
    /\ faults < MaxFaults /\ faults' = faults + 1
    /\ net' = [net EXCEPT ![s] = Without(@, i)]
    /\ UNCHANGED <<leg, thread, known, accepted, calls>>

\* A repeated INVITE or BYE belongs to a transaction that has its listener: it
\* goes to processRequest, which does nothing (SipStackListener.java:141-163).
Repeat(s) ==
  \E i \in 1 .. Len(net[s]) :
    /\ net[s][i] \notin {"INVITE", "BYE"}
    /\ faults < MaxFaults /\ faults' = faults + 1
    /\ net' = [net EXCEPT ![s] = Append(@, net[s][i])]
    /\ UNCHANGED <<leg, thread, known, accepted, calls>>

Work(s, t) == Deliver(s, t) \/ Send(s, t) \/ Assign(s, t)

Next == \/ \E s \in Sides, t \in Threads : Call(s, t) \/ Work(s, t) \/ Fail(s, t)
        \/ \E s \in Sides : Lose(s) \/ Repeat(s)

\* Messages underway are delivered in the end, and threads go on; nothing makes
\* an application act.
Spec == Init /\ [][Next]_vars /\ \A s \in Sides, t \in Threads : WF_vars(Work(s, t))
-----------------------------------------------------------------------------
InDialog == {"success", "established", "modify", "modify_proceed", "recall_proceed", "bye"}
Over == {"failed", "terminated"}

\* The state of a leg is one of the classes CL_*, and what is underway are
\* messages.
TypeOK == /\ leg \in [Sides -> LegStates]
          /\ thread \in [Sides -> [Threads -> Todo(LegStates, Messages)]]
          /\ net \in [Sides -> Seq(Messages)]
          /\ known \in BOOLEAN /\ accepted \in BOOLEAN

\* Neither side is in the dialog unless the callee's application agreed to it,
\* whatever is lost, repeated, overtaken or not sent, and although threads overwrite each
\* other's currentState (CallLeg.java:274-330, CL_initial.java:123).
Consent == (\E s \in Sides : leg[s] \in InDialog) => accepted

\* API.txt:9-10 "HangUp(CC) // bestehenden Call abbrechen bzw. im Aufbau
\* befindlichen Call abbrechen (wrong codec, etc.)": when the caller's leg has
\* ended and nothing is underway any more, the callee's leg has ended as well or
\* was never made.
OneEnds == Silent /\ leg["caller"] \in Over => leg["callee"] \in Over \cup {"initial"}

\* A leg that has ended stays so, as its classes have it.  Two threads in one leg
\* break this: one returns to the state it came from after the other has ended it.
EndedStays == [][\A s \in Sides : leg[s] \in Over => leg'[s] \in Over]_vars
=============================================================================
