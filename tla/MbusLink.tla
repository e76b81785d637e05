------------------------------ MODULE MbusLink ------------------------------
(* The engine's endpoint and the telephone's endpoints on one bus. *)
EXTENDS Mbus, MbusTransport

vars == <<net, mbusvars, jvars>>

Init == NetInit /\ MbusInit /\ JInit

Next == \/ EngineNext /\ UNCHANGED jvars
        \/ PeersNext /\ UNCHANGED mbusvars

Spec == Init /\ [][Next]_vars /\ EngineFairness /\ PeersFairness
-----------------------------------------------------------------------------
Message == [dest : Destinations, reliable : BOOLEAN, complete : BOOLEAN, seqnum : Nat \ {0},
            idx_list : Seq(Nat \ {0})]

ASSUME NoMessage == None \notin Message

\* The fields of struct mbus and the sets of the transport layer; the arrays of a
\* message hold its commands.
TypeOK ==
  /\ cmd_queue \in Seq(Message)
  /\ \A n \in 1 .. Len(cmd_queue) : Len(cmd_queue[n].idx_list) \in 1 .. MBUS_MAX_QLEN
  /\ \A packet \in net : packet.kind = "commands" => Len(packet.body) <= MBUS_MAX_QLEN
  /\ waiting_ack \in Message \cup {None}
  /\ seqnum \in Nat /\ index \in Nat /\ index_sent \in Nat
  /\ other_addr \subseteq Peers /\ phase \in Phases
  /\ should_exit \in BOOLEAN /\ mbus_shutdown_error \in BOOLEAN
  /\ \A packet \in receiving : packet.from \in Peers /\ packet.seq \in Nat
  /\ handled_by_engine \subseteq Peers \X Nat /\ unparsed \subseteq Peers \X Nat
  /\ asked \in Seq([dest : Destinations, reliable : BOOLEAN])
  /\ AckQueue \subseteq Messages
  /\ succeeded \subseteq Messages /\ failed \subseteq Messages

\* The last command of the first n messages of a queue, after those sent before.
EndOf(queue, sent, n) == IF n = 0 THEN sent ELSE queue[n].idx_list[Len(queue[n].idx_list)]

InOrder(queue, sent, last) ==
  /\ EndOf(queue, sent, Len(queue)) = last
  /\ \A n \in 1 .. Len(queue) :
       /\ n < Len(queue) => queue[n].complete
       /\ \A k \in 1 .. Len(queue[n].idx_list) :
            queue[n].idx_list[k] = EndOf(queue, sent, n - 1) + k

\* The commands of the queue, one message after the other, are exactly those not
\* sent yet, in the order they were asked for, and only the last message is open
\* (the assertions of mbus_send: mbus.c:594, 616).
QueueInOrder == phase # "gone" => InOrder(cmd_queue, index_sent, index)

For(p, i) == asked[i].dest = p /\ asked[i].reliable

\* An entity that handles a reliable command has handled every earlier one
\* addressed to it, and for the first time before, whatever the network loses,
\* repeats and reorders, unless a message failed while the engine shut down.
ReliableInOrder ==
  \A p \in Peers : \A k \in 1 .. Len(handled[p]) :
    For(p, handled[p][k]) =>
      \A i \in 1 .. handled[p][k] - 1 :
        For(p, i) => (\E l \in 1 .. k - 1 : handled[p][l] = i) \/ mbus_shutdown_error

\* A reliable message is released by an acknowledgement only if the entity it
\* was sent to has it; else the error handler was called or the engine exits.
ReleasedWhenGot ==
  [][waiting_ack # None /\ waiting_ack' = None =>
       \/ waiting_ack.seqnum \in got[waiting_ack.dest]
       \/ phase' \in {"aborted", "gone"} \/ mbus_shutdown_error']_vars

\* What the engine acknowledges: the messages it has handled, those with a command it
\* could not parse, and the one it is about to handle.
Taken == handled_by_engine \cup unparsed
           \cup {Id(packet) : packet \in {k \in receiving : k.kind = "commands"}}

\* The telephone is told of success only for a message that the engine took from the
\* bus; not that it is handled already, since it is acknowledged first (mbus.c:902),
\* nor that its commands could be parsed (mbus.c:927).
SuccessMeansAccepted == \A m \in succeeded : m \in Taken

\* A reliable command is handled where it was sent to, or the engine finds out
\* that it was not, or the engine is shutting down.
Handled(p, i) == \E k \in 1 .. Len(handled[p]) : handled[p][k] = i

Settled ==
  \A p \in Peers, i \in 1 .. MaxIndex :
    (i \in DOMAIN asked /\ For(p, i))
      ~> Handled(p, i) \/ phase # "main" \/ mbus_shutdown_error

\* Every reliable message of the telephone is reported one way or the other.
Reported == \A m \in Messages : (rt[m].at # "none") ~> (m \in succeeded \cup failed)

-----------------------------------------------------------------------------
\* main_engine.c:475 "At this stage we no longer care about acks for messages":
\* the last loop of main() ends.
LastLoopEnds == (phase = "closing") ~> (phase # "closing")
=============================================================================
