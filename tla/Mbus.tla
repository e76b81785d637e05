-------------------------------- MODULE Mbus --------------------------------
(***************************************************************************)
(* The mbus endpoint of RAT (common/src/mbus.c) as the engine uses it      *)
(* (rat/main_engine.c): one thread that queues commands, sends, receives,  *)
(* retransmits and beats.  Commands to one destination travel together; a  *)
(* reliable message blocks all later ones until it is acknowledged.        *)
(***************************************************************************)
EXTENDS MbusNet

CONSTANTS MBUS_MAX_QLEN, \* commands that fit into one message
          MaxIndex,      \* bound: commands queued in a behaviour
          MaxSeqnum      \* bound: messages made in a behaviour

VARIABLES cmd_queue,   \* messages waiting to be sent
          waiting_ack, \* the reliable message sent last, or None
          seqnum, index, index_sent,
          other_addr,  \* entities heard of
          phase,       \* "main": until the main loop is left; "closing": the last loop of
                       \* main(); "exiting": past it; "gone": exited; "aborted": ended by
                       \* the error handler
          should_exit, mbus_shutdown_error,
          receiving,   \* the datagram whose commands mbus_recv is about to handle: a set
                       \* of at most one
          handled_by_engine, \* history: sender and sequence number of the messages it handled
          unparsed,          \* history: those of messages with a command it could not parse
          asked              \* history: asked[i] is the destination and reliability of command i

mbusvars == <<cmd_queue, waiting_ack, seqnum, index, index_sent, other_addr, phase,
              should_exit, mbus_shutdown_error, receiving, handled_by_engine, unparsed, asked>>

\* What only mbus_recv changes.
reception == <<receiving, handled_by_engine, unparsed>>

All == "()"
Destinations == Peers \cup {All}

ASSUME EndpointParameters ==
  /\ MBUS_MAX_QLEN \in Nat \ {0} /\ MaxIndex \in Nat /\ MaxSeqnum \in Nat
  /\ All \notin Peers

MbusInit == /\ cmd_queue = <<>> /\ waiting_ack = None
            /\ seqnum = 0 /\ index = 0 /\ index_sent = 0
            /\ other_addr = {c_addr}
            /\ phase = "main" /\ should_exit = FALSE /\ mbus_shutdown_error = FALSE
            /\ receiving = {} /\ handled_by_engine = {} /\ unparsed = {} /\ asked = <<>>

Alive == phase \in {"main", "closing"}

\* The thread is not inside mbus_recv.
Free == receiving = {}

\* Whose message it is, and which.
Id(packet) == <<packet.from, packet.seq>>

Phases == {"main", "closing", "exiting", "gone", "aborted"}

-----------------------------------------------------------------------------
\* Only the last message of the queue can still be open for more commands.
Open(queue) == queue # <<>> /\ ~queue[Len(queue)].complete

\* Mutant: the array may overflow.
Joins_Unbounded(queue, dest) == Open(queue) /\ queue[Len(queue)].dest = dest

Joins(queue, dest) == /\ Open(queue)
                      /\ queue[Len(queue)].dest = dest
                      /\ Len(queue[Len(queue)].idx_list) < MBUS_MAX_QLEN

NewMessage(dest, reliable) ==
  [dest |-> dest, reliable |-> reliable, complete |-> FALSE, seqnum |-> seqnum + 1,
   idx_list |-> <<index + 1>>]

\* Mutant: reliability is lost when a command joins.
Extended_Downgrades(m, reliable) ==
  [dest |-> m.dest, reliable |-> reliable, complete |-> m.complete,
   seqnum |-> m.seqnum, idx_list |-> Append(m.idx_list, index + 1)]

\* A message with one more command: reliable if one of its commands is.
Extended(m, reliable) ==
  [dest |-> m.dest, reliable |-> m.reliable \/ reliable, complete |-> m.complete,
   seqnum |-> m.seqnum, idx_list |-> Append(m.idx_list, index + 1)]

Closed(m) == [m EXCEPT !.complete = TRUE]

\* Mutant: the message before a new one stays open.
Queued_LeavesOpen(queue, dest, reliable) ==
  IF Joins(queue, dest)
    THEN [queue EXCEPT ![Len(queue)] = Extended(@, reliable)]
    ELSE Append(queue, NewMessage(dest, reliable))

\* The queue after mbus_qmsg: the command joins the open message to the same
\* destination, or closes it and starts another one.
Queued(queue, dest, reliable) ==
  IF Joins(queue, dest)
    THEN [queue EXCEPT ![Len(queue)] = Extended(@, reliable)]
    ELSE Append(IF Open(queue) THEN [queue EXCEPT ![Len(queue)] = Closed(@)] ELSE queue,
                NewMessage(dest, reliable))

Recipients(dest) == IF dest = All THEN Peers ELSE {dest}

Datagrams(m) == {Packet("commands", Engine, p, m.seqnum, m.reliable, m.idx_list) :
                   p \in Recipients(m.dest)}

\* Mutant: mbus_send does not look whether an acknowledgement is awaited.
Batch_Hasty(q, b) == /\ \A i \in 1 .. b - 1 : ~q[i].reliable
                     /\ b = Len(q) \/ (b > 0 /\ q[b].reliable)

\* A call of mbus_send reaches the first b messages of the queue q: none while
\* an acknowledgement is awaited, else all up to the first reliable one.
Batch(q, b) == IF waiting_ack # None THEN b = 0
               ELSE /\ \A i \in 1 .. b - 1 : ~q[i].reliable
                    /\ b = Len(q) \/ (b > 0 /\ q[b].reliable)

\* A reliable message to an unknown destination calls the engine's error handler,
\* which aborts unless the engine is shutting down.
Fails(q, b) == b > 0 /\ q[b].reliable /\ q[b].dest \notin other_addr

Aborts(q, b) == Fails(q, b) /\ ~should_exit

Sent(q, b) == IF Aborts(q, b) THEN b - 1 ELSE b

Transmit(q, b) ==
  LET n == Sent(q, b) IN
  /\ net' = net \cup UNION {Datagrams(q[i]) : i \in 1 .. n}
  /\ index_sent' = IF n = 0 THEN index_sent ELSE q[n].idx_list[Len(q[n].idx_list)]
  /\ mbus_shutdown_error' = (mbus_shutdown_error \/ (Fails(q, b) /\ should_exit))

Remaining(q, b) == SubSeq(q, Sent(q, b) + 1, Len(q))

Awaited(q, b) == IF Sent(q, b) > 0 /\ q[Sent(q, b)].reliable THEN q[Sent(q, b)] ELSE waiting_ack

\* What mbus_qmsg does to the counters, and the history of what was asked.
Count(queue, dest, reliable) ==
  /\ index' = index + 1
  /\ seqnum' = IF Joins(queue, dest) THEN seqnum ELSE seqnum + 1
  /\ asked' = Append(asked, [dest |-> dest, reliable |-> reliable])

-----------------------------------------------------------------------------
\* The engine queues a command; only commands to one entity are reliable.
Qmsg ==
  /\ Alive /\ index < MaxIndex
  /\ \E dest \in Destinations, reliable \in BOOLEAN :
       /\ reliable => dest # All
       /\ cmd_queue' = Queued(cmd_queue, dest, reliable)
       /\ Count(cmd_queue, dest, reliable)
  /\ UNCHANGED <<net, waiting_ack, index_sent, other_addr, phase, should_exit,
                 mbus_shutdown_error, reception>>

Send ==
  /\ Alive /\ Free
  /\ \E b \in 1 .. Len(cmd_queue) :
       /\ Batch(cmd_queue, b)
       /\ Transmit(cmd_queue, b)
       /\ cmd_queue' = Remaining(cmd_queue, b)
       /\ waiting_ack' = Awaited(cmd_queue, b)
       /\ phase' = IF Aborts(cmd_queue, b) THEN "aborted" ELSE phase
  /\ UNCHANGED <<seqnum, index, other_addr, should_exit, reception, asked>>

\* Mutant: any acknowledgement releases the message that waits.
Acknowledges_Any(packet) == waiting_ack # None /\ packet.kind = "ack"

Acknowledges(packet) ==
  /\ waiting_ack # None
  /\ packet.kind = "ack" /\ packet.body = waiting_ack.seqnum

\* mbus_recv, up to the commands: remember the source, take the acknowledgement, and
\* acknowledge a reliable message, whatever becomes of its commands.  A hello changes no
\* more than its source did.
Recv ==
  /\ Alive /\ Free
  /\ \E packet \in net \cup Unasked :
       /\ packet.to = Engine
       /\ packet.reliable => seqnum < MaxSeqnum
       /\ waiting_ack' = IF Acknowledges(packet) THEN None ELSE waiting_ack
       /\ other_addr' = other_addr \cup {packet.from}
       /\ seqnum' = IF packet.reliable THEN seqnum + 1 ELSE seqnum
       /\ net' = IF packet.reliable
                   THEN net \cup {Packet("ack", Engine, packet.from, 0, FALSE, packet.seq)}
                   ELSE net
       /\ receiving' = IF packet.kind \in {"ack", "hello"} THEN {} ELSE {packet}
  /\ UNCHANGED <<cmd_queue, index, index_sent, phase, should_exit, mbus_shutdown_error,
                 handled_by_engine, unparsed, asked>>

\* The rest of mbus_recv: the commands are handled, repeated ones again.  What handlers
\* queue is Qmsg, which may come before.  A message repeated parses as it did before.
Handle ==
  /\ Alive
  /\ \E packet \in receiving :
       /\ packet.kind = "commands" => Id(packet) \notin unparsed
       /\ other_addr' = IF packet.kind = "bye" THEN other_addr \ {packet.from} ELSE other_addr
       /\ should_exit' = (should_exit \/ packet.kind = "quit")
       /\ handled_by_engine' = IF packet.kind = "commands"
                                 THEN handled_by_engine \cup {Id(packet)} ELSE handled_by_engine
  /\ receiving' = {}
  /\ UNCHANGED <<net, cmd_queue, waiting_ack, seqnum, index, index_sent, phase,
                 mbus_shutdown_error, unparsed, asked>>

\* A command that does not parse: it and those behind it are dropped.
DropCommands ==
  /\ Alive
  /\ \E packet \in receiving :
       /\ packet.kind = "commands" /\ Id(packet) \notin handled_by_engine
       /\ unparsed' = unparsed \cup {Id(packet)}
  /\ receiving' = {}
  /\ UNCHANGED <<net, cmd_queue, waiting_ack, seqnum, index, index_sent, other_addr, phase,
                 should_exit, mbus_shutdown_error, handled_by_engine, asked>>

\* mbus_retransmit.  Its three repetitions put nothing on the bus that net does
\* not hold; what is left is the end: after ten seconds the error handler is
\* called and the message dropped.  The last loop of main() does not call it.
GiveUp ==
  /\ Free /\ phase = "main" /\ waiting_ack # None
  /\ phase' = IF should_exit THEN phase ELSE "aborted"
  /\ mbus_shutdown_error' = (mbus_shutdown_error \/ should_exit)
  /\ waiting_ack' = None
  /\ UNCHANGED <<net, cmd_queue, seqnum, index, index_sent, other_addr, should_exit,
                 reception, asked>>

\* A hello of its own takes a sequence number; entities not heard of for five
\* seconds are forgotten.
Heartbeat ==
  /\ Free /\ phase = "main" /\ seqnum < MaxSeqnum
  /\ seqnum' = seqnum + 1
  /\ \E silent \in SUBSET other_addr : other_addr' = other_addr \ silent
  /\ UNCHANGED <<net, cmd_queue, waiting_ack, index, index_sent, phase, should_exit,
                 mbus_shutdown_error, reception, asked>>

ControllerGone ==
  /\ Free /\ phase = "main" /\ c_addr \notin other_addr /\ ~should_exit
  /\ should_exit' = TRUE
  /\ UNCHANGED <<net, cmd_queue, waiting_ack, seqnum, index, index_sent, other_addr, phase,
                 mbus_shutdown_error, reception, asked>>

\* main() leaves its loop, says bye, and goes on sending if the controller is there.
LeaveLoop ==
  /\ Free /\ phase = "main" /\ should_exit
  /\ LET q == Queued(cmd_queue, All, FALSE) IN
       \E b \in 0 .. Len(q) : /\ Batch(q, b) /\ Transmit(q, b)
                              /\ cmd_queue' = Remaining(q, b)
                              /\ waiting_ack' = Awaited(q, b)
  /\ Count(cmd_queue, All, FALSE)
  /\ phase' = IF c_addr \in other_addr THEN "closing" ELSE "exiting"
  /\ UNCHANGED <<other_addr, should_exit, reception>>

\* mbus_sent_all, or an error of a message.
LastLoopDone == \/ cmd_queue = <<>> /\ waiting_ack = None
                \/ mbus_shutdown_error

\* mbus_exit says bye again, unless an acknowledgement is awaited, and drops what is left.
Exit ==
  /\ Free
  /\ phase = "exiting" \/ (phase = "closing" /\ LastLoopDone)
  /\ LET q == Queued(cmd_queue, All, FALSE) IN
       \E b \in 0 .. Len(q) : Batch(q, b) /\ Transmit(q, b)
  /\ Count(cmd_queue, All, FALSE)
  /\ cmd_queue' = <<>> /\ waiting_ack' = None /\ phase' = "gone"
  /\ UNCHANGED <<other_addr, should_exit, reception>>

EngineNext == \/ Qmsg \/ Send \/ Recv \/ Handle \/ DropCommands \/ GiveUp \/ Heartbeat
              \/ ControllerGone \/ LeaveLoop \/ Exit

\* The engine's thread goes on: mbus_recv handles what it took and returns, so that the
\* loop comes to its other calls again and again; and ten seconds pass.
EngineFairness == /\ WF_mbusvars(Handle \/ DropCommands)
                  /\ SF_mbusvars(Send \/ GiveUp \/ LeaveLoop \/ Exit)
=============================================================================
