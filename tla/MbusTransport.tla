---------------------------- MODULE MbusTransport ----------------------------
(***************************************************************************)
(* The telephone's mbus endpoints: org.mbus.SimpleTransportLayer with its  *)
(* threads Receiver, Announcer and, one for each reliable message,         *)
(* Retransmitter.  The receiver and the retransmitters share AckQueue      *)
(* without a common lock; each access of it is a step.                     *)
(***************************************************************************)
EXTENDS MbusNet

CONSTANTS retries,  \* MBusConfiguration: repetitions of a reliable message
          Messages  \* bound: <<sender, sequence number>> of the reliable messages

VARIABLES rx,         \* rx[p]: the datagram in the receiver's hands, and its next step
          AckQueue,   \* messages sent reliably and not settled
          rt,         \* rt[m]: the Retransmitter of a message
          handled,    \* history: handled[p], the commands of the reliable messages it was
                      \* told of, in the order of their first delivery to the listener
          got,        \* history: got[p], the numbers of the reliable messages it accepted
          succeeded, failed  \* messages reported to the listener

jvars == <<rx, AckQueue, rt, handled, got, succeeded, failed>>

ASSUME TransportParameters == retries \in Nat \ {0} /\ Messages \subseteq Peers \X (Nat \ {0})

Idle == [at |-> "idle", packet |-> None]

JInit == /\ rx = [p \in Peers |-> Idle]
         /\ AckQueue = {}
         /\ rt = [m \in Messages |-> [at |-> "none", n |-> 0, stop |-> FALSE]]
         /\ handled = [p \in Peers |-> <<>>]
         /\ got = [p \in Peers |-> {}]
         /\ succeeded = {} /\ failed = {}

Datagram(m) == Packet("commands", m[1], Engine, m[2], TRUE, <<>>)

-----------------------------------------------------------------------------
\* send(): note the message, send it; then start the thread that repeats it.
SendReliably(m) ==
  /\ rt[m].at = "none"
  /\ AckQueue' = AckQueue \cup {m}
  /\ net' = net \cup {Datagram(m)}
  /\ rt' = [rt EXCEPT ![m].at = "start"]
  /\ UNCHANGED <<rx, handled, got, succeeded, failed>>

StartThread(m) ==
  /\ rt[m].at = "start"
  /\ rt' = [rt EXCEPT ![m].at = IF rt[m].stop THEN "end" ELSE "sleep"]
  /\ UNCHANGED <<net, rx, AckQueue, handled, got, succeeded, failed>>

\* Mutant: the thread ends without a report when its repetitions are used up.
Repeat_NoReport(m) ==
  /\ rt[m].at = "sleep"
  /\ IF rt[m].stop
       THEN rt' = [rt EXCEPT ![m].at = "end"] /\ UNCHANGED net
       ELSE /\ net' = net \cup {Datagram(m)}
            /\ rt' = [rt EXCEPT ![m].n = @ + 1,
                                ![m].at = IF rt[m].n + 1 = retries THEN "end" ELSE @]
  /\ UNCHANGED <<rx, AckQueue, handled, got, succeeded, failed>>

\* Retransmitter.run: sleep, look at stop, send again.  After the last
\* repetition the failure is reported without a further look or sleep.
Repeat(m) ==
  /\ rt[m].at = "sleep"
  /\ IF rt[m].stop
       THEN rt' = [rt EXCEPT ![m].at = "end"] /\ UNCHANGED net
       ELSE /\ net' = net \cup {Datagram(m)}
            /\ rt' = [rt EXCEPT ![m].n = @ + 1,
                                ![m].at = IF rt[m].n + 1 = retries THEN "failing" ELSE @]
  /\ UNCHANGED <<rx, AckQueue, handled, got, succeeded, failed>>

\* Mutant: the message leaves the queue as one delivered.
DeliveryFailed_Success(m) ==
  /\ rt[m].at = "failing"
  /\ AckQueue' = AckQueue \ {m}
  /\ succeeded' = IF m \in AckQueue THEN succeeded \cup {m} ELSE succeeded
  /\ failed' = failed \cup {m}
  /\ rt' = [rt EXCEPT ![m].at = "end", ![m].stop = TRUE]
  /\ UNCHANGED <<net, rx, handled, got>>

\* deliveryFailed: whether or not the message is still in the queue.
DeliveryFailed(m) ==
  /\ rt[m].at = "failing"
  /\ AckQueue' = AckQueue \ {m}
  /\ failed' = failed \cup {m}
  /\ rt' = [rt EXCEPT ![m].at = "end", ![m].stop = TRUE]
  /\ UNCHANGED <<net, rx, handled, got, succeeded>>

-----------------------------------------------------------------------------
\* Receiver.run takes a datagram addressed to it.  A reliable message is
\* acknowledged before the listener sees it.
Arrive(p) ==
  /\ rx[p] = Idle
  /\ \E packet \in net :
       /\ packet.to = p
       /\ net' = IF packet.reliable
                   THEN net \cup {Packet("ack", p, Engine, 0, FALSE, packet.seq)} ELSE net
       /\ CASE packet.kind = "commands" ->
                 /\ rx' = [rx EXCEPT ![p] = [at |-> "deliver", packet |-> packet]]
                 /\ got' = IF packet.reliable THEN [got EXCEPT ![p] = @ \cup {packet.seq}]
                                             ELSE got
            [] packet.kind = "ack" ->
                 /\ rx' = [rx EXCEPT ![p] = IF <<p, packet.body>> \in AckQueue
                                              THEN [at |-> "halt", packet |-> packet] ELSE Idle]
                 /\ UNCHANGED got
  /\ UNCHANGED <<AckQueue, rt, handled, succeeded, failed>>

\* removeACKs gets the Retransmitter and halts it; if the retransmitter has
\* removed itself meanwhile, the exception is caught and nothing is reported.
Halt(p) ==
  /\ rx[p].at = "halt"
  /\ LET m == <<p, rx[p].packet.body>> IN
     IF m \in AckQueue
       THEN /\ rt' = [rt EXCEPT ![m].stop = TRUE]
            /\ rx' = [rx EXCEPT ![p].at = "report"]
       ELSE rx' = [rx EXCEPT ![p] = Idle] /\ UNCHANGED rt
  /\ UNCHANGED <<net, AckQueue, handled, got, succeeded, failed>>

DeliverySuccessful(p) ==
  /\ rx[p].at = "report"
  /\ LET m == <<p, rx[p].packet.body>> IN
       AckQueue' = AckQueue \ {m} /\ succeeded' = succeeded \cup {m}
  /\ rx' = [rx EXCEPT ![p] = Idle]
  /\ UNCHANGED <<net, rt, handled, got, failed>>

Tells(list, done) == \E i \in 1 .. Len(list) : \A k \in 1 .. Len(done) : done[k] # list[i]

\* The listener handles the commands, repeated ones again; history keeps the
\* deliveries that tell it of a command it had not handled before.
Deliver(p) ==
  /\ rx[p].at = "deliver"
  /\ handled' = IF rx[p].packet.reliable /\ Tells(rx[p].packet.body, handled[p])
                  THEN [handled EXCEPT ![p] = @ \o rx[p].packet.body] ELSE handled
  /\ rx' = [rx EXCEPT ![p] = Idle]
  /\ UNCHANGED <<net, AckQueue, rt, got, succeeded, failed>>

RetransmitterNext(m) == StartThread(m) \/ Repeat(m) \/ DeliveryFailed(m)

ReceiverNext(p) == Arrive(p) \/ Halt(p) \/ DeliverySuccessful(p) \/ Deliver(p)

PeersNext == \/ \E m \in Messages : SendReliably(m) \/ RetransmitterNext(m)
             \/ \E p \in Peers : ReceiverNext(p)

\* Threads run on and sleeps end; the network need not deliver anything.
PeersFairness ==
  /\ \A m \in Messages : WF_jvars(RetransmitterNext(m))
  /\ \A p \in Peers : WF_jvars(Halt(p) \/ DeliverySuccessful(p) \/ Deliver(p))
=============================================================================
