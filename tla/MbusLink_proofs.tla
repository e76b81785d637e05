--------------------------- MODULE MbusLink_proofs ---------------------------
(* Theorems about MbusLink, for any addresses, queue length, bounds and    *)
(* losses: what an acknowledgement says of the receiver, first, and that   *)
(* reliable commands are handled in the order they were sent, last.        *)
EXTENDS MbusLink, SequenceTheorems, TLAPS

USE BusParameters, EndpointParameters, TransportParameters, NoMessage

-----------------------------------------------------------------------------
(* Queues of messages. *)

Fits(queue) == \A n \in 1 .. Len(queue) : Len(queue[n].idx_list) \in 1 .. MBUS_MAX_QLEN

\* Reliable messages have one receiver; the numbers of messages grow up to last.
Numbered(queue, last) ==
  \A n \in 1 .. Len(queue) :
    /\ queue[n].reliable => queue[n].dest \in Peers
    /\ queue[n].seqnum <= last
    /\ \A m \in 1 .. n - 1 : queue[m].seqnum < queue[n].seqnum

Below(x, queue) == \A n \in 1 .. Len(queue) : x < queue[n].seqnum

\* What the two ways to change a message of the queue keep.
LEMMA ExtendedOK ==
  ASSUME NEW m \in Message, NEW reliable \in BOOLEAN, index \in Nat
  PROVE  LET longer == Extended(m, reliable)
         IN  /\ longer \in Message /\ longer.dest = m.dest /\ longer.seqnum = m.seqnum
             /\ longer.reliable = (m.reliable \/ reliable)
             /\ longer.idx_list = Append(m.idx_list, index + 1)
<1>1. m.idx_list \in Seq(Nat \ {0})
  BY DEF Message
<1>2. Append(m.idx_list, index + 1) \in Seq(Nat \ {0}) /\ (m.reliable \/ reliable) \in BOOLEAN
  BY <1>1
<1>3. Extended(m, reliable) \in Message
  BY <1>2 DEF Extended, Message
<1> QED BY <1>3 DEF Extended

LEMMA ClosedOK ==
  ASSUME NEW m \in Message
  PROVE  LET shut == Closed(m)
         IN  /\ shut \in Message /\ shut.complete /\ shut.idx_list = m.idx_list
             /\ shut.dest = m.dest /\ shut.reliable = m.reliable /\ shut.seqnum = m.seqnum
BY DEF Message, Closed

LEMMA Fields ==
  ASSUME NEW queue \in Seq(Message), NEW n \in 1 .. Len(queue)
  PROVE  /\ queue[n] \in Message /\ queue[n].idx_list \in Seq(Nat \ {0})
         /\ Len(queue[n].idx_list) \in Nat /\ queue[n].seqnum \in Nat \ {0}
         /\ queue[n].dest \in Destinations
<1>1. queue[n] \in Message
  OBVIOUS
<1>2. queue[n].idx_list \in Seq(Nat \ {0}) /\ queue[n].seqnum \in Nat \ {0} /\ queue[n].dest \in Destinations
  BY <1>1 DEF Message
<1> QED BY <1>1, <1>2

LEMMA EndOfNat ==
  ASSUME NEW queue \in Seq(Message), Fits(queue), NEW n \in 0 .. Len(queue), NEW sent \in Nat
  PROVE  EndOf(queue, sent, n) \in Nat
<1>1. CASE n # 0
  <2>1. n \in 1 .. Len(queue)
    BY <1>1
  <2>2. queue[n].idx_list \in Seq(Nat \ {0}) /\ Len(queue[n].idx_list) \in 1 .. MBUS_MAX_QLEN
    BY <2>1, Fields DEF Fits
  <2> QED BY <1>1, <2>2 DEF EndOf
<1>2. CASE n = 0
  BY <1>2 DEF EndOf
<1> QED BY <1>1, <1>2

\* A command put in a queue leaves it a queue, in order.
LEMMA QueuedOK ==
  ASSUME NEW queue \in Seq(Message), Fits(queue), NEW dest \in Destinations,
         NEW reliable \in BOOLEAN, index \in Nat, seqnum \in Nat, NEW sent \in Nat,
         reliable => dest # All
  PROVE  LET new == Queued(queue, dest, reliable)
             last == IF Joins(queue, dest) THEN seqnum ELSE seqnum + 1
         IN  /\ new \in Seq(Message) /\ Fits(new)
             /\ InOrder(queue, sent, index) => InOrder(new, sent, index + 1)
             /\ Numbered(queue, seqnum) => Numbered(new, last)
             /\ \A x \in Nat : x <= seqnum /\ Below(x, queue) => Below(x, new)
<1> DEFINE last == Len(queue)
           new == Queued(queue, dest, reliable)
<1>1. CASE Joins(queue, dest)
  <2> DEFINE longer == Extended(queue[last], reliable)
  <2>1. /\ last \in 1 .. Len(queue) /\ ~queue[last].complete /\ queue[last].dest = dest
        /\ Len(queue[last].idx_list) < MBUS_MAX_QLEN
    BY <1>1 DEF Joins, Open
  <2>2. /\ longer \in Message /\ longer.dest = dest /\ longer.seqnum = queue[last].seqnum
        /\ longer.reliable = (queue[last].reliable \/ reliable)
        /\ longer.idx_list = Append(queue[last].idx_list, index + 1)
    BY <2>1, ExtendedOK
  <2>3. new = [queue EXCEPT ![last] = longer]
    BY <1>1 DEF Queued
  <2> HIDE DEF longer, new
  <2>4. /\ new \in Seq(Message) /\ Len(new) = last /\ new[last] = longer
        /\ \A n \in 1 .. last : n # last => new[n] = queue[n]
    BY <2>1, <2>2, <2>3
  <2>5. /\ Len(longer.idx_list) = Len(queue[last].idx_list) + 1
        /\ longer.idx_list[Len(queue[last].idx_list) + 1] = index + 1
        /\ \A k \in 1 .. Len(queue[last].idx_list) : longer.idx_list[k] = queue[last].idx_list[k]
    <3>1. queue[last].idx_list \in Seq(Nat \ {0})
      BY <2>1, Fields
    <3> QED BY <2>2, <3>1
  <2>6. Fits(new)
    BY <2>1, <2>4, <2>5 DEF Fits
  <2>7. ASSUME InOrder(queue, sent, index) PROVE InOrder(new, sent, index + 1)
    <3>1. \A n \in 0 .. last - 1 : EndOf(new, sent, n) = EndOf(queue, sent, n)
      BY <2>1, <2>4 DEF EndOf
    <3>2. EndOf(new, sent, last) = index + 1
      BY <2>1, <2>4, <2>5 DEF EndOf
    <3>3. /\ index = queue[last].idx_list[Len(queue[last].idx_list)]
          /\ Len(queue[last].idx_list) \in 1 .. MBUS_MAX_QLEN
      BY <2>1, <2>7 DEF InOrder, EndOf, Fits
    <3>4. index = EndOf(queue, sent, last - 1) + Len(queue[last].idx_list)
      BY <2>1, <2>7, <3>3 DEF InOrder
    <3>5. \A k \in 1 .. Len(longer.idx_list) : longer.idx_list[k] = EndOf(new, sent, last - 1) + k
      <4>1. EndOf(queue, sent, last - 1) \in Nat
        <5>1. last - 1 \in 0 .. Len(queue)
          BY <2>1
        <5> QED BY <5>1, EndOfNat
      <4>2. EndOf(new, sent, last - 1) = EndOf(queue, sent, last - 1)
        BY <2>1, <3>1
      <4>3. \A k \in 1 .. Len(queue[last].idx_list) :
              longer.idx_list[k] = EndOf(queue, sent, last - 1) + k
        BY <2>1, <2>5, <2>7 DEF InOrder
      <4>4. ASSUME NEW k \in 1 .. Len(longer.idx_list), k \notin 1 .. Len(queue[last].idx_list)
            PROVE  longer.idx_list[k] = EndOf(queue, sent, last - 1) + k
        <5>1. k = Len(queue[last].idx_list) + 1
          BY <2>5, <3>3, <4>4
        <5> QED BY <2>5, <3>3, <3>4, <4>1, <5>1
      <4> QED BY <4>2, <4>3, <4>4
    <3>6. \A n \in 1 .. last : n # last =>
            /\ new[n].complete
            /\ \A k \in 1 .. Len(new[n].idx_list) :
                 new[n].idx_list[k] = EndOf(new, sent, n - 1) + k
      BY <2>1, <2>4, <2>7, <3>1 DEF InOrder
    <3> QED BY <2>1, <2>4, <3>2, <3>5, <3>6 DEF InOrder
  <2>8. ASSUME Numbered(queue, seqnum) PROVE Numbered(new, seqnum)
    <3>1. longer.reliable => longer.dest \in Peers
      BY <2>1, <2>2, <2>8 DEF Numbered, Destinations
    <3>2. \A n \in 1 .. last : new[n].seqnum = queue[n].seqnum
      BY <2>1, <2>2, <2>4
    <3> QED BY <2>1, <2>4, <2>8, <3>1, <3>2 DEF Numbered
  <2>9. ASSUME NEW x \in Nat, Below(x, queue) PROVE Below(x, new)
    <3>1. \A n \in 1 .. last : new[n].seqnum = queue[n].seqnum
      BY <2>1, <2>2, <2>4
    <3> QED BY <2>4, <2>9, <3>1 DEF Below
  <2> QED BY <1>1, <2>4, <2>6, <2>7, <2>8, <2>9 DEF new
<1>2. CASE ~Joins(queue, dest)
  <2> DEFINE m == NewMessage(dest, reliable)
             closed == IF Open(queue) THEN [queue EXCEPT ![last] = Closed(@)] ELSE queue
  <2>1. /\ m \in Message /\ m.dest = dest /\ m.reliable = reliable
        /\ m.seqnum = seqnum + 1 /\ m.idx_list = <<index + 1>>
    <3>1. <<index + 1>> \in Seq(Nat \ {0}) /\ seqnum + 1 \in Nat \ {0}
      OBVIOUS
    <3> QED BY <3>1 DEF NewMessage, Message
  <2>2. /\ closed \in Seq(Message) /\ Len(closed) = last
        /\ \A n \in 1 .. last : /\ closed[n].idx_list = queue[n].idx_list
                                /\ closed[n].dest = queue[n].dest
                                /\ closed[n].reliable = queue[n].reliable
                                /\ closed[n].seqnum = queue[n].seqnum
                                /\ n < last => closed[n] = queue[n]
        /\ last > 0 => closed[last].complete
    <3>1. CASE Open(queue)
      <4> DEFINE shut == Closed(queue[last])
      <4>1. last \in 1 .. Len(queue)
        BY <3>1 DEF Open
      <4>2. /\ shut \in Message /\ shut.complete /\ shut.idx_list = queue[last].idx_list
            /\ shut.dest = queue[last].dest /\ shut.reliable = queue[last].reliable
            /\ shut.seqnum = queue[last].seqnum
        BY <4>1, ClosedOK
      <4>3. closed = [queue EXCEPT ![last] = shut]
        BY <3>1
      <4> HIDE DEF shut, closed
      <4> QED BY <4>1, <4>2, <4>3
    <3>2. CASE ~Open(queue)
      BY <3>2 DEF Open, Message
    <3> QED BY <3>1, <3>2
  <2>3. new = Append(closed, m)
    BY <1>2 DEF Queued
  <2> HIDE DEF m, closed, new
  <2>4. /\ new \in Seq(Message) /\ Len(new) = last + 1 /\ new[last + 1] = m
        /\ \A n \in 1 .. last : new[n] = closed[n]
    BY <2>1, <2>2, <2>3
  <2>5. Len(m.idx_list) = 1 /\ m.idx_list[1] = index + 1
    BY <2>1
  <2>a. \A n \in 1 .. last + 1 : n = last + 1 \/ n \in 1 .. last
    OBVIOUS
  <2>b. Fits(new)
    <3>1. \A n \in 1 .. last : Len(new[n].idx_list) \in 1 .. MBUS_MAX_QLEN
      BY <2>2, <2>4 DEF Fits
    <3>2. Len(new[last + 1].idx_list) \in 1 .. MBUS_MAX_QLEN
      BY <2>4, <2>5
    <3> QED BY <2>4, <2>a, <3>1, <3>2 DEF Fits
  <2>6. ASSUME InOrder(queue, sent, index) PROVE InOrder(new, sent, index + 1)
    <3>1. \A n \in 0 .. last : EndOf(new, sent, n) = EndOf(queue, sent, n)
      BY <2>2, <2>4 DEF EndOf
    <3>2. EndOf(new, sent, last + 1) = index + 1
      BY <2>4, <2>5 DEF EndOf
    <3>3. \A n \in 1 .. last : new[n].complete
      BY <2>2, <2>4, <2>6 DEF InOrder
    <3>4. \A n \in 1 .. last : \A k \in 1 .. Len(new[n].idx_list) :
            new[n].idx_list[k] = EndOf(new, sent, n - 1) + k
      <4> SUFFICES ASSUME NEW n \in 1 .. last, NEW k \in 1 .. Len(queue[n].idx_list)
                   PROVE  queue[n].idx_list[k] = EndOf(new, sent, n - 1) + k
        BY <2>2, <2>4
      <4>1. EndOf(new, sent, n - 1) = EndOf(queue, sent, n - 1)
        BY <3>1
      <4> QED BY <2>6, <4>1 DEF InOrder
    <3>5. \A k \in 1 .. Len(m.idx_list) : m.idx_list[k] = EndOf(new, sent, last + 1 - 1) + k
      BY <2>5, <2>6, <3>1 DEF InOrder
    <3> QED BY <2>4, <2>a, <3>2, <3>3, <3>4, <3>5 DEF InOrder
  <2>7. ASSUME Numbered(queue, seqnum) PROVE Numbered(new, seqnum + 1)
    <3>1. m.reliable => m.dest \in Peers
      BY <2>1 DEF Destinations
    <3>2. \A n \in 1 .. last : new[n].seqnum = queue[n].seqnum /\ queue[n].seqnum \in Nat
      BY <2>2, <2>4, Fields
    <3>3. \A n \in 1 .. last : new[n].reliable => new[n].dest \in Peers
      BY <2>2, <2>4, <2>7 DEF Numbered
    <3>4. \A n \in 1 .. last : /\ queue[n].seqnum <= seqnum
                               /\ \A k \in 1 .. n - 1 : queue[k].seqnum < queue[n].seqnum
      BY <2>7 DEF Numbered
    <3>5. \A n \in 1 .. last : /\ new[n].seqnum <= seqnum + 1
                               /\ \A k \in 1 .. n - 1 : new[k].seqnum < new[n].seqnum
      BY <3>2, <3>4
    <3>6. new[last + 1].seqnum = seqnum + 1 /\ \A k \in 1 .. last : new[k].seqnum < seqnum + 1
      BY <2>1, <2>4, <3>2, <3>4
    <3>7. last + 1 - 1 = last
      OBVIOUS
    <3> QED BY <2>4, <2>a, <3>1, <3>3, <3>5, <3>6, <3>7 DEF Numbered
  <2>8. ASSUME NEW x \in Nat, x <= seqnum, Below(x, queue) PROVE Below(x, new)
    <3>1. \A n \in 1 .. last : new[n].seqnum = queue[n].seqnum
      BY <2>2, <2>4
    <3>2. x < new[last + 1].seqnum
      BY <2>1, <2>4, <2>8
    <3>3. \A n \in 1 .. last : x < new[n].seqnum
      BY <2>8, <3>1 DEF Below
    <3> QED BY <2>4, <2>a, <3>2, <3>3 DEF Below
  <2> QED BY <1>2, <2>4, <2>b, <2>6, <2>7, <2>8 DEF new
<1> QED BY <1>1, <1>2

\* What is left of a queue when its first n messages are sent is a queue in order.
LEMMA RemainingOK ==
  ASSUME NEW queue \in Seq(Message), Fits(queue), NEW n \in 0 .. Len(queue),
         NEW sent \in Nat, NEW last \in Nat
  PROVE  LET rest == SubSeq(queue, n + 1, Len(queue))
         IN  /\ rest \in Seq(Message) /\ Fits(rest) /\ EndOf(queue, sent, n) \in Nat
             /\ \A i \in 1 .. Len(rest) : rest[i] = queue[n + i]
             /\ Len(rest) = Len(queue) - n
             /\ InOrder(queue, sent, last) => InOrder(rest, EndOf(queue, sent, n), last)
             /\ Numbered(queue, last) => Numbered(rest, last)
<1> DEFINE rest == SubSeq(queue, n + 1, Len(queue))
<1>1. /\ rest \in Seq(Message) /\ Len(rest) = Len(queue) - n
      /\ \A i \in 1 .. Len(rest) : rest[i] = queue[n + i]
  BY SubSeqProperties
<1>2. EndOf(queue, sent, n) \in Nat
  BY EndOfNat
<1> HIDE DEF rest
<1>3. Fits(rest)
  <2>1. \A i \in 1 .. Len(rest) : n + i \in 1 .. Len(queue)
    BY <1>1
  <2> QED BY <1>1, <2>1 DEF Fits
<1>4. \A i \in 1 .. Len(rest) : n + i \in 1 .. Len(queue)
  BY <1>1
<1>5. ASSUME InOrder(queue, sent, last) PROVE InOrder(rest, EndOf(queue, sent, n), last)
  <2>1. \A i \in 0 .. Len(rest) : EndOf(rest, EndOf(queue, sent, n), i) = EndOf(queue, sent, n + i)
    <3> SUFFICES ASSUME NEW i \in 0 .. Len(rest)
                 PROVE  EndOf(rest, EndOf(queue, sent, n), i) = EndOf(queue, sent, n + i)
      OBVIOUS
    <3>1. CASE i = 0
      BY <3>1 DEF EndOf
    <3>2. CASE i # 0
      <4>1. i \in 1 .. Len(rest) /\ n + i # 0
        BY <1>1, <3>2
      <4> QED BY <1>1, <3>2, <4>1 DEF EndOf
    <3> QED BY <3>1, <3>2
  <2>2. EndOf(rest, EndOf(queue, sent, n), Len(rest)) = last
    <3>1. Len(rest) \in 0 .. Len(rest) /\ n + Len(rest) = Len(queue)
      BY <1>1
    <3> QED BY <1>5, <2>1, <3>1 DEF InOrder
  <2>3. ASSUME NEW i \in 1 .. Len(rest)
        PROVE  /\ i < Len(rest) => rest[i].complete
               /\ \A k \in 1 .. Len(rest[i].idx_list) :
                    rest[i].idx_list[k] = EndOf(rest, EndOf(queue, sent, n), i - 1) + k
    <3>1. rest[i] = queue[n + i] /\ n + i \in 1 .. Len(queue)
      BY <1>1, <1>4
    <3>2. i < Len(rest) => n + i < Len(queue)
      BY <1>1
    <3>3. EndOf(rest, EndOf(queue, sent, n), i - 1) = EndOf(queue, sent, n + i - 1)
      <4>1. i - 1 \in 0 .. Len(rest) /\ n + (i - 1) = n + i - 1
        BY <1>1
      <4> QED BY <2>1, <4>1
    <3> QED BY <1>5, <3>1, <3>2, <3>3 DEF InOrder
  <2> QED BY <2>2, <2>3 DEF InOrder
<1>6. ASSUME Numbered(queue, last) PROVE Numbered(rest, last)
  <2> SUFFICES ASSUME NEW i \in 1 .. Len(rest)
               PROVE  /\ rest[i].reliable => rest[i].dest \in Peers
                      /\ rest[i].seqnum <= last
                      /\ \A k \in 1 .. i - 1 : rest[k].seqnum < rest[i].seqnum
    BY DEF Numbered
  <2>1. rest[i] = queue[n + i] /\ n + i \in 1 .. Len(queue)
    BY <1>1, <1>4
  <2>2. ASSUME NEW k \in 1 .. i - 1 PROVE rest[k].seqnum < rest[i].seqnum
    <3>1. k \in 1 .. Len(rest) /\ n + k \in 1 .. (n + i) - 1
      BY <1>1
    <3>2. rest[k] = queue[n + k]
      BY <1>1, <3>1
    <3>3. PICK m \in 1 .. Len(queue) : m = n + i
      BY <2>1
    <3>4. \A l \in 1 .. m - 1 : queue[l].seqnum < queue[m].seqnum
      BY <1>6 DEF Numbered
    <3>5. queue[n + k].seqnum < queue[n + i].seqnum
      BY <3>1, <3>3, <3>4
    <3> QED BY <2>1, <3>2, <3>5
  <2> QED BY <1>6, <2>1, <2>2 DEF Numbered
<1> QED BY <1>1, <1>2, <1>3, <1>5, <1>6 DEF rest

-----------------------------------------------------------------------------
(* The inductive invariant. *)

EngineCommands == [kind : {"commands"}, from : {Engine}, to : Peers, seq : Nat,
                   reliable : BOOLEAN, body : Seq(Nat \ {0})]
EngineAcks == [kind : {"ack"}, from : {Engine}, to : Peers, seq : {0}, reliable : {FALSE}, body : Nat]
PeerAcks == [kind : {"ack"}, from : Peers, to : {Engine}, seq : {0}, reliable : {FALSE}, body : Nat]
PeerCommands == [kind : {"commands"}, from : Peers, to : {Engine}, seq : Nat, reliable : {TRUE},
                 body : {<<>>}]

Bus == EngineCommands \cup EngineAcks \cup PeerAcks \cup PeerCommands

\* No message waiting in the queue has a number that is on the bus.
NetInv(bus, queue, last) ==
  /\ bus \subseteq Bus
  /\ \A packet \in bus \cap EngineCommands : /\ packet.seq <= last /\ Below(packet.seq, queue)
                                              /\ Len(packet.body) <= MBUS_MAX_QLEN

\* The message that waits for an acknowledgement was sent to one entity.
OneReceiver(bus, message) ==
  message # None =>
    /\ message \in Message /\ message.dest \in Peers
    /\ \A packet \in bus \cap EngineCommands :
         packet.reliable /\ packet.seq = message.seqnum => packet.to = message.dest

\* What an entity acknowledges it has accepted, and was sent to it.
AcksMeanGot ==
  /\ got \in [Peers -> SUBSET Nat]
  /\ \A packet \in net \cap PeerAcks : packet.body \in got[packet.from]
  /\ \A p \in Peers : \A a \in got[p] :
       \E packet \in net \cap EngineCommands : packet.reliable /\ packet.to = p /\ packet.seq = a

\* What the engine acknowledges it has taken; so a receiver that settles a
\* message has found one that was.
AcksMeanTaken ==
  /\ \A a, b \in receiving : a = b
  /\ \A packet \in net \cap EngineAcks : <<packet.to, packet.body>> \in Taken
  /\ rx \in [Peers -> [at : {"idle", "deliver", "halt", "report"}, packet : Bus \cup {None}]]
  /\ \A p \in Peers : rx[p].at \in {"halt", "report"} =>
       <<p, rx[p].packet.body>> \in Messages /\ <<p, rx[p].packet.body>> \in Taken

QueueInv == /\ Numbered(cmd_queue, seqnum)
            /\ NetInv(net, cmd_queue, seqnum)
            /\ OneReceiver(net, waiting_ack)

IInv == TypeOK /\ QueueInOrder /\ QueueInv /\ AcksMeanGot /\ AcksMeanTaken /\ SuccessMeansAccepted

-----------------------------------------------------------------------------
\* Datagrams of a message.
LEMMA DatagramsOK ==
  ASSUME NEW m \in Message
  PROVE  \A packet \in Datagrams(m) :
           /\ packet \in EngineCommands /\ packet.to \in Recipients(m.dest)
           /\ packet.seq = m.seqnum /\ packet.body = m.idx_list /\ packet.reliable = m.reliable
<1>1. m.dest \in Destinations /\ m.seqnum \in Nat /\ m.reliable \in BOOLEAN /\ m.idx_list \in Seq(Nat \ {0})
  BY DEF Message
<1>2. Recipients(m.dest) \subseteq Peers
  BY <1>1 DEF Recipients, Destinations
<1>3. \A p \in Peers : Packet("commands", Engine, p, m.seqnum, m.reliable, m.idx_list) \in EngineCommands
  BY <1>1 DEF Packet, EngineCommands
<1> QED BY <1>2, <1>3 DEF Datagrams, Packet

\* A call of mbus_send on a queue q keeps the invariant of the bus.
LEMMA TransmitOK ==
  ASSUME NEW q \in Seq(Message), Fits(q), NEW last \in Nat, NEW b \in 0 .. Len(q),
         Batch(q, b), Transmit(q, b), Numbered(q, last), NetInv(net, q, last),
         OneReceiver(net, waiting_ack), index_sent \in Nat,
         NEW rest, rest = Remaining(q, b), NEW w, w = Awaited(q, b)
  PROVE  /\ net \subseteq net' /\ net' \ net \subseteq EngineCommands
         /\ rest \in Seq(Message) /\ Fits(rest) /\ Numbered(rest, last)
         /\ NetInv(net', rest, last) /\ OneReceiver(net', w)
         /\ index_sent' \in Nat
         /\ \A end \in Nat : InOrder(q, index_sent, end) => InOrder(rest, index_sent', end)
         /\ waiting_ack # None => w = waiting_ack
<1> DEFINE n == Sent(q, b)
<1>1. n \in 0 .. Len(q) /\ n <= b
  BY DEF Sent, Aborts, Fails
<1>2. rest = SubSeq(q, n + 1, Len(q))
  BY DEF Remaining
<1>3. waiting_ack # None => n = 0
  BY <1>1 DEF Batch
<1> HIDE DEF n
<1>4. /\ rest \in Seq(Message) /\ Fits(rest) /\ Numbered(rest, last)
      /\ Len(rest) = Len(q) - n
      /\ \A i \in 1 .. Len(rest) : rest[i] = q[n + i]
  <2>1. LET r == SubSeq(q, n + 1, Len(q))
        IN  /\ r \in Seq(Message) /\ Fits(r) /\ Len(r) = Len(q) - n
            /\ \A i \in 1 .. Len(r) : r[i] = q[n + i]
            /\ Numbered(q, last) => Numbered(r, last)
    BY <1>1, RemainingOK, Zenon
  <2> QED BY <1>2, <2>1
<1>5. index_sent' = EndOf(q, index_sent, n)
  BY DEF Transmit, EndOf, n
<1>6. /\ index_sent' \in Nat
      /\ \A end \in Nat : InOrder(q, index_sent, end) => InOrder(rest, index_sent', end)
  BY <1>1, <1>2, <1>5, RemainingOK
<1>7. net' = net \cup UNION {Datagrams(q[i]) : i \in 1 .. n}
  BY DEF Transmit, n
<1>8. \A packet \in net' : packet \in net \/ \E i \in 1 .. n : packet \in Datagrams(q[i])
  BY <1>7
<1>9. ASSUME NEW i \in 1 .. n, NEW packet \in Datagrams(q[i])
      PROVE  /\ packet \in EngineCommands /\ packet.to \in Recipients(q[i].dest)
             /\ packet.seq = q[i].seqnum /\ Len(packet.body) <= MBUS_MAX_QLEN
  <2>1. i \in 1 .. Len(q) /\ q[i] \in Message
    BY <1>1
  <2>2. Len(q[i].idx_list) <= MBUS_MAX_QLEN
    BY <2>1 DEF Fits
  <2> QED BY <2>1, <2>2, DatagramsOK
<1>10. net' \ net \subseteq EngineCommands
  BY <1>8, <1>9
<1>11. NetInv(net', rest, last)
  <2>1. net' \subseteq Bus
    BY <1>8, <1>9 DEF NetInv, Bus
  <2>2. ASSUME NEW packet \in net \cap EngineCommands
        PROVE  /\ packet.seq <= last /\ Below(packet.seq, rest)
               /\ Len(packet.body) <= MBUS_MAX_QLEN
    <3>1. packet.seq <= last /\ Below(packet.seq, q) /\ Len(packet.body) <= MBUS_MAX_QLEN
      BY <2>2 DEF NetInv
    <3>2. \A i \in 1 .. Len(rest) : n + i \in 1 .. Len(q)
      BY <1>1, <1>4
    <3> QED BY <1>4, <3>1, <3>2 DEF Below
  <2>3. ASSUME NEW i \in 1 .. n, NEW packet \in Datagrams(q[i])
        PROVE  /\ packet.seq <= last /\ Below(packet.seq, rest)
               /\ Len(packet.body) <= MBUS_MAX_QLEN
    <3>1. /\ i \in 1 .. Len(q) /\ packet.seq = q[i].seqnum /\ Len(packet.body) <= MBUS_MAX_QLEN
      BY <1>1, <1>9
    <3>2. \A k \in 1 .. Len(rest) : n + k \in 1 .. Len(q) /\ i \in 1 .. (n + k) - 1
      BY <1>1, <1>4
    <3>3. \A k \in 1 .. Len(rest) : q[i].seqnum < q[n + k].seqnum
      BY <3>2 DEF Numbered
    <3> QED BY <1>4, <3>1, <3>3 DEF Below, Numbered
  <2> QED BY <1>8, <2>1, <2>2, <2>3 DEF NetInv
<1>12. OneReceiver(net', w)
  <2>1. CASE n > 0 /\ q[n].reliable
    <3>1. w = q[n]
      BY <2>1 DEF Awaited, n
    <3>2. n \in 1 .. Len(q) /\ q[n] \in Message /\ q[n].dest \in Peers
      BY <1>1, <2>1 DEF Numbered
    <3>3. ASSUME NEW packet \in net \cap EngineCommands PROVE packet.seq # q[n].seqnum
      <4>1. Below(packet.seq, q) /\ packet.seq \in Nat /\ q[n].seqnum \in Nat
        BY <3>2, <3>3, Fields DEF NetInv, EngineCommands
      <4> QED BY <3>2, <4>1 DEF Below
    <3>4. ASSUME NEW i \in 1 .. n, NEW packet \in Datagrams(q[i]), packet.seq = q[n].seqnum
          PROVE  packet.to = q[n].dest
      <4>1. i \in 1 .. Len(q) /\ q[i].seqnum \in Nat /\ q[n].seqnum \in Nat
        BY <1>1, <3>2, Fields
      <4>2. i < n => q[i].seqnum < q[n].seqnum
        BY <3>2 DEF Numbered
      <4>3. i = n
        BY <1>9, <3>2, <3>4, <4>1, <4>2
      <4>4. Recipients(q[n].dest) = {q[n].dest}
        BY <3>2 DEF Recipients
      <4> QED BY <1>9, <4>3, <4>4
    <3> QED BY <1>8, <3>1, <3>2, <3>3, <3>4 DEF OneReceiver
  <2>2. CASE ~(n > 0 /\ q[n].reliable)
    <3>1. w = waiting_ack
      BY <2>2 DEF Awaited, n
    <3>2. CASE waiting_ack = None
      BY <3>1, <3>2 DEF OneReceiver
    <3>3. CASE waiting_ack # None
      <4>1. net' = net
        BY <1>3, <1>7, <3>3
      <4> QED BY <3>1, <4>1
    <3> QED BY <3>2, <3>3
  <2> QED BY <2>1, <2>2
<1>13. waiting_ack # None => w = waiting_ack
  BY <1>3 DEF Awaited, n
<1> QED BY <1>4, <1>6, <1>7, <1>10, <1>11, <1>12, <1>13

\* A command queued keeps the invariant of the queue.
LEMMA QueuedInv ==
  ASSUME TypeOK, QueueInv, NEW dest \in Destinations, NEW reliable \in BOOLEAN,
         reliable => dest # All, NEW q, q = Queued(cmd_queue, dest, reliable),
         NEW last, last = IF Joins(cmd_queue, dest) THEN seqnum ELSE seqnum + 1
  PROVE  /\ q \in Seq(Message) /\ Fits(q) /\ last \in Nat /\ Numbered(q, last)
         /\ NetInv(net, q, last)
         /\ InOrder(cmd_queue, index_sent, index) => InOrder(q, index_sent, index + 1)
<1>1. /\ cmd_queue \in Seq(Message) /\ Fits(cmd_queue) /\ index \in Nat /\ seqnum \in Nat
      /\ index_sent \in Nat
  BY DEF TypeOK, Fits
<1>2. /\ q \in Seq(Message) /\ Fits(q)
      /\ InOrder(cmd_queue, index_sent, index) => InOrder(q, index_sent, index + 1)
      /\ Numbered(cmd_queue, seqnum) => Numbered(q, last)
      /\ \A x \in Nat : x <= seqnum /\ Below(x, cmd_queue) => Below(x, q)
  BY <1>1, QueuedOK, Zenon
<1>3. Numbered(q, last) /\ last \in Nat /\ seqnum <= last
  BY <1>1, <1>2 DEF QueueInv
<1>4. ASSUME NEW packet \in net \cap EngineCommands
      PROVE  /\ packet.seq <= last /\ Below(packet.seq, q)
             /\ Len(packet.body) <= MBUS_MAX_QLEN
  <2>1. /\ packet.seq \in Nat /\ packet.seq <= seqnum /\ Below(packet.seq, cmd_queue)
        /\ Len(packet.body) <= MBUS_MAX_QLEN
    BY <1>4 DEF QueueInv, NetInv, EngineCommands
  <2> QED BY <1>1, <1>2, <1>3, <2>1
<1>5. net \subseteq Bus
  BY DEF QueueInv, NetInv
<1> QED BY <1>2, <1>3, <1>4, <1>5 DEF NetInv

\* Bigger numbers leave room.
LEMMA LaterInv ==
  ASSUME TypeOK, QueueInv, NEW last \in Nat, seqnum <= last
  PROVE  Numbered(cmd_queue, last) /\ NetInv(net, cmd_queue, last)
<1>1. cmd_queue \in Seq(Message) /\ seqnum \in Nat
  BY DEF TypeOK
<1>2. Numbered(cmd_queue, last)
  <2>1. \A n \in 1 .. Len(cmd_queue) : cmd_queue[n].seqnum \in Nat /\ cmd_queue[n].seqnum <= seqnum
    BY <1>1, Fields DEF QueueInv, Numbered
  <2>2. \A n \in 1 .. Len(cmd_queue) : cmd_queue[n].seqnum <= last
    BY <1>1, <2>1
  <2> QED BY <2>2 DEF QueueInv, Numbered
<1>3. \A packet \in net \cap EngineCommands : packet.seq \in Nat /\ packet.seq <= seqnum
  BY DEF QueueInv, NetInv, EngineCommands
<1>4. \A packet \in net \cap EngineCommands : packet.seq <= last
  BY <1>1, <1>3
<1> QED BY <1>2, <1>4 DEF QueueInv, NetInv

\* The sets of datagrams do not meet.
LEMMA Disjoint ==
  /\ EngineCommands \cap PeerAcks = {} /\ EngineCommands \cap EngineAcks = {}
  /\ EngineAcks \cap PeerAcks = {} /\ PeerCommands \cap PeerAcks = {}
  /\ PeerCommands \cap EngineCommands = {} /\ PeerCommands \cap EngineAcks = {}
BY DEF EngineCommands, EngineAcks, PeerAcks, PeerCommands

LEMMA SameTaken == ASSUME UNCHANGED reception PROVE Taken' = Taken /\ receiving' = receiving
BY DEF reception, Taken

\* Steps of the engine keep what acknowledgements mean.
LEMMA EngineKeepsAcks ==
  ASSUME AcksMeanGot, AcksMeanTaken, SuccessMeansAccepted, UNCHANGED jvars,
         net \subseteq net', Taken \subseteq Taken', \A a, b \in receiving' : a = b,
         \A packet \in net' \ net :
           packet \in EngineCommands \/ (packet \in EngineAcks /\ <<packet.to, packet.body>> \in Taken')
  PROVE  AcksMeanGot' /\ AcksMeanTaken' /\ SuccessMeansAccepted'
<1>1. rx' = rx /\ got' = got /\ succeeded' = succeeded
  BY DEF jvars
<1>2. AcksMeanGot'
  <2>1. got' \in [Peers -> SUBSET Nat]
    BY <1>1 DEF AcksMeanGot
  <2>2. \A packet \in net' \cap PeerAcks : packet.body \in got'[packet.from]
    BY <1>1, Disjoint DEF AcksMeanGot
  <2>3. \A p \in Peers : \A a \in got'[p] :
          \E packet \in net' \cap EngineCommands : packet.reliable /\ packet.to = p /\ packet.seq = a
    BY <1>1 DEF AcksMeanGot
  <2> QED BY <2>1, <2>2, <2>3 DEF AcksMeanGot
<1>3. AcksMeanTaken'
  <2>1. \A packet \in net' \cap EngineAcks : <<packet.to, packet.body>> \in Taken'
    BY Disjoint DEF AcksMeanTaken
  <2> QED BY <1>1, <2>1 DEF AcksMeanTaken
<1>4. SuccessMeansAccepted'
  BY <1>1 DEF SuccessMeansAccepted
<1> QED BY <1>2, <1>3, <1>4

LEMMA QmsgKeeps == ASSUME IInv, Qmsg, UNCHANGED jvars PROVE IInv'
<1> USE DEF IInv
<1>1. PICK dest \in Destinations, reliable \in BOOLEAN :
        /\ reliable => dest # All
        /\ cmd_queue' = Queued(cmd_queue, dest, reliable)
        /\ Count(cmd_queue, dest, reliable)
  BY DEF Qmsg
<1>2. /\ seqnum' = IF Joins(cmd_queue, dest) THEN seqnum ELSE seqnum + 1
      /\ index' = index + 1 /\ asked' = Append(asked, [dest |-> dest, reliable |-> reliable])
  BY <1>1 DEF Count
<1>3. UNCHANGED <<net, waiting_ack, index_sent, other_addr, phase, should_exit,
                  mbus_shutdown_error, reception, AckQueue, succeeded, failed>>
  BY DEF Qmsg, jvars
<1>4. /\ cmd_queue' \in Seq(Message) /\ Fits(cmd_queue') /\ seqnum' \in Nat
      /\ Numbered(cmd_queue', seqnum') /\ NetInv(net, cmd_queue', seqnum')
      /\ InOrder(cmd_queue, index_sent, index) => InOrder(cmd_queue', index_sent, index + 1)
  BY <1>1, <1>2, QueuedInv
<1>5. TypeOK'
  <2>1. asked' \in Seq([dest : Destinations, reliable : BOOLEAN]) /\ index' \in Nat
    BY <1>2 DEF TypeOK
  <2> QED BY <1>3, <1>4, <2>1 DEF TypeOK, Fits, reception
<1>6. QueueInOrder'
  BY <1>2, <1>3, <1>4 DEF QueueInOrder
<1>7. QueueInv'
  BY <1>3, <1>4 DEF QueueInv
<1>8. AcksMeanGot' /\ AcksMeanTaken' /\ SuccessMeansAccepted'
  BY <1>3, SameTaken, EngineKeepsAcks DEF AcksMeanTaken
<1> QED BY <1>5, <1>6, <1>7, <1>8

\* What Send, LeaveLoop and Exit have in common.
LEMMA AfterTransmit ==
  ASSUME IInv, UNCHANGED <<jvars, other_addr, reception, should_exit>>,
         NEW q \in Seq(Message), Fits(q), seqnum' \in Nat, NEW b \in 0 .. Len(q),
         Batch(q, b), Transmit(q, b), Numbered(q, seqnum'), NetInv(net, q, seqnum')
  PROVE  /\ Remaining(q, b) \in Seq(Message) /\ Fits(Remaining(q, b))
         /\ Numbered(Remaining(q, b), seqnum') /\ NetInv(net', Remaining(q, b), seqnum')
         /\ OneReceiver(net', Awaited(q, b)) /\ Awaited(q, b) \in Message \cup {None}
         /\ index_sent' \in Nat /\ mbus_shutdown_error' \in BOOLEAN
         /\ \A packet \in net' : packet.kind = "commands" => Len(packet.body) <= MBUS_MAX_QLEN
         /\ \A end \in Nat : InOrder(q, index_sent, end) => InOrder(Remaining(q, b), index_sent', end)
         /\ AcksMeanGot' /\ AcksMeanTaken' /\ SuccessMeansAccepted'
<1>1. index_sent \in Nat /\ OneReceiver(net, waiting_ack)
  BY DEF IInv, TypeOK, QueueInv
<1>2. /\ net \subseteq net' /\ net' \ net \subseteq EngineCommands
      /\ Remaining(q, b) \in Seq(Message) /\ Fits(Remaining(q, b))
      /\ Numbered(Remaining(q, b), seqnum') /\ NetInv(net', Remaining(q, b), seqnum')
      /\ OneReceiver(net', Awaited(q, b)) /\ index_sent' \in Nat
      /\ \A end \in Nat : InOrder(q, index_sent, end) => InOrder(Remaining(q, b), index_sent', end)
  BY <1>1, TransmitOK, Zenon
<1>3. Awaited(q, b) \in Message \cup {None}
  BY <1>2 DEF OneReceiver
<1>4. mbus_shutdown_error' \in BOOLEAN
  BY DEF Transmit
<1>5. \A packet \in net' : packet.kind = "commands" => Len(packet.body) <= MBUS_MAX_QLEN
  <2>1. ASSUME NEW packet \in net', packet \notin net PROVE Len(packet.body) <= MBUS_MAX_QLEN
    BY <1>2, <2>1 DEF NetInv
  <2> QED BY <2>1 DEF IInv, TypeOK
<1>6. AcksMeanGot' /\ AcksMeanTaken' /\ SuccessMeansAccepted'
  BY <1>2, SameTaken, EngineKeepsAcks DEF IInv, AcksMeanTaken
<1> QED BY <1>2, <1>3, <1>4, <1>5, <1>6

LEMMA SendKeeps == ASSUME IInv, Send, UNCHANGED jvars PROVE IInv'
<1>1. PICK b \in 1 .. Len(cmd_queue) :
        /\ Batch(cmd_queue, b) /\ Transmit(cmd_queue, b)
        /\ cmd_queue' = Remaining(cmd_queue, b) /\ waiting_ack' = Awaited(cmd_queue, b)
        /\ phase' = IF Aborts(cmd_queue, b) THEN "aborted" ELSE phase
  BY DEF Send
<1>2. UNCHANGED <<seqnum, index, other_addr, should_exit, reception, asked>>
  BY DEF Send
<1>3. /\ cmd_queue \in Seq(Message) /\ Fits(cmd_queue) /\ seqnum' \in Nat /\ b \in 0 .. Len(cmd_queue)
      /\ Numbered(cmd_queue, seqnum') /\ NetInv(net, cmd_queue, seqnum') /\ index \in Nat
  BY <1>2 DEF IInv, TypeOK, Fits, QueueInv
<1>4. /\ cmd_queue' \in Seq(Message) /\ Fits(cmd_queue')
      /\ Numbered(cmd_queue', seqnum') /\ NetInv(net', cmd_queue', seqnum')
      /\ OneReceiver(net', waiting_ack') /\ waiting_ack' \in Message \cup {None}
      /\ index_sent' \in Nat /\ mbus_shutdown_error' \in BOOLEAN
      /\ \A packet \in net' : packet.kind = "commands" => Len(packet.body) <= MBUS_MAX_QLEN
      /\ InOrder(cmd_queue, index_sent, index) => InOrder(cmd_queue', index_sent', index)
      /\ AcksMeanGot' /\ AcksMeanTaken' /\ SuccessMeansAccepted'
  BY <1>1, <1>2, <1>3, AfterTransmit
<1>5. phase' \in Phases /\ (phase' # "gone" => phase # "gone")
  BY <1>1 DEF Send, Alive, IInv, TypeOK, Phases
<1>6. TypeOK'
  BY <1>2, <1>4, <1>5 DEF IInv, TypeOK, Fits, jvars, reception
<1>7. QueueInOrder'
  BY <1>2, <1>4, <1>5 DEF IInv, QueueInOrder
<1> QED BY <1>4, <1>6, <1>7 DEF IInv, QueueInv

LEMMA LeaveLoopKeeps == ASSUME IInv, LeaveLoop, UNCHANGED jvars PROVE IInv'
<1> DEFINE q == Queued(cmd_queue, All, FALSE)
<1>1. PICK b \in 0 .. Len(q) : /\ Batch(q, b) /\ Transmit(q, b)
                              /\ cmd_queue' = Remaining(q, b) /\ waiting_ack' = Awaited(q, b)
  BY DEF LeaveLoop
<1>2. /\ UNCHANGED <<other_addr, should_exit, reception>> /\ index' = index + 1
      /\ seqnum' = IF Joins(cmd_queue, All) THEN seqnum ELSE seqnum + 1
      /\ asked' = Append(asked, [dest |-> All, reliable |-> FALSE])
  BY DEF LeaveLoop, Count
<1>3. All \in Destinations
  BY DEF Destinations
<1>4. /\ q \in Seq(Message) /\ Fits(q) /\ seqnum' \in Nat /\ Numbered(q, seqnum')
      /\ NetInv(net, q, seqnum')
      /\ InOrder(cmd_queue, index_sent, index) => InOrder(q, index_sent, index')
  BY <1>2, <1>3, QueuedInv DEF IInv
<1> HIDE DEF q
<1>5. /\ cmd_queue' \in Seq(Message) /\ Fits(cmd_queue')
      /\ Numbered(cmd_queue', seqnum') /\ NetInv(net', cmd_queue', seqnum')
      /\ OneReceiver(net', waiting_ack') /\ waiting_ack' \in Message \cup {None}
      /\ index_sent' \in Nat /\ mbus_shutdown_error' \in BOOLEAN
      /\ \A packet \in net' : packet.kind = "commands" => Len(packet.body) <= MBUS_MAX_QLEN
      /\ \A end \in Nat : InOrder(q, index_sent, end) => InOrder(cmd_queue', index_sent', end)
      /\ AcksMeanGot' /\ AcksMeanTaken' /\ SuccessMeansAccepted'
  BY <1>1, <1>2, <1>4, AfterTransmit
<1>6. /\ phase' \in Phases /\ phase # "gone" /\ index' \in Nat
      /\ asked' \in Seq([dest : Destinations, reliable : BOOLEAN])
  BY <1>2, <1>3 DEF LeaveLoop, Phases, IInv, TypeOK
<1>7. TypeOK'
  BY <1>2, <1>4, <1>5, <1>6 DEF IInv, TypeOK, Fits, jvars, reception
<1>8. QueueInOrder'
  BY <1>4, <1>5, <1>6 DEF IInv, QueueInOrder
<1> QED BY <1>5, <1>7, <1>8 DEF IInv, QueueInv

LEMMA ExitKeeps == ASSUME IInv, Exit, UNCHANGED jvars PROVE IInv'
<1> DEFINE q == Queued(cmd_queue, All, FALSE)
<1>1. PICK b \in 0 .. Len(q) : Batch(q, b) /\ Transmit(q, b)
  BY DEF Exit
<1>2. /\ UNCHANGED <<other_addr, should_exit, reception>> /\ index' = index + 1
      /\ seqnum' = IF Joins(cmd_queue, All) THEN seqnum ELSE seqnum + 1
      /\ asked' = Append(asked, [dest |-> All, reliable |-> FALSE])
      /\ cmd_queue' = <<>> /\ waiting_ack' = None /\ phase' = "gone"
  BY DEF Exit, Count
<1>3. All \in Destinations
  BY DEF Destinations
<1>4. /\ q \in Seq(Message) /\ Fits(q) /\ seqnum' \in Nat /\ Numbered(q, seqnum')
      /\ NetInv(net, q, seqnum')
  BY <1>2, <1>3, QueuedInv DEF IInv
<1> HIDE DEF q
<1>5. /\ NetInv(net', Remaining(q, b), seqnum')
      /\ index_sent' \in Nat /\ mbus_shutdown_error' \in BOOLEAN
      /\ \A packet \in net' : packet.kind = "commands" => Len(packet.body) <= MBUS_MAX_QLEN
      /\ AcksMeanGot' /\ AcksMeanTaken' /\ SuccessMeansAccepted'
  BY <1>1, <1>2, <1>4, AfterTransmit
<1>6. /\ cmd_queue' \in Seq(Message) /\ Fits(cmd_queue') /\ Len(cmd_queue') = 0 /\ index' \in Nat
      /\ asked' \in Seq([dest : Destinations, reliable : BOOLEAN]) /\ phase' \in Phases
  BY <1>2, <1>3 DEF IInv, TypeOK, Fits, Phases
<1>7. TypeOK'
  BY <1>2, <1>4, <1>5, <1>6 DEF IInv, TypeOK, Fits, jvars, reception
<1>8. QueueInOrder'
  BY <1>2 DEF QueueInOrder
<1>9. QueueInv'
  BY <1>2, <1>5, <1>6 DEF QueueInv, NetInv, Numbered, OneReceiver, Below
<1> QED BY <1>5, <1>7, <1>8, <1>9 DEF IInv

\* What reaches the engine, and what an acknowledgement that is accepted means.
LEMMA ReachesEngine ==
  ASSUME IInv, NEW packet \in net \cup Unasked, packet.to = Engine
  PROVE  /\ packet.from \in Peers /\ packet.seq \in Nat /\ packet.reliable \in BOOLEAN
         /\ packet.reliable => packet.kind = "commands"
         /\ packet.kind = "commands" => packet.seq \in Nat
         /\ Acknowledges(packet) => waiting_ack.seqnum \in got[waiting_ack.dest]
<1>1. CASE packet \in Unasked
  <2>1. packet.from \in Peers /\ packet.seq = 0 /\ packet.reliable = FALSE /\ packet.kind # "ack"
    BY <1>1 DEF Unasked
  <2>2. packet.reliable \in BOOLEAN
    BY <2>1
  <2>3. packet.reliable => packet.kind = "commands"
    BY <2>1, Zenon
  <2> QED BY <2>1, <2>2, <2>3 DEF Acknowledges
<1>2. CASE packet \in net
  <2>1. packet \in PeerAcks \cup PeerCommands
    BY <1>2 DEF IInv, QueueInv, NetInv, Bus, EngineCommands, EngineAcks
  <2>2. /\ packet.from \in Peers /\ packet.seq \in Nat /\ packet.reliable \in BOOLEAN
        /\ packet.reliable => packet.kind = "commands"
    <3>1. CASE packet \in PeerAcks
      <4>1. packet.from \in Peers /\ packet.seq = 0 /\ packet.reliable = FALSE
        BY <3>1 DEF PeerAcks
      <4>2. packet.reliable \in BOOLEAN
        BY <4>1
      <4>3. packet.reliable => packet.kind = "commands"
        BY <4>1, Zenon
      <4> QED BY <4>1, <4>2, <4>3
    <3>2. CASE packet \in PeerCommands
      <4>1. /\ packet.from \in Peers /\ packet.seq \in Nat /\ packet.reliable = TRUE
            /\ packet.kind = "commands"
        BY <3>2 DEF PeerCommands
      <4> QED BY <4>1
    <3> QED BY <2>1, <3>1, <3>2
  <2>3. ASSUME Acknowledges(packet) PROVE waiting_ack.seqnum \in got[waiting_ack.dest]
    <3>1. packet \in net \cap PeerAcks /\ packet.body = waiting_ack.seqnum /\ waiting_ack # None
      BY <1>2, <2>1, <2>3 DEF Acknowledges, PeerCommands
    <3>2. waiting_ack.seqnum \in got[packet.from] /\ packet.from \in Peers
      BY <2>2, <3>1 DEF IInv, AcksMeanGot
    <3>3. PICK sent \in net \cap EngineCommands :
            sent.reliable /\ sent.to = packet.from /\ sent.seq = waiting_ack.seqnum
      BY <3>2 DEF IInv, AcksMeanGot
    <3>4. sent.to = waiting_ack.dest
      BY <3>1, <3>3 DEF IInv, QueueInv, OneReceiver
    <3> QED BY <3>2, <3>3, <3>4
  <2> QED BY <2>2, <2>3
<1> QED BY <1>1, <1>2

LEMMA RecvKeeps == ASSUME IInv, Recv, UNCHANGED jvars PROVE IInv'
<1>1. PICK packet \in net \cup Unasked :
        /\ packet.to = Engine
        /\ waiting_ack' = IF Acknowledges(packet) THEN None ELSE waiting_ack
        /\ other_addr' = other_addr \cup {packet.from}
        /\ seqnum' = IF packet.reliable THEN seqnum + 1 ELSE seqnum
        /\ net' = IF packet.reliable
                    THEN net \cup {Packet("ack", Engine, packet.from, 0, FALSE, packet.seq)}
                    ELSE net
        /\ receiving' = IF packet.kind \in {"ack", "hello"} THEN {} ELSE {packet}
  BY DEF Recv
<1>2. /\ receiving = {}
      /\ UNCHANGED <<cmd_queue, index, index_sent, phase, should_exit, mbus_shutdown_error, asked,
                     handled_by_engine, unparsed, AckQueue, succeeded, failed>>
  BY DEF Recv, Free, jvars
<1>3. /\ packet.from \in Peers /\ packet.seq \in Nat /\ packet.reliable \in BOOLEAN
      /\ packet.reliable => packet.kind = "commands"
  BY <1>1, ReachesEngine
<1>4. /\ seqnum \in Nat /\ seqnum' \in Nat /\ seqnum <= seqnum'
  BY <1>1 DEF IInv, TypeOK
<1>5. Numbered(cmd_queue, seqnum') /\ NetInv(net, cmd_queue, seqnum')
  BY <1>4, LaterInv DEF IInv
<1> DEFINE ack == Packet("ack", Engine, packet.from, 0, FALSE, packet.seq)
<1>6. ack \in EngineAcks /\ ack.kind = "ack" /\ <<ack.to, ack.body>> = Id(packet)
  BY <1>3 DEF Packet, EngineAcks, Id
<1>7. ack \notin EngineCommands /\ ack \in Bus
  BY <1>6, Disjoint DEF Bus
<1> HIDE DEF ack
<1>8. net \subseteq net' /\ net' \subseteq net \cup {ack}
  BY <1>1 DEF ack
<1>9. NetInv(net', cmd_queue', seqnum') /\ OneReceiver(net', waiting_ack')
  <2>1. NetInv(net', cmd_queue', seqnum')
    BY <1>2, <1>5, <1>7, <1>8 DEF NetInv
  <2>2. net' \cap EngineCommands = net \cap EngineCommands
    BY <1>7, <1>8
  <2>3. OneReceiver(net', waiting_ack)
    BY <2>2 DEF IInv, QueueInv, OneReceiver
  <2>4. OneReceiver(net', None)
    BY DEF OneReceiver
  <2> QED BY <1>1, <2>1, <2>3, <2>4
<1>10. /\ Taken \subseteq Taken'
       /\ packet.reliable => Id(packet) \in Taken'
       /\ \A a, b \in receiving' : a = b
  <2>1. Taken = handled_by_engine \cup unparsed
    BY <1>2 DEF Taken
  <2>2. Taken \subseteq Taken'
    BY <1>2, <2>1 DEF Taken
  <2>3. ASSUME packet.reliable PROVE Id(packet) \in Taken'
    <3>1. packet.kind = "commands" /\ receiving' = {packet}
      BY <1>1, <1>3, <2>3
    <3> QED BY <3>1 DEF Taken
  <2> QED BY <1>1, <2>2, <2>3
<1>11. AcksMeanGot' /\ AcksMeanTaken' /\ SuccessMeansAccepted'
  <2>1. \A k \in net' \ net : k \in EngineAcks /\ <<k.to, k.body>> \in Taken'
    BY <1>1, <1>6, <1>8, <1>10
  <2> QED BY <1>8, <1>10, <2>1, EngineKeepsAcks DEF IInv
<1>12. TypeOK'
  <2>1. /\ waiting_ack' \in Message \cup {None} /\ other_addr' \subseteq Peers
        /\ \A k \in receiving' : k.from \in Peers /\ k.seq \in Nat
    BY <1>1, <1>3 DEF IInv, TypeOK
  <2>2. \A k \in net' : k.kind = "commands" => Len(k.body) <= MBUS_MAX_QLEN
    BY <1>6, <1>8 DEF IInv, TypeOK
  <2> QED BY <1>2, <1>4, <2>1, <2>2 DEF IInv, TypeOK
<1>13. QueueInOrder'
  BY <1>2 DEF IInv, QueueInOrder
<1> QED BY <1>2, <1>5, <1>9, <1>11, <1>12, <1>13 DEF IInv, QueueInv

\* The datagram in mbus_recv's hands is put aside only as one it took.
LEMMA HandleKeeps == ASSUME IInv, Handle \/ DropCommands, UNCHANGED jvars PROVE IInv'
<1>1. PICK packet \in receiving :
        /\ receiving' = {} /\ other_addr' \subseteq other_addr
        /\ should_exit' \in BOOLEAN
        /\ handled_by_engine' \in {handled_by_engine, handled_by_engine \cup {Id(packet)}}
        /\ unparsed' \in {unparsed, unparsed \cup {Id(packet)}}
        /\ packet.kind = "commands" => Id(packet) \in handled_by_engine' \cup unparsed'
  <2>1. ASSUME NEW b, b \in BOOLEAN PROVE (should_exit \/ b) \in BOOLEAN
    BY <2>1 DEF IInv, TypeOK
  <2>2. CASE Handle
    <3>1. PICK packet \in receiving :
            /\ other_addr' = IF packet.kind = "bye" THEN other_addr \ {packet.from} ELSE other_addr
            /\ should_exit' = (should_exit \/ packet.kind = "quit")
            /\ handled_by_engine' = IF packet.kind = "commands"
                                      THEN handled_by_engine \cup {Id(packet)} ELSE handled_by_engine
      BY <2>2 DEF Handle
    <3>2. should_exit' \in BOOLEAN
      <4>1. (packet.kind = "quit") \in BOOLEAN
        OBVIOUS
      <4> QED BY <2>1, <3>1, <4>1, Zenon
    <3>3. receiving' = {} /\ unparsed' = unparsed
      BY <2>2 DEF Handle
    <3>4. packet.kind = "commands" => Id(packet) \in handled_by_engine'
      BY <3>1
    <3> QED BY <3>1, <3>2, <3>3, <3>4
  <2>3. CASE DropCommands
    BY <2>3 DEF DropCommands, IInv, TypeOK
  <2> QED BY <2>2, <2>3
<1>2. UNCHANGED <<net, cmd_queue, waiting_ack, seqnum, index, index_sent, phase,
                  mbus_shutdown_error, asked, AckQueue, succeeded, failed>>
  BY DEF Handle, DropCommands, jvars
<1>3. Taken \subseteq Taken'
  <2>1. receiving = {packet}
    BY <1>1 DEF IInv, AcksMeanTaken
  <2> QED BY <1>1, <2>1 DEF Taken
<1>4. AcksMeanGot' /\ AcksMeanTaken' /\ SuccessMeansAccepted'
  BY <1>1, <1>2, <1>3, EngineKeepsAcks DEF IInv
<1>5. TypeOK'
  <2>1. should_exit' \in BOOLEAN /\ handled_by_engine' \subseteq Peers \X Nat
        /\ unparsed' \subseteq Peers \X Nat
    BY <1>1 DEF IInv, TypeOK, Id
  <2> QED BY <1>1, <1>2, <2>1 DEF IInv, TypeOK
<1>6. QueueInOrder' /\ QueueInv'
  BY <1>2 DEF IInv, QueueInOrder, QueueInv
<1> QED BY <1>4, <1>5, <1>6 DEF IInv

LEMMA OthersKeep ==
  ASSUME IInv, GiveUp \/ Heartbeat \/ ControllerGone, UNCHANGED jvars PROVE IInv'
<1>1. /\ UNCHANGED <<net, cmd_queue, index, index_sent, reception, asked>>
      /\ waiting_ack' \in {None, waiting_ack} /\ seqnum' \in {seqnum, seqnum + 1}
      /\ other_addr' \subseteq other_addr /\ phase' \in {phase, "aborted"} /\ phase = "main"
      /\ should_exit' \in {should_exit, TRUE}
      /\ mbus_shutdown_error' \in {mbus_shutdown_error, mbus_shutdown_error \/ should_exit}
  BY DEF GiveUp, Heartbeat, ControllerGone
<1>2. seqnum \in Nat /\ seqnum' \in Nat /\ seqnum <= seqnum'
  BY <1>1 DEF IInv, TypeOK
<1>3. Numbered(cmd_queue, seqnum') /\ NetInv(net, cmd_queue, seqnum')
  BY <1>2, LaterInv DEF IInv
<1>4. OneReceiver(net', waiting_ack')
  BY <1>1 DEF IInv, QueueInv, OneReceiver
<1>5. AcksMeanGot' /\ AcksMeanTaken' /\ SuccessMeansAccepted'
  BY <1>1, SameTaken, EngineKeepsAcks DEF IInv, AcksMeanTaken
<1>6. mbus_shutdown_error' \in BOOLEAN /\ should_exit' \in BOOLEAN /\ phase' \in Phases
  <2>1. mbus_shutdown_error \in BOOLEAN /\ should_exit \in BOOLEAN /\ phase \in Phases
    BY DEF IInv, TypeOK
  <2>2. (mbus_shutdown_error \/ should_exit) \in BOOLEAN
    OBVIOUS
  <2> QED BY <1>1, <2>1, <2>2 DEF Phases
<1>7. TypeOK'
  BY <1>1, <1>2, <1>6 DEF IInv, TypeOK, jvars, reception
<1>8. QueueInOrder'
  BY <1>1 DEF IInv, QueueInOrder
<1> QED BY <1>1, <1>3, <1>4, <1>5, <1>7, <1>8 DEF IInv, QueueInv

-----------------------------------------------------------------------------
(* Steps of the telephone's endpoints. *)

\* They change the bus only by acknowledgements of what was accepted and by their
\* own messages, which the engine's invariants do not look at.
LEMMA PeersKeep ==
  ASSUME IInv, UNCHANGED mbusvars, net \subseteq net',
         \A packet \in net' \ net :
           packet \in PeerCommands \/ (packet \in PeerAcks /\ packet.body \in got'[packet.from]),
         got' \in [Peers -> SUBSET Nat], \A p \in Peers : got[p] \subseteq got'[p],
         \A p \in Peers : \A a \in got'[p] \ got[p] :
           \E packet \in net \cap EngineCommands : packet.reliable /\ packet.to = p /\ packet.seq = a,
         AckQueue' \subseteq Messages, succeeded' \subseteq Messages, failed' \subseteq Messages
  PROVE  /\ TypeOK' /\ QueueInOrder' /\ QueueInv' /\ AcksMeanGot'
         /\ \A packet \in net' \cap EngineAcks : <<packet.to, packet.body>> \in Taken'
         /\ Taken' = Taken /\ receiving' = receiving
<1>0. Taken' = Taken /\ receiving' = receiving
  BY SameTaken DEF mbusvars, reception
<1>1. net' \cap EngineCommands = net \cap EngineCommands
  BY Disjoint
<1>2. net' \subseteq Bus
  BY DEF IInv, QueueInv, NetInv, Bus
<1>3. TypeOK'
  <2>1. \A packet \in PeerCommands : Len(packet.body) = 0
    BY DEF PeerCommands
  <2>2. \A packet \in PeerAcks : packet.kind # "commands"
    BY DEF PeerAcks
  <2>3. \A packet \in net' : packet.kind = "commands" => Len(packet.body) <= MBUS_MAX_QLEN
    BY <2>1, <2>2 DEF IInv, TypeOK
  <2> QED BY <2>3 DEF IInv, TypeOK, mbusvars
<1>4. QueueInOrder'
  BY DEF IInv, QueueInOrder, mbusvars
<1>5. QueueInv'
  <2>1. NetInv(net', cmd_queue, seqnum) /\ OneReceiver(net', waiting_ack)
    BY <1>1, <1>2 DEF IInv, QueueInv, NetInv, OneReceiver
  <2> QED BY <2>1 DEF IInv, QueueInv, mbusvars
<1>6. AcksMeanGot'
  <2>1. \A packet \in net \cap PeerAcks : packet.body \in got'[packet.from]
    <3>1. \A packet \in PeerAcks : packet.from \in Peers
      BY DEF PeerAcks
    <3> QED BY <3>1 DEF IInv, AcksMeanGot
  <2>2. \A packet \in net' \cap PeerAcks : packet.body \in got'[packet.from]
    BY <2>1, Disjoint
  <2>3. \A p \in Peers : \A a \in got'[p] :
          \E packet \in net' \cap EngineCommands : packet.reliable /\ packet.to = p /\ packet.seq = a
    BY <1>1 DEF IInv, AcksMeanGot
  <2> QED BY <2>2, <2>3 DEF AcksMeanGot
<1>7. \A packet \in net' \cap EngineAcks : <<packet.to, packet.body>> \in Taken'
  BY <1>0, Disjoint DEF IInv, AcksMeanTaken
<1> QED BY <1>0, <1>3, <1>4, <1>5, <1>6, <1>7

\* Steps that leave a receiver's datagram alone or put it aside.
LEMMA RetransmitterKeeps ==
  ASSUME IInv, UNCHANGED mbusvars, NEW m \in Messages, SendReliably(m) \/ RetransmitterNext(m)
  PROVE  IInv'
<1>1. /\ net' \subseteq net \cup {Datagram(m)} /\ net \subseteq net'
      /\ UNCHANGED <<rx, handled, got, succeeded>>
      /\ AckQueue' \subseteq AckQueue \cup {m} /\ failed' \subseteq failed \cup {m}
  BY DEF SendReliably, RetransmitterNext, StartThread, Repeat, DeliveryFailed
<1>2. Datagram(m) \in PeerCommands
  BY DEF Datagram, Packet, PeerCommands
<1>3. /\ TypeOK' /\ QueueInOrder' /\ QueueInv' /\ AcksMeanGot'
      /\ \A packet \in net' \cap EngineAcks : <<packet.to, packet.body>> \in Taken'
      /\ Taken' = Taken /\ receiving' = receiving
  <2>1. \A packet \in net' \ net : packet \in PeerCommands
    BY <1>1, <1>2
  <2>2. AckQueue' \subseteq Messages /\ succeeded' \subseteq Messages /\ failed' \subseteq Messages
    BY <1>1 DEF IInv, TypeOK
  <2> QED BY <1>1, <2>1, <2>2, PeersKeep DEF IInv, AcksMeanGot
<1>4. AcksMeanTaken' /\ SuccessMeansAccepted'
  BY <1>1, <1>3 DEF IInv, AcksMeanTaken, SuccessMeansAccepted
<1> QED BY <1>3, <1>4 DEF IInv

LEMMA ArriveKeeps ==
  ASSUME IInv, UNCHANGED mbusvars, NEW p \in Peers, Arrive(p) PROVE IInv'
<1>1. PICK packet \in net :
        /\ packet.to = p
        /\ net' = IF packet.reliable
                    THEN net \cup {Packet("ack", p, Engine, 0, FALSE, packet.seq)} ELSE net
        /\ CASE packet.kind = "commands" ->
                  /\ rx' = [rx EXCEPT ![p] = [at |-> "deliver", packet |-> packet]]
                  /\ got' = IF packet.reliable THEN [got EXCEPT ![p] = @ \cup {packet.seq}]
                                              ELSE got
             [] packet.kind = "ack" ->
                  /\ rx' = [rx EXCEPT ![p] = IF <<p, packet.body>> \in AckQueue
                                               THEN [at |-> "halt", packet |-> packet] ELSE Idle]
                  /\ UNCHANGED got
  BY DEF Arrive
<1>2. UNCHANGED <<AckQueue, rt, handled, succeeded, failed>>
  BY DEF Arrive
<1>3. packet \in EngineCommands \cup EngineAcks
  BY <1>1 DEF IInv, QueueInv, NetInv, Bus, PeerAcks, PeerCommands
<1>4. packet \in Bus
  BY <1>3 DEF Bus
<1>5. got \in [Peers -> SUBSET Nat]
  BY DEF IInv, AcksMeanGot
<1>6. rx \in [Peers -> [at : {"idle", "deliver", "halt", "report"}, packet : Bus \cup {None}]]
  BY DEF IInv, AcksMeanTaken
<1> DEFINE ack == Packet("ack", p, Engine, 0, FALSE, packet.seq)
<1>7. CASE packet \in EngineCommands
  <2>1. packet.kind = "commands" /\ packet.seq \in Nat /\ packet.reliable \in BOOLEAN
    BY <1>7 DEF EngineCommands
  <2>2. /\ rx' = [rx EXCEPT ![p] = [at |-> "deliver", packet |-> packet]]
        /\ got' = IF packet.reliable THEN [got EXCEPT ![p] = @ \cup {packet.seq}] ELSE got
    BY <1>1, <2>1
  <2>3. ack \in PeerAcks /\ ack.from = p /\ ack.body = packet.seq
    BY <2>1 DEF Packet, PeerAcks
  <2> HIDE DEF ack
  <2>4. net \subseteq net' /\ \A k \in net' \ net : k = ack /\ packet.reliable
    BY <1>1 DEF ack
  <2>5. /\ got' \in [Peers -> SUBSET Nat] /\ \A o \in Peers : got[o] \subseteq got'[o]
        /\ packet.reliable => packet.seq \in got'[p]
        /\ \A o \in Peers : \A a \in got'[o] \ got[o] : o = p /\ a = packet.seq /\ packet.reliable
    BY <1>5, <2>1, <2>2
  <2>6. \A o \in Peers : \A a \in got'[o] \ got[o] :
          \E k \in net \cap EngineCommands : k.reliable /\ k.to = o /\ k.seq = a
    BY <1>1, <1>7, <2>5
  <2>7. \A k \in net' \ net : k \in PeerAcks /\ k.body \in got'[k.from]
    BY <2>3, <2>4, <2>5
  <2>8. /\ TypeOK' /\ QueueInOrder' /\ QueueInv' /\ AcksMeanGot'
        /\ \A k \in net' \cap EngineAcks : <<k.to, k.body>> \in Taken'
        /\ Taken' = Taken /\ receiving' = receiving
    BY <1>2, <2>4, <2>5, <2>6, <2>7, PeersKeep DEF IInv, TypeOK
  <2>9. AcksMeanTaken'
    <3>1. [at |-> "deliver", packet |-> packet]
            \in [at : {"idle", "deliver", "halt", "report"}, packet : Bus \cup {None}]
      BY <1>4
    <3>2. rx' \in [Peers -> [at : {"idle", "deliver", "halt", "report"}, packet : Bus \cup {None}]]
      BY <1>6, <2>2, <3>1
    <3>3. \A o \in Peers : rx'[o].at \in {"halt", "report"} => o # p /\ rx'[o] = rx[o]
      BY <1>6, <2>2
    <3> QED BY <2>8, <3>2, <3>3 DEF IInv, AcksMeanTaken
  <2>10. SuccessMeansAccepted'
    BY <1>2, <2>8 DEF IInv, SuccessMeansAccepted
  <2> QED BY <2>8, <2>9, <2>10 DEF IInv
<1>8. CASE packet \in EngineAcks
  <2>1. packet.kind = "ack" /\ packet.reliable = FALSE /\ <<p, packet.body>> \in Taken
    BY <1>1, <1>8 DEF EngineAcks, IInv, AcksMeanTaken
  <2>2. /\ net' = net /\ got' = got
        /\ rx' = [rx EXCEPT ![p] = IF <<p, packet.body>> \in AckQueue
                                     THEN [at |-> "halt", packet |-> packet] ELSE Idle]
    BY <1>1, <2>1
  <2>3. /\ TypeOK' /\ QueueInOrder' /\ QueueInv' /\ AcksMeanGot'
        /\ \A k \in net' \cap EngineAcks : <<k.to, k.body>> \in Taken'
        /\ Taken' = Taken /\ receiving' = receiving
    BY <1>2, <1>5, <2>2, PeersKeep DEF IInv, TypeOK
  <2>4. AcksMeanTaken'
    <3>1. /\ [at |-> "halt", packet |-> packet]
               \in [at : {"idle", "deliver", "halt", "report"}, packet : Bus \cup {None}]
          /\ Idle \in [at : {"idle", "deliver", "halt", "report"}, packet : Bus \cup {None}]
      BY <1>4 DEF Idle
    <3>2. rx' \in [Peers -> [at : {"idle", "deliver", "halt", "report"}, packet : Bus \cup {None}]]
      BY <1>6, <2>2, <3>1
    <3>3. ASSUME NEW o \in Peers, rx'[o].at \in {"halt", "report"}
          PROVE  <<o, rx'[o].packet.body>> \in Messages /\ <<o, rx'[o].packet.body>> \in Taken
      <4>1. CASE o = p
        <5>1. <<p, packet.body>> \in AckQueue /\ rx'[p].packet = packet
          BY <1>6, <2>2, <3>3, <4>1 DEF Idle
        <5> QED BY <2>1, <4>1, <5>1 DEF IInv, TypeOK
      <4>2. CASE o # p
        BY <1>6, <2>2, <3>3, <4>2 DEF IInv, AcksMeanTaken
      <4> QED BY <4>1, <4>2
    <3> QED BY <2>3, <3>2, <3>3 DEF IInv, AcksMeanTaken
  <2>5. SuccessMeansAccepted'
    BY <1>2, <2>3 DEF IInv, SuccessMeansAccepted
  <2> QED BY <2>3, <2>4, <2>5 DEF IInv
<1> QED BY <1>3, <1>7, <1>8

LEMMA ReceiverKeeps ==
  ASSUME IInv, UNCHANGED mbusvars, NEW p \in Peers,
         Halt(p) \/ DeliverySuccessful(p) \/ Deliver(p)
  PROVE  IInv'
<1>1. rx \in [Peers -> [at : {"idle", "deliver", "halt", "report"}, packet : Bus \cup {None}]]
  BY DEF IInv, AcksMeanTaken
<1>2. /\ UNCHANGED <<net, got, failed>> /\ AckQueue' \subseteq AckQueue
      /\ rx' = [rx EXCEPT ![p] = Idle] \/ (rx' = [rx EXCEPT ![p].at = "report"] /\ rx[p].at = "halt")
      /\ succeeded' = succeeded
            \/ (succeeded' = succeeded \cup {<<p, rx[p].packet.body>>} /\ rx[p].at = "report")
  BY DEF Halt, DeliverySuccessful, Deliver
<1>3. \A m \in succeeded' \ succeeded :
        m = <<p, rx[p].packet.body>> /\ m \in Messages /\ m \in Taken
  BY <1>2 DEF IInv, AcksMeanTaken
<1>4. succeeded' \subseteq Messages
  BY <1>3 DEF IInv, TypeOK
<1>5. /\ TypeOK' /\ QueueInOrder' /\ QueueInv' /\ AcksMeanGot'
      /\ \A k \in net' \cap EngineAcks : <<k.to, k.body>> \in Taken'
      /\ Taken' = Taken /\ receiving' = receiving
  <2>1. got \in [Peers -> SUBSET Nat] /\ AckQueue' \subseteq Messages /\ failed' \subseteq Messages
    BY <1>2 DEF IInv, AcksMeanGot, TypeOK
  <2> QED BY <1>2, <1>4, <2>1, PeersKeep
<1>6. AcksMeanTaken'
  <2>1. CASE rx' = [rx EXCEPT ![p] = Idle]
    <3>1. Idle \in [at : {"idle", "deliver", "halt", "report"}, packet : Bus \cup {None}] /\ Idle.at = "idle"
      BY DEF Idle
    <3>2. rx' \in [Peers -> [at : {"idle", "deliver", "halt", "report"}, packet : Bus \cup {None}]]
      BY <1>1, <2>1, <3>1
    <3>3. \A o \in Peers : rx'[o].at \in {"halt", "report"} => rx'[o] = rx[o]
      BY <1>1, <2>1, <3>1
    <3> QED BY <1>5, <3>2, <3>3 DEF IInv, AcksMeanTaken
  <2>2. CASE rx' = [rx EXCEPT ![p].at = "report"] /\ rx[p].at = "halt"
    <3>1. /\ rx' \in [Peers -> [at : {"idle", "deliver", "halt", "report"}, packet : Bus \cup {None}]]
          /\ \A o \in Peers : rx'[o].packet = rx[o].packet /\ (o # p => rx'[o] = rx[o])
      BY <1>1, <2>2
    <3>2. \A o \in Peers : rx'[o].at \in {"halt", "report"} => rx[o].at \in {"halt", "report"}
      BY <2>2, <3>1
    <3> QED BY <1>5, <3>1, <3>2 DEF IInv, AcksMeanTaken
  <2> QED BY <1>2, <2>1, <2>2
<1>7. SuccessMeansAccepted'
  <2>1. \A m \in succeeded' \ succeeded : m \in Taken
    BY <1>3
  <2> QED BY <1>5, <2>1 DEF IInv, SuccessMeansAccepted
<1> QED BY <1>5, <1>6, <1>7 DEF IInv

-----------------------------------------------------------------------------
LEMMA Initially == Init => IInv
<1> SUFFICES ASSUME Init PROVE IInv
  OBVIOUS
<1> USE DEF Init, NetInit, MbusInit, JInit
<1>1. TypeOK
  <2>1. cmd_queue \in Seq(Message) /\ asked \in Seq([dest : Destinations, reliable : BOOLEAN])
    OBVIOUS
  <2>2. \A n \in 1 .. Len(cmd_queue) : FALSE
    OBVIOUS
  <2>3. /\ seqnum \in Nat /\ index \in Nat /\ index_sent \in Nat /\ phase \in Phases
        /\ should_exit \in BOOLEAN /\ mbus_shutdown_error \in BOOLEAN
        /\ waiting_ack = None /\ net = {}
        /\ receiving = {} /\ handled_by_engine = {} /\ unparsed = {} /\ AckQueue = {} /\ succeeded = {} /\ failed = {}
    BY DEF Phases
  <2>4. other_addr \subseteq Peers
    BY BusParameters
  <2> HIDE DEF Init, NetInit, MbusInit, JInit
  <2> QED BY <2>1, <2>2, <2>3, <2>4 DEF TypeOK
<1>2. QueueInOrder
  BY DEF QueueInOrder, InOrder, EndOf
<1>3. QueueInv
  BY DEF QueueInv, Numbered, NetInv, OneReceiver
<1>4. AcksMeanGot
  BY DEF AcksMeanGot
<1>5. AcksMeanTaken
  <2>1. Idle \in [at : {"idle", "deliver", "halt", "report"}, packet : Bus \cup {None}] /\ Idle.at = "idle"
    BY DEF Idle
  <2> QED BY <2>1 DEF AcksMeanTaken
<1>6. SuccessMeansAccepted
  BY DEF SuccessMeansAccepted
<1> QED BY <1>1, <1>2, <1>3, <1>4, <1>5, <1>6 DEF IInv

LEMMA Kept == IInv /\ [Next]_vars => IInv'
<1> SUFFICES ASSUME IInv, [Next]_vars PROVE IInv'
  OBVIOUS
<1>1. CASE EngineNext /\ UNCHANGED jvars
  BY <1>1, QmsgKeeps, SendKeeps, RecvKeeps, HandleKeeps, OthersKeep, LeaveLoopKeeps,
     ExitKeeps DEF EngineNext
<1>2. CASE PeersNext /\ UNCHANGED mbusvars
  BY <1>2, RetransmitterKeeps, ArriveKeeps, ReceiverKeeps DEF PeersNext, ReceiverNext
<1>3. CASE UNCHANGED vars
  BY <1>3 DEF vars, mbusvars, jvars, IInv, TypeOK, QueueInOrder, QueueInv, AcksMeanGot,
              AcksMeanTaken, SuccessMeansAccepted, Taken
<1> QED BY <1>1, <1>2, <1>3 DEF Next

LEMMA Invariance == Spec => []IInv
BY Initially, Kept, PTL DEF Spec

\* Types, and no message holds more commands than its arrays (struct mbus_msg).
THEOREM TypeCorrect == Spec => []TypeOK
<1>1. IInv => TypeOK
  BY DEF IInv
<1> QED BY <1>1, Invariance, PTL

\* mbus_send never meets a command out of order nor an open message that is not
\* the last: its assertions (mbus.c:594, 616) never fail.
THEOREM QueueOrdered == Spec => []QueueInOrder
<1>1. IInv => QueueInOrder
  BY DEF IInv
<1> QED BY <1>1, Invariance, PTL

\* The telephone reports success (deliverySuccessful) only of messages that the
\* engine's mbus_recv took from the bus, whatever the bus loses, repeats and
\* reorders: each is handled, or has a command that does not parse, or is still
\* in mbus_recv's hands, which acknowledges it before it looks at its commands.
THEOREM SuccessTrue == Spec => []SuccessMeansAccepted
<1>1. IInv => SuccessMeansAccepted
  BY DEF IInv
<1> QED BY <1>1, Invariance, PTL

\* mbus_recv never takes the acknowledgement of one message, or of one entity, for
\* that of another: what it releases was accepted where it was sent.
THEOREM Released == Spec => ReleasedWhenGot
<1> DEFINE Rightly == waiting_ack # None /\ waiting_ack' = None =>
                        \/ waiting_ack.seqnum \in got[waiting_ack.dest]
                        \/ phase' \in {"aborted", "gone"} \/ mbus_shutdown_error'
<1>1. ASSUME IInv, [Next]_vars PROVE Rightly
  <2> SUFFICES ASSUME waiting_ack # None, waiting_ack' = None
               PROVE  \/ waiting_ack.seqnum \in got[waiting_ack.dest]
                      \/ phase' \in {"aborted", "gone"} \/ mbus_shutdown_error'
    OBVIOUS
  <2>1. CASE Recv
    BY <1>1, <2>1, ReachesEngine DEF Recv
  <2>2. CASE GiveUp
    BY <2>2 DEF GiveUp
  <2>3. CASE Exit
    BY <2>3 DEF Exit
  <2>4. CASE Send
    BY <2>4 DEF Send, Batch
  <2>5. CASE LeaveLoop
    BY <2>5 DEF LeaveLoop, Batch, Awaited, Sent, Aborts, Fails
  <2>6. CASE \/ Qmsg \/ Handle \/ DropCommands \/ Heartbeat \/ ControllerGone
             \/ UNCHANGED vars \/ UNCHANGED mbusvars
    BY <2>6 DEF Qmsg, Handle, DropCommands, Heartbeat, ControllerGone, vars, mbusvars
  <2> QED BY <1>1, <2>1, <2>2, <2>3, <2>4, <2>5, <2>6 DEF Next, EngineNext
<1> QED BY <1>1, Invariance, PTL DEF Spec, ReleasedWhenGot
-----------------------------------------------------------------------------
(* The invariant of the order of reliable commands, on top of IInv. *)

Holds(list, i) == \E k \in 1 .. Len(list) : list[k] = i

\* Commands asked for one after the other.
Run(list) == Len(list) >= 1 /\ \A k \in 1 .. Len(list) : list[k] = list[1] + k - 1

\* The messages of a queue are runs, one behind the other, of the commands from sent
\* to last.
Spaced(queue, sent, last) ==
  /\ sent <= last
  /\ \A n \in 1 .. Len(queue) :
       /\ Run(queue[n].idx_list)
       /\ \A k \in 1 .. Len(queue[n].idx_list) :
            sent < queue[n].idx_list[k] /\ queue[n].idx_list[k] <= last
  /\ \A m, n \in 1 .. Len(queue) : m < n =>
       \A k \in 1 .. Len(queue[m].idx_list), l \in 1 .. Len(queue[n].idx_list) :
         queue[m].idx_list[k] < queue[n].idx_list[l]
  /\ \A i \in sent + 1 .. last : \E n \in 1 .. Len(queue) : Holds(queue[n].idx_list, i)

\* A message goes where its commands are meant to go, reliably if one of them has to.
Carries(m, list) ==
  \A k \in 1 .. Len(m.idx_list) :
    LET i == m.idx_list[k] IN
    i \in 1 .. Len(list) /\ list[i].dest = m.dest /\ (list[i].reliable => m.reliable)

Reliables == {packet \in net \cap EngineCommands : packet.reliable}

\* Command i came to p in a reliable message that p accepted.
Accepted(p, i) ==
  \E packet \in Reliables :
    packet.to = p /\ packet.seq \in got[p] /\ Holds(packet.body, i)

QueueCarries == /\ index = Len(asked)
                /\ phase # "gone" => Spaced(cmd_queue, index_sent, index)
                /\ \A n \in 1 .. Len(cmd_queue) : Carries(cmd_queue[n], asked)

\* What is on the bus: runs of commands that were asked for, the same in every
\* datagram of a message.
BusCarries ==
  /\ \A packet \in Reliables :
       /\ Run(packet.body)
       /\ \A k \in 1 .. Len(packet.body) : packet.body[k] \in 1 .. index
  /\ \A one, other \in Reliables : one.seq = other.seq => one.body = other.body

\* The message that waits is on the bus.
WaitsOnBus ==
  waiting_ack # None =>
    /\ Carries(waiting_ack, asked)
    /\ \E packet \in Reliables : /\ packet.to = waiting_ack.dest /\ packet.seq = waiting_ack.seqnum
                                 /\ packet.body = waiting_ack.idx_list

\* While the engine runs, a reliable command it sent was accepted, or waits.
SentAccepted ==
  phase \notin {"gone", "aborted"} =>
    \A p \in Peers : \A i \in 1 .. index_sent : For(p, i) =>
      \/ Accepted(p, i) \/ mbus_shutdown_error
      \/ waiting_ack # None /\ Holds(waiting_ack.idx_list, i)

\* So a reliable message is sent only when all before it were accepted.
Preceded ==
  \A packet \in Reliables : \A i \in 1 .. packet.body[1] - 1 :
    For(packet.to, i) => Accepted(packet.to, i) \/ mbus_shutdown_error

\* What an entity accepted it has handled, or has in hand.
AcceptedHandled ==
  /\ handled \in [Peers -> Seq(Nat \ {0})]
  /\ \A p \in Peers : \A k \in 1 .. Len(handled[p]) : handled[p][k] <= index
  /\ \A p \in Peers : rx[p].at = "deliver" =>
       rx[p].packet \in net \cap EngineCommands /\ rx[p].packet.to = p
  /\ \A packet \in Reliables : packet.seq \in got[packet.to] =>
       \/ \A k \in 1 .. Len(packet.body) : Holds(handled[packet.to], packet.body[k])
       \/ /\ rx[packet.to].at = "deliver" /\ rx[packet.to].packet.reliable
          /\ rx[packet.to].packet.seq = packet.seq

OInv == /\ QueueCarries /\ BusCarries /\ WaitsOnBus /\ SentAccepted /\ Preceded
        /\ AcceptedHandled /\ ReliableInOrder

-----------------------------------------------------------------------------
\* What mbus_qmsg does to the messages of a queue.
LEMMA QueuedShape ==
  ASSUME NEW queue \in Seq(Message), NEW dest \in Destinations, NEW reliable \in BOOLEAN,
         index \in Nat, seqnum \in Nat
  PROVE  LET new == Queued(queue, dest, reliable)
         IN  \/ /\ Len(new) = Len(queue) /\ Len(queue) > 0 /\ queue[Len(queue)].dest = dest
                /\ \A n \in 1 .. Len(queue) : n # Len(queue) => new[n] = queue[n]
                /\ new[Len(queue)] = Extended(queue[Len(queue)], reliable)
             \/ /\ Len(new) = Len(queue) + 1
                /\ \A n \in 1 .. Len(queue) : /\ new[n].idx_list = queue[n].idx_list
                                              /\ new[n].dest = queue[n].dest
                                              /\ new[n].reliable = queue[n].reliable
                /\ new[Len(queue) + 1] = NewMessage(dest, reliable)
<1> DEFINE new == Queued(queue, dest, reliable)
           last == Len(queue)
<1>1. CASE Joins(queue, dest)
  <2> DEFINE longer == Extended(queue[last], reliable)
  <2>1. last \in 1 .. Len(queue) /\ queue[last].dest = dest
    BY <1>1 DEF Joins, Open
  <2>2. longer \in Message
    BY <2>1, ExtendedOK
  <2>3. new = [queue EXCEPT ![last] = longer]
    BY <1>1 DEF Queued
  <2> HIDE DEF longer, new
  <2>4. /\ new \in Seq(Message) /\ Len(new) = last /\ new[last] = longer
        /\ \A n \in 1 .. last : n # last => new[n] = queue[n]
    BY <2>1, <2>2, <2>3
  <2> QED BY <2>1, <2>4 DEF longer, new
<1>2. CASE ~Joins(queue, dest)
  <2> DEFINE m == NewMessage(dest, reliable)
             closed == IF Open(queue) THEN [queue EXCEPT ![last] = Closed(@)] ELSE queue
  <2>1. m \in Message
    <3>1. <<index + 1>> \in Seq(Nat \ {0}) /\ seqnum + 1 \in Nat \ {0}
      OBVIOUS
    <3> QED BY <3>1 DEF NewMessage, Message
  <2>2. /\ closed \in Seq(Message) /\ Len(closed) = last
        /\ \A n \in 1 .. last : /\ closed[n].idx_list = queue[n].idx_list
                                /\ closed[n].dest = queue[n].dest
                                /\ closed[n].reliable = queue[n].reliable
    <3>1. CASE Open(queue)
      <4> DEFINE shut == Closed(queue[last])
      <4>1. last \in 1 .. Len(queue)
        BY <3>1 DEF Open
      <4>2. /\ shut \in Message /\ shut.idx_list = queue[last].idx_list
            /\ shut.dest = queue[last].dest /\ shut.reliable = queue[last].reliable
        BY <4>1, ClosedOK
      <4>3. closed = [queue EXCEPT ![last] = shut]
        BY <3>1
      <4> HIDE DEF shut, closed
      <4> QED BY <4>1, <4>2, <4>3
    <3>2. CASE ~Open(queue)
      BY <3>2
    <3> QED BY <3>1, <3>2
  <2>3. new = Append(closed, m)
    BY <1>2 DEF Queued
  <2> HIDE DEF m, closed, new
  <2>4. /\ new \in Seq(Message) /\ Len(new) = last + 1 /\ new[last + 1] = m
        /\ \A n \in 1 .. last : new[n] = closed[n]
    BY <2>1, <2>2, <2>3
  <2> QED BY <2>2, <2>4 DEF m, new
<1> QED BY <1>1, <1>2

\* A run with the next command at its end is a run.
LEMMA LongerRun ==
  ASSUME NEW list \in Seq(Nat \ {0}), NEW end \in Nat, Run(list), list[Len(list)] = end,
         NEW longer, longer = Append(list, end + 1)
  PROVE  /\ Run(longer) /\ Len(longer) = Len(list) + 1 /\ longer[Len(list) + 1] = end + 1
         /\ \A k \in 1 .. Len(list) : longer[k] = list[k]
<1>1. /\ Len(longer) = Len(list) + 1 /\ longer[Len(list) + 1] = end + 1
      /\ \A k \in 1 .. Len(list) : longer[k] = list[k]
  OBVIOUS
<1>2. list[1] \in Nat /\ Len(list) \in Nat /\ Len(list) >= 1 /\ end = list[1] + Len(list) - 1
  BY DEF Run
<1>3. ASSUME NEW k \in 1 .. Len(longer) PROVE longer[k] = longer[1] + k - 1
  <2>1. CASE k = Len(list) + 1
    BY <1>1, <1>2, <2>1
  <2>2. CASE k # Len(list) + 1
    <3>1. k \in 1 .. Len(list) /\ longer[1] = list[1]
      BY <1>1, <1>2, <2>2
    <3>2. list[k] = list[1] + k - 1
      BY <3>1 DEF Run
    <3>3. longer[k] = list[k]
      BY <1>1, <3>1
    <3> QED BY <3>1, <3>2, <3>3
  <2> QED BY <2>1, <2>2
<1>4. Len(longer) >= 1
  BY <1>1, <1>2
<1>5. Run(longer)
  BY <1>3, <1>4 DEF Run
<1> QED BY <1>1, <1>5

LEMMA QueuedSpaced ==
  ASSUME NEW queue \in Seq(Message), NEW dest \in Destinations, NEW reliable \in BOOLEAN,
         index \in Nat, seqnum \in Nat, NEW sent \in Nat, Fits(queue),
         InOrder(queue, sent, index), Spaced(queue, sent, index),
         NEW new, new = Queued(queue, dest, reliable)
  PROVE  Spaced(new, sent, index + 1)
<1> DEFINE last == Len(queue)
<1>1. CASE /\ Len(new) = last /\ last > 0
           /\ \A n \in 1 .. last : n # last => new[n] = queue[n]
           /\ new[last] = Extended(queue[last], reliable)
  <2>1. last \in 1 .. Len(queue)
    BY <1>1
  <2>2. PICK list \in Seq(Nat \ {0}) : list = queue[last].idx_list
    BY <2>1, Fields
  <2>3. Run(list) /\ list[Len(list)] = index
    BY <2>1, <2>2 DEF Spaced, InOrder, EndOf
  <2>4. PICK longer : longer = Append(list, index + 1)
    OBVIOUS
  <2>5. /\ Run(longer) /\ Len(longer) = Len(list) + 1 /\ longer[Len(list) + 1] = index + 1
        /\ \A k \in 1 .. Len(list) : longer[k] = list[k]
    <3>1. PICK end \in Nat : end = index
      OBVIOUS
    <3>2. Run(list) /\ list[Len(list)] = end /\ longer = Append(list, end + 1)
      BY <2>3, <2>4, <3>1
    <3>3. /\ Run(longer) /\ Len(longer) = Len(list) + 1 /\ longer[Len(list) + 1] = end + 1
          /\ \A k \in 1 .. Len(list) : longer[k] = list[k]
      <4>1. \A s \in Seq(Nat \ {0}), e \in Nat : Run(s) /\ s[Len(s)] = e => Run(Append(s, e + 1))
        BY LongerRun
      <4> QED BY <3>2, <4>1, LongerRun
    <3> QED BY <3>1, <3>3
  <2>6. new[last].idx_list = longer
    BY <1>1, <2>2, <2>4 DEF Extended
  <2>7. \A k \in 1 .. Len(longer) : k = Len(list) + 1 \/ k \in 1 .. Len(list)
    BY <2>5
  <2>8. \A n \in 1 .. last : n # last => new[n].idx_list = queue[n].idx_list
    BY <1>1
  <2>9. \A n \in 1 .. last : \A k \in 1 .. Len(queue[n].idx_list) :
          sent < queue[n].idx_list[k] /\ queue[n].idx_list[k] <= index /\ queue[n].idx_list[k] \in Nat
    BY Fields DEF Spaced
  <2>10. \A k \in 1 .. Len(list) : sent < list[k] /\ list[k] <= index /\ list[k] \in Nat
    BY <2>1, <2>2, <2>9
  <2>11. sent <= index + 1 /\ sent < index + 1
    BY DEF Spaced
  <2>12. \A k \in 1 .. Len(longer) : sent < longer[k] /\ longer[k] <= index + 1
    BY <2>5, <2>7, <2>10, <2>11
  <2>13. \A n \in 1 .. last :
           /\ Run(new[n].idx_list)
           /\ \A k \in 1 .. Len(new[n].idx_list) :
                sent < new[n].idx_list[k] /\ new[n].idx_list[k] <= index + 1
    <3> SUFFICES ASSUME NEW n \in 1 .. last
                 PROVE  /\ Run(new[n].idx_list)
                        /\ \A k \in 1 .. Len(new[n].idx_list) :
                             sent < new[n].idx_list[k] /\ new[n].idx_list[k] <= index + 1
      OBVIOUS
    <3>1. CASE n = last
      BY <2>5, <2>6, <2>12, <3>1
    <3>2. CASE n # last
      <4>1. \A k \in 1 .. Len(queue[n].idx_list) : queue[n].idx_list[k] <= index + 1
        BY <2>9
      <4> QED BY <2>8, <2>9, <3>2, <4>1 DEF Spaced
    <3> QED BY <3>1, <3>2
  <2>14. ASSUME NEW m \in 1 .. last, NEW n \in 1 .. last, m < n,
                NEW k \in 1 .. Len(new[m].idx_list), NEW l \in 1 .. Len(new[n].idx_list)
         PROVE  new[m].idx_list[k] < new[n].idx_list[l]
    <3>1. m # last /\ new[m].idx_list = queue[m].idx_list
      BY <2>8, <2>14
    <3>2. queue[m].idx_list[k] < index + 1
      BY <2>9, <3>1
    <3>3. CASE n # last
      BY <2>8, <2>14, <3>1, <3>3 DEF Spaced
    <3>4. CASE n = last /\ l = Len(list) + 1
      BY <2>5, <2>6, <3>1, <3>2, <3>4
    <3>5. CASE n = last /\ l \in 1 .. Len(list)
      <4>1. queue[m].idx_list[k] < queue[n].idx_list[l]
        BY <2>2, <2>14, <3>1, <3>5 DEF Spaced
      <4> QED BY <2>2, <2>5, <2>6, <3>1, <3>5, <4>1
    <3> QED BY <2>6, <2>7, <3>3, <3>4, <3>5
  <2>15. ASSUME NEW i \in sent + 1 .. index + 1
         PROVE  \E n \in 1 .. last : Holds(new[n].idx_list, i)
    <3>1. CASE i = index + 1
      <4>1. Len(list) + 1 \in 1 .. Len(longer)
        BY <2>5
      <4> QED BY <2>1, <2>5, <2>6, <3>1, <4>1 DEF Holds
    <3>2. CASE i # index + 1
      <4>1. i \in sent + 1 .. index
        BY <3>2
      <4>2. PICK n \in 1 .. last : Holds(queue[n].idx_list, i)
        BY <4>1 DEF Spaced
      <4>3. PICK k \in 1 .. Len(queue[n].idx_list) : queue[n].idx_list[k] = i
        BY <4>2 DEF Holds
      <4>4. CASE n = last
        <5>1. k \in 1 .. Len(longer) /\ longer[k] = i
          BY <2>2, <2>5, <4>3, <4>4
        <5> QED BY <2>6, <4>4, <5>1 DEF Holds
      <4>5. CASE n # last
        BY <2>8, <4>2, <4>5
      <4> QED BY <4>4, <4>5
    <3> QED BY <3>1, <3>2
  <2> QED BY <1>1, <2>11, <2>13, <2>14, <2>15 DEF Spaced
<1>2. CASE /\ Len(new) = last + 1
           /\ \A n \in 1 .. last : new[n].idx_list = queue[n].idx_list
           /\ new[last + 1] = NewMessage(dest, reliable)
  <2>1. new[last + 1].idx_list = <<index + 1>>
    BY <1>2 DEF NewMessage
  <2>2. \A n \in 1 .. last + 1 : n = last + 1 \/ n \in 1 .. last
    OBVIOUS
  <2>3. \A n \in 1 .. last : \A k \in 1 .. Len(queue[n].idx_list) :
          /\ sent < queue[n].idx_list[k] /\ queue[n].idx_list[k] <= index
          /\ queue[n].idx_list[k] <= index + 1 /\ queue[n].idx_list[k] < index + 1
    <3>1. \A n \in 1 .. last : \A k \in 1 .. Len(queue[n].idx_list) :
            sent < queue[n].idx_list[k] /\ queue[n].idx_list[k] <= index /\ queue[n].idx_list[k] \in Nat
      BY Fields DEF Spaced
    <3> QED BY <3>1
  <2>4. sent <= index + 1 /\ sent < index + 1
    BY DEF Spaced
  <2>5. Len(<<index + 1>>) = 1 /\ \A k \in 1 .. 1 : k = 1 /\ <<index + 1>>[k] = index + 1
    OBVIOUS
  <2>6. Run(<<index + 1>>)
    BY <2>5 DEF Run
  <2>7. \A n \in 1 .. last + 1 :
           /\ Run(new[n].idx_list)
           /\ \A k \in 1 .. Len(new[n].idx_list) :
                sent < new[n].idx_list[k] /\ new[n].idx_list[k] <= index + 1
    <3>1. \A n \in 1 .. last : Run(new[n].idx_list)
      BY <1>2 DEF Spaced
    <3>2. \A n \in 1 .. last : \A k \in 1 .. Len(new[n].idx_list) :
            sent < new[n].idx_list[k] /\ new[n].idx_list[k] <= index + 1
      BY <1>2, <2>3
    <3>3. /\ Run(new[last + 1].idx_list)
          /\ \A k \in 1 .. Len(new[last + 1].idx_list) :
               sent < new[last + 1].idx_list[k] /\ new[last + 1].idx_list[k] <= index + 1
      BY <2>1, <2>4, <2>5, <2>6
    <3> QED BY <1>2, <2>2, <3>1, <3>2, <3>3
  <2>8. ASSUME NEW m \in 1 .. last + 1, NEW n \in 1 .. last + 1, m < n,
               NEW k \in 1 .. Len(new[m].idx_list), NEW l \in 1 .. Len(new[n].idx_list)
        PROVE  new[m].idx_list[k] < new[n].idx_list[l]
    <3>1. m \in 1 .. last /\ new[m].idx_list = queue[m].idx_list
      BY <1>2, <2>8
    <3>2. CASE n = last + 1
      BY <2>1, <2>3, <2>5, <3>1, <3>2
    <3>3. CASE n \in 1 .. last
      BY <1>2, <2>8, <3>1, <3>3 DEF Spaced
    <3> QED BY <2>2, <3>2, <3>3
  <2>9. ASSUME NEW i \in sent + 1 .. index + 1
        PROVE  \E n \in 1 .. last + 1 : Holds(new[n].idx_list, i)
    <3>1. CASE i = index + 1
      <4>1. Holds(<<index + 1>>, i)
        BY <2>5, <3>1 DEF Holds
      <4> QED BY <2>1, <4>1
    <3>2. CASE i # index + 1
      <4>1. PICK n \in 1 .. last : Holds(queue[n].idx_list, i)
        BY <3>2 DEF Spaced
      <4> QED BY <1>2, <4>1
    <3> QED BY <3>1, <3>2
  <2> QED BY <1>2, <2>4, <2>7, <2>8, <2>9 DEF Spaced
<1> QED BY <1>1, <1>2, QueuedShape

\* Places in a run.
LEMMA RunPlaces ==
  ASSUME NEW list \in Seq(Nat \ {0}), Run(list), NEW k \in 1 .. Len(list)
  PROVE  /\ list[1] \in Nat /\ list[1] <= list[k] /\ list[k] <= list[Len(list)]
         /\ \A i \in Nat : list[1] <= i /\ i <= list[k] =>
              /\ i - list[1] + 1 \in 1 .. Len(list) /\ i - list[1] + 1 <= k
              /\ list[i - list[1] + 1] = i
<1>1. /\ list[1] \in Nat /\ Len(list) \in Nat /\ Len(list) >= 1 /\ list[k] = list[1] + k - 1
      /\ list[Len(list)] = list[1] + Len(list) - 1
  BY DEF Run
<1>2. ASSUME NEW i \in Nat, list[1] <= i, i <= list[k]
      PROVE  /\ i - list[1] + 1 \in 1 .. Len(list) /\ i - list[1] + 1 <= k
             /\ list[i - list[1] + 1] = i
  <2>1. PICK first \in Nat : first = list[1]
    BY <1>1
  <2>2. PICK j \in 1 .. Len(list) : j = i - first + 1 /\ j <= k
    <3>1. first <= i /\ i <= first + k - 1
      BY <1>1, <1>2, <2>1
    <3>2. k \in Nat /\ k <= Len(list) /\ Len(list) \in Nat
      BY <1>1
    <3>3. PICK j \in Nat : j = i - first + 1
      BY <3>1
    <3>4. 1 <= j /\ j <= k
      BY <3>1, <3>2, <3>3
    <3>5. j \in 1 .. Len(list)
      BY <3>2, <3>4
    <3> QED BY <3>3, <3>4, <3>5
  <2>3. list[j] = first + j - 1
    BY <2>1 DEF Run
  <2>4. list[j] = i
    BY <2>2, <2>3
  <2> QED BY <2>1, <2>2, <2>4
<1> QED BY <1>1, <1>2

\* A command in the first n messages of a queue or behind them.
LEMMA SpacedOK ==
  ASSUME NEW queue \in Seq(Message), Fits(queue), NEW sent \in Nat, NEW last \in Nat,
         Spaced(queue, sent, last), NEW n \in 0 .. Len(queue)
  PROVE  /\ EndOf(queue, sent, n) \in Nat
         /\ sent <= EndOf(queue, sent, n) /\ EndOf(queue, sent, n) <= last
         /\ \A m \in 1 .. n : \A k \in 1 .. Len(queue[m].idx_list) :
              queue[m].idx_list[k] <= EndOf(queue, sent, n)
         /\ \A m \in n + 1 .. Len(queue) : \A k \in 1 .. Len(queue[m].idx_list) :
              EndOf(queue, sent, n) < queue[m].idx_list[k]
<1>1. EndOf(queue, sent, n) \in Nat
  BY EndOfNat
<1>2. \A m \in 1 .. Len(queue) : \A k \in 1 .. Len(queue[m].idx_list) :
        sent < queue[m].idx_list[k] /\ queue[m].idx_list[k] <= last
  BY DEF Spaced
<1>3. CASE n = 0
  BY <1>2, <1>3 DEF EndOf, Spaced
<1>4. CASE n # 0
  <2>1. n \in 1 .. Len(queue)
    BY <1>4
  <2>2. /\ queue[n].idx_list \in Seq(Nat \ {0}) /\ Run(queue[n].idx_list)
        /\ Len(queue[n].idx_list) \in 1 .. Len(queue[n].idx_list)
    BY <2>1, Fields DEF Spaced, Run
  <2>3. PICK l : l = Len(queue[n].idx_list)
    OBVIOUS
  <2>4. EndOf(queue, sent, n) = queue[n].idx_list[l]
    BY <1>4, <2>3 DEF EndOf
  <2>5. sent <= EndOf(queue, sent, n) /\ EndOf(queue, sent, n) <= last
    BY <1>1, <1>2, <2>1, <2>2, <2>3, <2>4
  <2>6. ASSUME NEW m \in 1 .. n, NEW k \in 1 .. Len(queue[m].idx_list)
        PROVE  queue[m].idx_list[k] <= EndOf(queue, sent, n)
    <3>1. CASE m = n
      BY <2>2, <2>3, <2>4, <3>1, RunPlaces
    <3>2. CASE m # n
      <4>1. m \in 1 .. Len(queue) /\ m < n
        BY <3>2
      <4>2. queue[m].idx_list[k] < queue[n].idx_list[l]
        BY <2>1, <2>2, <2>3, <4>1 DEF Spaced
      <4>3. queue[m].idx_list[k] \in Nat
        BY <4>1, Fields
      <4> QED BY <1>1, <2>4, <4>2, <4>3
    <3> QED BY <3>1, <3>2
  <2>7. ASSUME NEW m \in n + 1 .. Len(queue), NEW k \in 1 .. Len(queue[m].idx_list)
        PROVE  EndOf(queue, sent, n) < queue[m].idx_list[k]
    <3>1. m \in 1 .. Len(queue) /\ n < m
      OBVIOUS
    <3> QED BY <2>1, <2>2, <2>3, <2>4, <3>1 DEF Spaced
  <2> QED BY <1>1, <2>5, <2>6, <2>7
<1> QED BY <1>3, <1>4

LEMMA RemainingSpaced ==
  ASSUME NEW queue \in Seq(Message), Fits(queue), NEW sent \in Nat, NEW last \in Nat,
         Spaced(queue, sent, last), NEW n \in 0 .. Len(queue),
         NEW rest \in Seq(Message), Len(rest) = Len(queue) - n,
         \A i \in 1 .. Len(rest) : rest[i] = queue[n + i],
         NEW end, end = EndOf(queue, sent, n)
  PROVE  Spaced(rest, end, last)
<1>1. /\ end \in Nat /\ sent <= end /\ end <= last
      /\ \A m \in 1 .. n : \A k \in 1 .. Len(queue[m].idx_list) : queue[m].idx_list[k] <= end
      /\ \A m \in n + 1 .. Len(queue) : \A k \in 1 .. Len(queue[m].idx_list) :
           end < queue[m].idx_list[k]
  BY SpacedOK
<1>2. \A i \in 1 .. Len(rest) : n + i \in 1 .. Len(queue) /\ n + i \in n + 1 .. Len(queue)
  OBVIOUS
<1>3. \A i \in 1 .. Len(rest) :
        /\ Run(rest[i].idx_list)
        /\ \A k \in 1 .. Len(rest[i].idx_list) : end < rest[i].idx_list[k] /\ rest[i].idx_list[k] <= last
  BY <1>1, <1>2 DEF Spaced
<1>4. ASSUME NEW i \in 1 .. Len(rest), NEW j \in 1 .. Len(rest), i < j,
             NEW k \in 1 .. Len(rest[i].idx_list), NEW l \in 1 .. Len(rest[j].idx_list)
      PROVE  rest[i].idx_list[k] < rest[j].idx_list[l]
  <2>1. n + i \in 1 .. Len(queue) /\ n + j \in 1 .. Len(queue) /\ n + i < n + j
    BY <1>2, <1>4
  <2> QED BY <2>1 DEF Spaced
<1>5. ASSUME NEW i \in end + 1 .. last PROVE \E j \in 1 .. Len(rest) : Holds(rest[j].idx_list, i)
  <2>1. i \in sent + 1 .. last /\ end < i /\ i \in Nat
    BY <1>1
  <2>2. PICK m \in 1 .. Len(queue) : Holds(queue[m].idx_list, i)
    BY <2>1 DEF Spaced
  <2>3. m \notin 1 .. n
    BY <1>1, <2>1, <2>2 DEF Holds
  <2>4. PICK j \in 1 .. Len(rest) : m = n + j
    <3>1. m - n \in 1 .. Len(rest) /\ m = n + (m - n)
      BY <2>3
    <3> QED BY <3>1
  <2> QED BY <2>2, <2>4
<1> QED BY <1>1, <1>3, <1>4, <1>5 DEF Spaced

\* One more command asked for leaves the earlier ones where they go.
LEMMA CarriesOn ==
  ASSUME NEW list \in Seq([dest : Destinations, reliable : BOOLEAN]),
         NEW x \in [dest : Destinations, reliable : BOOLEAN],
         NEW m, Carries(m, list)
  PROVE  Carries(m, Append(list, x))
<1>1. /\ Len(Append(list, x)) = Len(list) + 1
      /\ \A i \in 1 .. Len(list) : Append(list, x)[i] = list[i] /\ i \in 1 .. Len(list) + 1
  OBVIOUS
<1> QED BY <1>1 DEF Carries

LEMMA QueuedCarries ==
  ASSUME TypeOK, index = Len(asked), NEW dest \in Destinations, NEW reliable \in BOOLEAN,
         \A n \in 1 .. Len(cmd_queue) : Carries(cmd_queue[n], asked),
         NEW q, q = Queued(cmd_queue, dest, reliable),
         NEW list, list = Append(asked, [dest |-> dest, reliable |-> reliable])
  PROVE  \A n \in 1 .. Len(q) : Carries(q[n], list)
<1>1. /\ cmd_queue \in Seq(Message) /\ index \in Nat /\ seqnum \in Nat
      /\ asked \in Seq([dest : Destinations, reliable : BOOLEAN])
  BY DEF TypeOK
<1>2. PICK x \in [dest : Destinations, reliable : BOOLEAN] :
        x = [dest |-> dest, reliable |-> reliable]
  OBVIOUS
<1>3. /\ Len(list) = index + 1 /\ list[index + 1] = x /\ x.dest = dest /\ x.reliable = reliable
      /\ index + 1 \in 1 .. Len(list)
  BY <1>1, <1>2
<1>4. \A n \in 1 .. Len(cmd_queue) : Carries(cmd_queue[n], list)
  BY <1>1, <1>2, CarriesOn
<1>5. CASE /\ Len(q) = Len(cmd_queue) /\ Len(cmd_queue) > 0
           /\ cmd_queue[Len(cmd_queue)].dest = dest
           /\ \A n \in 1 .. Len(cmd_queue) : n # Len(cmd_queue) => q[n] = cmd_queue[n]
           /\ q[Len(cmd_queue)] = Extended(cmd_queue[Len(cmd_queue)], reliable)
  <2>1. PICK l \in 1 .. Len(cmd_queue) : l = Len(cmd_queue)
    BY <1>1, <1>5
  <2>2. PICK m \in Message : m = cmd_queue[l]
    BY <1>1, <2>1
  <2>3. /\ q[l].dest = dest /\ q[l].reliable = (m.reliable \/ reliable)
        /\ q[l].idx_list = Append(m.idx_list, index + 1) /\ m.dest = dest
    BY <1>5, <2>1, <2>2 DEF Extended
  <2>4. Carries(m, list)
    BY <1>4, <2>1, <2>2
  <2>5. /\ Len(q[l].idx_list) = Len(m.idx_list) + 1
        /\ q[l].idx_list[Len(m.idx_list) + 1] = index + 1
        /\ \A k \in 1 .. Len(m.idx_list) : q[l].idx_list[k] = m.idx_list[k]
    <3>1. m.idx_list \in Seq(Nat \ {0})
      BY <2>2 DEF Message
    <3> QED BY <2>3, <3>1
  <2>6. Carries(q[l], list)
    <3> SUFFICES ASSUME NEW k \in 1 .. Len(q[l].idx_list)
                 PROVE  LET i == q[l].idx_list[k] IN
                        i \in 1 .. Len(list) /\ list[i].dest = q[l].dest /\ (list[i].reliable => q[l].reliable)
      BY DEF Carries
    <3>1. CASE k = Len(m.idx_list) + 1
      BY <1>3, <2>3, <2>5, <3>1
    <3>2. CASE k # Len(m.idx_list) + 1
      <4>1. Len(m.idx_list) \in Nat
        <5>1. m.idx_list \in Seq(Nat \ {0})
          BY <2>2 DEF Message
        <5> QED BY <5>1
      <4>2. k \in 1 .. Len(m.idx_list)
        BY <2>5, <3>2, <4>1
      <4> QED BY <2>3, <2>4, <2>5, <4>2 DEF Carries
    <3> QED BY <3>1, <3>2
  <2> QED BY <1>4, <1>5, <2>1, <2>6
<1>6. CASE /\ Len(q) = Len(cmd_queue) + 1
           /\ \A n \in 1 .. Len(cmd_queue) : /\ q[n].idx_list = cmd_queue[n].idx_list
                                             /\ q[n].dest = cmd_queue[n].dest
                                             /\ q[n].reliable = cmd_queue[n].reliable
           /\ q[Len(cmd_queue) + 1] = NewMessage(dest, reliable)
  <2>1. ASSUME NEW n \in 1 .. Len(cmd_queue) PROVE Carries(q[n], list)
    <3>1. Carries(cmd_queue[n], list)
      BY <1>4
    <3> QED BY <1>6, <3>1 DEF Carries
  <2>2. Carries(NewMessage(dest, reliable), list)
    <3>1. Len(<<index + 1>>) = 1 /\ \A k \in 1 .. 1 : k = 1 /\ <<index + 1>>[k] = index + 1
      OBVIOUS
    <3> QED BY <1>3, <3>1 DEF Carries, NewMessage
  <2>3. \A n \in 1 .. Len(q) : n = Len(cmd_queue) + 1 \/ n \in 1 .. Len(cmd_queue)
    BY <1>1, <1>6
  <2> QED BY <1>6, <2>1, <2>2, <2>3
<1> QED
  <2>1. index \in Nat /\ seqnum \in Nat /\ cmd_queue \in Seq(Message)
    BY <1>1
  <2>2. LET new == Queued(cmd_queue, dest, reliable)
        IN  \/ /\ Len(new) = Len(cmd_queue) /\ Len(cmd_queue) > 0 /\ cmd_queue[Len(cmd_queue)].dest = dest
               /\ \A n \in 1 .. Len(cmd_queue) : n # Len(cmd_queue) => new[n] = cmd_queue[n]
               /\ new[Len(cmd_queue)] = Extended(cmd_queue[Len(cmd_queue)], reliable)
            \/ /\ Len(new) = Len(cmd_queue) + 1
               /\ \A n \in 1 .. Len(cmd_queue) : /\ new[n].idx_list = cmd_queue[n].idx_list
                                             /\ new[n].dest = cmd_queue[n].dest
                                             /\ new[n].reliable = cmd_queue[n].reliable
               /\ new[Len(cmd_queue) + 1] = NewMessage(dest, reliable)
    BY <2>1, QueuedShape
  <2> QED BY <1>5, <1>6, <2>2

-----------------------------------------------------------------------------
(* The order of reliable commands: steps of the engine. *)

\* What the engine asks for keeps what is meant for whom.
LEMMA MeantFor ==
  ASSUME asked \in Seq([dest : Destinations, reliable : BOOLEAN]),
         \/ UNCHANGED asked
         \/ \E x \in [dest : Destinations, reliable : BOOLEAN] : asked' = Append(asked, x),
         NEW p, NEW i \in 1 .. Len(asked)
  PROVE  For(p, i)' <=> For(p, i)
<1>1. asked'[i] = asked[i]
  OBVIOUS
<1> QED BY <1>1 DEF For

\* The datagrams a call of mbus_send adds to the reliable ones are those of the last
\* message it sends.
LEMMA SendsOneReliable ==
  ASSUME NEW q \in Seq(Message), NEW b \in 0 .. Len(q), Batch(q, b), Transmit(q, b),
         NEW n \in Nat, n = Sent(q, b), Numbered(q, seqnum')
  PROVE  /\ n <= Len(q) /\ (n > 0 => waiting_ack = None)
         /\ \A m \in 1 .. n : q[m].reliable => m = n
         /\ Reliables \subseteq Reliables'
         /\ \A packet \in Reliables' \ Reliables :
              /\ n > 0 /\ q[n].reliable /\ packet.to = q[n].dest
              /\ packet.seq = q[n].seqnum /\ packet.body = q[n].idx_list
         /\ n > 0 /\ q[n].reliable =>
              \E packet \in Reliables' : /\ packet.to = q[n].dest /\ packet.seq = q[n].seqnum
                                         /\ packet.body = q[n].idx_list
<1>1. n \in 0 .. Len(q) /\ n <= b
  BY DEF Sent, Aborts, Fails
<1>2. n > 0 => waiting_ack = None
  BY <1>1 DEF Batch
<1>3. ASSUME NEW m \in 1 .. n, q[m].reliable PROVE m = n
  <2>1. b > 0 /\ waiting_ack = None /\ m \in 1 .. b
    BY <1>1, <1>2
  <2>2. m \notin 1 .. b - 1
    BY <1>3, <2>1 DEF Batch
  <2> QED BY <1>1, <2>1, <2>2
<1>4. net' = net \cup UNION {Datagrams(q[i]) : i \in 1 .. n}
  BY DEF Transmit
<1>5. ASSUME NEW i \in 1 .. n, NEW packet \in Datagrams(q[i])
      PROVE  /\ packet \in EngineCommands /\ packet.to \in Recipients(q[i].dest)
             /\ packet.seq = q[i].seqnum /\ packet.body = q[i].idx_list
             /\ packet.reliable = q[i].reliable
  <2>1. i \in 1 .. Len(q) /\ q[i] \in Message
    BY <1>1
  <2> QED BY <2>1, DatagramsOK
<1>6. n > 0 /\ q[n].reliable => q[n].dest \in Peers /\ Recipients(q[n].dest) = {q[n].dest}
  BY <1>1 DEF Numbered, Recipients
<1>7. Reliables \subseteq Reliables'
  BY <1>4 DEF Reliables
<1>8. ASSUME NEW packet \in Reliables' \ Reliables
      PROVE  /\ n > 0 /\ q[n].reliable /\ packet.to = q[n].dest
             /\ packet.seq = q[n].seqnum /\ packet.body = q[n].idx_list
  <2>1. PICK i \in 1 .. n : packet \in Datagrams(q[i])
    BY <1>4 DEF Reliables
  <2>2. packet.reliable
    BY DEF Reliables
  <2>3. i = n /\ q[n].reliable /\ n > 0
    BY <1>3, <1>5, <2>1, <2>2
  <2> QED BY <1>5, <1>6, <2>1, <2>3
<1>9. ASSUME n > 0, q[n].reliable
      PROVE  \E packet \in Reliables' : /\ packet.to = q[n].dest /\ packet.seq = q[n].seqnum
                                        /\ packet.body = q[n].idx_list
  <2>1. PICK packet : packet = Packet("commands", Engine, q[n].dest, q[n].seqnum, q[n].reliable,
                                      q[n].idx_list)
    OBVIOUS
  <2>2. packet \in Datagrams(q[n]) /\ packet.to = q[n].dest
    BY <1>6, <1>9, <2>1 DEF Datagrams, Packet
  <2>3. n \in 1 .. n
    BY <1>9
  <2>4. packet \in net'
    BY <1>4, <2>2, <2>3
  <2>5. /\ packet \in EngineCommands /\ packet.seq = q[n].seqnum /\ packet.body = q[n].idx_list
        /\ packet.reliable
    BY <1>5, <1>9, <2>2, <2>3
  <2>6. packet \in Reliables'
    BY <2>4, <2>5 DEF Reliables
  <2> QED BY <2>2, <2>5, <2>6
<1> QED BY <1>1, <1>2, <1>3, <1>7, <1>8, <1>9

\* asked only grows, and the bus, the acceptances and the error only get more.
Onward ==
  /\ net \subseteq net' /\ got' \in [Peers -> SUBSET Nat]
  /\ \A p \in Peers : got[p] \subseteq got'[p]
  /\ index' \in Nat /\ index <= index' /\ (mbus_shutdown_error => mbus_shutdown_error')
  /\ \/ UNCHANGED asked
     \/ \E x \in [dest : Destinations, reliable : BOOLEAN] : asked' = Append(asked, x)

LEMMA OnwardOK ==
  ASSUME IInv, OInv, Onward
  PROVE  /\ \A p \in Peers : \A i \in 1 .. index : For(p, i)' <=> For(p, i)
         /\ \A p \in Peers : \A i \in Nat : Accepted(p, i) => Accepted(p, i)'
         /\ \A m : Carries(m, asked) => Carries(m, asked')
         /\ \A packet \in Reliables : packet.to \in Peers /\ packet.seq \in Nat
                                      /\ packet.body \in Seq(Nat \ {0})
<1>1. asked \in Seq([dest : Destinations, reliable : BOOLEAN]) /\ index = Len(asked)
  BY DEF IInv, TypeOK, OInv, QueueCarries
<1>2. \A p \in Peers : \A i \in 1 .. index : For(p, i)' <=> For(p, i)
  BY <1>1, MeantFor DEF Onward
<1>3. ASSUME NEW p \in Peers, NEW i \in Nat, Accepted(p, i) PROVE Accepted(p, i)'
  BY <1>3 DEF Accepted, Reliables, Onward
<1>4. ASSUME NEW m, Carries(m, asked) PROVE Carries(m, asked')
  <2>1. CASE UNCHANGED asked
    BY <1>4, <2>1
  <2>2. ASSUME NEW x \in [dest : Destinations, reliable : BOOLEAN] PROVE Carries(m, Append(asked, x))
    BY <1>1, <1>4, CarriesOn
  <2> QED BY <2>1, <2>2 DEF Onward
<1>5. \A packet \in Reliables : packet.to \in Peers /\ packet.seq \in Nat
                                /\ packet.body \in Seq(Nat \ {0})
  BY DEF Reliables, EngineCommands
<1> QED BY <1>2, <1>3, <1>4, <1>5

\* Steps that send no reliable message.
LEMMA SameBusKeepsOrder ==
  ASSUME IInv, OInv, Onward, Reliables' = Reliables
  PROVE  BusCarries' /\ Preceded'
<1>1. index \in Nat
  BY DEF IInv, TypeOK
<1>2. BusCarries'
  <2>1. \A packet \in Reliables : \A k \in 1 .. Len(packet.body) : packet.body[k] \in 1 .. index'
    BY <1>1 DEF OInv, BusCarries, Onward
  <2> QED BY <2>1 DEF OInv, BusCarries
<1>3. Preceded'
  <2> SUFFICES ASSUME NEW packet \in Reliables, NEW i \in 1 .. packet.body[1] - 1,
                      For(packet.to, i)'
               PROVE  Accepted(packet.to, i)' \/ mbus_shutdown_error'
    BY DEF Preceded
  <2>1. packet.to \in Peers
    BY OnwardOK
  <2>2. packet.body[1] \in 1 .. index
    BY OnwardOK DEF OInv, BusCarries, Run
  <2>3. i \in 1 .. index /\ i \in Nat
    BY <1>1, <2>2
  <2>4. For(packet.to, i)
    BY <2>1, <2>3, OnwardOK
  <2>5. Accepted(packet.to, i) \/ mbus_shutdown_error
    BY <2>4 DEF OInv, Preceded
  <2> QED BY <2>1, <2>3, <2>5, OnwardOK DEF Onward
<1> QED BY <1>2, <1>3

\* The engine's steps leave the listeners alone; what it sends is new to them.
LEMMA EngineKeepsHandled ==
  ASSUME IInv, OInv, Onward, UNCHANGED jvars,
         \A packet \in Reliables' \ Reliables :
           packet.to \in Peers /\ packet.seq \notin got[packet.to]
  PROVE  AcceptedHandled' /\ ReliableInOrder'
<1>1. rx' = rx /\ got' = got /\ handled' = handled
  BY DEF jvars
<1>2. index \in Nat
  BY DEF IInv, TypeOK
<1>3. /\ handled \in [Peers -> Seq(Nat \ {0})]
      /\ \A p \in Peers : \A k \in 1 .. Len(handled[p]) :
           handled[p][k] \in Nat /\ handled[p][k] <= index
  BY DEF OInv, AcceptedHandled
<1>4. AcceptedHandled'
  <2>1. \A p \in Peers : \A k \in 1 .. Len(handled[p]) : handled[p][k] <= index'
    BY <1>2, <1>3 DEF Onward
  <2>2. \A p \in Peers : rx[p].at = "deliver" =>
          rx[p].packet \in net' \cap EngineCommands /\ rx[p].packet.to = p
    BY DEF OInv, AcceptedHandled, Onward
  <2>3. \A packet \in Reliables' : packet.seq \in got[packet.to] => packet \in Reliables
    OBVIOUS
  <2> QED BY <1>1, <1>3, <2>1, <2>2, <2>3 DEF OInv, AcceptedHandled
<1>5. ReliableInOrder'
  <2> SUFFICES ASSUME NEW p \in Peers, NEW k \in 1 .. Len(handled[p]),
                      NEW h, h = handled[p][k], For(p, h)',
                      NEW i \in 1 .. h - 1, For(p, i)'
               PROVE  (\E l \in 1 .. k - 1 : handled[p][l] = i) \/ mbus_shutdown_error'
    BY <1>1 DEF ReliableInOrder
  <2>1. h \in 1 .. index
    <3>1. h \in Nat \ {0}
      BY <1>3
    <3> QED BY <1>2, <1>3, <3>1
  <2>2. i \in 1 .. index
    BY <1>2, <2>1
  <2>3. For(p, h) /\ For(p, i)
    BY <2>1, <2>2, OnwardOK
  <2> QED BY <2>3 DEF OInv, ReliableInOrder, Onward
<1> QED BY <1>4, <1>5

\* A call of mbus_send: what was sent before is accepted if it sends a reliable
\* message, which then waits.
LEMMA TransmitKeepsOrder ==
  ASSUME IInv, OInv, Onward, UNCHANGED got, phase \notin {"gone", "aborted"},
         NEW q \in Seq(Message), Fits(q), NEW b \in 0 .. Len(q), Batch(q, b), Transmit(q, b),
         Numbered(q, seqnum'), NetInv(net, q, seqnum'),
         Spaced(q, index_sent, index'), \A m \in 1 .. Len(q) : Carries(q[m], asked'),
         NEW w, w = Awaited(q, b), NEW rest, rest = Remaining(q, b)
  PROVE  /\ Spaced(rest, index_sent', index') /\ \A m \in 1 .. Len(rest) : Carries(rest[m], asked')
         /\ BusCarries' /\ Preceded'
         /\ w # None => /\ Carries(w, asked')
                        /\ \E packet \in Reliables' :
                             /\ packet.to = w.dest /\ packet.seq = w.seqnum
                             /\ packet.body = w.idx_list
         /\ \A p \in Peers : \A i \in 1 .. index_sent' : For(p, i)' =>
              \/ Accepted(p, i)' \/ mbus_shutdown_error'
              \/ w # None /\ Holds(w.idx_list, i)
         /\ \A packet \in Reliables' \ Reliables :
              packet.to \in Peers /\ packet.seq \notin got[packet.to]
<1>1. /\ index \in Nat /\ index_sent \in Nat /\ index' \in Nat /\ index <= index'
      /\ index_sent <= index
  BY DEF IInv, TypeOK, OInv, QueueCarries, Spaced, Onward
<1>2. PICK n \in Nat : n = Sent(q, b)
  <2>1. Sent(q, b) \in Nat
    BY DEF Sent, Aborts, Fails
  <2> QED BY <2>1
<1>3. /\ n <= Len(q) /\ (n > 0 => waiting_ack = None)
      /\ \A m \in 1 .. n : q[m].reliable => m = n
      /\ Reliables \subseteq Reliables'
      /\ \A packet \in Reliables' \ Reliables :
           /\ n > 0 /\ q[n].reliable /\ packet.to = q[n].dest
           /\ packet.seq = q[n].seqnum /\ packet.body = q[n].idx_list
      /\ n > 0 /\ q[n].reliable =>
           \E packet \in Reliables' : /\ packet.to = q[n].dest /\ packet.seq = q[n].seqnum
                                      /\ packet.body = q[n].idx_list
  BY <1>2, SendsOneReliable
<1>4. n \in 0 .. Len(q) /\ (n > 0 => n \in 1 .. Len(q))
  BY <1>3
<1>5. index_sent' = EndOf(q, index_sent, n)
  BY <1>2 DEF Transmit, EndOf
<1>6. /\ index_sent' \in Nat /\ index_sent' <= index'
      /\ \A m \in 1 .. n : \A k \in 1 .. Len(q[m].idx_list) : q[m].idx_list[k] <= index_sent'
      /\ \A m \in n + 1 .. Len(q) : \A k \in 1 .. Len(q[m].idx_list) : index_sent' < q[m].idx_list[k]
  BY <1>1, <1>4, <1>5, SpacedOK
<1>7. /\ rest \in Seq(Message) /\ Len(rest) = Len(q) - n
      /\ \A i \in 1 .. Len(rest) : rest[i] = q[n + i]
  <2>1. rest = SubSeq(q, n + 1, Len(q))
    BY <1>2 DEF Remaining
  <2> QED BY <1>4, <2>1, SubSeqProperties
<1>8. Spaced(rest, index_sent', index')
  BY <1>1, <1>4, <1>5, <1>7, RemainingSpaced
<1>9. \A m \in 1 .. Len(rest) : Carries(rest[m], asked')
  <2>1. \A i \in 1 .. Len(rest) : n + i \in 1 .. Len(q)
    BY <1>4, <1>7
  <2> QED BY <1>7, <2>1
<1>10. /\ n > 0 /\ q[n].reliable => w = q[n]
       /\ ~(n > 0 /\ q[n].reliable) => w = waiting_ack
  BY <1>2 DEF Awaited
<1>11. ASSUME n > 0, q[n].reliable
       PROVE  /\ q[n].dest \in Peers /\ q[n] # None /\ q[n].seqnum \in Nat
              /\ \A packet \in net \cap EngineCommands : packet.seq # q[n].seqnum
  <2>1. n \in 1 .. Len(q) /\ q[n] \in Message /\ q[n].seqnum \in Nat
    BY <1>4, <1>11, Fields
  <2>2. ASSUME NEW packet \in net \cap EngineCommands PROVE packet.seq # q[n].seqnum
    <3>1. packet.seq < q[n].seqnum /\ packet.seq \in Nat
      BY <2>1 DEF NetInv, Below, EngineCommands
    <3> QED BY <2>1, <3>1
  <2> QED BY <1>11, <2>1, <2>2 DEF Numbered
\* What a message of the queue holds.
<1>12. \A m \in 1 .. Len(q) : /\ q[m].idx_list \in Seq(Nat \ {0}) /\ Run(q[m].idx_list)
                              /\ \A k \in 1 .. Len(q[m].idx_list) :
                                   q[m].idx_list[k] \in 1 .. index'
                                   /\ index_sent < q[m].idx_list[k]
  <2> SUFFICES ASSUME NEW m \in 1 .. Len(q)
               PROVE  /\ q[m].idx_list \in Seq(Nat \ {0}) /\ Run(q[m].idx_list)
                      /\ \A k \in 1 .. Len(q[m].idx_list) :
                           q[m].idx_list[k] \in 1 .. index' /\ index_sent < q[m].idx_list[k]
    OBVIOUS
  <2>1. q[m].idx_list \in Seq(Nat \ {0})
    BY Fields
  <2>2. ASSUME NEW k \in 1 .. Len(q[m].idx_list)
        PROVE  q[m].idx_list[k] \in 1 .. index' /\ index_sent < q[m].idx_list[k]
    <3>1. /\ index_sent < q[m].idx_list[k] /\ q[m].idx_list[k] <= index'
          /\ q[m].idx_list[k] \in Nat \ {0}
      BY <2>1 DEF Spaced
    <3> QED BY <1>1, <3>1
  <2> QED BY <2>1, <2>2 DEF Spaced
\* A reliable command sent now travels in the message that waits.
<1>13. ASSUME NEW p \in Peers, NEW m \in 1 .. n, NEW i \in Nat, Holds(q[m].idx_list, i), For(p, i)'
       PROVE  m = n /\ n > 0 /\ q[n].reliable
  <2>1. m \in 1 .. Len(q)
    BY <1>4
  <2>2. q[m].reliable
    BY <1>13, <2>1 DEF Carries, Holds, For
  <2> QED BY <1>3, <2>2
<1>14. BusCarries'
  <2>1. ASSUME NEW packet \in Reliables'
        PROVE  /\ Run(packet.body)
               /\ \A k \in 1 .. Len(packet.body) : packet.body[k] \in 1 .. index'
    <3>1. CASE packet \in Reliables
      BY <1>1, <3>1 DEF OInv, BusCarries
    <3>2. CASE packet \notin Reliables
      BY <1>3, <1>4, <1>12, <3>2
    <3> QED BY <3>1, <3>2
  <2>2. ASSUME NEW one \in Reliables', NEW other \in Reliables', one.seq = other.seq
        PROVE  one.body = other.body
    <3>1. CASE one \in Reliables /\ other \in Reliables
      BY <2>2, <3>1 DEF OInv, BusCarries
    <3>2. CASE one \notin Reliables /\ other \notin Reliables
      BY <1>3, <3>2
    <3>3. CASE one \in Reliables /\ other \notin Reliables
      BY <1>3, <1>11, <2>2, <3>3 DEF Reliables
    <3>4. CASE one \notin Reliables /\ other \in Reliables
      BY <1>3, <1>11, <2>2, <3>4 DEF Reliables
    <3> QED BY <3>1, <3>2, <3>3, <3>4
  <2> QED BY <2>1, <2>2 DEF BusCarries
<1>15. ASSUME w # None
       PROVE  /\ Carries(w, asked')
              /\ \E packet \in Reliables' :
                   /\ packet.to = w.dest /\ packet.seq = w.seqnum /\ packet.body = w.idx_list
  <2>1. CASE n > 0 /\ q[n].reliable
    BY <1>3, <1>4, <1>10, <2>1
  <2>2. CASE ~(n > 0 /\ q[n].reliable)
    <3>1. w = waiting_ack
      BY <1>10, <2>2
    <3>2. Carries(waiting_ack, asked')
      BY <1>15, <3>1, OnwardOK DEF OInv, WaitsOnBus
    <3> QED BY <1>3, <1>15, <3>1, <3>2 DEF OInv, WaitsOnBus
  <2> QED BY <2>1, <2>2
\* What was sent before is accepted, if nothing waits.
<1>16. ASSUME NEW p \in Peers, NEW i \in 1 .. index_sent, For(p, i)'
       PROVE  \/ Accepted(p, i)' \/ mbus_shutdown_error'
              \/ waiting_ack # None /\ Holds(waiting_ack.idx_list, i)
  <2>1. i \in 1 .. index /\ i \in Nat
    BY <1>1
  <2>2. For(p, i)
    BY <1>16, <2>1, OnwardOK
  <2>3. \/ Accepted(p, i) \/ mbus_shutdown_error
        \/ waiting_ack # None /\ Holds(waiting_ack.idx_list, i)
    BY <2>2 DEF OInv, SentAccepted
  <2> QED BY <2>1, <2>3, OnwardOK DEF Onward
<1>17. ASSUME NEW p \in Peers, NEW i \in 1 .. index_sent', For(p, i)'
       PROVE  Accepted(p, i)' \/ mbus_shutdown_error' \/ (w # None /\ Holds(w.idx_list, i))
  <2>1. CASE i <= index_sent
    <3>1. i \in 1 .. index_sent
      BY <1>1, <2>1
    <3>2. \/ Accepted(p, i)' \/ mbus_shutdown_error'
          \/ waiting_ack # None /\ Holds(waiting_ack.idx_list, i)
      BY <1>16, <1>17, <3>1
    <3>3. waiting_ack # None => w = waiting_ack
      BY <1>3, <1>10
    <3> QED BY <3>2, <3>3
  <2>2. CASE ~(i <= index_sent)
    <3>1. i \in index_sent + 1 .. index' /\ i \in Nat /\ i <= index_sent'
      BY <1>1, <1>6, <2>2
    <3>2. PICK m \in 1 .. Len(q) : Holds(q[m].idx_list, i)
      BY <3>1 DEF Spaced
    <3>3. m \notin n + 1 .. Len(q)
      BY <1>6, <3>1, <3>2 DEF Holds
    <3>4. m \in 1 .. n
      BY <1>4, <3>3
    <3>5. m = n /\ n > 0 /\ q[n].reliable
      BY <1>13, <1>17, <3>1, <3>2, <3>4
    <3> QED BY <1>10, <1>11, <3>2, <3>5
  <2> QED BY <2>1, <2>2
<1>18. Preceded'
  <2> SUFFICES ASSUME NEW packet \in Reliables', NEW i \in 1 .. packet.body[1] - 1,
                      For(packet.to, i)'
               PROVE  Accepted(packet.to, i)' \/ mbus_shutdown_error'
    BY DEF Preceded
  <2>1. CASE packet \in Reliables
    <3>1. packet.to \in Peers /\ packet.body[1] \in 1 .. index
      <4>1. packet.to \in Peers /\ packet.body \in Seq(Nat \ {0})
        BY <2>1 DEF Reliables, EngineCommands
      <4>2. /\ Len(packet.body) >= 1
            /\ \A k \in 1 .. Len(packet.body) : packet.body[k] \in 1 .. index
        BY <2>1 DEF OInv, BusCarries, Run
      <4>3. 1 \in 1 .. Len(packet.body)
        BY <4>1, <4>2
      <4> QED BY <4>1, <4>2, <4>3
    <3>2. i \in 1 .. index /\ i \in Nat
      BY <1>1, <3>1
    <3>3. For(packet.to, i)
      BY <3>1, <3>2, OnwardOK
    <3>4. Accepted(packet.to, i) \/ mbus_shutdown_error
      BY <2>1, <3>3 DEF OInv, Preceded
    <3> QED BY <3>1, <3>2, <3>4, OnwardOK DEF Onward
  <2>2. CASE packet \notin Reliables
    <3>1. /\ n > 0 /\ q[n].reliable /\ packet.to = q[n].dest /\ packet.body = q[n].idx_list
          /\ waiting_ack = None /\ n \in 1 .. Len(q) /\ packet.to \in Peers
      BY <1>3, <1>4, <1>11, <2>2
    <3>2. /\ packet.body \in Seq(Nat \ {0}) /\ Run(packet.body) /\ packet.body[1] \in 1 .. index'
          /\ 1 \in 1 .. Len(packet.body)
      BY <1>12, <3>1 DEF Run
    <3>3. i \in Nat /\ i < packet.body[1] /\ i <= index' /\ i >= 1
      BY <1>1, <3>2
    <3>4. CASE i <= index_sent
      BY <1>1, <1>16, <3>1, <3>3, <3>4
    <3>5. CASE ~(i <= index_sent)
      <4>1. i \in index_sent + 1 .. index'
        BY <1>1, <3>3, <3>5
      <4>2. PICK m \in 1 .. Len(q) : Holds(q[m].idx_list, i)
        BY <4>1 DEF Spaced
      <4>3. PICK k \in 1 .. Len(q[m].idx_list) : q[m].idx_list[k] = i
        BY <4>2 DEF Holds
      <4>4. m # n
        BY <3>1, <3>2, <3>3, <4>3, RunPlaces
      <4>5. ~(n < m)
        <5>1. n < m => q[n].idx_list[1] < q[m].idx_list[k]
          BY <3>1, <3>2 DEF Spaced
        <5> QED BY <3>1, <3>2, <3>3, <4>3, <5>1
      <4>6. m \in 1 .. n
        BY <1>4, <4>5
      <4> QED BY <1>13, <3>1, <3>3, <4>2, <4>4, <4>6
    <3> QED BY <3>4, <3>5
  <2> QED BY <2>1, <2>2
<1>19. ASSUME NEW packet \in Reliables' \ Reliables
       PROVE  packet.to \in Peers /\ packet.seq \notin got[packet.to]
  <2>1. /\ n > 0 /\ q[n].reliable /\ packet.to = q[n].dest /\ packet.seq = q[n].seqnum
        /\ packet.to \in Peers
    BY <1>3, <1>11
  <2> QED BY <1>11, <2>1 DEF IInv, AcksMeanGot
<1> QED BY <1>8, <1>9, <1>14, <1>15, <1>17, <1>18, <1>19

LEMMA QmsgKeepsOrder == ASSUME IInv, OInv, Qmsg, UNCHANGED jvars PROVE OInv'
<1>1. PICK dest \in Destinations, reliable \in BOOLEAN :
        /\ reliable => dest # All
        /\ cmd_queue' = Queued(cmd_queue, dest, reliable)
        /\ Count(cmd_queue, dest, reliable)
  BY DEF Qmsg
<1>2. index' = index + 1 /\ asked' = Append(asked, [dest |-> dest, reliable |-> reliable])
  BY <1>1 DEF Count
<1>3. /\ UNCHANGED <<net, waiting_ack, index_sent, phase, mbus_shutdown_error, got>>
      /\ phase # "gone"
  BY DEF Qmsg, jvars, Alive
<1>4. Onward
  <2>1. [dest |-> dest, reliable |-> reliable] \in [dest : Destinations, reliable : BOOLEAN]
    OBVIOUS
  <2>2. got \in [Peers -> SUBSET Nat] /\ index \in Nat
    BY DEF IInv, TypeOK, AcksMeanGot
  <2> QED BY <1>2, <1>3, <2>1, <2>2 DEF Onward
<1>5. QueueCarries'
  <2>1. /\ cmd_queue \in Seq(Message) /\ Fits(cmd_queue) /\ index \in Nat /\ seqnum \in Nat
        /\ index_sent \in Nat /\ InOrder(cmd_queue, index_sent, index)
    BY <1>3 DEF IInv, TypeOK, Fits, QueueInOrder
  <2>2. Spaced(cmd_queue, index_sent, index)
    BY <1>3 DEF OInv, QueueCarries
  <2>3. Spaced(cmd_queue', index_sent', index')
    BY <1>1, <1>2, <1>3, <2>1, <2>2, QueuedSpaced
  <2>4. \A n \in 1 .. Len(cmd_queue') : Carries(cmd_queue'[n], asked')
    BY <1>1, <1>2, QueuedCarries DEF IInv, OInv, QueueCarries
  <2>5. index' = Len(asked')
    BY <1>2 DEF OInv, QueueCarries, IInv, TypeOK
  <2> QED BY <2>3, <2>4, <2>5 DEF QueueCarries
<1>6. Reliables' = Reliables
  BY <1>3 DEF Reliables
<1>7. BusCarries' /\ Preceded'
  BY <1>4, <1>6, SameBusKeepsOrder
<1>8. WaitsOnBus'
  BY <1>3, <1>4, <1>6, OnwardOK DEF OInv, WaitsOnBus
<1>9. SentAccepted'
  <2> SUFFICES ASSUME phase \notin {"gone", "aborted"}, NEW p \in Peers,
                      NEW i \in 1 .. index_sent, For(p, i)'
               PROVE  \/ Accepted(p, i)' \/ mbus_shutdown_error'
                      \/ waiting_ack # None /\ Holds(waiting_ack.idx_list, i)
    BY <1>3 DEF SentAccepted
  <2>1. i \in 1 .. index /\ i \in Nat
    BY <1>3 DEF IInv, TypeOK, OInv, QueueCarries, Spaced
  <2>2. For(p, i)
    BY <1>4, <2>1, OnwardOK
  <2>3. \/ Accepted(p, i) \/ mbus_shutdown_error
        \/ waiting_ack # None /\ Holds(waiting_ack.idx_list, i)
    BY <2>2 DEF OInv, SentAccepted
  <2> QED BY <1>3, <1>4, <2>1, <2>3, OnwardOK
<1>10. AcceptedHandled' /\ ReliableInOrder'
  BY <1>4, <1>6, EngineKeepsHandled
<1> QED BY <1>5, <1>7, <1>8, <1>9, <1>10 DEF OInv

LEMMA SendKeepsOrder == ASSUME IInv, OInv, Send, UNCHANGED jvars PROVE OInv'
<1>1. PICK b \in 1 .. Len(cmd_queue) :
        /\ Batch(cmd_queue, b) /\ Transmit(cmd_queue, b)
        /\ cmd_queue' = Remaining(cmd_queue, b) /\ waiting_ack' = Awaited(cmd_queue, b)
        /\ phase' = IF Aborts(cmd_queue, b) THEN "aborted" ELSE phase
  BY DEF Send
<1>2. /\ UNCHANGED <<seqnum, index, asked, got>> /\ phase \notin {"gone", "aborted"}
  BY DEF Send, Alive, jvars
<1>3. Onward
  <2>1. net \subseteq net' /\ (mbus_shutdown_error => mbus_shutdown_error')
    BY <1>1 DEF Transmit
  <2>2. got \in [Peers -> SUBSET Nat] /\ index \in Nat
    BY DEF IInv, TypeOK, AcksMeanGot
  <2> QED BY <1>2, <2>1, <2>2 DEF Onward
<1>4. /\ cmd_queue \in Seq(Message) /\ Fits(cmd_queue) /\ b \in 0 .. Len(cmd_queue)
      /\ Numbered(cmd_queue, seqnum') /\ NetInv(net, cmd_queue, seqnum')
  BY <1>2 DEF IInv, TypeOK, Fits, QueueInv
<1>5. /\ Spaced(cmd_queue, index_sent, index')
      /\ \A m \in 1 .. Len(cmd_queue) : Carries(cmd_queue[m], asked')
  BY <1>2 DEF OInv, QueueCarries
<1>6. /\ Spaced(cmd_queue', index_sent', index')
      /\ \A m \in 1 .. Len(cmd_queue') : Carries(cmd_queue'[m], asked')
      /\ BusCarries' /\ Preceded'
      /\ waiting_ack' # None =>
           /\ Carries(waiting_ack', asked')
           /\ \E packet \in Reliables' :
                /\ packet.to = waiting_ack'.dest /\ packet.seq = waiting_ack'.seqnum
                /\ packet.body = waiting_ack'.idx_list
      /\ \A p \in Peers : \A i \in 1 .. index_sent' : For(p, i)' =>
           \/ Accepted(p, i)' \/ mbus_shutdown_error'
           \/ waiting_ack' # None /\ Holds(waiting_ack'.idx_list, i)
      /\ \A packet \in Reliables' \ Reliables :
           packet.to \in Peers /\ packet.seq \notin got[packet.to]
  BY <1>1, <1>2, <1>3, <1>4, <1>5, TransmitKeepsOrder
<1>7. QueueCarries' /\ WaitsOnBus' /\ SentAccepted'
  BY <1>2, <1>6 DEF QueueCarries, WaitsOnBus, SentAccepted, OInv
<1>8. AcceptedHandled' /\ ReliableInOrder'
  BY <1>3, <1>6, EngineKeepsHandled
<1> QED BY <1>6, <1>7, <1>8 DEF OInv

\* mbus_qmsg of the bye and mbus_send, in one step of main().
LEMMA ByeKeepsOrder ==
  ASSUME IInv, OInv, UNCHANGED jvars, phase \notin {"gone", "aborted"},
         NEW q, q = Queued(cmd_queue, All, FALSE), NEW b \in 0 .. Len(q),
         Batch(q, b), Transmit(q, b), Count(cmd_queue, All, FALSE),
         NEW w, w = Awaited(q, b), NEW rest, rest = Remaining(q, b)
  PROVE  /\ index' = Len(asked') /\ Spaced(rest, index_sent', index')
         /\ \A m \in 1 .. Len(rest) : Carries(rest[m], asked')
         /\ BusCarries' /\ Preceded' /\ AcceptedHandled' /\ ReliableInOrder'
         /\ w # None => /\ Carries(w, asked')
                        /\ \E packet \in Reliables' :
                             /\ packet.to = w.dest /\ packet.seq = w.seqnum
                             /\ packet.body = w.idx_list
         /\ \A p \in Peers : \A i \in 1 .. index_sent' : For(p, i)' =>
              \/ Accepted(p, i)' \/ mbus_shutdown_error'
              \/ w # None /\ Holds(w.idx_list, i)
<1>1. /\ index' = index + 1 /\ asked' = Append(asked, [dest |-> All, reliable |-> FALSE])
      /\ seqnum' = IF Joins(cmd_queue, All) THEN seqnum ELSE seqnum + 1
  BY DEF Count
<1>2. UNCHANGED got /\ All \in Destinations /\ FALSE \in BOOLEAN
  BY DEF jvars, Destinations
<1>3. Onward
  <2>1. [dest |-> All, reliable |-> FALSE] \in [dest : Destinations, reliable : BOOLEAN]
    BY <1>2
  <2>2. net \subseteq net' /\ (mbus_shutdown_error => mbus_shutdown_error')
    BY DEF Transmit
  <2>3. got \in [Peers -> SUBSET Nat] /\ index \in Nat
    BY DEF IInv, TypeOK, AcksMeanGot
  <2>4. \E x \in [dest : Destinations, reliable : BOOLEAN] : asked' = Append(asked, x)
    BY <1>1, <2>1
  <2>5. index' \in Nat /\ index <= index'
    BY <1>1, <2>3
  <2> QED BY <1>2, <2>2, <2>3, <2>4, <2>5 DEF Onward
<1>4. q \in Seq(Message) /\ Fits(q) /\ Numbered(q, seqnum') /\ NetInv(net, q, seqnum')
  BY <1>1, <1>2, QueuedInv DEF IInv
<1>5. Spaced(q, index_sent, index')
  <2>1. /\ cmd_queue \in Seq(Message) /\ Fits(cmd_queue) /\ index \in Nat /\ seqnum \in Nat
        /\ index_sent \in Nat /\ InOrder(cmd_queue, index_sent, index)
    BY DEF IInv, TypeOK, Fits, QueueInOrder
  <2>2. Spaced(cmd_queue, index_sent, index)
    BY DEF OInv, QueueCarries
  <2> QED BY <1>1, <1>2, <2>1, <2>2, QueuedSpaced
<1>6. \A m \in 1 .. Len(q) : Carries(q[m], asked')
  BY <1>1, <1>2, QueuedCarries DEF IInv, OInv, QueueCarries
<1>7. index' = Len(asked')
  BY <1>1 DEF OInv, QueueCarries, IInv, TypeOK
<1>8. /\ Spaced(rest, index_sent', index') /\ \A m \in 1 .. Len(rest) : Carries(rest[m], asked')
      /\ BusCarries' /\ Preceded'
      /\ w # None => /\ Carries(w, asked')
                     /\ \E packet \in Reliables' :
                          /\ packet.to = w.dest /\ packet.seq = w.seqnum
                          /\ packet.body = w.idx_list
      /\ \A p \in Peers : \A i \in 1 .. index_sent' : For(p, i)' =>
           \/ Accepted(p, i)' \/ mbus_shutdown_error'
           \/ w # None /\ Holds(w.idx_list, i)
      /\ \A packet \in Reliables' \ Reliables :
           packet.to \in Peers /\ packet.seq \notin got[packet.to]
  BY <1>2, <1>3, <1>4, <1>5, <1>6, TransmitKeepsOrder
<1>9. AcceptedHandled' /\ ReliableInOrder'
  BY <1>3, <1>8, EngineKeepsHandled
<1> QED BY <1>7, <1>8, <1>9

LEMMA LeaveLoopKeepsOrder == ASSUME IInv, OInv, LeaveLoop, UNCHANGED jvars PROVE OInv'
<1>1. PICK q : q = Queued(cmd_queue, All, FALSE)
  OBVIOUS
<1>2. PICK b \in 0 .. Len(q) : /\ Batch(q, b) /\ Transmit(q, b)
                              /\ cmd_queue' = Remaining(q, b) /\ waiting_ack' = Awaited(q, b)
  BY <1>1 DEF LeaveLoop
<1>3. phase \notin {"gone", "aborted"} /\ Count(cmd_queue, All, FALSE)
  BY DEF LeaveLoop
<1>4. /\ index' = Len(asked') /\ Spaced(cmd_queue', index_sent', index')
      /\ \A m \in 1 .. Len(cmd_queue') : Carries(cmd_queue'[m], asked')
      /\ BusCarries' /\ Preceded' /\ AcceptedHandled' /\ ReliableInOrder'
      /\ waiting_ack' # None =>
           /\ Carries(waiting_ack', asked')
           /\ \E packet \in Reliables' :
                /\ packet.to = waiting_ack'.dest /\ packet.seq = waiting_ack'.seqnum
                /\ packet.body = waiting_ack'.idx_list
      /\ \A p \in Peers : \A i \in 1 .. index_sent' : For(p, i)' =>
           \/ Accepted(p, i)' \/ mbus_shutdown_error'
           \/ waiting_ack' # None /\ Holds(waiting_ack'.idx_list, i)
  BY <1>1, <1>2, <1>3, ByeKeepsOrder
<1> QED BY <1>4 DEF OInv, QueueCarries, WaitsOnBus, SentAccepted

LEMMA ExitKeepsOrder == ASSUME IInv, OInv, Exit, UNCHANGED jvars PROVE OInv'
<1>1. PICK q : q = Queued(cmd_queue, All, FALSE)
  OBVIOUS
<1>2. PICK b \in 0 .. Len(q) : Batch(q, b) /\ Transmit(q, b)
  BY <1>1 DEF Exit
<1>3. /\ phase \notin {"gone", "aborted"} /\ Count(cmd_queue, All, FALSE)
      /\ cmd_queue' = <<>> /\ waiting_ack' = None /\ phase' = "gone"
  BY DEF Exit
<1>4. /\ index' = Len(asked') /\ BusCarries' /\ Preceded' /\ AcceptedHandled' /\ ReliableInOrder'
  BY <1>1, <1>2, <1>3, ByeKeepsOrder
<1> QED BY <1>3, <1>4 DEF OInv, QueueCarries, WaitsOnBus, SentAccepted

\* Steps that send nothing; the message that waits may be released.
LEMMA OthersKeepOrder ==
  ASSUME IInv, OInv, UNCHANGED jvars,
         Recv \/ Handle \/ DropCommands \/ GiveUp \/ Heartbeat \/ ControllerGone
  PROVE  OInv'
<1>1. /\ UNCHANGED <<cmd_queue, index, index_sent, asked>> /\ waiting_ack' \in {None, waiting_ack}
      /\ (mbus_shutdown_error => mbus_shutdown_error') /\ phase' \in {phase, "aborted"}
  <2>1. CASE Recv
    BY <2>1 DEF Recv
  <2>2. CASE GiveUp
    <3>1. mbus_shutdown_error' = (mbus_shutdown_error \/ should_exit)
      BY <2>2 DEF GiveUp
    <3>2. mbus_shutdown_error => mbus_shutdown_error'
      BY <3>1, Zenon
    <3> QED BY <2>2, <3>2 DEF GiveUp
  <2>3. CASE Handle \/ DropCommands \/ Heartbeat \/ ControllerGone
    BY <2>3 DEF Handle, DropCommands, Heartbeat, ControllerGone
  <2> QED BY <2>1, <2>2, <2>3
<1>2. rx' = rx /\ got' = got /\ handled' = handled
  BY DEF jvars
<1>3. net \subseteq net' /\ Reliables' = Reliables
  <2>1. CASE Recv
    <3>1. PICK packet \in net \cup Unasked :
            /\ packet.to = Engine
            /\ net' = IF packet.reliable
                        THEN net \cup {Packet("ack", Engine, packet.from, 0, FALSE, packet.seq)}
                        ELSE net
      BY <2>1 DEF Recv
    <3>2. Packet("ack", Engine, packet.from, 0, FALSE, packet.seq) \notin EngineCommands
      BY DEF Packet, EngineCommands
    <3> QED BY <3>1, <3>2 DEF Reliables
  <2>2. CASE Handle \/ DropCommands \/ GiveUp \/ Heartbeat \/ ControllerGone
    BY <2>2 DEF Handle, DropCommands, GiveUp, Heartbeat, ControllerGone, Reliables
  <2> QED BY <2>1, <2>2
<1>4. Onward
  <2>1. got \in [Peers -> SUBSET Nat] /\ index \in Nat
    BY DEF IInv, TypeOK, AcksMeanGot
  <2> QED BY <1>1, <1>2, <1>3, <2>1 DEF Onward
<1>5. QueueCarries'
  <2>1. phase' # "gone" => phase # "gone" \/ phase' = "aborted"
    BY <1>1
  <2>2. phase # "gone"
    BY DEF Recv, Handle, DropCommands, GiveUp, Heartbeat, ControllerGone, Alive
  <2> QED BY <1>1, <2>2 DEF OInv, QueueCarries
<1>6. BusCarries' /\ Preceded'
  BY <1>3, <1>4, SameBusKeepsOrder
<1>7. WaitsOnBus'
  BY <1>1, <1>3 DEF OInv, WaitsOnBus
<1>8. SentAccepted'
  <2> SUFFICES ASSUME phase' \notin {"gone", "aborted"}, NEW p \in Peers,
                      NEW i \in 1 .. index_sent, For(p, i)
               PROVE  \/ Accepted(p, i)' \/ mbus_shutdown_error'
                      \/ waiting_ack' # None /\ Holds(waiting_ack'.idx_list, i)
    BY <1>1 DEF SentAccepted, For
  <2>1. i \in Nat /\ phase \notin {"gone", "aborted"}
    BY <1>1 DEF IInv, TypeOK
  <2>2. \/ Accepted(p, i) \/ mbus_shutdown_error
        \/ waiting_ack # None /\ Holds(waiting_ack.idx_list, i)
    BY <2>1 DEF OInv, SentAccepted
  <2>3. CASE Accepted(p, i) \/ mbus_shutdown_error
    BY <1>1, <1>4, <2>1, <2>3, OnwardOK
  <2>4. CASE waiting_ack # None /\ Holds(waiting_ack.idx_list, i)
    <3>1. CASE waiting_ack' = waiting_ack
      BY <2>4, <3>1
    <3>2. CASE waiting_ack' # waiting_ack /\ Recv
      <4>1. PICK packet \in net \cup Unasked : packet.to = Engine /\ Acknowledges(packet)
        BY <3>2 DEF Recv
      <4>2. waiting_ack.seqnum \in got[waiting_ack.dest]
        BY <4>1, ReachesEngine
      <4>3. waiting_ack.dest = p
        BY <2>4 DEF OInv, WaitsOnBus, Carries, Holds, For
      <4>4. Accepted(p, i)
        BY <2>4, <4>2, <4>3 DEF OInv, WaitsOnBus, Accepted
      <4> QED BY <1>4, <2>1, <4>4, OnwardOK
    <3>3. CASE waiting_ack' # waiting_ack /\ GiveUp
      BY <1>1, <2>1, <3>3 DEF GiveUp
    <3>4. CASE waiting_ack' # waiting_ack /\ (Handle \/ DropCommands \/ Heartbeat \/ ControllerGone)
      BY <3>4 DEF Handle, DropCommands, Heartbeat, ControllerGone
    <3> QED BY <3>1, <3>2, <3>3, <3>4
  <2> QED BY <2>2, <2>3, <2>4
<1>9. AcceptedHandled' /\ ReliableInOrder'
  BY <1>3, <1>4, EngineKeepsHandled
<1> QED BY <1>5, <1>6, <1>7, <1>8, <1>9 DEF OInv

-----------------------------------------------------------------------------
(* The order of reliable commands: steps of the telephone's endpoints. *)

\* They send no commands of the engine; what remains is what listeners handled.
LEMMA PeersKeepOrder ==
  ASSUME IInv, OInv, UNCHANGED mbusvars, IInv', net \subseteq net',
         \A packet \in net' \ net : packet \notin EngineCommands,
         \A p \in Peers : got[p] \subseteq got'[p], AcceptedHandled', ReliableInOrder'
  PROVE  OInv'
<1>1. /\ UNCHANGED <<cmd_queue, waiting_ack, index, index_sent, asked, phase, mbus_shutdown_error>>
  BY DEF mbusvars
<1>2. Onward
  BY <1>1 DEF Onward, IInv, TypeOK, AcksMeanGot
<1>3. Reliables' = Reliables
  BY DEF Reliables
<1>4. BusCarries' /\ Preceded'
  BY <1>2, <1>3, SameBusKeepsOrder
<1>5. QueueCarries' /\ WaitsOnBus'
  BY <1>1, <1>3 DEF OInv, QueueCarries, WaitsOnBus
<1>6. SentAccepted'
  <2> SUFFICES ASSUME phase \notin {"gone", "aborted"}, NEW p \in Peers,
                      NEW i \in 1 .. index_sent, For(p, i)
               PROVE  \/ Accepted(p, i)' \/ mbus_shutdown_error
                      \/ waiting_ack # None /\ Holds(waiting_ack.idx_list, i)
    BY <1>1 DEF SentAccepted, For
  <2>1. i \in Nat
    BY DEF IInv, TypeOK
  <2> QED BY <1>2, <2>1, OnwardOK DEF OInv, SentAccepted
<1> QED BY <1>4, <1>5, <1>6 DEF OInv

LEMMA SameOrder ==
  ASSUME ReliableInOrder, UNCHANGED <<handled, asked, mbus_shutdown_error>>
  PROVE  ReliableInOrder'
<1>1. handled' = handled /\ asked' = asked /\ mbus_shutdown_error' = mbus_shutdown_error
  OBVIOUS
<1> QED BY <1>1 DEF ReliableInOrder, For

LEMMA RetransmitterKeepsOrder ==
  ASSUME IInv, OInv, IInv', UNCHANGED mbusvars, NEW m \in Messages,
         SendReliably(m) \/ RetransmitterNext(m)
  PROVE  OInv'
<1>1. /\ net' \subseteq net \cup {Datagram(m)} /\ net \subseteq net'
      /\ UNCHANGED <<rx, handled, got>>
  BY DEF SendReliably, RetransmitterNext, StartThread, Repeat, DeliveryFailed
<1>2. Datagram(m) \notin EngineCommands
  BY DEF Datagram, Packet, EngineCommands
<1>3. \A packet \in net' \ net : packet \notin EngineCommands
  BY <1>1, <1>2
<1>4. Reliables' = Reliables
  BY <1>1, <1>3 DEF Reliables
<1>5. AcceptedHandled'
  <2>1. \A p \in Peers : rx[p].at = "deliver" =>
          rx[p].packet \in net' \cap EngineCommands /\ rx[p].packet.to = p
    BY <1>1 DEF OInv, AcceptedHandled
  <2> QED BY <1>1, <1>4, <2>1 DEF OInv, AcceptedHandled, mbusvars
<1>6. ReliableInOrder'
  BY <1>1, SameOrder DEF OInv, mbusvars
<1> QED BY <1>1, <1>3, <1>5, <1>6, PeersKeepOrder

LEMMA ArriveKeepsOrder ==
  ASSUME IInv, OInv, IInv', UNCHANGED mbusvars, NEW p \in Peers, Arrive(p) PROVE OInv'
<1>1. PICK packet \in net :
        /\ packet.to = p
        /\ net' = IF packet.reliable
                    THEN net \cup {Packet("ack", p, Engine, 0, FALSE, packet.seq)} ELSE net
        /\ CASE packet.kind = "commands" ->
                  /\ rx' = [rx EXCEPT ![p] = [at |-> "deliver", packet |-> packet]]
                  /\ got' = IF packet.reliable THEN [got EXCEPT ![p] = @ \cup {packet.seq}]
                                              ELSE got
             [] packet.kind = "ack" ->
                  /\ rx' = [rx EXCEPT ![p] = IF <<p, packet.body>> \in AckQueue
                                               THEN [at |-> "halt", packet |-> packet] ELSE Idle]
                  /\ UNCHANGED got
  BY DEF Arrive
<1>2. rx[p] = Idle /\ rx[p].at = "idle" /\ handled' = handled
  BY DEF Arrive, Idle
<1>3. packet \in EngineCommands \cup EngineAcks
  BY <1>1 DEF IInv, QueueInv, NetInv, Bus, PeerAcks, PeerCommands
<1>4. /\ got \in [Peers -> SUBSET Nat]
      /\ rx \in [Peers -> [at : {"idle", "deliver", "halt", "report"}, packet : Bus \cup {None}]]
  BY DEF IInv, AcksMeanGot, AcksMeanTaken
<1>5. net \subseteq net' /\ \A k \in net' \ net : k \notin EngineCommands
  <2>1. Packet("ack", p, Engine, 0, FALSE, packet.seq) \notin EngineCommands
    BY DEF Packet, EngineCommands
  <2> QED BY <1>1, <2>1
<1>6. Reliables' = Reliables
  BY <1>5 DEF Reliables
<1>7. ReliableInOrder'
  BY <1>2, SameOrder DEF OInv, mbusvars
<1>8. /\ \A o \in Peers : got[o] \subseteq got'[o]
      /\ \A o \in Peers : o # p => rx'[o] = rx[o] /\ got'[o] = got[o]
      /\ rx'[p].at = "deliver" => rx'[p].packet = packet /\ packet \in EngineCommands
      /\ \A a \in got'[p] : a \in got[p] \/ /\ a = packet.seq /\ packet.reliable
                                            /\ rx'[p] = [at |-> "deliver", packet |-> packet]
  <2>1. CASE packet \in EngineCommands
    <3>1. packet.kind = "commands"
      BY <2>1 DEF EngineCommands
    <3>2. /\ rx' = [rx EXCEPT ![p] = [at |-> "deliver", packet |-> packet]]
          /\ got' = IF packet.reliable THEN [got EXCEPT ![p] = @ \cup {packet.seq}] ELSE got
      BY <1>1, <3>1
    <3> QED BY <1>4, <2>1, <3>2
  <2>2. CASE packet \in EngineAcks
    <3>1. packet.kind = "ack"
      BY <2>2 DEF EngineAcks
    <3>2. /\ rx' = [rx EXCEPT ![p] = IF <<p, packet.body>> \in AckQueue
                                       THEN [at |-> "halt", packet |-> packet] ELSE Idle]
          /\ got' = got
      BY <1>1, <3>1
    <3> QED BY <1>4, <3>2 DEF Idle
  <2> QED BY <1>3, <2>1, <2>2
<1>9. AcceptedHandled'
  <2>1. \A o \in Peers : rx'[o].at = "deliver" =>
          rx'[o].packet \in net' \cap EngineCommands /\ rx'[o].packet.to = o
    <3> SUFFICES ASSUME NEW o \in Peers, rx'[o].at = "deliver"
                 PROVE  rx'[o].packet \in net' \cap EngineCommands /\ rx'[o].packet.to = o
      OBVIOUS
    <3>1. CASE o = p
      BY <1>1, <1>5, <1>8, <3>1
    <3>2. CASE o # p
      BY <1>5, <1>8, <3>2 DEF OInv, AcceptedHandled
    <3> QED BY <3>1, <3>2
  <2>2. ASSUME NEW k \in Reliables, k.seq \in got'[k.to]
        PROVE  \/ \A j \in 1 .. Len(k.body) : Holds(handled[k.to], k.body[j])
               \/ /\ rx'[k.to].at = "deliver" /\ rx'[k.to].packet.reliable
                  /\ rx'[k.to].packet.seq = k.seq
    <3>1. k.to \in Peers
      BY DEF Reliables, EngineCommands
    <3>2. CASE k.to # p
      BY <1>8, <2>2, <3>1, <3>2 DEF OInv, AcceptedHandled
    <3>3. CASE k.to = p /\ k.seq \in got[p]
      BY <1>2, <3>3 DEF OInv, AcceptedHandled
    <3>4. CASE k.to = p /\ k.seq \notin got[p]
      BY <1>8, <2>2, <3>4
    <3> QED BY <3>2, <3>3, <3>4
  <2> QED BY <1>2, <1>6, <2>1, <2>2 DEF OInv, AcceptedHandled, mbusvars
<1> QED BY <1>5, <1>7, <1>8, <1>9, PeersKeepOrder

LEMMA ReceiverKeepsOrder ==
  ASSUME IInv, OInv, IInv', UNCHANGED mbusvars, NEW p \in Peers,
         Halt(p) \/ DeliverySuccessful(p)
  PROVE  OInv'
<1>1. /\ UNCHANGED <<net, got, handled>> /\ rx[p].at # "deliver"
      /\ rx' = [rx EXCEPT ![p] = Idle] \/ rx' = [rx EXCEPT ![p].at = "report"]
  BY DEF Halt, DeliverySuccessful
<1>2. rx \in [Peers -> [at : {"idle", "deliver", "halt", "report"}, packet : Bus \cup {None}]]
  BY DEF IInv, AcksMeanTaken
<1>3. rx'[p].at # "deliver" /\ \A o \in Peers : o # p => rx'[o] = rx[o]
  BY <1>1, <1>2 DEF Idle
<1>4. Reliables' = Reliables
  BY <1>1 DEF Reliables
<1>5. AcceptedHandled'
  <2>1. \A o \in Peers : rx'[o].at = "deliver" =>
          rx'[o].packet \in net \cap EngineCommands /\ rx'[o].packet.to = o
    BY <1>3 DEF OInv, AcceptedHandled
  <2>2. ASSUME NEW k \in Reliables, k.seq \in got[k.to]
        PROVE  \/ \A j \in 1 .. Len(k.body) : Holds(handled[k.to], k.body[j])
               \/ /\ rx'[k.to].at = "deliver" /\ rx'[k.to].packet.reliable
                  /\ rx'[k.to].packet.seq = k.seq
    <3>1. k.to \in Peers
      BY DEF Reliables, EngineCommands
    <3> QED BY <1>1, <1>3, <2>2, <3>1 DEF OInv, AcceptedHandled
  <2> QED BY <1>1, <1>4, <2>1, <2>2 DEF OInv, AcceptedHandled, mbusvars
<1>6. ReliableInOrder'
  BY <1>1, SameOrder DEF OInv, mbusvars
<1> QED BY <1>1, <1>5, <1>6, PeersKeepOrder

LEMMA ConcatSecond ==
  ASSUME NEW S, NEW s \in Seq(S), NEW r \in Seq(S), NEW i \in 1 .. Len(r)
  PROVE  (s \o r)[Len(s) + i] = r[i]
<1>1. Len(s) + i \in 1 .. Len(s) + Len(r) /\ ~(Len(s) + i <= Len(s)) /\ (Len(s) + i) - Len(s) = i
  OBVIOUS
<1> QED BY <1>1, ConcatProperties

\* A listener told of commands it had not handled handled all before them.
LEMMA DeliverKeepsOrder ==
  ASSUME IInv, OInv, IInv', UNCHANGED mbusvars, NEW p \in Peers, Deliver(p) PROVE OInv'
<1>1. rx \in [Peers -> [at : {"idle", "deliver", "halt", "report"}, packet : Bus \cup {None}]]
  BY DEF IInv, AcksMeanTaken
<1>2. PICK packet : packet = rx[p].packet
  OBVIOUS
<1>3. /\ packet \in net \cap EngineCommands /\ packet.to = p
      /\ handled \in [Peers -> Seq(Nat \ {0})]
  BY <1>2 DEF Deliver, OInv, AcceptedHandled
<1>4. PICK list \in Seq(Nat \ {0}) : list = packet.body
  BY <1>3 DEF EngineCommands
<1>5. PICK old \in Seq(Nat \ {0}) : old = handled[p]
  BY <1>3
<1>6. /\ UNCHANGED <<net, got>> /\ rx' = [rx EXCEPT ![p] = Idle] /\ rx[p].at = "deliver"
      /\ handled' = IF packet.reliable /\ Tells(list, old)
                      THEN [handled EXCEPT ![p] = old \o list] ELSE handled
  BY <1>2, <1>4, <1>5 DEF Deliver
<1>7. PICK new \in Seq(Nat \ {0}) : new = IF packet.reliable /\ Tells(list, old) THEN old \o list ELSE old
  <2>1. old \o list \in Seq(Nat \ {0})
    BY ConcatProperties
  <2> QED BY <2>1
<1>8. /\ handled' \in [Peers -> Seq(Nat \ {0})] /\ handled'[p] = new
      /\ \A o \in Peers : o # p => handled'[o] = handled[o]
  BY <1>3, <1>5, <1>6, <1>7
<1>9. rx'[p].at # "deliver" /\ \A o \in Peers : o # p => rx'[o] = rx[o]
  BY <1>1, <1>6 DEF Idle
<1>10. Reliables' = Reliables
  BY <1>6 DEF Reliables
<1>11. /\ Len(old) <= Len(new) /\ \A k \in 1 .. Len(old) : new[k] = old[k]
       /\ Len(old) \in Nat /\ Len(new) \in Nat
  BY <1>7, ConcatProperties
<1>12. packet.reliable => packet \in Reliables
  BY <1>3 DEF Reliables
<1>13. packet.reliable => /\ Run(list)
                          /\ \A k \in 1 .. Len(list) : list[k] \in 1 .. index
  BY <1>4, <1>12 DEF OInv, BusCarries
\* What is new comes from the message.
<1>14. ASSUME NEW k \in 1 .. Len(new), k \notin 1 .. Len(old)
       PROVE  /\ packet.reliable /\ new = old \o list
              /\ \E j \in 1 .. Len(list) : k = Len(old) + j /\ new[k] = list[j]
  <2>1. packet.reliable /\ new = old \o list
    BY <1>7, <1>14
  <2>2. PICK j \in 1 .. Len(list) : k = Len(old) + j
    <3>1. Len(new) = Len(old) + Len(list) /\ Len(list) \in Nat /\ Len(old) \in Nat
      BY <2>1, ConcatProperties
    <3>2. k - Len(old) \in 1 .. Len(list) /\ k = Len(old) + (k - Len(old))
      BY <1>14, <3>1
    <3> QED BY <3>2
  <2>3. new[k] = list[j]
    BY <2>1, <2>2
  <2> QED BY <2>1, <2>2, <2>3
<1>15. packet.reliable => \A k \in 1 .. Len(list) : Holds(new, list[k])
  <2> SUFFICES ASSUME packet.reliable, NEW k \in 1 .. Len(list) PROVE Holds(new, list[k])
    OBVIOUS
  <2>1. CASE Tells(list, old)
    <3>1. new = old \o list
      BY <1>7, <2>1
    <3>2. Len(old) + k \in 1 .. Len(new) /\ new[Len(old) + k] = list[k]
      BY <3>1
    <3> QED BY <3>2 DEF Holds
  <2>2. CASE ~Tells(list, old)
    <3>1. new = old
      BY <1>7, <2>2
    <3> QED BY <2>2, <3>1 DEF Tells, Holds
  <2> QED BY <2>1, <2>2
<1>16. AcceptedHandled'
  <2>1. ASSUME NEW o \in Peers, NEW k \in 1 .. Len(handled'[o]) PROVE handled'[o][k] <= index
    <3>1. CASE o # p
      BY <1>8, <2>1, <3>1 DEF OInv, AcceptedHandled
    <3>2. CASE o = p /\ k \in 1 .. Len(old)
      BY <1>5, <1>8, <1>11, <3>2 DEF OInv, AcceptedHandled
    <3>3. CASE o = p /\ k \notin 1 .. Len(old)
      <4>1. k \in 1 .. Len(new)
        BY <1>8, <3>3
      <4>2. PICK j \in 1 .. Len(list) : packet.reliable /\ new[k] = list[j]
        BY <1>14, <3>3, <4>1
      <4>3. list[j] \in 1 .. index /\ index \in Nat
        BY <1>13, <4>2 DEF IInv, TypeOK
      <4> QED BY <1>8, <3>3, <4>2, <4>3
    <3> QED BY <3>1, <3>2, <3>3
  <2>2. \A o \in Peers : rx'[o].at = "deliver" =>
          rx'[o].packet \in net \cap EngineCommands /\ rx'[o].packet.to = o
    BY <1>9 DEF OInv, AcceptedHandled
  <2>3. ASSUME NEW k \in Reliables, k.seq \in got[k.to]
        PROVE  \/ \A j \in 1 .. Len(k.body) : Holds(handled'[k.to], k.body[j])
               \/ /\ rx'[k.to].at = "deliver" /\ rx'[k.to].packet.reliable
                  /\ rx'[k.to].packet.seq = k.seq
    <3>1. k.to \in Peers
      BY DEF Reliables, EngineCommands
    <3>2. \/ \A j \in 1 .. Len(k.body) : Holds(handled[k.to], k.body[j])
          \/ /\ rx[k.to].at = "deliver" /\ rx[k.to].packet.reliable
             /\ rx[k.to].packet.seq = k.seq
      BY <2>3 DEF OInv, AcceptedHandled
    <3>3. CASE k.to # p
      BY <1>8, <1>9, <3>1, <3>2, <3>3
    <3>4. CASE k.to = p /\ \A j \in 1 .. Len(k.body) : Holds(handled[p], k.body[j])
      <4>1. \A x : Holds(old, x) => Holds(new, x)
        <5> SUFFICES ASSUME NEW x, Holds(old, x) PROVE Holds(new, x)
          OBVIOUS
        <5>1. PICK j \in 1 .. Len(old) : old[j] = x
          BY DEF Holds
        <5>2. j \in 1 .. Len(new) /\ new[j] = x
          BY <1>11, <5>1
        <5> QED BY <5>2 DEF Holds
      <4> QED BY <1>5, <1>8, <3>4, <4>1
    <3>5. CASE k.to = p /\ packet.reliable /\ packet.seq = k.seq
      <4>1. k.body = list
        BY <1>4, <1>12, <3>5 DEF OInv, BusCarries
      <4> QED BY <1>8, <1>15, <3>5, <4>1
    <3> QED BY <1>2, <3>2, <3>3, <3>4, <3>5
  <2> QED BY <1>6, <1>8, <1>10, <2>1, <2>2, <2>3 DEF AcceptedHandled, mbusvars
<1>17. ReliableInOrder'
  <2> SUFFICES ASSUME NEW o \in Peers, NEW k \in 1 .. Len(handled'[o]),
                      NEW h, h = handled'[o][k], For(o, h),
                      NEW i \in 1 .. h - 1, For(o, i)
               PROVE  (\E l \in 1 .. k - 1 : handled'[o][l] = i) \/ mbus_shutdown_error
    BY DEF ReliableInOrder, For, mbusvars
  <2>1. CASE o # p
    BY <1>8, <2>1 DEF OInv, ReliableInOrder
  <2>2. CASE o = p /\ k \in 1 .. Len(old)
    <3>1. h = handled[p][k]
      BY <1>5, <1>8, <1>11, <2>2
    <3>2. (\E l \in 1 .. k - 1 : handled[p][l] = i) \/ mbus_shutdown_error
      BY <1>5, <2>2, <3>1 DEF OInv, ReliableInOrder
    <3>3. \A l \in 1 .. k - 1 : l \in 1 .. Len(old)
      BY <1>11, <2>2
    <3> QED BY <1>5, <1>8, <1>11, <2>2, <3>2, <3>3
  <2>3. CASE o = p /\ k \notin 1 .. Len(old)
    <3>1. k \in 1 .. Len(new) /\ h = new[k]
      BY <1>8, <2>3
    <3>2. packet.reliable /\ new = old \o list
      BY <1>14, <2>3, <3>1
    <3>3. PICK j \in 1 .. Len(list) : k = Len(old) + j /\ h = list[j]
      BY <1>14, <2>3, <3>1
    <3>4. Run(list) /\ list[j] \in Nat \ {0} /\ list[1] \in Nat
      BY <1>13, <3>2, RunPlaces
    <3>5. i \in Nat /\ i < list[j] /\ i >= 1
      BY <3>3, <3>4
    <3>6. CASE list[1] <= i
      <4>1. PICK x \in 1 .. Len(list) : x <= j /\ list[x] = i
        <5>1. list[1] <= i /\ i <= list[j]
          BY <3>4, <3>5, <3>6
        <5>2. /\ i - list[1] + 1 \in 1 .. Len(list) /\ i - list[1] + 1 <= j
              /\ list[i - list[1] + 1] = i
          BY <3>4, <3>5, <5>1, RunPlaces
        <5> QED BY <5>2
      <4>2. x < j
        BY <3>4, <3>5, <4>1
      <4>3. Len(old) + x \in 1 .. k - 1 /\ new[Len(old) + x] = i
        <5>1. /\ Len(old) \in Nat /\ x \in Nat /\ j \in Nat /\ x >= 1
              /\ k = Len(old) + j
          BY <3>3, <4>1
        <5>2. Len(old) + x \in 1 .. k - 1
          BY <4>2, <5>1
        <5>3. (old \o list)[Len(old) + x] = list[x]
          BY <4>1, ConcatSecond
        <5> QED BY <3>2, <4>1, <5>2, <5>3
      <4> QED BY <1>8, <2>3, <4>3
    <3>7. CASE ~(list[1] <= i)
      <4>1. i \in 1 .. list[1] - 1
        BY <3>4, <3>5, <3>7
      <4>2. Accepted(p, i) \/ mbus_shutdown_error
        BY <1>3, <1>4, <1>12, <2>3, <3>2, <4>1 DEF OInv, Preceded
      <4>3. ASSUME Accepted(p, i) PROVE Holds(old, i)
        <5>1. PICK m \in Reliables : m.to = p /\ m.seq \in got[p] /\ Holds(m.body, i)
          BY <4>3 DEF Accepted
        <5>2. m.seq # packet.seq
          <6>1. ASSUME m.seq = packet.seq PROVE FALSE
            <7>1. m.body = list
              BY <1>4, <1>12, <3>2, <6>1 DEF OInv, BusCarries
            <7>2. PICK x \in 1 .. Len(list) : list[x] = i
              BY <5>1, <7>1 DEF Holds
            <7>3. list[1] <= i
              BY <3>4, <7>2, RunPlaces
            <7> QED BY <3>7, <7>3
          <6> QED BY <6>1
        <5>3. \A l \in 1 .. Len(m.body) : Holds(handled[p], m.body[l])
          BY <1>2, <5>1, <5>2 DEF OInv, AcceptedHandled
        <5> QED BY <1>5, <5>1, <5>3 DEF Holds
      <4>4. ASSUME Holds(old, i) PROVE \E l \in 1 .. k - 1 : new[l] = i
        <5>1. PICK l \in 1 .. Len(old) : old[l] = i
          BY <4>4 DEF Holds
        <5>2. l \in 1 .. k - 1
          BY <1>11, <3>3
        <5>3. new[l] = i
          BY <1>11, <5>1
        <5> QED BY <5>2, <5>3
      <4> QED BY <1>8, <2>3, <4>2, <4>3, <4>4
    <3> QED BY <3>6, <3>7
  <2> QED BY <2>1, <2>2, <2>3
<1> QED BY <1>6, <1>16, <1>17, PeersKeepOrder

-----------------------------------------------------------------------------
LEMMA OrderInitially == Init => OInv
<1> SUFFICES ASSUME Init PROVE OInv
  OBVIOUS
<1>1. /\ cmd_queue = <<>> /\ waiting_ack = None /\ index = 0 /\ index_sent = 0 /\ asked = <<>>
      /\ net = {} /\ handled = [p \in Peers |-> <<>>] /\ rx = [p \in Peers |-> Idle]
  BY DEF Init, NetInit, MbusInit, JInit
<1>2. Reliables = {}
  BY <1>1 DEF Reliables
<1>3. QueueCarries
  <2>1. Len(asked) = 0 /\ Len(cmd_queue) = 0
    BY <1>1
  <2> QED BY <1>1, <2>1 DEF QueueCarries, Spaced
<1>4. BusCarries /\ Preceded /\ WaitsOnBus /\ SentAccepted
  BY <1>1, <1>2 DEF BusCarries, Preceded, WaitsOnBus, SentAccepted
<1>5. \A p \in Peers : handled[p] = <<>> /\ Len(handled[p]) = 0 /\ rx[p].at = "idle"
  BY <1>1 DEF Idle
<1>6. handled \in [Peers -> Seq(Nat \ {0})]
  BY <1>1
<1>7. AcceptedHandled /\ ReliableInOrder
  BY <1>2, <1>5, <1>6 DEF AcceptedHandled, ReliableInOrder
<1> QED BY <1>3, <1>4, <1>7 DEF OInv

LEMMA OrderKept == IInv /\ OInv /\ IInv' /\ [Next]_vars => OInv'
<1> SUFFICES ASSUME IInv, OInv, IInv', [Next]_vars PROVE OInv'
  OBVIOUS
<1>1. CASE EngineNext /\ UNCHANGED jvars
  BY <1>1, QmsgKeepsOrder, SendKeepsOrder, LeaveLoopKeepsOrder, ExitKeepsOrder, OthersKeepOrder
     DEF EngineNext
<1>2. CASE PeersNext /\ UNCHANGED mbusvars
  BY <1>2, RetransmitterKeepsOrder, ArriveKeepsOrder, ReceiverKeepsOrder, DeliverKeepsOrder
     DEF PeersNext, ReceiverNext
<1>3. CASE UNCHANGED vars
  <2>1. /\ UNCHANGED <<net, cmd_queue, waiting_ack, index, index_sent, phase, asked, rx, handled,
                       got, mbus_shutdown_error>>
        /\ QueueCarries /\ BusCarries /\ WaitsOnBus /\ SentAccepted /\ Preceded
        /\ AcceptedHandled /\ ReliableInOrder
    BY <1>3 DEF vars, mbusvars, jvars, OInv
  <2>2. ReliableInOrder'
    BY <2>1, SameOrder
  <2>3. Reliables' = Reliables
    BY <2>1 DEF Reliables
  <2>4. QueueCarries' /\ WaitsOnBus'
    BY <2>1, <2>3 DEF QueueCarries, WaitsOnBus
  <2>5. BusCarries'
    BY <2>1, <2>3 DEF BusCarries
  <2>6. Preceded'
    BY <2>1, <2>3 DEF Preceded, Accepted, For
  <2>7. SentAccepted'
    BY <2>1, <2>3 DEF SentAccepted, Accepted, For
  <2>8. AcceptedHandled'
    BY <2>1, <2>3 DEF AcceptedHandled
  <2> QED BY <2>2, <2>4, <2>5, <2>6, <2>7, <2>8 DEF OInv
<1> QED BY <1>1, <1>2, <1>3 DEF Next

\* An entity that is told of a reliable command (the listener of
\* SimpleTransportLayer) was told of every earlier one addressed to it before,
\* unless the engine found that a message failed while it shut down: mbus_send
\* holds back what comes after a reliable message until it is acknowledged, and
\* the receiver acknowledges only what it then delivers.
THEOREM OrderKeptByAcks == Spec => []ReliableInOrder
<1>1. OInv => ReliableInOrder
  BY DEF OInv
<1>2. Spec => []OInv
  BY Invariance, OrderInitially, OrderKept, PTL DEF Spec
<1> QED BY <1>1, <1>2, PTL

=============================================================================
