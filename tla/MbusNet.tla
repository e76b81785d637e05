------------------------------- MODULE MbusNet -------------------------------
(***************************************************************************)
(* The local message bus: datagrams between the audio tool's engine, which *)
(* uses common/src/mbus.c, and the telephone's entities, which use the     *)
(* package org.mbus.  Datagrams are lost, repeated and overtake each other.*)
(***************************************************************************)
EXTENDS Naturals, Sequences

CONSTANTS Peers,  \* addresses of the telephone's entities (user interface, controller)
          c_addr, \* the controller, one of them
          Engine, \* address of the audio engine
          None    \* a null pointer

ASSUME BusParameters == c_addr \in Peers /\ Engine \notin Peers /\ None \notin Peers

VARIABLE net  \* the datagrams sent

\* mbus.hello, mbus.bye, mbus.quit; an acknowledgement; other commands.
Kinds == {"hello", "bye", "quit", "ack", "commands"}

\* A datagram.  seq: its own sequence number (nobody reads that of an
\* acknowledgement: 0).  body: of an acknowledgement, the number it names; of
\* commands of the engine, their indexes.
Packet(kind, from, to, seq, reliable, body) ==
  [kind |-> kind, from |-> from, to |-> to, seq |-> seq, reliable |-> reliable, body |-> body]

\* A datagram once sent may reach its receiver at any later time, any number of
\* times, or never: net holds all that were ever sent.
NetInit == net = {}

\* Entities announce themselves, ask the engine to quit (it ignores who does) and
\* leave, at any time and unasked: these may reach it whenever it listens.
Unasked == [kind : {"hello", "quit", "bye"}, from : Peers, to : {Engine}, seq : {0},
            reliable : {FALSE}, body : {<<>>}]
=============================================================================
