# BonePhone: a verification project

BonePhone is a SIP telephone in Java: a user agent (`SipUserAgent`), the telephone
proper (`bonephone`), and a message bus (`mbus.jfi`) over which it controls the audio
tool RAT (`rat-4.2.20`, in C: a media engine process). This directory models the parts
whose mistakes a test hardly reaches, checks them with TLC and proves what matters most
with TLAPS. Paths below are relative to `src/BonePhone`.

## 1. Inventory

| component | state | operations | talks to |
|---|---|---|---|
| **Port pool** `bonephone/PortManager.java` | `portbusy[]`, `next` | `getPort`, `freePort` (synchronized) | called by every `Call` |
| **Event queue of a call** `IPT_Event.java`, `Queue.java` | `evq`, `event`, `locked` | `set`, `get` | posts come from Swing, EventWorkers and, nested, from observers; notifies the state machine |
| **State machine** `Call.java`, `StateMachine.java`, `IPT_State*.java` | state, table, `cc`, `localmedia`, `remotemedia` | `trigger`, ten actions of `Call.action` | user agent, media engine, port pool, its own queue |
| **Call center** `CallCenter.java` | `data` (the calls) | `issueCall`, `notify`/`error`/`hangup` (each starts a thread), `remove` | user agent (listener), GUI (observer) |
| **Media engine** `MediaControl.java`, `RATControl.java` | `owner`, `rat`, `codecs`, token handshake | `isAvailable`, `start`, `stop` | RAT process through mbus |
| **SDP and codecs** `SDPManager.java`, `CodecProfileManager.java` | profiles | `build`, `extractAllCodecs`, `getFirstSupported` | call center, calls |
| **SIP call leg** `SipUserAgent/CallLeg.java`, `CL_*.java` | `currentState`, SDP blocks | four calls of the application, five kinds of message | stack, listener |
| **SIP user agent** `CallManager.java`, `SipStackListener.java` | `callLegs`, `transactionListeners` | creation of legs, routing | stack, legs |
| **mbus, telephone's side** `mbus.jfi/org/mbus` | `AckQueue`, one Retransmitter thread per reliable message, entities alive | send, acknowledge, retransmit, report, age | RAT, RATControl |
| **mbus, RAT's side** `rat-4.2.20/common/src/mbus.c` | `cmd_queue`, `waiting_ack`, `other_addr` | `mbus_qmsg`, `mbus_send`, `mbus_retransmit`, `mbus_recv`, `mbus_exit` | telephone |
| **RAT's engine** `rat/main_engine.c`, `mbus_engine.c` | phase of `main()`, RTP sessions, device flags | rendezvous with the controller, main loop, one handler per mbus command | RATControl, RTP |
| **RAT's reception** `rat/source.c`, `playout.c`, `pktbuf.c`, `ts.c`, `cc_vanilla.c` | per sender: packets, channel and media play-out buffers, iterators, transit, skew | enqueue, process packets, decode, repair, adapt, mix, audit | RTP callbacks, main loop, mixer |
| **GUI, phone book, configuration** | widgets, files | buttons, file reading | call center |
| NIST SIP stack, Tcl/Tk, RAT's devices, codecs and windows | vendored, or signal processing and widgets | | |

Interaction: a message from the network reaches `SipStackListener.processRequest`, is
routed by Call-ID to a `CallLeg`, whose class `CL_*` answers and calls the listener. The
listener is the `CallCenter`, which starts one `EventWorker` thread for each call of its
methods. The worker looks the call up (or makes one), reads the remote SDP, and posts an
event in the call's queue. The thread that finds the queue unlocked drains it: the state
machine runs the actions of the table, some of which post further events in the same
queue, and then sets the state. The user's buttons post in the same queue from Swing.

What is hard here: several threads in `IPT_Event.set` (its lock is exchanged inside the
block it guards); notifications carried by unordered threads; actions that fail half way
while the state is set all the same; one media engine and a bounded set of ports shared
by all calls; legs whose messages are lost, repeated or overtaken, and whose
transactions never time out (`processTimeOut` is empty). `PROJECT.json` lists the hazards
by line.

What makes each component correct:

* port pool: a pair belongs to one call, is never half granted, is free again when its
  call gives it back, and comes back as late as possible (README.config:119);
* event queue: every event told, once, in order, one at a time; never wedged;
* state machine, call center: one call for each context; an active call has the engine
  and its port, stops no other call's engine; a hangup gives the engine back; each state
  means what `IPT_State_Call` says it means;
* call legs: no dialog without the callee's consent; both ends end;
* mbus: reliable commands are handled in the order they were queued; success is
  reported only of what the other side took; every reliable message is settled;
* RAT's start: one RTP session with the addresses of this call before any audio; the
  microphone as the user wants it; `start()` returns;
* RAT's reception: buffers in the order of a wrapping clock, no assertion of the code
  fails, no frame mixed twice, what is due is mixed, and mixing gets on with every turn.

## 2. Modules

| module | models | how state and actions correspond |
|---|---|---|
| `PortManager` | `PortManager.java` | `portbusy`, `next` as in the code; `GetPort(port)`: the call that returns `port`; `Walk` orders the pairs as the two loops of `getPort` do |
| `PortPool` | its use by `Call.getLSDP`, `freeLSDP` and by calls removed without either | `localmedia[c]`: the port a call announces, the only one it can release: `Obtain` overwrites it, `Abandon` forgets it; `dropped`, `seen`: histories for the properties |
| `CallParts_proofs` | what `getPort` and `freePort` do to the flags, and what the reactions of a leg are (lemmas) | |
| `PortPool_proofs` | theorems about `PortPool` | |
| `EventQueueSpec` | what the comment of `IPT_Event` promises | abstract: how many events were posted and told |
| `IPT_Event` | `IPT_Event.set`, `Queue`, `StateMachine.update` | `stack[t]`: a thread's active calls of `set`; one action for each statement that touches a shared field; `monitor[b]`: who is inside `synchronized` on `Boolean.FALSE`/`TRUE` |
| `IPT_Event_proofs` | theorems about `IPT_Event` | |
| `CallLeg` | `CL_*.java`, `CallLeg.java` | `CL_x`: the reactions listed by class `CL_x` (input, new state, messages, listener's method); no variables |
| `CallCenter` | `CallCenter`, `Call`, `StateMachine`, `MediaControl` with `PortManager` and `CallLeg` | `call[c]`: a call's fields and its running `trigger`; `job[w]`: an EventWorker; `sip[x]`: the leg behind a context; each action of an event's list, and each shared access of `EventWorker.run`, is a step; `rat`, `owner`: the fields of `MediaControl`, `rat` with the call whose `isAvailable` made it; `pc`: the statement of `isAvailable` or `stop` a call is at |
| `CallCenter_proofs` | theorems about `CallCenter` | |
| `Dialog` | two user agents and the network | `leg[s]`: `currentState`; `thread[s][t]`: what a thread in the leg has read and still has to send and assign; `Call`: the application; `Deliver`: routing; `Send`, `Fail`: the class's messages; `Assign`: the new state; `Lose`, `Repeat`: UDP |
| `Dialog_proofs` | theorems about `Dialog` | |
| `MbusNet` | the multicast group | `net`: datagrams on the way; they are taken any number of times, in any order, or never |
| `Mbus` | `mbus.c` and what `main()` does with it | one action per function, but two for `mbus_recv` (`Recv` acknowledges; `Handle` or, if they do not parse, `DropCommands` is what becomes of the commands; `receiving`: in between); `cmd_queue`, `waiting_ack`, `index`, `index_sent` as in `struct mbus`; `phase`: where `main()` is |
| `MbusTransport` | `SimpleTransportLayer`, `Retransmitter`, `Receiver` | `rt[m]`: a Retransmitter thread; `rx[p]`: the Receiver thread; each access of `AckQueue` is a step |
| `MbusLink` | both ends, composed | `handled`, `got`, `asked`: histories for the properties |
| `MbusLink_proofs` | theorems about `MbusLink` | |
| `RatSetup` | `MediaControl.start`/`stop`, `RATControl`, `rendezvous_with_controller`, the engine's handlers | `thread`, `button`: statement of the call's and the window's thread; `engine`: loop the engine is in; `toEngine`: commands sent once |
| `RatSetup_proofs` | theorems about `RatSetup` | |
| `Timestamp` | `ts.c` | times modulo `Wrap` |
| `PlayoutBuffer` | `playout.c` | a buffer is a sequence, an iterator an index into it |
| `Source` | `source.c`, `pktbuf.c`, `cc_vanilla.c`, the RTP callback | an action is one turn of a loop; `at`: which loop |
| `Source_proofs` | theorems about `Source` | |
| `MCPortPool`, `MCEvent`, `MCCallCenter`, `MCDialog`, `MCMbusLink` | instances for TLC | |

`CallCenter` extends `PortManager` and `CallLeg`; `Dialog` extends `CallLeg`; `PortPool`
extends `PortManager`; `CallParts_proofs` is extended by the proofs of all three. `IPT_Event`
instantiates `EventQueueSpec`. `MbusLink` composes `Mbus`
and `MbusTransport`, which share `MbusNet`; `Source` extends `PlayoutBuffer`, which extends
`Timestamp`.

### Choices a reader should know

* **One drainer in CallCenter.** `IPT_Event` shows that two threads may drain one queue.
  `CallCenter` assumes one drainer for each call, so its violations are not consequences
  of that defect, and its passing properties hold where `set` behaves as its comment says.
* **Threads in a leg.** `currentState = currentState.in(this)` is not synchronised
  (CallLeg.java:274-317), and the stack runs a thread for each datagram
  (UDPMessageChannel.java:100). In `Dialog` it is three steps: the state is read and the
  reaction chosen (the listener is told in this step), the messages are sent, the state
  returned is assigned. Where sending fails the class returns the state it was called in.
  In `CallCenter` one input of a leg is one step.
* **The engine between calls.** `MediaControl.isAvailable` is synchronized and `stop` is
  not: while a call is in the one, another may be in the other. `isAvailable` is two steps
  (the tests with `rat=new`, then `addObserver` with the assignment of `owner`), `stop` four
  (its test, `rat.terminate()`, `rat=null`, `owner=null`), and `freeLSDP` follows as a fifth.
  No step between them is excluded, nor is any rate of notifications: each starts a thread
  (CallCenter.java:174).
* **Asking twice.** A call that is asked for the engine again while the answer to an earlier
  question is still in its queue (a remote party that answers twice, a second click on
  accept) may handle that answer after it gave the engine back, and be active without one;
  its own stop then may end another call's engine or meet a null reference. `EngineHeld`,
  `StopsOwnEngine` and `NeverDead` say nothing of a behaviour once that happened
  (`repeated`), and hold of all others. `PortsExclusive`, `OneCallPerContext` and
  `HangupFreesEngine` have no such exemption.
* **Remote parties.** In `CallCenter` a remote party may send whatever its leg reacts to,
  in any order and at any time; its own user agent need not be a BonePhone. `Dialog` pairs two of them.
* **The stack** hides retransmissions. A repeated INVITE or BYE belongs to a known
  transaction and goes to `processRequest`, which is empty, so `Dialog` repeats only
  other messages. Loss means that all retransmissions were lost.
* **SDP** is one of six outcomes that `EventWorker.run` tells apart (`Media`).
* **The end of a thread.** A null reference in `MED_STOP` or `isAvailable` throws out of
  `set` and leaves the event object locked: the call is `dead`. An EventWorker that finds no audio stream
  dies of a null pointer, and its call hears nothing.
* **Repeated and single messages.** In `RatSetup` a message that is repeated until it is
  answered (hello, `mbus.waiting`, reliable commands of the engine) is heard sooner or
  later: one action of its listener. RATControl's own commands are sent once and
  unreliably; they travel in order, since sender and receiver share a host, and may be
  lost. `MbusLink` makes none of these assumptions.
* **The bus** is a set of datagrams that never shrinks: loss is a datagram never taken,
  repetition one taken again. The commands in a datagram are their queue numbers.
* **A source's clock.** `Wrap` stands for the 372 s after which RAT's `ts.c` wraps, and a
  time that lies more than half of it back is taken for one to come. `ts.c:36` takes the
  range to be ample; `WindowParameters` says of which numbers it has to be: the times a
  source keeps lie within `Past` before now and `Future` after it, and both together are
  less than half of the range. Nothing in the code keeps a source from having nothing
  played for longer than that while it is kept (`source_relevant` is true of a young one,
  and a sender that changes the size of its packets with every packet makes it young
  again), after which `next_played` lies in the future. `Stall` bounds for how long a
  source is kept like that; a round that would find it kept for longer is not modelled
  (`Stalled`). The time a run ends at (`Ends`) bounds TLC alone: the proofs have none. The
  offset between the clocks of sender and receiver is left out of `Ages`: packets are
  compared with packets, and transit times with transit times, so it cancels.
* **Estimates are inputs.** The play-out delay of a talkspurt (`Delays`), the verdict of
  `source_check_buffering` and the size of a skew adjustment are nondeterministic. `end_ts`
  is never taken back, since the cushion does not shrink while a source is active
  (audio.c:448-462).
* **Acknowledged is not handled.** RAT acknowledges a reliable message (mbus.c:902) before
  it looks at its commands (910-925), and also when they do not parse (927-932). What the
  telephone is told of success is worth just that: `SuccessMeansAccepted` says that RAT took
  the message, with the three things that can have become of it.
* **History variables** `got`, `handled`, `handled_by_engine`, `unparsed`, `asked`,
  `crossed`, `seen`, `dropped`, `forgotten`, `repeated` only serve properties.

## 3. Runs

Passing runs, with their bounds and why these are enough:

* `PortPool` (2 calls, range of 9 ports from 4721, so 4 pairs from 4720): both roundings
  of the constructor, a full range, wrap-around, both calls at the pointer, and every way of
  losing pairs until none is left. `LossesKnown` says which pairs are in use: those that are
  announced, those that were lost, and no other but the first of the range.
* `Event_gui` (1 thread, 8 posts, nesting 2): a nested post finds the object locked, so
  it returns before it could nest deeper; 8 posts give every mix of nested and outer ones.
  Includes the refinement of `EventQueueSpec`, with its liveness.
* `Event_threads` (3 threads, 5 posts): two drainers and a third thread that posts, which
  is what a null fetch needs.
* `Calls_contexts` (3 calls, 1 context, 2 workers, 1 click, 5 notifications, all SDP
  outcomes but the empty address, whose event is not told from the others by the lookup).
  These are the bounds that reach the one race there is: INVITE, an acceptance, a hangup
  before the ACK, by which the call goes while its dialog lives, and two re-INVITEs with a
  CANCEL between them, both of which find no call and add one. Two calls or fewer
  notifications hide it, and `OneCallPerContext` names the case (`forgotten`).
* `Calls_engine` (2 calls, 2 contexts, 1 worker, 2 pairs of ports, 3 clicks, 2
  notifications): what it takes for one call to be active and the other to ask for the
  engine, or to be given it while the first is in `stop()`; 1.5 million states. The ports
  run out, since the first pair never comes back. Faults and longer behaviours are left to
  the proofs, which have no bounds.
* `Calls_hangup` (1 call, 2 workers, 4 clicks, 2 notifications, no symmetry): liveness; a
  call comes to be active, is muted and unmuted or hung up, with two notifications underway
  in either order.
* `Dialog_consent` (two threads at a time in each leg, 3 calls of the applications, 1
  message lost, repeated or not sent, messages overtake each other): invite, accept and a
  hangup, a re-INVITE or a call back, with every overlap of two inputs of a leg. Without a
  second thread 6 calls and 2 faults pass as well, and with two threads 4 calls without a
  fault. The proof has none of these bounds.
* `Mbus_link` (one endpoint of the telephone with 1 reliable message and 1 repetition; RAT
  queues 2 commands, at most 2 in a message, and makes 2 acknowledgements and hellos beside
  the messages of its commands; the endpoint may leave and come back): two commands are what
  joining, reopening a message and overtaking need, a second message is what a late
  acknowledgement of the first needs, and two acknowledgements are what a repeated message
  of the telephone needs. The liveness is checked in it as well: what one message waits for
  is its acknowledgement, its repetitions and the engine's leaving. Larger numbers are left
  to the proofs.
* `RatSetup_start` (3 clicks, 2 rediscoveries of the engine, 2 losses): a click before,
  across and after the start, in one behaviour. `MuteApplied` is an equivalence: the
  microphone is wrong after the crossing that refutes `MuteObeyed` (below), and only then.
* `Source` (wrap at 120, frames of 2, up to 2 frames in a packet, ages 0 to 4, rounds of 2
  or 4, from 114 across the wrap to 2 or 4, one trouble: a talkspurt, a skew, a refusal or
  a removal; the same with two, a million states, passes as well but takes longer):
  reached in it are repair of a gap, stop at a unit in the future and retreat of the
  iterator, freeing by the audit, skew both ways, removal and return of the source, and a
  decoder that drops the rest of a packet. Not reached: a unit that comes too late
  (source.c:921), which needs a longer span, nor a stall. The window that is compared is
  58 wide, of the 60 that are half of the range. A loop that mixes without end would
  violate `PlayAdvances`.

Beyond these bounds, TLC's random simulation (tens of millions of states for each) found
no violation of the properties of `RatSetup_start` with 9 clicks, 5 rediscoveries and 6
losses, and of `Source` with a wrap of 192 and 6 troubles. It is how the race of
`Calls_contexts` was found.

Runs that show a disagreement between the code and what the repository says of it; the
counterexample in a sentence each:

* `Event_lost`: an event posted after the last look at the queue is never told
  (IPT_Event.java:5-6, 42-47).
* `Dialog_cancel`: a hangup while a re-INVITE is proceeding ends the caller's leg only,
  even when each leg has one thread and the applications wait for a silent network (API.txt:9-10; README.todo calls
  that file wrong in many points, but says nothing against this one).

Other disagreements met while modelling have no run. Those stated as a formula can be
seen by giving its module's configuration that formula in place of its properties:

* `PortPool!ReleasedIsFree`: the pair with index 0 is obtained, released, and still in use,
  since the guard of `freePort` is `port>first` (PortManager.java:34, 38).
* `IPT_Event!OneNotification` with two threads (`TwoThreads`) and 3 posts: both drain one
  queue at once and notify the observers of two events at a time, since each enters the
  monitor of the object `locked` referred to when it came (IPT_Event.java:7-9, 38-41).
* `CallCenter!EngineReserved` with the bounds of `Calls_engine`: a call that is hung up is
  between `rat=null` and `owner=null` when another asks for the engine: it gets a new one,
  becomes its owner, and loses the ownership to the last statement of the first call's
  `stop()`. It is active, with an engine that is reserved for nobody (MediaControl.java:29,
  72-73).
* `RatSetup!MuteObeyed`: `start()` reads the user's wish (MediaControl.java:61), the user
  clicks and the click's command is sent, then `start()` sends the old value: the microphone
  is open though the user muted it (MediaControl.java:130).
* `CallCenter!RingingCanBeAccepted`: notify and hangup of an incoming call are handled in
  the wrong order; the call rings for nobody (IPT_State_Call.java:20, CallCenter.java:174).
* `CallCenter!OneCallPerContext` without its last clause: two EventWorkers told of a dialog
  whose call was removed both add a call, and the list has two calls for one context, of
  which only one hears what follows (CallCenter.java:332-341).
* `CallCenter!UnavailableMeansInUse`: the engine stays reserved for a call that failed to
  start (MediaControl.java:30, 35).
* `Dialog!EndedStays` with two threads in a leg: one of them reads the state, the other ends
  the leg, and the first assigns a state of a living leg (CallLeg.java:274-317). An accept
  that comes before the state assigned after the notification is dropped in the same way
  (CL_initial.java:123). With one thread the formula holds.
* `MbusLink!LastLoopEnds`: "At this stage we no longer care about acks for messages"
  (main_engine.c:475), but the loop around it waits for `mbus_sent_all` and calls neither
  `mbus_retransmit` nor `mbus_heartbeat`: if the acknowledgement of the last reliable
  message is lost, the engine never ends by itself (`RATControl.terminate` kills it after
  two seconds).
* "This packet arrived in time to be played out" (source.c:937): a packet accepted there
  may still not be heard, since audio up to `now + cushion` may be mixed already, and
  `vanilla_decoder_output` drops the rest of a packet at the first unit that exists
  (cc_vanilla.c:215). `DueIsMixed` states what does hold.
* `pktbuf_enqueue` ignores that `pb_add` refused a packet (pktbuf.c:87) and leaks it.
* At exactly half of the wrap neither of two timestamps is greater (ts.c:126).
* A remote hangup is dropped in INACTIVE and MUTING; a second MED_LSDP loses a pair of
  ports (Call.java:203), and no path frees the ports of a call cancelled while ringing or
  calling (Call.java:437, 453; both are in `PortPool`); the global path of EV_GEN_ERROR
  leads out of DELETE (Call.java:409, 504); a caller that hangs up before the first response
  sends nothing (CL_calling.java:50).

Deadlock is not checked where a bound, an idle user or an idle network ends a behaviour,
which is the normal end of a telephone call; `PortPool` and
`Source` can always go on and are checked.

## 4. Fairness

`IPT_Event`: a thread inside `set` goes on (`WF` of `Progress`): the Java scheduler runs
every runnable thread, and a monitor is held for two statements. Nothing forces a post.
`CallCenter`: the draining thread and the EventWorkers go on; users and remote parties
never have to act. `MedStart` is assumed to end; `RatSetup` shows when that is so.
`Dialog` delivers what was not lost, and a thread that entered a leg leaves it.

`MbusLink`: the engine's main loop goes on. It is one thread, which is inside `mbus_recv`
as long as the bus brings datagrams (`Free`), so `Send`, `GiveUp` and the ends of the loop
are enabled again and again but not continuously: they have strong fairness. The code
justifies it: `mbus_recv` returns after ten datagrams at most (mbus.c:744), `main()` calls
`mbus_retransmit` and `mbus_send` after it (main_engine.c:303-305), and what it took from the bus it
handles or drops (weak fairness). The Retransmitter threads run and their sleeps end, and a
Receiver that took a datagram finishes with it. Nothing
forces a delivery, an endpoint's hello, or a send. `RatSetup`: the threads go on, and what
is repeated for ever is heard; single messages may be lost, and `StartReturns` names that
case. `Source` needs no fairness.

## 5. Proofs

Checked by `tlapm` for every value of the constants:

* `PortPool_proofs`, from `PortRange` (the configured numbers are integers):
  `TypeCorrect`, `PairsExclusive`, `LossesAccounted`, `NeverHalf`, `RangeUsedInTurn`.
  `Exclusive` and `LossesKnown` are inductive together with types, once it is known that a
  lost pair is announced by nobody and that ports of the range stand for exactly one pair
  (`PortPair`). `RangeUsedInTurn` is an action property:
  its invariant says that the pairs between the last grant of `p` and the pointer have
  been seen.
* `Dialog_proofs`, from `Parameters`: `LegsTyped` and `ConsentKept`, for any number of
  calls by the applications and of threads in a leg, and any loss, repetition, order and
  failed sending. `Consent` alone is not inductive, since it says nothing of an answer that
  is underway: `Asking` adds which states each leg, and which messages each queue, can hold
  before the callee accepts, and `EarlyThreads` that no thread is about to send or assign
  anything else. Each class `CL_*` then has to keep to those sets, which `CallerBefore` and
  `CalleeBefore` show.
* `CallCenter_proofs`, from `Parameters` and `PortRange`, for any number of calls, contexts,
  workers, clicks and notifications: `TypeCorrect`, `PortsKept`, `ContextsFollowed`. The invariant `IInv` is the types, `PortsExclusive`, and `Followed`,
  which says where the contexts are. That the list has one call for each context is not
  inductive, since a worker that is about to add a call is not in it. `Followed` adds that
  a context no call ever had is known to one notifying worker at most (`AskedOnce`), since
  a leg gets from its first state to `proceed` with one notification and out of `proceed`
  only by an acceptance, which needs a call (`FirstReactions`); that a worker adds a call
  only where there is none or one was given up (`AddsFirst`); and that calls out of the list
  run no actions (`Unlisted`), which needs the last states of the table (`TableEnd`).
  And, with the exemption the properties state: `ActiveHasEngine`, `EngineNotStolen` and
  `CallsSurvive`. Their invariant `EngineInv` says of each call (`Engine`), as long as none
  asked twice: which actions the state table can have left to do in which states (`Tabled`);
  at which of them a call can be inside `isAvailable` or `stop` (`Placed`); that a call that
  is or will be active has the engine and a descriptor, that one with an answer `MED_AVL` in
  its queue has the engine, and that it is the owner's but between `rat=null` and
  `owner=null` (`Holding`); that one answer at most is queued, in a state in which it comes in
  time or is not heeded (`Answering`), also across a call back (`CallingBack`); and that a
  descriptor was allocated or its error comes first (`Allocated`). `StopDisown` takes the
  ownership of whoever has it, so nothing can be said of `owner` of an active call
  (`EngineReserved` in section 3 shows it), and the invariant rests on `rat`. `OneSteps`
  reduces each step to the one call it is about.
* `IPT_Event_proofs`, from `Bounds`, for any number of threads and posts and any nesting:
  `TypeCorrect`, `NeverWedged`. The invariant adds the shape of the
  stacks of `set`, that a thread inside a monitor's block owns it (`Owners`), and that a
  locked event object has a thread that is going to unlock it (`SomebodyDrains`), two
  drainers included. For one thread (`SingleThread`), as the telephone uses it: `OneAtATime`,
  `InOrder`, and `QueueImplemented`, the safety part of the refinement of `EventQueueSpec`.
  `AloneInv` adds that a call nested in a handler finds the object locked and returns
  (`Shallow`), what the fields hold at each place of the drain (`Fields`), and that the
  events told, the one fetched and those in `evq` are the events posted (`Numbers`).
* `RatSetup_proofs`, from `SetupParameters`: `TypeCorrect` and `OneSession`. The invariant
  bounds the timers by the rediscoveries (`Timed`), says that `start()` sets the addresses
  before it releases the controller (`InTurn`), and follows the one `rtp.addr` from the
  controller over the commands under way to the engine's session (`Addressed`), which
  `SessionOnce` alone does not mention. `MuteFollows` adds `MInv`, which follows the wish
  of the user from the last click over the field of the controller and the last mute command
  under way to the engine (`Wished`, `Reached`, `Answered`); it is an equivalence, so the
  theorem also says that the microphone is wrong after the crossing it names.
* `MbusLink_proofs`, from `BusParameters`, `EndpointParameters` and `TransportParameters`
  (any set of endpoints, queue length, bound on commands, number of repetitions):
  `TypeCorrect`, `QueueOrdered`, `SuccessTrue`, `Released`. The inductive invariant adds to
  the listed properties `QueueInv` (what the message that waits for its acknowledgement has
  to do with the queue's order), `AcksMeanGot` and `AcksMeanTaken` (an acknowledgement on
  the network was sent by someone who has the message: without it the arrival of an old
  acknowledgement could not be excluded). `Released` is an action property that follows
  from `AcksMeanGot`. Joining a command to the last message of the queue is the hard step:
  the last message is split off from the others, which do not change. `OrderKeptByAcks` is
  that the reliable commands for a receiver are handled in the order they were sent. Its
  invariant `OInv` says that a message of the queue carries a run of consecutive commands,
  the runs in order (`QueuedShape` and the lemmas after it); that a reliable message is sent
  only when all before it for that receiver were accepted (`SentAccepted`, `Preceded`); and
  that what was accepted was handled or is in the hands of the receiver
  (`AcceptedHandled`). It needs `NoMessage`: the null reference is no message.

* `Source_proofs`, from `TickerParameters`, `SourceParameters` and `WindowParameters`, for
  calls of any length (`Ends` may be empty: the clock wraps any number of times), any size
  of packets, of queue and of history, any delays, and as many troubles as the window has
  room for (with a range of 372 s and frames of 20 ms, several thousand talkspurts and
  skews; the window counts a frame for each, though only skews use it up): `TypeCorrect`,
  `StaysInOrder`, `AssertionsHold`, `MixedOnce`, `NothingDueWaits`, `MixingAdvances`,
  which is all that is stated of `Source`. The argument: times are counted from `Past`
  before now (`Since`), where, as long as they stay in the window, the modular comparisons
  of `ts.c` are those of numbers (`Later`, `Added`, `GoesOn`). There `pb_add` finds one
  place in an ordered buffer (`PlaceIs`) and the shifts keep the order (`ShiftedForward`,
  `ShiftedBack`). The invariant `IInv` says how far from now everything may be: packets
  received (`Queued`) and given a time (`Channelled`), units (`Kept`), and what is mixed
  next (`Mixes`); where the iterator is (`Pointed`): the unit mixed last ends when the
  next one is due, so that a repair finds its place free behind it (`FetchedIs`); and what
  is left after a round (`Done`). Its bounds grow where the code pushes units back: a skew
  found is a trouble and buys a frame of room (`Drift`, `DriftRoom`), which the adaptation
  then uses up. The times in the invariant are what the properties lack to be inductive:
  whether `pb_add` keeps a buffer in order, whether a playout time passes
  `sanity_check_playout_time`, and whether the unit a repair makes up is the one that is
  due, all depend on how far times are apart.

Induction over numbers is done with `Least` (a set of numbers has a least one, from
`WellFoundedInduction`): it gives the maximum of a finite set, the place in a buffer and
the value of the decoder's recursive function.

Model-checked only: liveness throughout (temporal properties under fairness are out of
the prover's reach), the fairness of the queue's refinement included.

## 6. Not modelled

`CodecProfileManager`, `MessageBus` (the telephone does not use its waiting calls). The
encoding, authentication and encryption of mbus messages, the SDP text, GUI layout, files
and start-up: sequential conversions or I/O. Of RAT's reception: the mixer's own trimming
of audio it already has, spike mode, layered, redundant and interleaved channel coders,
echo suppression (off by default, settings.c:411); of RAT otherwise: devices, codecs,
transmission, windows. `Transaction`, `State*.java`, `CallContextImpl`, `Constants`:
superseded, not used by the telephone. The NIST stack and Tcl/Tk: vendored; modelled as far
as the code relies on them.

## 7. Plan

1. *Done*: port pool, event queue, legs, calls and call center, dialog; mbus from end to
   end; the start of RAT; the reception of audio; proofs of every invariant and action
   property the passing runs check.
2. `CodecProfiles`, `SdpCodecs`: as operators against reference definitions.
3. The channel coders that keep state over packets (`cc_rdncy.c`, `cc_intl.c`).
