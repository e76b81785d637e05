----------------------------- MODULE CallCenter -----------------------------
(***************************************************************************)
(* The telephone proper: bonephone/CallCenter.java with the calls of its   *)
(* list (Call.java, StateMachine.java), the media engine they compete for  *)
(* (MediaControl.java), the port pool (PortManager) and the SIP call legs  *)
(* (CallLeg).  The actors are the user, the remote parties, one thread per *)
(* call that drains its event queue, and the EventWorker threads that      *)
(* carry the notifications of the user agent to the calls.                 *)
(*                                                                         *)
(* Queueing is the one of IPT_Event used by one thread at a time: an event *)
(* is handled to its end before the next one (the races of set() itself    *)
(* are the subject of IPT_Event).  Every action of an event's list is a    *)
(* step of its own, so calls interleave between them.  One input of a call *)
(* leg is one step.                                                        *)
(***************************************************************************)
EXTENDS PortManager, CallLeg, FiniteSets

CONSTANTS Calls,     \* bound: Call objects of a behaviour
          Contexts,  \* bound: CallContext objects of a behaviour
          Workers,   \* bound: EventWorker threads at a time
          None,      \* the null reference
          Offers,    \* what a remote SDP block can be, see Media
          Faults,    \* what can fail: creating a "context", starting the "engine"
          MaxClicks, \* bound: actions of the user
          MaxNotes   \* bound: notifications by the user agent

VARIABLES call,      \* call[c]: the fields of a Call and its running trigger()
          data,      \* the calls listed by the call center
          job,       \* job[w]: what an EventWorker is at
          rat,       \* MediaControl.rat: None or the call whose isAvailable made it
          owner,     \* MediaControl.owner
          sip,       \* sip[x]: the call leg behind CallContext x
          clicks, notes,
          forgotten, \* history: contexts a call had and was removed or called back with
          repeated   \* history: calls that asked for the engine again while the
                     \* answer to an earlier question was still in their queue

engine == <<rat, owner, repeated>>
vars == <<portbusy, next, call, data, job, engine, sip, clicks, notes, forgotten>>

\* What CallCenter.EventWorker finds in getRemoteSDP(): nothing, a block that
\* extractAllCodecs refuses, one without an audio stream, one with the empty
\* address, one without and one with a codec we can send.
Media == {"no SDP", "bad", "no audio", "0.0.0.0", "unsupported", "supported"}

ASSUME Parameters == /\ Offers \subseteq Media /\ Faults \subseteq {"context", "engine"}
                     /\ None \notin Calls \cup Contexts
                     /\ None \notin {first + p : p \in Pairs}

States == {"INACTIVE", "CALLING", "DELETE", "MUTING", "ACTIVE", "RINGING",
           "MISSED", "ERROR"}

Events == {"GUI_CANCEL", "GUI_ACCEPT", "GUI_UNMUTE", "GUI_MUTE", "GUI_HUP",
           "GUI_CALLBACK", "SIP_N0", "SIP_N0000", "SIP_NN", "SIP_NY",
           "SIP_HANGUP", "SIP_ERROR", "MED_AVL", "MED_UNAVL", "GEN_ERROR"}

Commands == {"MED_LSDP", "MED_AVL", "MED_START", "MED_STOP", "SIP_HANGUP",
             "SIP_DECLINE", "SIP_INVITE", "SIP_CALLBACK", "SIP_ACCEPT", "SIP_MUTE"}

-----------------------------------------------------------------------------
\* The state table of Call.init: <<state, event, next state, actions>>.
StateTable ==
  {<<"INACTIVE", "SIP_N0",       "same",     <<"MED_LSDP", "SIP_ACCEPT">>>>,
   <<"INACTIVE", "SIP_NY",       "RINGING",  <<"MED_LSDP">>>>,
   <<"INACTIVE", "GUI_CANCEL",   "DELETE",   <<"SIP_HANGUP">>>>,
   <<"INACTIVE", "GUI_HUP",      "DELETE",   <<"SIP_HANGUP">>>>,
   <<"INACTIVE", "SIP_NN",       "ERROR",    <<"SIP_DECLINE">>>>,
   <<"INACTIVE", "GUI_UNMUTE",   "CALLING",  <<"MED_LSDP", "SIP_INVITE">>>>,
   <<"CALLING",  "MED_UNAVL",    "INACTIVE", <<"SIP_MUTE">>>>,
   <<"CALLING",  "SIP_ERROR",    "ERROR",    <<"SIP_HANGUP">>>>,
   <<"CALLING",  "SIP_NN",       "ERROR",    <<"SIP_HANGUP">>>>,
   <<"CALLING",  "SIP_HANGUP",   "ERROR",    <<>>>>,
   <<"CALLING",  "GUI_CANCEL",   "DELETE",   <<"SIP_HANGUP">>>>,
   <<"CALLING",  "MED_AVL",      "ACTIVE",   <<"MED_START">>>>,
   <<"CALLING",  "SIP_NY",       "same",     <<"MED_AVL">>>>,
   <<"RINGING",  "MED_UNAVL",    "INACTIVE", <<"SIP_MUTE">>>>,
   <<"RINGING",  "GUI_ACCEPT",   "same",     <<"SIP_ACCEPT", "MED_AVL">>>>,
   <<"RINGING",  "MED_AVL",      "ACTIVE",   <<"MED_START">>>>,
   <<"RINGING",  "GUI_CANCEL",   "DELETE",   <<"SIP_DECLINE">>>>,
   <<"RINGING",  "SIP_ERROR",    "ERROR",    <<"SIP_HANGUP">>>>,
   <<"RINGING",  "SIP_HANGUP",   "MISSED",   <<>>>>,
   <<"ACTIVE",   "GUI_MUTE",     "MUTING",   <<"SIP_MUTE", "MED_STOP">>>>,
   <<"ACTIVE",   "SIP_N0000",    "INACTIVE", <<"SIP_ACCEPT", "MED_STOP">>>>,
   <<"ACTIVE",   "SIP_ERROR",    "ERROR",    <<"MED_STOP", "SIP_HANGUP">>>>,
   <<"ACTIVE",   "SIP_HANGUP",   "DELETE",   <<"MED_STOP">>>>,
   <<"ACTIVE",   "GUI_HUP",      "DELETE",   <<"MED_STOP", "SIP_HANGUP">>>>,
   <<"MUTING",   "SIP_N0",       "INACTIVE", <<"SIP_ACCEPT">>>>,
   <<"MUTING",   "SIP_N0000",    "INACTIVE", <<"SIP_ACCEPT">>>>,
   <<"MUTING",   "SIP_NY",       "INACTIVE", <<"SIP_ACCEPT">>>>,
   <<"MUTING",   "SIP_NN",       "INACTIVE", <<"SIP_ACCEPT">>>>,
   <<"MUTING",   "SIP_ERROR",    "ERROR",    <<"SIP_HANGUP">>>>,
   <<"MUTING",   "GUI_HUP",      "DELETE",   <<"SIP_HANGUP">>>>,
   <<"MISSED",   "GUI_CALLBACK", "CALLING",  <<"SIP_CALLBACK", "MED_LSDP", "SIP_INVITE">>>>,
   <<"MISSED",   "GUI_CANCEL",   "DELETE",   <<>>>>,
   <<"MISSED",   "SIP_ERROR",    "ERROR",    <<>>>>,
   <<"ERROR",    "GUI_CANCEL",   "DELETE",   <<>>>>}
    \cup {<<s, "GEN_ERROR", "ERROR", <<>>>> : s \in States}

\* Mutants of the table: muting forgets its next state; declining a ringing call
\* also stops the engine.
Entry_MuteStays(s, e) ==
  LET set == {row \in StateTable : row[1] = s /\ row[2] = e}
  IN  IF set = {} THEN <<s, e, "same", <<>>>>
      ELSE IF s = "ACTIVE" /\ e = "GUI_MUTE" THEN <<s, e, "same", <<"SIP_MUTE", "MED_STOP">>>>
      ELSE CHOOSE row \in set : TRUE

Entry_DeclineStops(s, e) ==
  LET set == {row \in StateTable : row[1] = s /\ row[2] = e}
  IN  IF set = {} THEN <<s, e, "same", <<>>>>
      ELSE IF s = "RINGING" /\ e = "GUI_CANCEL" THEN <<s, e, "DELETE", <<"SIP_DECLINE", "MED_STOP">>>>
      ELSE CHOOSE row \in set : TRUE

\* The entry for an event in a state; an entry that was never set is empty.
Entry(s, e) ==
  LET set == {row \in StateTable : row[1] = s /\ row[2] = e}
  IN  IF set = {} THEN <<s, e, "same", <<>>>> ELSE CHOOSE row \in set : TRUE

\* LargeCallPanel: what the two buttons of a call send in its state.
Buttons(s) ==
  CASE s = "CALLING"  -> {"GUI_CANCEL"}
    [] s = "RINGING"  -> {"GUI_CANCEL", "GUI_ACCEPT"}
    [] s = "ACTIVE"   -> {"GUI_HUP", "GUI_MUTE"}
    [] s = "INACTIVE" -> {"GUI_HUP", "GUI_UNMUTE"}
    [] s = "ERROR"    -> {"GUI_CANCEL"}
    [] s = "MUTING"   -> {"GUI_HUP"}
    [] s = "MISSED"   -> {"GUI_CANCEL", "GUI_CALLBACK"}
    [] OTHER          -> {}

-----------------------------------------------------------------------------
Unused == [state |-> "none", evq |-> <<>>, event |-> "none", actions |-> <<>>,
           next_state |-> "idle", pc |-> "begin", cc |-> None, localmedia |-> None, remotemedia |-> None]
Done == [at |-> "done", note |-> "none", cc |-> None, call |-> None, event |-> "none"]

Init == /\ PMInit
        /\ call = [c \in Calls |-> Unused]
        /\ data = {}
        /\ job = [w \in Workers |-> Done]
        /\ rat = None /\ owner = None /\ repeated = {}
        /\ sip = [x \in Contexts |-> [leg |-> "initial", made |-> FALSE, sdp |-> "no SDP"]]
        /\ clicks = 0 /\ notes = 0 /\ forgotten = {}

State(c) == call[c].state
Running(c) == call[c].next_state # "idle"
Leg(c) == sip[call[c].cc].leg

Posted(e, c) == [call EXCEPT ![c].evq = Append(@, e)]

\* Nothing of what happened so far is still to be handled by a call.
Quiet == /\ \A c \in Calls : ~Running(c) /\ call[c].evq = <<>>
         /\ \A w \in Workers : job[w] = Done

\* createCallContext() makes a leg in its initial state, or throws.
CreateContext(x) == ~sip[x].made /\ sip' = [sip EXCEPT ![x].made = TRUE]

-----------------------------------------------------------------------------
\* The user.  issueCall adds the call also when it has no context and is in
\* the error state.
IssueCall(c) ==
  /\ State(c) = "none" /\ clicks < MaxClicks /\ clicks' = clicks + 1
  /\ data' = data \cup {c}
  /\ \/ \E x \in Contexts :
          /\ CreateContext(x)
          /\ call' = [call EXCEPT ![c] = [Unused EXCEPT !.state = "INACTIVE", !.cc = x,
                                                        !.evq = <<"GUI_UNMUTE">>]]
     \/ /\ "context" \in Faults
        /\ call' = [call EXCEPT ![c] = [Unused EXCEPT !.state = "ERROR",
                                                      !.evq = <<"GUI_UNMUTE">>]]
        /\ UNCHANGED sip
  /\ UNCHANGED <<pmvars, job, engine, notes, forgotten>>

Click(c) ==
  /\ c \in data /\ clicks < MaxClicks /\ clicks' = clicks + 1
  /\ \E e \in Buttons(State(c)) : call' = Posted(e, c)
  /\ UNCHANGED <<pmvars, data, job, engine, sip, notes, forgotten>>

-----------------------------------------------------------------------------
\* A message reaches a call leg that reacts to it; an INVITE with a new Call-ID
\* makes one.  The listener's method starts an EventWorker and returns.  A
\* message without a body leaves the remote SDP of the leg as it is.
Receive(x) ==
  \E r \in Reactions[sip[x].leg] :
    /\ r.in \in Messages /\ (sip[x].made => sip[x].leg # "initial")
    /\ \E sdp \in {sip[x].sdp} \cup (IF r.note = "notify" THEN Offers ELSE {}) :
         sip' = [sip EXCEPT ![x] = [leg |-> r.to, made |-> TRUE, sdp |-> sdp]]
    /\ IF r.note = "none"
         THEN UNCHANGED <<job, notes>>
         ELSE /\ notes < MaxNotes /\ notes' = notes + 1
              /\ \E w \in Workers :
                   /\ job[w] = Done
                   /\ job' = [job EXCEPT ![w].at = "find", ![w].note = r.note, ![w].cc = x]
    /\ UNCHANGED <<pmvars, call, data, engine, clicks, forgotten>>

-----------------------------------------------------------------------------
\* EventWorker.run(), first statement: the call of the context.  Without one
\* only a notification goes on.
FoundCalls(x) == {c \in data : call[c].cc = x}

Find(w) ==
  /\ job[w].at = "find"
  /\ LET found == FoundCalls(job[w].cc) IN
     \/ \E c \in found :
          job' = [job EXCEPT ![w].call = c,
                             ![w].at = IF job[w].note = "notify" THEN "media" ELSE "post",
                             ![w].event = IF job[w].note = "hangup" THEN "SIP_HANGUP"
                                                                    ELSE "SIP_ERROR"]
     \/ /\ found = {}
        /\ job' = [job EXCEPT ![w] = IF job[w].note = "notify" THEN [@ EXCEPT !.at = "add"]
                                                               ELSE Done]
  /\ UNCHANGED <<pmvars, call, data, engine, sip, clicks, notes, forgotten>>

\* A call for an unknown context: incoming, in the initial state.
Add(w) ==
  /\ job[w].at = "add"
  /\ \E c \in Calls :
       /\ State(c) = "none"
       /\ call' = [call EXCEPT ![c] = [Unused EXCEPT !.state = "INACTIVE", !.cc = job[w].cc]]
       /\ data' = data \cup {c}
       /\ job' = [job EXCEPT ![w].call = c, ![w].at = "media"]
  /\ UNCHANGED <<pmvars, engine, sip, clicks, notes, forgotten>>

NotifyEvent(sdp) == CASE sdp = "no SDP"      -> "SIP_N0"
                      [] sdp = "bad"         -> "GEN_ERROR"
                      [] sdp = "0.0.0.0"     -> "SIP_N0000"
                      [] sdp = "unsupported" -> "SIP_NN"
                      [] sdp = "supported"   -> "SIP_NY"

\* Read the remote SDP of the context and store it in the call.  Without an
\* audio stream the worker dies of the null descriptor.
Describe(w) ==
  /\ job[w].at = "media"
  /\ LET sdp == sip[job[w].cc].sdp IN
       /\ call' = [call EXCEPT ![job[w].call].remotemedia =
                     IF sdp \in {"no SDP", "bad", "no audio"} THEN None ELSE sdp]
       /\ job' = [job EXCEPT ![w] = IF sdp = "no audio" THEN Done
                                    ELSE [@ EXCEPT !.at = "post", !.event = NotifyEvent(sdp)]]
  /\ UNCHANGED <<pmvars, data, engine, sip, clicks, notes, forgotten>>

SendEvent(w) ==
  /\ job[w].at = "post"
  /\ call' = Posted(job[w].event, job[w].call)
  /\ job' = [job EXCEPT ![w] = Done]
  /\ UNCHANGED <<pmvars, data, engine, sip, clicks, notes, forgotten>>

-----------------------------------------------------------------------------
\* StateMachine.trigger: look the event up, run its actions, set the state.
Trigger(c) ==
  /\ ~Running(c) /\ call[c].evq # <<>>
  /\ LET e == Head(call[c].evq)
         row == Entry(State(c), e)
     IN  call' = [call EXCEPT ![c].evq = Tail(@), ![c].event = e,
                              ![c].next_state = row[3], ![c].actions = row[4]]
  /\ UNCHANGED <<pmvars, data, job, engine, sip, clicks, notes, forgotten>>

\* Mutant: a next state of -1 is set like any other.
SetState_NoGuard(c) ==
  /\ call[c].next_state \notin {"idle", "dead"} /\ call[c].actions = <<>>
  /\ call' = [call EXCEPT ![c].state = call[c].next_state, ![c].next_state = "idle",
                          ![c].event = "none"]
  /\ data' = IF call[c].next_state = "DELETE" THEN data \ {c} ELSE data
  /\ forgotten' = IF call[c].next_state = "DELETE" THEN forgotten \cup {call[c].cc} ELSE forgotten
  /\ UNCHANGED <<pmvars, job, engine, sip, clicks, notes>>

\* All actions done, or one failed: the state is set in either case.
SetState(c) ==
  /\ call[c].next_state \notin {"idle", "dead"} /\ call[c].actions = <<>>
  /\ LET s == IF call[c].next_state = "same" THEN State(c) ELSE call[c].next_state IN
       /\ call' = [call EXCEPT ![c].state = s, ![c].next_state = "idle", ![c].event = "none"]
       /\ data' = IF s = "DELETE" THEN data \ {c} ELSE data
       /\ forgotten' = IF s = "DELETE" THEN forgotten \cup {call[c].cc} ELSE forgotten
  /\ UNCHANGED <<pmvars, job, engine, sip, clicks, notes>>

At(c, cmd) == call[c].actions # <<>> /\ Head(call[c].actions) = cmd

Return(cl, c) == [cl EXCEPT ![c].actions = Tail(@)]

\* The action queues EV_GEN_ERROR and returns false.
Fail(c) == [Posted("GEN_ERROR", c) EXCEPT ![c].actions = <<>>]

\* A null reference: the exception leaves set() with the event object locked
\* and the call handles nothing more.
Dies(c) == [call EXCEPT ![c].actions = <<>>, ![c].next_state = "dead", ![c].pc = "begin"]

MedLsdp(c) ==
  /\ At(c, "MED_LSDP")
  /\ \/ \E port \in {first + p : p \in Pairs} :
          /\ GetPort(port)
          /\ call' = Return([call EXCEPT ![c].localmedia = port], c)
     \/ /\ GetPortThrows
        /\ call' = Fail(c)
        /\ UNCHANGED pmvars
  /\ UNCHANGED <<data, job, engine, sip, clicks, notes, forgotten>>

\* The answers of isAvailable, and the calls that still have one to handle.
Answers == {"MED_AVL", "MED_UNAVL"}
Answered(c) == \E i \in 1 .. Len(call[c].evq) : call[c].evq[i] \in Answers

\* isAvailable is synchronized: one call at a time is in it.
InIsAvailable == \E d \in Calls : call[d].pc = "own"

\* Mutant: who has the engine is not looked at.
MedAvl_NoOwnerTest(c) ==
  /\ At(c, "MED_AVL") /\ call[c].pc = "begin" /\ ~InIsAvailable
  /\ repeated' = IF Answered(c) THEN repeated \cup {c} ELSE repeated
  /\ rat' = c
  /\ call' = [call EXCEPT ![c].pc = "own"]
  /\ UNCHANGED <<pmvars, data, job, owner, sip, clicks, notes, forgotten>>

\* MediaControl.isAvailable answers yes to the owner of the engine, no to
\* another call, and makes an engine where there is none.
MedAvl(c) ==
  /\ At(c, "MED_AVL") /\ call[c].pc = "begin" /\ ~InIsAvailable
  /\ repeated' = IF Answered(c) THEN repeated \cup {c} ELSE repeated
  /\ \/ /\ rat # None
        /\ call' = Return(Posted(IF owner = c THEN "MED_AVL" ELSE "MED_UNAVL", c), c)
        /\ UNCHANGED rat
     \/ /\ rat = None
        /\ rat' = c
        /\ call' = [call EXCEPT ![c].pc = "own"]
  /\ UNCHANGED <<pmvars, data, job, owner, sip, clicks, notes, forgotten>>

\* The last statements of isAvailable; stop() of another call may come between
\* them and the first, and addObserver then meets a null reference.
MedOwn(c) ==
  /\ At(c, "MED_AVL") /\ call[c].pc = "own"
  /\ \E gone \in {FALSE, rat = None} :
       /\ owner' = IF gone THEN owner ELSE c
       /\ call' = IF gone THEN Dies(c)
                  ELSE Return([Posted("MED_AVL", c) EXCEPT ![c].pc = "begin"], c)
  /\ UNCHANGED <<pmvars, data, job, rat, repeated, sip, clicks, notes, forgotten>>

\* MediaControl.start throws without an engine, a local or a remote descriptor
\* or a transmit codec, or when RAT cannot be started.
CanStart(c) == /\ rat # None
               /\ call[c].localmedia # None
               /\ call[c].remotemedia = "supported"

MedStart(c) ==
  /\ At(c, "MED_START")
  /\ \/ CanStart(c) /\ call' = Return(call, c)
     \/ (~CanStart(c) \/ "engine" \in Faults) /\ call' = Fail(c)
  /\ UNCHANGED <<pmvars, data, job, engine, sip, clicks, notes, forgotten>>

\* MED_STOP.  MediaControl.stop is not synchronized: its test of rat, the
\* rat.terminate() and its two assignments are steps, and so is freeLSDP.
Stopping(c, pc) == At(c, "MED_STOP") /\ call[c].pc = pc

StopTest(c) ==
  /\ Stopping(c, "begin")
  /\ call' = [call EXCEPT ![c].pc = IF rat # None THEN "terminate" ELSE "forget"]
  /\ UNCHANGED <<pmvars, data, job, engine, sip, clicks, notes, forgotten>>

StopTerminate(c) ==
  /\ Stopping(c, "terminate")
  /\ call' = IF rat # None THEN [call EXCEPT ![c].pc = "forget"] ELSE Dies(c)
  /\ UNCHANGED <<pmvars, data, job, engine, sip, clicks, notes, forgotten>>

\* Mutant: the engine is not forgotten.
StopForget_KeepsRat(c) ==
  /\ Stopping(c, "forget")
  /\ call' = [call EXCEPT ![c].pc = "disown"]
  /\ UNCHANGED <<pmvars, data, job, engine, sip, clicks, notes, forgotten>>

StopForget(c) ==
  /\ Stopping(c, "forget")
  /\ rat' = None
  /\ call' = [call EXCEPT ![c].pc = "disown"]
  /\ UNCHANGED <<pmvars, data, job, owner, repeated, sip, clicks, notes, forgotten>>

StopDisown(c) ==
  /\ Stopping(c, "disown")
  /\ owner' = None
  /\ call' = [call EXCEPT ![c].pc = "free"]
  /\ UNCHANGED <<pmvars, data, job, rat, repeated, sip, clicks, notes, forgotten>>

\* Mutant: the descriptor of the freed port is kept.
FreeLsdp_KeepsMedia(c) ==
  /\ Stopping(c, "free")
  /\ IF call[c].localmedia = None
       THEN call' = Dies(c) /\ UNCHANGED pmvars
       ELSE /\ FreePort(call[c].localmedia)
            /\ call' = Return([call EXCEPT ![c].pc = "begin"], c)
  /\ UNCHANGED <<data, job, engine, sip, clicks, notes, forgotten>>

FreeLsdp(c) ==
  /\ Stopping(c, "free")
  /\ IF call[c].localmedia = None
       THEN call' = Dies(c) /\ UNCHANGED pmvars
       ELSE /\ FreePort(call[c].localmedia)
            /\ call' = Return([call EXCEPT ![c].pc = "begin", ![c].localmedia = None], c)
  /\ UNCHANGED <<data, job, engine, sip, clicks, notes, forgotten>>

MedStop(c) == \/ StopTest(c) \/ StopTerminate(c) \/ StopForget(c)
              \/ StopDisown(c) \/ FreeLsdp(c)

\* The call leg's answer to a request of the call.
Request(c, in) ==
  \E r \in React(Leg(c), in) : sip' = [sip EXCEPT ![call[c].cc].leg = r.to]

LegInput == [SIP_HANGUP |-> "hangup", SIP_DECLINE |-> "decline", SIP_ACCEPT |-> "accept",
             SIP_INVITE |-> "invite", SIP_MUTE |-> "invite"]

SipCommand(c) ==
  /\ \E cmd \in DOMAIN LegInput : At(c, cmd) /\ Request(c, LegInput[cmd])
  /\ call' = Return(call, c)
  /\ UNCHANGED <<pmvars, data, job, engine, clicks, notes, forgotten>>

SipCallback(c) ==
  /\ At(c, "SIP_CALLBACK")
  /\ \/ \E x \in Contexts :
          /\ CreateContext(x) /\ call' = Return([call EXCEPT ![c].cc = x], c)
          /\ forgotten' = forgotten \cup {call[c].cc}
     \/ "context" \in Faults /\ call' = Fail(c) /\ UNCHANGED <<sip, forgotten>>
  /\ UNCHANGED <<pmvars, data, job, engine, clicks, notes>>

Execute(c) == \/ MedLsdp(c) \/ MedAvl(c) \/ MedOwn(c) \/ MedStart(c) \/ MedStop(c)
              \/ SipCommand(c) \/ SipCallback(c)

-----------------------------------------------------------------------------
Drain(c) == Trigger(c) \/ Execute(c) \/ SetState(c)

Work(w) == Find(w) \/ Add(w) \/ Describe(w) \/ SendEvent(w)

Next == \/ \E c \in Calls : IssueCall(c) \/ Click(c) \/ Drain(c)
        \/ \E x \in Contexts : Receive(x)
        \/ \E w \in Workers : Work(w)

\* The draining thread and the workers run on; nothing makes users or remote
\* parties act.
Spec == /\ Init /\ [][Next]_vars
        /\ \A c \in Calls : WF_vars(Drain(c))
        /\ \A w \in Workers : WF_vars(Work(w))
-----------------------------------------------------------------------------
\* The fields and sets hold what their declarations in Call, CallCenter,
\* MediaControl and CallLeg allow.
TypeOK ==
  /\ PMTypeOK
  /\ \A c \in Calls :
       /\ call[c].state \in States \cup {"none"}
       /\ call[c].evq \in Seq(Events)
       /\ call[c].event \in Events \cup {"none"}
       /\ call[c].actions \in Seq(Commands)
       /\ call[c].next_state \in States \cup {"same", "idle", "dead"}
       /\ call[c].pc \in {"begin", "own", "terminate", "forget", "disown", "free"}
       /\ call[c].cc \in Contexts \cup {None}
       /\ call[c].localmedia \in {first + p : p \in Pairs} \cup {None}
       /\ call[c].remotemedia \in Media \cup {None}
  /\ data \in SUBSET Calls
  /\ {rat, owner} \subseteq Calls \cup {None} /\ repeated \subseteq Calls
  /\ \A w \in Workers : job[w].at \in {"done", "find", "add", "media", "post"}
  /\ \A x \in Contexts : sip[x].leg \in LegStates /\ sip[x].sdp \in Media

\* No two calls ever bind the same RTP port, and the port a call has announced
\* stays reserved until it lets go of it, whatever order the calls allocate,
\* stop, fail and call back in (Call.getLSDP, freeLSDP).
PortsExclusive ==
  \A c \in Calls : call[c].localmedia # None =>
    /\ portbusy[call[c].localmedia - first]
    /\ \A d \in Calls \ {c} : call[d].localmedia # call[c].localmedia

\* findCallContext and add are not one step, and EventWorkers run in any order: still
\* no CallContext is listed for two calls (CallCenter.EventWorker), as long as no call
\* gave it up.  The dialog of a removed call may go on, and two workers that are told of
\* it at once both find no call.
OneCallPerContext ==
  \A c, d \in data :
    c # d /\ call[c].cc # None /\ call[c].cc = call[d].cc => call[c].cc \in forgotten

Pending(c) == {call[c].event} \cup {call[c].evq[i] : i \in 1 .. Len(call[c].evq)}

\* The next three leave out what follows when a call asks for the engine again with an
\* answer still in its queue (a repeated answer of the remote party, a second click on
\* accept): the earlier answer may be handled after the call has given the engine back,
\* and makes it active without one.

\* A call that is active has the media engine that was made for it and a local port, an
\* error on its way or not: two calls never talk at once, although stop() of one call
\* runs beside isAvailable() of another (MediaControl, the state table of Call.init).
EngineHeld ==
  repeated = {} => \A c \in Calls :
    State(c) = "ACTIVE" /\ ~Running(c) => rat = c /\ call[c].localmedia # None

\* MediaControl.stop ends whatever engine there is, and fails if it goes between the
\* test and the call of terminate(): up to its assignment of null, the engine is the one
\* of the call that stops (MediaControl.java:70-72).
StopsOwnEngine ==
  repeated = {} => \A c \in Calls :
    At(c, "MED_STOP") /\ call[c].pc \in {"begin", "terminate", "forget"} => rat = c

\* freeLSDP has a local descriptor to free whenever MED_STOP runs, stop() an engine to
\* end and isAvailable() the one it made to observe; a null one would leave the call's
\* event object locked for good (Call.java:96-101, 186-189, MediaControl.java:32-38, 71).
NeverDead == repeated = {} => \A c \in Calls : call[c].next_state # "dead"

\* A user who hangs up an active call gets the engine free, whatever the remote
\* party does meanwhile, unless an error is on its way to the call: in the
\* error state a call handles no hangup and keeps the engine.
HangupFreesEngine ==
  \A c \in Calls :
    (State(c) = "ACTIVE" /\ "GUI_HUP" \in Pending(c) /\ "GEN_ERROR" \notin Pending(c))
      ~> rat # c /\ owner # c

-----------------------------------------------------------------------------
\* MediaControl.java:29 "the media engine is reserved for the referrer": the engine of
\* an active call has that call as its owner.  stop() of the call before it may still
\* have its last assignment to do, and takes the ownership away.
EngineReserved ==
  \A c \in Calls : State(c) = "ACTIVE" /\ ~Running(c) => owner = c

\* MediaControl.java:30 "false if media engine is in use by another call": once
\* everything is handled, an engine that is not available is one in use.
UnavailableMeansInUse == Quiet /\ rat # None => State(rat) = "ACTIVE"

\* IPT_State_Call.java:20 "An incoming call waits for users acceptance": once
\* everything is handled, a ringing call has a request left to accept.
RingingCanBeAccepted ==
  Quiet => \A c \in data : State(c) = "RINGING" => Leg(c) \in {"proceed", "recall_proceed"}
=============================================================================
