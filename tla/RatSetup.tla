------------------------------ MODULE RatSetup ------------------------------
(***************************************************************************)
(* How the telephone starts RAT: MediaControl.start on the thread of the   *)
(* call, RATControl's two mbus entities (controller and user interface) on *)
(* their receivers' threads, the window's mute button, and the engine's    *)
(* rendezvous (rat/main_engine.c).                                         *)
(*                                                                         *)
(* What is sent again until it is answered is heard sooner or later: its   *)
(* hearing is one action of the listener, enabled as long as it is sent.   *)
(* RATControl's own messages are sent once: they travel in order to the    *)
(* engine, on one host, and may be lost for good.                           *)
(***************************************************************************)
EXTENDS Integers, Sequences

CONSTANTS MaxToggles,        \* bound: clicks on the mute button
          MaxRenewals,       \* bound: the controller's losing and finding the engine again
          MaxLosses          \* bound: losses of messages that are sent once

ASSUME SetupParameters == MaxToggles \in Nat /\ MaxRenewals \in Nat /\ MaxLosses \in Nat

VARIABLES ControllerState, UiState, timers, configured, released, running, ready, started,
          mi,       \* MediaControl: the user's wish to be muted
          thread,   \* MediaControl.start and stop: next statement, and the value read of mi
          button,   \* MediaControl.muteInput on the window's thread: likewise
          engine,   \* where RAT's engine is
          rtp,      \* its RTP sessions: whether each has the address of the call
          ui_on, title, sending,
          toEngine, \* RATControl's messages on their way
          toggles, renewals, losses, \* counted for the bounds
          crossed   \* history: the last mute command sent was the start's, with a wish
                    \* that a click had changed since it was read

control == <<ControllerState, timers, configured, released, started>>
ui      == <<UiState, running, ready>>
rat     == <<engine, rtp, ui_on, title, sending>>
window  == <<mi, button, toggles, crossed>>
faults  == <<renewals, losses>>
vars    == <<control, ui, rat, window, thread, toEngine, faults>>

Init == /\ ControllerState = 0 /\ timers = 0 /\ configured = FALSE
        /\ released = FALSE /\ started = FALSE
        /\ UiState = 0 /\ running = FALSE /\ ready = FALSE
        /\ engine = "off" /\ rtp = <<>> /\ ui_on = FALSE /\ title = FALSE /\ sending = FALSE
        /\ mi \in BOOLEAN /\ thread = [at |-> "go", mute |-> FALSE]
        /\ button = [at |-> "idle", mute |-> FALSE] /\ toggles = 0 /\ crossed = FALSE
        /\ toEngine = <<>> /\ renewals = 0 /\ losses = 0

Message(kind, value) == [kind |-> kind, value |-> value]

SendOnce(messages) == toEngine' = toEngine \o messages

Step(from, to) == thread.at = from /\ thread' = [thread EXCEPT !.at = to]

-----------------------------------------------------------------------------
\* RATControl.go: make the two entities, start the process.
Launch ==
  /\ Step("go", "poll") /\ engine' = "waiting"
  /\ UNCHANGED <<control, ui, rtp, ui_on, title, sending, window, toEngine, faults>>

\* The loop of go() ends: RAT is at its early configuration point.
GoReturns ==
  /\ Step("poll", "configure") /\ ControllerState >= 2 /\ started' = TRUE
  /\ UNCHANGED <<ControllerState, timers, configured, released, ui, rat, window, toEngine,
                 faults>>

\* setLocalPort, setPeerAddress, setRemotePort.
Configure ==
  /\ Step("configure", "release") /\ configured' = TRUE
  /\ UNCHANGED <<ControllerState, timers, released, started, ui, rat, window, toEngine,
                 faults>>

Release ==
  /\ Step("release", "codec") /\ released' = TRUE
  /\ UNCHANGED <<ControllerState, timers, configured, started, ui, rat, window, toEngine,
                 faults>>

\* Mutant: the codec is set without waiting.
SetCodec_NoWait ==
  /\ Step("codec", "mute")
  /\ UNCHANGED <<control, ui, rat, window, toEngine, faults>>

\* waitUntilRunning, then three commands about the codec (their data is left out).
SetCodec ==
  /\ Step("codec", "mute") /\ running
  /\ UNCHANGED <<control, ui, rat, window, toEngine, faults>>

ReadMute ==
  /\ thread.at = "mute" /\ thread' = [at |-> "send", mute |-> mi]
  /\ UNCHANGED <<control, ui, rat, window, toEngine, faults>>

\* isReady remembers that both entities have got through once.
IsReady == ready \/ (ControllerState = 3 /\ UiState = 1)

\* muteInput of RATControl: dropped unless ready.  The setters of output mute,
\* volumes and channels do the same.
MuteInput(mute) ==
  /\ ready' = IsReady
  /\ SendOnce(IF IsReady THEN <<Message("mute", mute)>> ELSE <<>>)

SendMute ==
  /\ Step("send", "done") /\ MuteInput(thread.mute)
  /\ crossed' = (thread.mute # mi /\ button.at = "idle")
  /\ UNCHANGED <<control, UiState, running, rat, mi, button, toggles, faults>>

\* MediaControl.stop: RATControl.terminate asks RAT to quit, waits two seconds...
Terminate ==
  /\ Step("done", "quitting") /\ started /\ started' = FALSE
  /\ SendOnce(<<Message("quit", FALSE)>>)
  /\ UNCHANGED <<ControllerState, timers, configured, released, ui, rat, window, faults>>

\* ... and destroys the process; the MediaControl drops the object.
Destroy ==
  /\ Step("quitting", "ended") /\ engine' = "off" /\ toEngine' = <<>>
  /\ UNCHANGED <<control, ui, rtp, ui_on, title, sending, window, faults>>

-----------------------------------------------------------------------------
\* The user clicks; MediaControl.muteInput notes the wish, then tells RAT.
Click ==
  /\ button.at = "idle" /\ toggles < MaxToggles
  /\ mi' = ~mi /\ button' = [at |-> "send", mute |-> ~mi] /\ toggles' = toggles + 1
  /\ UNCHANGED <<control, ui, rat, thread, toEngine, crossed, faults>>

ButtonSend ==
  /\ button.at = "send" /\ button' = [button EXCEPT !.at = "idle"]
  /\ IF thread.at = "ended" THEN UNCHANGED <<ready, toEngine>> ELSE MuteInput(button.mute)
  /\ crossed' = FALSE
  /\ UNCHANGED <<control, UiState, running, rat, mi, toggles, thread, faults>>

-----------------------------------------------------------------------------
EngineRuns == engine \notin {"off", "aborted"}

\* The engine's hello makes the controller start a timer, which repeats
\* mbus.waiting until it is stopped.
NewEntity ==
  /\ EngineRuns /\ ControllerState = 0
  /\ ControllerState' = 1 /\ timers' = timers + 1
  /\ UNCHANGED <<configured, released, started, ui, rat, window, thread, toEngine, faults>>

\* Five ticks without a hello, and then one: the engine is new again.
Renewed ==
  /\ EngineRuns /\ ControllerState > 0 /\ renewals < MaxRenewals
  /\ ControllerState' = 1 /\ timers' = timers + 1 /\ renewals' = renewals + 1
  /\ UNCHANGED <<configured, released, started, ui, rat, window, thread, toEngine, losses>>

\* rx_mbus_waiting in the first loop of rendezvous_with_controller.
EngineHearsWaiting ==
  /\ engine = "waiting" /\ timers > 0 /\ engine' = "answering"
  /\ UNCHANGED <<control, ui, rtp, ui_on, title, sending, window, thread, toEngine, faults>>

\* Mutant: every repetition of mbus.go stops the timer.
ControllerHearsGo_Again ==
  /\ engine \in {"answering", "heard"} /\ engine' = "heard"
  /\ ControllerState' = 2 /\ timers' = timers - 1
  /\ UNCHANGED <<configured, released, started, ui, rtp, ui_on, title, sending, window,
                 thread, toEngine, faults>>

\* mbus.go, sent reliably: repeated until it is acknowledged.
ControllerHearsGo ==
  /\ engine \in {"answering", "heard"} /\ engine' = "heard"
  /\ IF ControllerState = 1 THEN ControllerState' = 2 /\ timers' = timers - 1
                            ELSE UNCHANGED <<ControllerState, timers>>
  /\ UNCHANGED <<configured, released, started, ui, rtp, ui_on, title, sending, window,
                 thread, toEngine, faults>>

\* The second loop ends: all sent.
GoAcknowledged ==
  /\ engine = "heard" /\ engine' = "asking"
  /\ UNCHANGED <<control, ui, rtp, ui_on, title, sending, window, thread, toEngine, faults>>

\* Mutant: the controller answers before it is released.
ControllerHearsWaiting_Early ==
  /\ engine = "asking" /\ ControllerState = 2
  /\ SendOnce(<<Message("rtp.addr", configured), Message("mbus.go", TRUE)>>)
  /\ ControllerState' = 3
  /\ UNCHANGED <<timers, configured, released, started, ui, rat, window, thread, faults>>

\* In the third loop the engine repeats mbus.waiting; the controller answers once.
ControllerHearsWaiting ==
  /\ engine = "asking" /\ ControllerState = 2 /\ released
  /\ SendOnce(<<Message("rtp.addr", configured), Message("mbus.go", TRUE)>>)
  /\ ControllerState' = 3
  /\ UNCHANGED <<timers, configured, released, started, ui, rat, window, thread, faults>>

\* Mutant: the user interface does not ask for the state of the session.
UiHearsWaiting_NoQuery ==
  /\ engine = "main" /\ ~ui_on /\ UiState = 0
  /\ SendOnce(<<Message("ui.go", FALSE)>>)
  /\ UiState' = 1
  /\ UNCHANGED <<control, running, ready, rat, window, thread, faults>>

\* The main loop repeats mbus.waiting for a user interface.  RAT_UI answers once,
\* with the queries in the same message.
UiHearsWaiting ==
  /\ engine = "main" /\ ~ui_on /\ UiState = 0
  /\ SendOnce(<<Message("ui.go", TRUE)>>)
  /\ UiState' = 1
  /\ UNCHANGED <<control, running, ready, rat, window, thread, faults>>

\* session.title, sent reliably: RAT is taken to be running.
UiHearsTitle ==
  /\ engine = "main" /\ title
  /\ title' = FALSE /\ running' = (UiState = 1)
  /\ UNCHANGED <<control, UiState, ready, engine, rtp, ui_on, sending, window, thread,
                 toEngine, faults>>

-----------------------------------------------------------------------------
\* rx_mbus_go with the controller's token ends the rendezvous; the engine insists
\* on an RTP session, and loads its settings, the last call's mute among them.
EndRendezvous ==
  IF engine = "asking"
    THEN IF rtp = <<>> THEN engine' = "aborted" /\ UNCHANGED sending
                       ELSE engine' = "main" /\ sending' \in BOOLEAN
    ELSE UNCHANGED <<engine, sending>>

\* mbus_engine_rx takes the next message.
EngineReceives ==
  /\ EngineRuns /\ toEngine # <<>> /\ toEngine' = Tail(toEngine)
  /\ LET m == Head(toEngine) IN
     /\ rtp' = IF m.kind = "rtp.addr" THEN Append(rtp, m.value) ELSE rtp
     /\ ui_on' = (ui_on \/ m.kind = "ui.go")
     /\ title' = (title \/ (m.kind = "ui.go" /\ m.value))
     /\ CASE m.kind = "mbus.go" -> EndRendezvous
          [] m.kind = "mute" -> sending' = ~m.value /\ UNCHANGED engine
          [] m.kind = "quit" -> engine' = (IF engine = "main" THEN "off" ELSE engine)
                                /\ UNCHANGED sending
          [] OTHER -> UNCHANGED <<engine, sending>>
  /\ UNCHANGED <<control, ui, window, thread, faults>>

Lose ==
  /\ losses < MaxLosses /\ losses' = losses + 1
  /\ \E i \in 1 .. Len(toEngine) :
       toEngine' = SubSeq(toEngine, 1, i - 1) \o SubSeq(toEngine, i + 1, Len(toEngine))
  /\ UNCHANGED <<control, ui, rat, window, thread, renewals>>

-----------------------------------------------------------------------------
Start    == Launch \/ GoReturns \/ Configure \/ Release \/ SetCodec \/ ReadMute \/ SendMute
Stop     == Terminate \/ Destroy
Window   == Click \/ ButtonSend
Listen   == \/ NewEntity \/ EngineHearsWaiting \/ ControllerHearsGo \/ GoAcknowledged
            \/ ControllerHearsWaiting \/ UiHearsWaiting \/ UiHearsTitle

Next == Start \/ Stop \/ Window \/ Listen \/ EngineReceives \/ Renewed \/ Lose

\* The threads go on, and what is repeated without end is heard in the end.
Fairness == /\ WF_vars(Start) /\ WF_vars(ButtonSend) /\ WF_vars(EngineReceives)
            /\ WF_vars(NewEntity) /\ WF_vars(EngineHearsWaiting)
            /\ WF_vars(ControllerHearsGo) /\ WF_vars(GoAcknowledged)
            /\ WF_vars(ControllerHearsWaiting) /\ WF_vars(UiHearsWaiting)
            /\ WF_vars(UiHearsTitle)

Spec == Init /\ [][Next]_vars /\ Fairness
-----------------------------------------------------------------------------
Kinds == {"rtp.addr", "mbus.go", "ui.go", "mute", "quit"}

\* The fields of RATControl, MediaControl and the engine's session.
TypeOK ==
  /\ ControllerState \in 0 .. 3 /\ UiState \in 0 .. 1 /\ timers \in 0 .. MaxRenewals + 1
  /\ configured \in BOOLEAN /\ released \in BOOLEAN /\ started \in BOOLEAN
  /\ running \in BOOLEAN /\ ready \in BOOLEAN /\ mi \in BOOLEAN /\ crossed \in BOOLEAN
  /\ thread \in [at : {"go", "poll", "configure", "release", "codec", "mute", "send", "done",
                       "quitting", "ended"}, mute : BOOLEAN]
  /\ button \in [at : {"idle", "send"}, mute : BOOLEAN]
  /\ engine \in {"off", "waiting", "answering", "heard", "asking", "main", "aborted"}
  /\ rtp \in Seq(BOOLEAN)
  /\ ui_on \in BOOLEAN /\ title \in BOOLEAN /\ sending \in BOOLEAN
  /\ toEngine \in Seq([kind : Kinds, value : BOOLEAN])

\* The engine processes audio with exactly one RTP session, the one of this call
\* (main_engine.c:200 asserts that there is one; rx_rtp_addr appends whatever comes),
\* and dies of that assertion only when a message was lost.
SessionOnce == /\ engine = "main" => rtp = <<TRUE>>
               /\ engine = "aborted" => losses > 0

\* The call is started, no click is half way, and RAT has taken everything.
Quiet == thread.at = "done" /\ button.at = "idle" /\ toEngine = <<>> /\ engine = "main"

\* Once quiet, the microphone is as the user wants it, unless the start's own mute
\* command, with a wish a click has changed since start() read it (MediaControl.java:61),
\* was sent after that click's command; then it is the other way round.  No other
\* order of clicks and start goes wrong: a click that comes too early for the engine
\* is made up for by the start.  Not covered: a command that was lost, an engine that
\* was lost and found.
MuteApplied ==
  Quiet /\ renewals = 0 /\ losses = 0 => (sending = ~mi <=> ~crossed)

\* MediaControl.java:44 "when this function return, the medi engine is running and
\* working": start returns, unless the controller lost sight of the engine or a
\* message that is sent once was lost.
StartReturns == (thread.at = "poll") ~> (thread.at = "done" \/ renewals > 0 \/ losses > 0)

\* MediaControl.java:130 "true to mute, false to unmute audio input": what the user
\* asked for last is what the engine does.  The code contradicts it for a click
\* between start()'s reading of the wish and its sending it.
MuteObeyed == Quiet /\ renewals = 0 /\ losses = 0 => sending = ~mi
=============================================================================
