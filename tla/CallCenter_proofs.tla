-------------------------- MODULE CallCenter_proofs --------------------------
(***************************************************************************)
(* No port is announced by two calls, and no context is listed for two     *)
(* calls unless one of them gave it up, for any number of calls, contexts, *)
(* EventWorkers, clicks and notifications, and whatever fails.  As long as *)
(* no call asks for the engine again with an answer still in its queue, an *)
(* active call has the engine, and none stops the engine of another.       *)
(***************************************************************************)
EXTENDS CallCenter, CallParts_proofs, SequenceTheorems, TLAPS

-----------------------------------------------------------------------------
(***************************************************************************)
(* The inductive invariant.  Its first part says what the variables hold.  *)
(***************************************************************************)
Ports == {first + p : p \in Pairs}

\* Where a call is in isAvailable or stop.
Lines == {"begin", "own", "terminate", "forget", "disown", "free"}

CallFields == [state       : States \cup {"none"},
               evq         : Seq(Events),
               event       : Events \cup {"none"},
               actions     : Seq(Commands),
               next_state  : States \cup {"same", "idle", "dead"},
               pc          : Lines,
               cc          : Contexts \cup {None},
               localmedia  : Ports \cup {None},
               remotemedia : Media \cup {None}]

\* What an EventWorker can have to tell a call.
Tellings == {"SIP_N0", "SIP_N0000", "SIP_NN", "SIP_NY", "SIP_HANGUP", "SIP_ERROR", "GEN_ERROR"}

JobFields == [at    : {"done", "find", "add", "media", "post"},
              note  : Notes,
              cc    : Contexts \cup {None},
              call  : Calls \cup {None},
              event : Tellings \cup {"none"}]

LegFields == [leg : LegStates, made : BOOLEAN, sdp : Media]

\* A worker that is at work has a context, and one that has found its call has it.
AtWork == \A w \in Workers :
            /\ job[w].at # "done" => job[w].cc \in Contexts
            /\ job[w].at \in {"media", "post"} => job[w].call \in Calls
            /\ job[w].at = "post" => job[w].event \in Tellings

EngineTyped == /\ rat \in Calls \cup {None} /\ owner \in Calls \cup {None}
               /\ repeated \subseteq Calls

Typed == /\ PMTypeOK
         /\ call \in [Calls -> CallFields]
         /\ data \in SUBSET Calls
         /\ EngineTyped
         /\ job \in [Workers -> JobFields]
         /\ sip \in [Contexts -> LegFields]
         /\ AtWork

\* A call that is not listed runs no actions and comes back to no other state.
Unlisted == \A c \in Calls \ data :
              /\ call[c].state \in {"none", "DELETE", "ERROR"}
              /\ call[c].actions = <<>>
              /\ call[c].next_state \in {"idle", "same", "DELETE", "ERROR"}

\* A Call object that is not made yet is not listed and has no context.
Blank == \A c \in Calls : call[c].state = "none" => call[c].cc = None /\ c \notin data

Claimed(x) == \E c \in Calls : call[c].cc = x

\* Who gave up a context is known, and any other context has one call.
Kept == \A c \in Calls \ data : call[c].cc # None => call[c].cc \in forgotten

Single == \A c, d \in Calls :
            c # d /\ call[c].cc # None /\ call[c].cc = call[d].cc => call[c].cc \in forgotten

Working(w, x) == job[w].at # "done" /\ job[w].cc = x

\* The worker may add a call for the context.
Notified(w, x) == job[w].at \in {"find", "add"} /\ job[w].note = "notify" /\ job[w].cc = x

\* A context that is not made yet is known to nobody.
Unmade == \A x \in Contexts :
            ~sip[x].made => /\ sip[x].leg = "initial"
                            /\ ~Claimed(x)
                            /\ \A w \in Workers : ~Working(w, x)

\* Without a call the leg of a context gets no further than to ask for one, once.
AskedOnce == \A x \in Contexts \ forgotten :
               ~Claimed(x) => /\ sip[x].made => sip[x].leg \in Asked
                              /\ \A v, w \in Workers : Notified(v, x) /\ Notified(w, x) => v = w

\* A worker that is about to add a call for a context is right to do so.
AddsFirst == \A w \in Workers :
               job[w].at = "add" => /\ job[w].note = "notify"
                                    /\ job[w].cc \in forgotten \/ ~Claimed(job[w].cc)

Followed == Unlisted /\ Blank /\ Kept /\ Single /\ Unmade /\ AskedOnce /\ AddsFirst

IInv == Typed /\ PortsExclusive /\ Followed

USE DEF engine, EngineTyped

-----------------------------------------------------------------------------
\* The null reference is neither a call, a context nor a port.
LEMMA NoneApart == None \notin Calls /\ None \notin Contexts /\ None \notin Ports
  BY Parameters DEF Ports

LEMMA PortPair ==
  ASSUME NEW port \in Ports
  PROVE  port - first \in Pairs /\ port = first + (port - first) /\ port \in Int
  BY RangeEven, PairInRange DEF Ports

\* Two different ports stand for two different pairs.
LEMMA PortsApart ==
  ASSUME NEW port \in Ports, NEW other \in Ports, port # other
  PROVE  port - first # other - first
  BY PortPair, RangeEven

-----------------------------------------------------------------------------
\* The lists of actions in the table of Call.init.
One  == {<<"SIP_ACCEPT">>, <<"MED_LSDP">>, <<"SIP_HANGUP">>, <<"SIP_DECLINE">>, <<"SIP_MUTE">>,
         <<"MED_START">>, <<"MED_AVL">>, <<"MED_STOP">>}
Two  == {<<"MED_LSDP", "SIP_ACCEPT">>, <<"MED_LSDP", "SIP_INVITE">>, <<"SIP_ACCEPT", "MED_AVL">>,
         <<"SIP_MUTE", "MED_STOP">>, <<"SIP_ACCEPT", "MED_STOP">>, <<"MED_STOP", "SIP_HANGUP">>}
More == {<<>>, <<"SIP_CALLBACK", "MED_LSDP", "SIP_INVITE">>}

LEMMA ThreeSends ==
  ASSUME NEW S, NEW a \in S, NEW b \in S, NEW c \in S PROVE <<a, b, c>> \in Seq(S)
  OBVIOUS

LEMMA TableTyped ==
  ASSUME NEW row \in StateTable
  PROVE  row[3] \in States \cup {"same"} /\ row[4] \in Seq(Commands)
<1>1. row[3] \in States \cup {"same"}
  BY SMTT(60) DEF StateTable, States
<1>2. row[4] \in One \cup Two \cup More
  BY SMTT(60) DEF StateTable, One, Two, More
<1>3. \A list \in One : list \in Seq(Commands)
  BY OneSend DEF One, Commands
<1>4. \A list \in Two : list \in Seq(Commands)
  BY TwoSends DEF Two, Commands
<1>5. \A list \in More : list \in Seq(Commands)
  BY EmptySend, ThreeSends DEF More, Commands
<1> QED BY <1>1, <1>2, <1>3, <1>4, <1>5

\* In the last two states there is nothing to do any more.
LEMMA TableEnd ==
  ASSUME NEW row \in StateTable, row[1] \in {"none", "DELETE", "ERROR"}
  PROVE  row[3] \in {"DELETE", "ERROR"} /\ row[4] = <<>>
  BY SMTT(60) DEF StateTable, States

LEMMA EntryRow ==
  ASSUME NEW s, NEW e
  PROVE  /\ Entry(s, e)[3] \in States \cup {"same"} /\ Entry(s, e)[4] \in Seq(Commands)
         /\ s \in {"none", "DELETE", "ERROR"} =>
              Entry(s, e)[3] \in {"same", "DELETE", "ERROR"} /\ Entry(s, e)[4] = <<>>
<1> DEFINE set == {row \in StateTable : row[1] = s /\ row[2] = e}
<1>1. CASE set = {}
  <2>1. Entry(s, e) = <<s, e, "same", <<>>>>
    BY <1>1 DEF Entry
  <2> QED BY <2>1
<1>2. CASE set # {}
  <2>1. Entry(s, e) \in set
    BY <1>2 DEF Entry
  <2> QED BY <2>1, TableTyped, TableEnd
<1> QED BY <1>1, <1>2

LEMMA ReactLeg ==
  ASSUME NEW s \in LegStates, NEW in, NEW r \in React(s, in)
  PROVE  r.to \in LegStates
  BY ReactTyped

-----------------------------------------------------------------------------
(***************************************************************************)
(* How the contexts are followed: the four ways a step can disturb them.   *)
(***************************************************************************)
Keeps(c) == call'[c].cc = call[c].cc /\ call'[c].state = call[c].state

LEMMA ClaimsKept ==
  ASSUME \A c \in Calls : call'[c].cc = call[c].cc
  PROVE  \A x : Claimed(x)' <=> Claimed(x)
  BY DEF Claimed

\* Work on calls that leaves their states and contexts alone.
LEMMA FollowedWork ==
  ASSUME Followed, \A c \in Calls : Keeps(c), Unlisted',
         UNCHANGED <<data, job, sip, forgotten>>
  PROVE  Followed'
<1>1. \A x : Claimed(x)' <=> Claimed(x)
  BY ClaimsKept DEF Keeps
<1>2. Blank' /\ Kept' /\ Single'
  BY DEF Followed, Blank, Kept, Single, Keeps
<1>3. Unmade'
  BY <1>1 DEF Followed, Unmade, Working
<1>4. AskedOnce'
  BY <1>1 DEF Followed, AskedOnce, Notified
<1>5. AddsFirst'
  BY <1>1 DEF Followed, AddsFirst
<1> QED BY <1>2, <1>3, <1>4, <1>5 DEF Followed

\* A worker that goes on to its end, whatever it does to calls.
LEMMA FollowedJob ==
  ASSUME Typed, Followed, \A c \in Calls : Keeps(c), Unlisted', NEW w \in Workers,
         job'[w].at \in {"media", "post", "done"}, job[w].at # "done",
         job'[w].cc = job[w].cc \/ job'[w].at = "done",
         \A v \in Workers \ {w} : job'[v] = job[v],
         UNCHANGED <<data, sip, forgotten>>
  PROVE  Followed'
<1>1. \A x : Claimed(x)' <=> Claimed(x)
  BY ClaimsKept DEF Keeps
<1>2. Blank' /\ Kept' /\ Single'
  BY DEF Followed, Blank, Kept, Single, Keeps
<1>3. /\ \A v \in Workers : job'[v].at = "add" => job'[v] = job[v]
      /\ \A v \in Workers : job'[v].at # "done" => job[v].at # "done" /\ job'[v].cc = job[v].cc
      /\ \A v \in Workers : job'[v].at \in {"find", "add"} => job'[v] = job[v]
  OBVIOUS
<1>4. Unmade'
  BY <1>1, <1>3 DEF Followed, Unmade, Working
<1>5. AskedOnce'
  <2>1. \A v \in Workers, x \in Contexts : Notified(v, x)' => Notified(v, x)
    BY <1>3 DEF Notified
  <2> QED BY <1>1, <2>1 DEF Followed, AskedOnce
<1>6. AddsFirst'
  BY <1>1, <1>3 DEF Followed, AddsFirst
<1> QED BY <1>2, <1>4, <1>5, <1>6 DEF Followed

\* A call gets a context that was just made.
LEMMA FollowedClaim ==
  ASSUME Typed, Followed, NEW c \in Calls, NEW x \in Contexts, ~sip[x].made,
         call'[c].cc = x, call'[c].state # "none",
         \A d \in Calls \ {c} : call'[d] = call[d],
         call[c].cc # None => call[c].cc \in forgotten', forgotten \subseteq forgotten',
         data' = data \cup {c},
         sip'[x].made = TRUE, \A y \in Contexts \ {x} : sip'[y] = sip[y],
         job' = job
  PROVE  Followed'
<1> USE DEF Followed
<1>1. ~Claimed(x) /\ \A w \in Workers : ~Working(w, x)
  BY DEF Unmade
<1>2. \A y \in Contexts \ forgotten' : Claimed(y) => Claimed(y)'
  BY NoneApart DEF Claimed
<1>3. \A y \in Contexts \ {x} : Claimed(y)' => Claimed(y)
  BY DEF Claimed
<1>4. Claimed(x)'
  BY DEF Claimed
<1>5. Unlisted' /\ Blank' /\ Kept'
  BY DEF Unlisted, Blank, Kept
<1>6. Single'
  BY <1>1 DEF Single, Claimed
<1>7. Unmade'
  BY <1>3 DEF Unmade, Working
<1>8. AskedOnce'
  BY <1>2, <1>4 DEF AskedOnce, Notified
<1>9. AddsFirst'
  <2> SUFFICES ASSUME NEW w \in Workers, job[w].at = "add", job[w].cc \notin forgotten'
               PROVE  job[w].note = "notify" /\ ~Claimed(job[w].cc)'
    BY DEF AddsFirst
  <2>1. job[w].cc \in Contexts /\ job[w].cc # x
    BY <1>1 DEF Typed, AtWork, Working
  <2> QED BY <1>3, <2>1 DEF AddsFirst
<1> QED BY <1>5, <1>6, <1>7, <1>8, <1>9

\* A worker adds a call for the context it was told of.
LEMMA FollowedAdd ==
  ASSUME Typed, Followed, NEW w \in Workers, NEW c \in Calls,
         job[w].at = "add", call[c].state = "none",
         call'[c].cc = job[w].cc, call'[c].state # "none",
         \A d \in Calls \ {c} : call'[d] = call[d],
         data' = data \cup {c},
         job'[w].at = "media", job'[w].cc = job[w].cc,
         \A v \in Workers \ {w} : job'[v] = job[v],
         UNCHANGED <<sip, forgotten>>
  PROVE  Followed'
<1> USE DEF Followed
<1>0. PICK x \in Contexts : x = job[w].cc
  BY DEF Typed, AtWork
<1>1. job[w].note = "notify" /\ (x \in forgotten \/ ~Claimed(x))
  BY <1>0 DEF AddsFirst
<1>2. sip[x].made
  BY <1>0 DEF Unmade, Working
<1>3. call[c].cc = None
  BY DEF Blank
<1>4. /\ Claimed(x)'
      /\ \A y \in Contexts \ {x} : Claimed(y)' <=> Claimed(y)
  BY <1>0, <1>3, NoneApart DEF Claimed
<1>5. Unlisted' /\ Blank' /\ Kept'
  BY DEF Unlisted, Blank, Kept
<1>6. Single'
  BY <1>0, <1>1, <1>3, NoneApart DEF Single, Claimed
<1>7. Unmade'
  <2>1. \A v \in Workers : \A y : Working(v, y)' => Working(v, y)
    BY DEF Working
  <2> QED BY <1>2, <1>4, <2>1 DEF Unmade
<1>8. AskedOnce'
  <2>1. \A v \in Workers, y \in Contexts : Notified(v, y)' => Notified(v, y)
    BY DEF Notified
  <2> QED BY <1>4, <2>1 DEF AskedOnce
<1>9. AddsFirst'
  <2> SUFFICES ASSUME NEW v \in Workers, job'[v].at = "add", job'[v].cc \notin forgotten
               PROVE  job'[v].note = "notify" /\ ~Claimed(job[v].cc)'
    BY DEF AddsFirst
  <2>1. v # w /\ job'[v] = job[v] /\ job[v].cc \in Contexts
    BY DEF Typed, AtWork
  <2>2. job[v].note = "notify" /\ ~Claimed(job[v].cc)
    BY <2>1 DEF AddsFirst
  <2>3. job[v].cc # x
    <3> SUFFICES ASSUME job[v].cc = x PROVE FALSE
      OBVIOUS
    <3>1. Notified(v, x) /\ Notified(w, x)
      BY <1>0, <1>1, <2>1, <2>2 DEF Notified
    <3> QED BY <1>1, <2>1, <3>1 DEF AskedOnce
  <2> QED BY <1>4, <2>1, <2>2, <2>3
<1> QED BY <1>5, <1>6, <1>7, <1>8, <1>9

\* The call center lets a call go when its state becomes DELETE, and its context with it.
LEMMA FollowedSet ==
  ASSUME Typed, Followed, NEW c \in Calls, call'[c].cc = call[c].cc,
         call'[c].state = "none" => call[c].state = "none",
         \A d \in Calls \ {c} : call'[d] = call[d], Unlisted',
         \/ data' = data \ {c} /\ forgotten' = forgotten \cup {call[c].cc}
         \/ UNCHANGED <<data, forgotten>>,
         UNCHANGED <<job, sip>>
  PROVE  Followed'
<1>1. \A d \in Calls : call'[d].cc = call[d].cc
  OBVIOUS
<1>2. \A x : Claimed(x)' <=> Claimed(x)
  BY <1>1, ClaimsKept
<1>3. forgotten \subseteq forgotten'
  OBVIOUS
<1>4. Blank'
  BY <1>1 DEF Followed, Blank
<1>5. Kept'
  BY <1>1 DEF Followed, Kept
<1>6. Single'
  BY <1>1, <1>3 DEF Followed, Single
<1>7. Unmade'
  BY <1>2 DEF Followed, Unmade, Working
<1>8. AskedOnce'
  BY <1>2, <1>3 DEF Followed, AskedOnce, Notified
<1>9. AddsFirst'
  BY <1>2, <1>3 DEF Followed, AddsFirst
<1> QED BY <1>4, <1>5, <1>6, <1>7, <1>8, <1>9 DEF Followed

\* The application's request to a leg: a call has the leg's context.
LEMMA FollowedRequest ==
  ASSUME Typed, Followed, NEW c \in Calls, \A d \in Calls : Keeps(d), Unlisted',
         \A x \in Contexts : sip'[x].made = sip[x].made,
         \A x \in Contexts : x # call[c].cc => sip'[x] = sip[x],
         UNCHANGED <<data, job, forgotten>>
  PROVE  Followed'
<1>1. \A x : Claimed(x)' <=> Claimed(x)
  BY ClaimsKept DEF Keeps
<1>2. Blank' /\ Kept' /\ Single'
  BY DEF Followed, Blank, Kept, Single, Keeps
<1>3. Claimed(call[c].cc)
  BY DEF Claimed
<1>4. Unmade'
  BY <1>1, <1>3 DEF Followed, Unmade, Working
<1>5. AskedOnce'
  BY <1>1, <1>3 DEF Followed, AskedOnce, Notified
<1>6. AddsFirst'
  BY <1>1 DEF Followed, AddsFirst
<1> QED BY <1>2, <1>4, <1>5, <1>6 DEF Followed

\* A worker looks for the call of its context.
LEMMA FollowedFind ==
  ASSUME Typed, Followed, NEW w \in Workers, job[w].at = "find",
         \/ job'[w].at \in {"media", "post"} /\ job'[w].cc = job[w].cc
         \/ FoundCalls(job[w].cc) = {} /\ job[w].note = "notify"
               /\ job'[w] = [job[w] EXCEPT !.at = "add"]
         \/ job'[w].at = "done",
         \A v \in Workers \ {w} : job'[v] = job[v],
         UNCHANGED <<call, data, sip, forgotten>>
  PROVE  Followed'
<1>0. job[w].cc \in Contexts /\ job[w] \in JobFields
  BY DEF Typed, AtWork
<1>1. \A x : Claimed(x)' <=> Claimed(x)
  BY DEF Claimed
<1>2. Unlisted' /\ Blank' /\ Kept' /\ Single'
  BY DEF Followed, Unlisted, Blank, Kept, Single
<1>3. /\ job'[w].at # "done" => job'[w].cc = job[w].cc
      /\ job'[w].at = "add" => /\ FoundCalls(job[w].cc) = {}
                              /\ job'[w].note = "notify" /\ job[w].note = "notify"
      /\ job'[w].at # "find"
  BY <1>0 DEF JobFields
<1>4. Unmade'
  BY <1>1, <1>3 DEF Followed, Unmade, Working
<1>5. AskedOnce'
  <2>1. \A v \in Workers, x \in Contexts : Notified(v, x)' => Notified(v, x)
    BY <1>3 DEF Notified
  <2> QED BY <1>1, <2>1 DEF Followed, AskedOnce
\* A call with the context is not in the list, so the context was given up.
<1>6. FoundCalls(job[w].cc) = {} => job[w].cc \in forgotten \/ ~Claimed(job[w].cc)
  BY <1>0, NoneApart DEF Followed, Kept, FoundCalls, Claimed
<1>7. AddsFirst'
  BY <1>1, <1>3, <1>6 DEF Followed, AddsFirst
<1> QED BY <1>2, <1>4, <1>5, <1>7 DEF Followed

\* A message reaches a leg, and a worker may be told.
LEMMA FollowedReceive ==
  ASSUME Typed, Followed, NEW x \in Contexts, NEW r \in Reactions[sip[x].leg],
         r.in \in Messages, sip[x].made => sip[x].leg # "initial",
         sip'[x].leg = r.to, sip'[x].made = TRUE,
         \A y \in Contexts \ {x} : sip'[y] = sip[y],
         \/ UNCHANGED job
         \/ \E w \in Workers :
              /\ job'[w].at = "find" /\ job'[w].note = r.note /\ job'[w].cc = x
              /\ \A v \in Workers \ {w} : job'[v] = job[v],
         UNCHANGED <<call, data, forgotten>>
  PROVE  Followed'
<1>1. \A y : Claimed(y)' <=> Claimed(y)
  BY DEF Claimed
<1>2. Unlisted' /\ Blank' /\ Kept' /\ Single'
  BY DEF Followed, Unlisted, Blank, Kept, Single
<1>3. \A v \in Workers, y \in Contexts \ {x} :
        /\ Working(v, y)' => Working(v, y)
        /\ Notified(v, y)' => Notified(v, y)
  BY DEF Working, Notified
<1>4. Unmade'
  BY <1>1, <1>3 DEF Followed, Unmade
<1>5. ASSUME x \notin forgotten, ~Claimed(x)
      PROVE  /\ sip'[x].leg \in Asked
             /\ \A v, w \in Workers : Notified(v, x)' /\ Notified(w, x)' => v = w
  <2>1. /\ sip[x].leg \in Asked \cup {"initial"}
        /\ sip[x].leg = "initial" => \A v \in Workers : ~Working(v, x)
    BY <1>5 DEF Followed, AskedOnce, Unmade
  <2>2. r.to \in Asked /\ (r.note = "notify" => sip[x].leg = "initial")
    BY <2>1, FirstReactions
  <2>3. \A v \in Workers : Notified(v, x) => Working(v, x)
    BY DEF Notified, Working
  <2>4. CASE UNCHANGED job
    BY <1>5, <2>2, <2>4 DEF Followed, AskedOnce, Notified
  <2>5. ASSUME NEW u \in Workers, job'[u].note = r.note,
               \A v \in Workers \ {u} : job'[v] = job[v]
        PROVE  \A v, w \in Workers : Notified(v, x)' /\ Notified(w, x)' => v = w
    <3>1. \A v \in Workers \ {u} : Notified(v, x)' => Notified(v, x)
      BY <2>5 DEF Notified
    <3>2. CASE r.note = "notify"
      BY <2>1, <2>2, <2>3, <3>1, <3>2
    <3>3. CASE r.note # "notify"
      <4>1. ~Notified(u, x)'
        BY <2>5, <3>3 DEF Notified
      <4> QED BY <1>5, <3>1, <4>1 DEF Followed, AskedOnce
    <3> QED BY <3>2, <3>3
  <2> QED BY <2>2, <2>4, <2>5
<1>6. AskedOnce'
  BY <1>1, <1>3, <1>5 DEF Followed, AskedOnce
<1>7. AddsFirst'
  <2>1. \A v \in Workers : job'[v].at = "add" => job'[v] = job[v]
    OBVIOUS
  <2> QED BY <1>1, <2>1 DEF Followed, AddsFirst
<1> QED BY <1>2, <1>4, <1>6, <1>7 DEF Followed

-----------------------------------------------------------------------------
(***************************************************************************)
(* What the steps do to the record of a call.                              *)
(***************************************************************************)
LEMMA Replaced ==
  ASSUME NEW cl \in [Calls -> CallFields], NEW c \in Calls, NEW f \in CallFields,
         NEW new, new = [cl EXCEPT ![c] = f]
  PROVE  new \in [Calls -> CallFields] /\ new[c] = f /\ \A d \in Calls \ {c} : new[d] = cl[d]
  OBVIOUS

\* A call with one of its fields set is a call.
LEMMA FieldSet ==
  ASSUME NEW f \in CallFields
  PROVE  /\ \A v \in Seq(Events) : [f EXCEPT !.evq = v] \in CallFields
         /\ \A v \in Seq(Commands) : [f EXCEPT !.actions = v] \in CallFields
         /\ \A v \in States \cup {"none"} : [f EXCEPT !.state = v] \in CallFields
         /\ \A v \in States \cup {"same", "idle", "dead"} : [f EXCEPT !.next_state = v] \in CallFields
         /\ \A v \in Events \cup {"none"} : [f EXCEPT !.event = v] \in CallFields
         /\ \A v \in Lines : [f EXCEPT !.pc = v] \in CallFields
         /\ \A v \in Contexts \cup {None} : [f EXCEPT !.cc = v] \in CallFields
         /\ \A v \in Ports \cup {None} : [f EXCEPT !.localmedia = v] \in CallFields
         /\ \A v \in Media \cup {None} : [f EXCEPT !.remotemedia = v] \in CallFields
<1>1. /\ \A v \in Seq(Events) : [f EXCEPT !.evq = v] \in CallFields
      /\ \A v \in Seq(Commands) : [f EXCEPT !.actions = v] \in CallFields
      /\ \A v \in States \cup {"none"} : [f EXCEPT !.state = v] \in CallFields
  BY DEF CallFields
<1>2. /\ \A v \in States \cup {"same", "idle", "dead"} : [f EXCEPT !.next_state = v] \in CallFields
      /\ \A v \in Events \cup {"none"} : [f EXCEPT !.event = v] \in CallFields
      /\ \A v \in Lines : [f EXCEPT !.pc = v] \in CallFields
  BY DEF CallFields
<1>3. /\ \A v \in Contexts \cup {None} : [f EXCEPT !.cc = v] \in CallFields
      /\ \A v \in Ports \cup {None} : [f EXCEPT !.localmedia = v] \in CallFields
      /\ \A v \in Media \cup {None} : [f EXCEPT !.remotemedia = v] \in CallFields
  BY DEF CallFields
<1> QED BY <1>1, <1>2, <1>3

LEMMA PostedFields ==
  ASSUME call \in [Calls -> CallFields], NEW e \in Events, NEW c \in Calls
  PROVE  /\ Posted(e, c) \in [Calls -> CallFields]
         /\ Posted(e, c)[c] = [call[c] EXCEPT !.evq = Append(@, e)]
         /\ \A d \in Calls \ {c} : Posted(e, c)[d] = call[d]
<1>1. [call[c] EXCEPT !.evq = Append(@, e)] \in CallFields
  <2>1. Append(call[c].evq, e) \in Seq(Events)
    BY DEF CallFields
  <2> QED BY <2>1, FieldSet
<1>2. Posted(e, c) = [call EXCEPT ![c] = [call[c] EXCEPT !.evq = Append(@, e)]]
  BY DEF Posted
<1> QED BY <1>1, <1>2, Replaced

LEMMA ReturnFields ==
  ASSUME NEW cl \in [Calls -> CallFields], NEW c \in Calls, cl[c].actions # <<>>
  PROVE  /\ Return(cl, c) \in [Calls -> CallFields]
         /\ Return(cl, c)[c] = [cl[c] EXCEPT !.actions = Tail(@)]
         /\ \A d \in Calls \ {c} : Return(cl, c)[d] = cl[d]
<1>1. [cl[c] EXCEPT !.actions = Tail(@)] \in CallFields
  <2>1. Tail(cl[c].actions) \in Seq(Commands)
    BY DEF CallFields
  <2> QED BY <2>1, FieldSet
<1>2. Return(cl, c) = [cl EXCEPT ![c] = [cl[c] EXCEPT !.actions = Tail(@)]]
  BY DEF Return
<1> QED BY <1>1, <1>2, Replaced

LEMMA FailFields ==
  ASSUME call \in [Calls -> CallFields], NEW c \in Calls
  PROVE  /\ Fail(c) \in [Calls -> CallFields]
         /\ Fail(c)[c] = [call[c] EXCEPT !.evq = Append(@, "GEN_ERROR"), !.actions = <<>>]
         /\ \A d \in Calls \ {c} : Fail(c)[d] = call[d]
<1> DEFINE p == Posted("GEN_ERROR", c)
<1>1. "GEN_ERROR" \in Events
  BY DEF Events
<1>2. /\ p \in [Calls -> CallFields]
      /\ p[c] = [call[c] EXCEPT !.evq = Append(@, "GEN_ERROR")]
      /\ \A d \in Calls \ {c} : p[d] = call[d]
  BY <1>1, PostedFields
<1>3. Fail(c) = [p EXCEPT ![c] = [p[c] EXCEPT !.actions = <<>>]]
  BY DEF Fail
<1> HIDE DEF p
<1>4. [p[c] EXCEPT !.actions = <<>>] \in CallFields
  BY <1>2, EmptySend, FieldSet
<1>5. /\ Fail(c) \in [Calls -> CallFields] /\ Fail(c)[c] = [p[c] EXCEPT !.actions = <<>>]
      /\ \A d \in Calls \ {c} : Fail(c)[d] = p[d]
  BY <1>2, <1>3, <1>4, Replaced
<1>6. [p[c] EXCEPT !.actions = <<>>]
        = [call[c] EXCEPT !.evq = Append(@, "GEN_ERROR"), !.actions = <<>>]
  BY <1>2 DEF CallFields
<1> QED BY <1>2, <1>5, <1>6

\* Ports of the calls as they were, or let go.
LEMMA PortsFewer ==
  ASSUME PortsExclusive, UNCHANGED portbusy,
         \A d \in Calls : call'[d].localmedia \in {call[d].localmedia, None}
  PROVE  PortsExclusive'
  BY DEF PortsExclusive

\* getPort announces a pair that no other call has.
LEMMA PortsGrant ==
  ASSUME Typed, PortsExclusive, NEW c \in Calls, NEW port \in Ports, GetPort(port),
         call'[c].localmedia = port, \A d \in Calls \ {c} : call'[d] = call[d]
  PROVE  PortsExclusive'
<1>1. /\ portbusy'[port - first] = TRUE
      /\ \A q \in Index : q # port - first /\ q # port - first + 1
                             => portbusy'[q] = portbusy[q]
  BY PortPair, GrantFlags DEF Typed
<1>2. ~portbusy[port - first]
  BY DEF GetPort, FreePairs
<1>3. ASSUME NEW d \in Calls \ {c}, call[d].localmedia # None
      PROVE  /\ call[d].localmedia # port /\ portbusy'[call[d].localmedia - first]
  <2>1. call[d].localmedia \in Ports /\ portbusy[call[d].localmedia - first]
    BY <1>3 DEF Typed, CallFields, PortsExclusive
  <2>2. call[d].localmedia # port
    BY <1>2, <2>1
  <2>3. /\ call[d].localmedia - first \in Pairs /\ port - first \in Pairs
        /\ call[d].localmedia - first # port - first
    BY <2>1, <2>2, PortPair, PortsApart
  <2>4. /\ call[d].localmedia - first \in Index
        /\ call[d].localmedia - first # port - first + 1
    BY <2>3, PairInRange
  <2> QED BY <1>1, <2>1, <2>2, <2>3, <2>4
<1> QED BY <1>1, <1>3 DEF PortsExclusive

\* freePort clears the flags of the caller's pair only.
LEMMA PortsRelease ==
  ASSUME Typed, PortsExclusive, NEW c \in Calls, call[c].localmedia # None,
         FreePort(call[c].localmedia), call'[c].localmedia = None,
         \A d \in Calls \ {c} : call'[d] = call[d]
  PROVE  PortsExclusive'
<1>1. PICK port \in Ports : port = call[c].localmedia
  BY DEF Typed, CallFields
<1>2. \A q \in Index : q # port - first /\ q # port - first + 1 => portbusy'[q] = portbusy[q]
  BY <1>1, PortPair, ReleaseFlags DEF Typed
<1>3. ASSUME NEW d \in Calls \ {c}, call[d].localmedia # None
      PROVE  portbusy'[call[d].localmedia - first]
  <2>1. /\ call[d].localmedia \in Ports /\ portbusy[call[d].localmedia - first]
        /\ call[d].localmedia # port
    BY <1>1, <1>3 DEF Typed, CallFields, PortsExclusive
  <2>2. /\ call[d].localmedia - first \in Pairs /\ port - first \in Pairs
        /\ call[d].localmedia - first # port - first
    BY <2>1, PortPair, PortsApart
  <2>3. /\ call[d].localmedia - first \in Index
        /\ call[d].localmedia - first # port - first + 1
    BY <2>2, PairInRange
  <2> QED BY <1>2, <2>1, <2>2, <2>3
<1> QED BY <1>3 DEF PortsExclusive

-----------------------------------------------------------------------------
(***************************************************************************)
(* One lemma per action.                                                   *)
(***************************************************************************)
\* A call with actions left is listed, so its step leaves the other calls' part of
\* Unlisted alone.
LEMMA Acting ==
  ASSUME Followed, NEW c \in Calls, call[c].actions # <<>>
  PROVE  c \in data /\ call[c].state # "none"
  BY DEF Followed, Unlisted, Blank

LEMMA UnlistedOther ==
  ASSUME Unlisted, NEW c \in Calls, c \in data', data \subseteq data',
         \A d \in Calls \ {c} : call'[d] = call[d]
  PROVE  Unlisted'
  BY DEF Unlisted

\* The commands of a call that leave its state and its context alone.
LEMMA FollowedCommand ==
  ASSUME Followed, NEW c \in Calls, call[c].actions # <<>>, Keeps(c),
         \A d \in Calls \ {c} : call'[d] = call[d], UNCHANGED <<data, job, sip, forgotten>>
  PROVE  Followed'
<1>1. Unlisted'
  BY Acting, UnlistedOther DEF Followed
<1> QED BY <1>1, FollowedWork DEF Keeps

LEMMA TypedCommand ==
  ASSUME Typed, PMTypeOK', call' \in [Calls -> CallFields], EngineTyped',
         UNCHANGED <<data, job, sip>>
  PROVE  Typed'
  BY DEF Typed, AtWork

LEMMA SamePool == ASSUME PMTypeOK, UNCHANGED pmvars PROVE PMTypeOK' /\ UNCHANGED portbusy
  BY DEF PMTypeOK, pmvars

LEMMA UnusedFields == Unused \in CallFields /\ Unused.localmedia = None /\ Unused.cc = None
  BY EmptySend DEF Unused, CallFields, Lines

\* A call with its first state and context.
LEMMA AddedCall ==
  ASSUME NEW s \in States, NEW x \in Contexts \cup {None}
  PROVE  \E f \in CallFields : /\ f = [Unused EXCEPT !.state = s, !.cc = x]
                               /\ f.state = s /\ f.cc = x /\ f.localmedia = None
<1>1. PICK u \in CallFields : u = [Unused EXCEPT !.state = s]
  BY UnusedFields, FieldSet
<1>2. [u EXCEPT !.cc = x] \in CallFields
  BY FieldSet
<1>3. [Unused EXCEPT !.state = s, !.cc = x] = [u EXCEPT !.cc = x]
  BY <1>1
<1>4. u.state = s /\ u.localmedia = None
  BY <1>1, UnusedFields DEF CallFields
<1>5. [u EXCEPT !.cc = x].state = s /\ [u EXCEPT !.cc = x].cc = x
      /\ [u EXCEPT !.cc = x].localmedia = None
  BY <1>4 DEF CallFields
<1> QED BY <1>2, <1>3, <1>5

\* ... and the event that starts it.
LEMMA NewCall ==
  ASSUME NEW x \in Contexts, NEW q \in Seq(Events)
  PROVE  \E f \in CallFields :
           /\ f = [Unused EXCEPT !.state = "INACTIVE", !.cc = x, !.evq = q]
           /\ f.state = "INACTIVE" /\ f.cc = x /\ f.localmedia = None
<1>0. "INACTIVE" \in States
  BY DEF States
<1>1. PICK u \in CallFields :
        /\ u = [Unused EXCEPT !.state = "INACTIVE", !.cc = x]
        /\ u.state = "INACTIVE" /\ u.cc = x /\ u.localmedia = None
  BY <1>0, AddedCall
<1>2. [u EXCEPT !.evq = q] \in CallFields
  BY FieldSet
<1>3. [Unused EXCEPT !.state = "INACTIVE", !.cc = x, !.evq = q] = [u EXCEPT !.evq = q]
  BY <1>1
<1>4. [u EXCEPT !.evq = q].state = "INACTIVE" /\ [u EXCEPT !.evq = q].cc = x
      /\ [u EXCEPT !.evq = q].localmedia = None
  BY <1>1 DEF CallFields
<1> QED BY <1>2, <1>3, <1>4

LEMMA NewBareCall ==
  ASSUME NEW s \in States, NEW q \in Seq(Events)
  PROVE  \E f \in CallFields : /\ f = [Unused EXCEPT !.state = s, !.evq = q]
                               /\ f.state = s /\ f.cc = None /\ f.localmedia = None
<1>1. PICK u \in CallFields : u = [Unused EXCEPT !.state = s]
  BY UnusedFields, FieldSet
<1>2. [u EXCEPT !.evq = q] \in CallFields
  BY FieldSet
<1>3. [Unused EXCEPT !.state = s, !.evq = q] = [u EXCEPT !.evq = q]
  BY <1>1
<1>4. u.state = s /\ u.localmedia = None /\ u.cc = None
  BY <1>1, UnusedFields DEF CallFields
<1>5. [u EXCEPT !.evq = q].state = s /\ [u EXCEPT !.evq = q].cc = None
      /\ [u EXCEPT !.evq = q].localmedia = None
  BY <1>4 DEF CallFields
<1> QED BY <1>2, <1>3, <1>5

LEMMA IssueCallKeeps ==
  ASSUME IInv, NEW c \in Calls, IssueCall(c) PROVE IInv'
<1> DEFINE first_event == <<"GUI_UNMUTE">>
<1>0. first_event \in Seq(Events)
  BY OneSend DEF Events
<1> HIDE DEF first_event
<1>1. /\ Typed /\ Followed /\ call \in [Calls -> CallFields]
      /\ call[c].state = "none" /\ call[c].cc = None
      /\ data' = data \cup {c} /\ UNCHANGED <<engine, job, forgotten>>
      /\ PMTypeOK' /\ UNCHANGED portbusy
  BY SamePool DEF IInv, Typed, Followed, Blank, IssueCall, State
<1>2. ASSUME NEW x \in Contexts, CreateContext(x),
             call' = [call EXCEPT ![c] = [Unused EXCEPT !.state = "INACTIVE", !.cc = x,
                                                        !.evq = first_event]]
      PROVE  IInv'
  <2>1. /\ call' \in [Calls -> CallFields]
        /\ call'[c].state = "INACTIVE" /\ call'[c].cc = x /\ call'[c].localmedia = None
        /\ \A d \in Calls \ {c} : call'[d] = call[d]
    <3>1. PICK f \in CallFields :
            /\ f = [Unused EXCEPT !.state = "INACTIVE", !.cc = x, !.evq = first_event]
            /\ f.state = "INACTIVE" /\ f.cc = x /\ f.localmedia = None
      BY <1>0, NewCall
    <3> QED BY <1>1, <1>2, <3>1, Replaced
  <2>2. /\ sip' \in [Contexts -> LegFields] /\ ~sip[x].made /\ sip'[x].made = TRUE
        /\ \A y \in Contexts \ {x} : sip'[y] = sip[y]
    BY <1>1, <1>2 DEF Typed, CreateContext, LegFields
  <2>3. Typed'
    BY <1>1, <2>1, <2>2 DEF Typed, AtWork
  <2>4. PortsExclusive'
    BY <1>1, <2>1, PortsFewer DEF IInv
  <2>5. Followed'
    BY <1>1, <2>1, <2>2, FollowedClaim
  <2> QED BY <2>3, <2>4, <2>5 DEF IInv
<1>3. ASSUME call' = [call EXCEPT ![c] = [Unused EXCEPT !.state = "ERROR", !.evq = first_event]],
             UNCHANGED sip
      PROVE  IInv'
  <2>0. "ERROR" \in States /\ None \in Contexts \cup {None}
    BY DEF States
  <2>2. /\ call' \in [Calls -> CallFields]
        /\ call'[c].state = "ERROR" /\ call'[c].cc = None /\ call'[c].localmedia = None
        /\ \A d \in Calls \ {c} : call'[d] = call[d]
    <3>1. PICK f \in CallFields :
            /\ f = [Unused EXCEPT !.state = "ERROR", !.evq = first_event]
            /\ f.state = "ERROR" /\ f.cc = None /\ f.localmedia = None
      BY <1>0, <2>0, NewBareCall
    <3> QED BY <1>1, <1>3, <3>1, Replaced
  <2>3. Typed'
    BY <1>1, <1>3, <2>2 DEF Typed, AtWork
  <2>4. PortsExclusive'
    BY <1>1, <2>2, PortsFewer DEF IInv
  <2>5. \A d \in Calls : call'[d].cc = call[d].cc
    BY <1>1, <2>2
  <2>6. \A x : Claimed(x)' <=> Claimed(x)
    BY <2>5, ClaimsKept
  <2>7. Unlisted'
    BY <1>1, <2>2, UnlistedOther DEF Followed
  <2>8. Blank' /\ Kept' /\ Single'
    BY <1>1, <2>2, <2>5 DEF Followed, Blank, Kept, Single
  <2>9. Unmade' /\ AskedOnce' /\ AddsFirst'
    BY <1>1, <1>3, <2>6 DEF Followed, Unmade, Working, AskedOnce, Notified, AddsFirst
  <2> QED BY <2>3, <2>4, <2>7, <2>8, <2>9 DEF IInv, Followed
<1> QED BY <1>2, <1>3 DEF IssueCall, first_event

LEMMA ClickKeeps ==
  ASSUME IInv, NEW c \in Calls, Click(c) PROVE IInv'
<1>1. PICK e \in Buttons(State(c)) : call' = Posted(e, c)
  BY DEF Click
<1>2. e \in Events
  BY DEF Buttons, Events
<1>3. /\ Typed /\ Followed /\ call \in [Calls -> CallFields] /\ c \in data
      /\ UNCHANGED <<data, engine, job, sip, forgotten>> /\ EngineTyped
      /\ PMTypeOK' /\ UNCHANGED portbusy
  BY SamePool DEF IInv, Typed, Click
<1>4. /\ call' \in [Calls -> CallFields]
      /\ call'[c] = [call[c] EXCEPT !.evq = Append(@, e)]
      /\ \A d \in Calls \ {c} : call'[d] = call[d]
  BY <1>1, <1>2, <1>3, PostedFields
<1>9. Keeps(c) /\ call'[c].localmedia = call[c].localmedia
  BY <1>3, <1>4 DEF Keeps, CallFields
<1>5. Typed'
  BY <1>3, <1>4, TypedCommand
<1>6. PortsExclusive'
  BY <1>3, <1>4, <1>9, PortsFewer DEF IInv
<1>7. Unlisted'
  BY <1>3, <1>4, UnlistedOther DEF Followed
<1>8. Followed'
  BY <1>3, <1>4, <1>7, <1>9, FollowedWork DEF Keeps
<1> QED BY <1>5, <1>6, <1>8 DEF IInv

\* Steps of the user agent and the workers that touch no call.
LEMMA QuietKeeps ==
  ASSUME IInv, UNCHANGED <<pmvars, call, data, engine>>, Followed',
         sip' \in [Contexts -> LegFields], job' \in [Workers -> JobFields], AtWork'
  PROVE  IInv'
<1>1. Typed'
  BY SamePool DEF IInv, Typed
<1>2. PortsExclusive'
  BY SamePool, PortsFewer DEF IInv, Typed
<1> QED BY <1>1, <1>2 DEF IInv

LEMMA ReceiveKeeps ==
  ASSUME IInv, NEW x \in Contexts, Receive(x) PROVE IInv'
<1>1. PICK r \in Reactions[sip[x].leg] :
        /\ r.in \in Messages /\ (sip[x].made => sip[x].leg # "initial")
        /\ \E sdp \in {sip[x].sdp} \cup (IF r.note = "notify" THEN Offers ELSE {}) :
             sip' = [sip EXCEPT ![x] = [leg |-> r.to, made |-> TRUE, sdp |-> sdp]]
        /\ \/ UNCHANGED job
           \/ \E w \in Workers : job' = [job EXCEPT ![w].at = "find", ![w].note = r.note, ![w].cc = x]
        /\ UNCHANGED <<pmvars, call, data, engine, forgotten>>
  BY DEF Receive
<1>2. /\ Typed /\ Followed
      /\ sip \in [Contexts -> LegFields] /\ job \in [Workers -> JobFields] /\ AtWork
  BY DEF IInv, Typed
<1>3. sip[x].leg \in LegStates /\ sip[x].sdp \in Media
  BY <1>2 DEF LegFields
<1>4. r.to \in LegStates /\ r.note \in Notes
  BY <1>3, ReactionTyped
<1>5. /\ sip' \in [Contexts -> LegFields]
      /\ sip'[x].leg = r.to /\ sip'[x].made = TRUE
      /\ \A y \in Contexts \ {x} : sip'[y] = sip[y]
  <2>1. PICK sdp \in {sip[x].sdp} \cup (IF r.note = "notify" THEN Offers ELSE {}) :
          sip' = [sip EXCEPT ![x] = [leg |-> r.to, made |-> TRUE, sdp |-> sdp]]
    BY <1>1
  <2>2. sdp \in Media
    BY <1>3, <2>1, Parameters
  <2>3. [leg |-> r.to, made |-> TRUE, sdp |-> sdp] \in LegFields
    BY <1>4, <2>2 DEF LegFields
  <2> QED BY <1>2, <2>1, <2>3
<1>6. CASE UNCHANGED job
  <2>1. Followed'
    BY <1>1, <1>2, <1>5, <1>6, FollowedReceive
  <2> QED BY <1>1, <1>2, <1>5, <1>6, <2>1, QuietKeeps DEF AtWork
<1>7. ASSUME NEW w \in Workers,
             job' = [job EXCEPT ![w].at = "find", ![w].note = r.note, ![w].cc = x]
      PROVE  IInv'
  <2>1. [job[w] EXCEPT !.at = "find", !.note = r.note, !.cc = x] \in JobFields
    BY <1>2, <1>4 DEF JobFields
  <2>2. /\ job' \in [Workers -> JobFields]
        /\ job'[w] = [job[w] EXCEPT !.at = "find", !.note = r.note, !.cc = x]
        /\ \A v \in Workers \ {w} : job'[v] = job[v]
    BY <1>2, <1>7, <2>1
  <2>3. job'[w].at = "find" /\ job'[w].note = r.note /\ job'[w].cc = x
    BY <1>2, <2>2 DEF JobFields
  <2>4. AtWork'
    BY <1>2, <2>2, <2>3 DEF AtWork
  <2>5. Followed'
    BY <1>1, <1>2, <1>5, <2>2, <2>3, FollowedReceive
  <2> QED BY <1>1, <1>5, <2>2, <2>4, <2>5, QuietKeeps
<1> QED BY <1>1, <1>6, <1>7

\* The record of a worker is replaced by one that fits.
LEMMA JobReplaced ==
  ASSUME Typed, NEW w \in Workers, NEW j \in JobFields, job' = [job EXCEPT ![w] = j],
         j.at # "done" => j.cc \in Contexts,
         j.at \in {"media", "post"} => j.call \in Calls,
         j.at = "post" => j.event \in Tellings
  PROVE  /\ job' \in [Workers -> JobFields] /\ AtWork' /\ job'[w] = j
         /\ \A v \in Workers \ {w} : job'[v] = job[v]
<1>1. /\ job' \in [Workers -> JobFields] /\ job'[w] = j
      /\ \A v \in Workers \ {w} : job'[v] = job[v]
  BY DEF Typed
<1> QED BY <1>1 DEF Typed, AtWork

LEMMA DoneFits == Done \in JobFields /\ Done.at = "done"
  BY DEF Done, JobFields, Notes

LEMMA FindKeeps ==
  ASSUME IInv, NEW w \in Workers, Find(w) PROVE IInv'
<1>1. /\ Typed /\ Followed /\ job[w].at = "find" /\ job[w] \in JobFields
      /\ job[w].cc \in Contexts /\ job \in [Workers -> JobFields]
      /\ UNCHANGED <<pmvars, call, data, engine, sip, forgotten>>
      /\ sip' \in [Contexts -> LegFields] /\ data \subseteq Calls
  BY DEF IInv, Typed, AtWork, Find
<1>2. ASSUME NEW c \in FoundCalls(job[w].cc),
             job' = [job EXCEPT ![w].call = c,
                             ![w].at = IF job[w].note = "notify" THEN "media" ELSE "post",
                             ![w].event = IF job[w].note = "hangup" THEN "SIP_HANGUP"
                                                                    ELSE "SIP_ERROR"]
      PROVE  IInv'
  <2>1. c \in Calls
    BY <1>1 DEF FoundCalls
  <2>2. PICK at \in {"media", "post"} : at = IF job[w].note = "notify" THEN "media" ELSE "post"
    OBVIOUS
  <2>3. PICK e \in Tellings : e = IF job[w].note = "hangup" THEN "SIP_HANGUP" ELSE "SIP_ERROR"
    BY DEF Tellings
  <2>4. PICK j \in JobFields : /\ j = [job[w] EXCEPT !.call = c, !.at = at, !.event = e]
                               /\ j.at = at /\ j.call = c /\ j.event = e /\ j.cc = job[w].cc
    <3>1. [job[w] EXCEPT !.call = c, !.at = at, !.event = e] \in JobFields
      BY <1>1, <2>1, <2>2, <2>3 DEF JobFields
    <3> QED BY <1>1, <3>1 DEF JobFields
  <2>5. job' = [job EXCEPT ![w] = j]
    BY <1>1, <1>2, <2>2, <2>3, <2>4
  <2>6. /\ job' \in [Workers -> JobFields] /\ AtWork' /\ job'[w] = j
        /\ \A v \in Workers \ {w} : job'[v] = job[v]
    BY <1>1, <2>1, <2>2, <2>3, <2>4, <2>5, JobReplaced
  <2>7. Followed'
    BY <1>1, <2>4, <2>6, FollowedFind
  <2> QED BY <1>1, <2>6, <2>7, QuietKeeps
<1>3. ASSUME FoundCalls(job[w].cc) = {}, job[w].note = "notify",
             job' = [job EXCEPT ![w] = [job[w] EXCEPT !.at = "add"]]
      PROVE  IInv'
  <2>1. PICK j \in JobFields : /\ j = [job[w] EXCEPT !.at = "add"]
                               /\ j.at = "add" /\ j.cc = job[w].cc
    <3>1. [job[w] EXCEPT !.at = "add"] \in JobFields
      BY <1>1 DEF JobFields
    <3> QED BY <1>1, <3>1 DEF JobFields
  <2>2. /\ job' \in [Workers -> JobFields] /\ AtWork' /\ job'[w] = j
        /\ \A v \in Workers \ {w} : job'[v] = job[v]
    BY <1>1, <1>3, <2>1, JobReplaced
  <2>3. Followed'
    BY <1>1, <1>3, <2>1, <2>2, FollowedFind
  <2> QED BY <1>1, <2>2, <2>3, QuietKeeps
<1>4. ASSUME job' = [job EXCEPT ![w] = Done]
      PROVE  IInv'
  <2>1. PICK j \in JobFields : j = Done /\ j.at = "done"
    BY DoneFits
  <2>2. /\ job' \in [Workers -> JobFields] /\ AtWork' /\ job'[w] = j
        /\ \A v \in Workers \ {w} : job'[v] = job[v]
    BY <1>1, <1>4, <2>1, JobReplaced
  <2>3. Followed'
    BY <1>1, <2>1, <2>2, FollowedFind
  <2> QED BY <1>1, <2>2, <2>3, QuietKeeps
<1> QED BY <1>2, <1>3, <1>4 DEF Find

LEMMA AddKeeps ==
  ASSUME IInv, NEW w \in Workers, Add(w) PROVE IInv'
<1>1. PICK c \in Calls :
        /\ call[c].state = "none"
        /\ call' = [call EXCEPT ![c] = [Unused EXCEPT !.state = "INACTIVE", !.cc = job[w].cc]]
        /\ data' = data \cup {c}
        /\ job' = [job EXCEPT ![w].call = c, ![w].at = "media"]
  BY DEF Add, State
<1>2. /\ Typed /\ Followed /\ job[w].at = "add" /\ job[w] \in JobFields
      /\ job[w].cc \in Contexts /\ job \in [Workers -> JobFields]
      /\ call \in [Calls -> CallFields]
      /\ UNCHANGED <<engine, sip, forgotten>> /\ data' \subseteq Calls
      /\ PMTypeOK' /\ UNCHANGED portbusy
  BY <1>1, SamePool DEF IInv, Typed, AtWork, Add
<1>3. PICK x \in Contexts : x = job[w].cc
  BY <1>2
<1>4. PICK f \in CallFields :
        /\ f = [Unused EXCEPT !.state = "INACTIVE", !.cc = x]
        /\ f.state = "INACTIVE" /\ f.cc = x /\ f.localmedia = None
  <2>1. "INACTIVE" \in States
    BY DEF States
  <2> QED BY <2>1, AddedCall
<1>5. call' = [call EXCEPT ![c] = f]
  BY <1>1, <1>3, <1>4
<1>6. /\ call' \in [Calls -> CallFields] /\ call'[c] = f
      /\ \A d \in Calls \ {c} : call'[d] = call[d]
  BY <1>2, <1>5, Replaced
<1>7. PICK j \in JobFields : /\ j = [job[w] EXCEPT !.call = c, !.at = "media"]
                             /\ j.at = "media" /\ j.call = c /\ j.cc = job[w].cc
  <2>1. [job[w] EXCEPT !.call = c, !.at = "media"] \in JobFields
    BY <1>2 DEF JobFields
  <2> QED BY <1>2, <2>1 DEF JobFields
<1>8. /\ job' \in [Workers -> JobFields] /\ AtWork' /\ job'[w] = j
      /\ \A v \in Workers \ {w} : job'[v] = job[v]
  BY <1>1, <1>2, <1>7, JobReplaced
<1>9. Typed'
  BY <1>2, <1>6, <1>8 DEF Typed
<1>10. PortsExclusive'
  BY <1>2, <1>4, <1>6, PortsFewer DEF IInv
<1>11. Followed'
  BY <1>1, <1>2, <1>3, <1>4, <1>6, <1>7, <1>8, FollowedAdd
<1> QED BY <1>9, <1>10, <1>11 DEF IInv

LEMMA DescribeKeeps ==
  ASSUME IInv, NEW w \in Workers, Describe(w) PROVE IInv'
<1>1. /\ Typed /\ Followed /\ job[w].at = "media" /\ job[w] \in JobFields
      /\ job[w].cc \in Contexts /\ job \in [Workers -> JobFields]
      /\ call \in [Calls -> CallFields] /\ sip \in [Contexts -> LegFields]
      /\ UNCHANGED <<data, engine, sip, forgotten>> /\ data \subseteq Calls
      /\ PMTypeOK' /\ UNCHANGED portbusy /\ job[w].call \in Calls
  BY SamePool DEF IInv, Typed, AtWork, Describe
<1>2. PICK c \in Calls, x \in Contexts, sdp \in Media :
        c = job[w].call /\ x = job[w].cc /\ sdp = sip[x].sdp
  BY <1>1 DEF LegFields
<1>3. PICK m \in Media \cup {None} :
        m = IF sdp \in {"no SDP", "bad", "no audio"} THEN None ELSE sdp
  OBVIOUS
<1>4. PICK f \in CallFields :
        /\ f = [call[c] EXCEPT !.remotemedia = m]
        /\ f.state = call[c].state /\ f.cc = call[c].cc /\ f.localmedia = call[c].localmedia
        /\ f.actions = call[c].actions /\ f.next_state = call[c].next_state
  <2>1. [call[c] EXCEPT !.remotemedia = m] \in CallFields
    BY <1>1, FieldSet
  <2> QED BY <1>1, <2>1 DEF CallFields
<1>5. call' = [call EXCEPT ![c] = f]
  BY <1>1, <1>2, <1>3, <1>4 DEF Describe
<1>6. /\ call' \in [Calls -> CallFields] /\ call'[c] = f
      /\ \A d \in Calls \ {c} : call'[d] = call[d]
  BY <1>1, <1>5, Replaced
<1>7. PICK j \in JobFields :
        /\ job' = [job EXCEPT ![w] = j]
        /\ \/ j.at = "done"
           \/ j.at = "post" /\ j.cc = job[w].cc /\ j.call = c /\ j.event \in Tellings
  <2>1. CASE sdp = "no audio"
    BY <1>2, <2>1, DoneFits DEF Describe
  <2>2. CASE sdp # "no audio"
    <3>1. PICK e \in Tellings : e = NotifyEvent(sdp)
      BY <2>2 DEF NotifyEvent, Media, Tellings
    <3>2. PICK j \in JobFields : /\ j = [job[w] EXCEPT !.at = "post", !.event = e]
                                 /\ j.at = "post" /\ j.cc = job[w].cc
                                 /\ j.call = job[w].call /\ j.event = e
      <4>1. [job[w] EXCEPT !.at = "post", !.event = e] \in JobFields
        BY <1>1, <3>1 DEF JobFields
      <4> QED BY <1>1, <4>1 DEF JobFields
    <3> QED BY <1>1, <1>2, <2>2, <3>1, <3>2 DEF Describe
  <2> QED BY <2>1, <2>2
<1>8. /\ job' \in [Workers -> JobFields] /\ AtWork' /\ job'[w] = j
      /\ \A v \in Workers \ {w} : job'[v] = job[v]
  BY <1>1, <1>7, JobReplaced
<1>9. Typed'
  BY <1>1, <1>6, <1>8 DEF Typed
<1>10. PortsExclusive'
  BY <1>1, <1>4, <1>6, PortsFewer DEF IInv
<1>11. \A d \in Calls : Keeps(d)
  BY <1>4, <1>6 DEF Keeps
<1>12. Unlisted'
  <2>1. /\ call'[c].state = call[c].state /\ call'[c].actions = call[c].actions
        /\ call'[c].next_state = call[c].next_state
    BY <1>4, <1>6
  <2> QED BY <1>1, <1>6, <2>1 DEF Followed, Unlisted
<1>13. Followed'
  BY <1>1, <1>7, <1>8, <1>11, <1>12, FollowedJob
<1> QED BY <1>9, <1>10, <1>13 DEF IInv

LEMMA SendEventKeeps ==
  ASSUME IInv, NEW w \in Workers, SendEvent(w) PROVE IInv'
<1>1. /\ Typed /\ Followed /\ job[w].at = "post" /\ job \in [Workers -> JobFields]
      /\ call \in [Calls -> CallFields] /\ sip \in [Contexts -> LegFields]
      /\ UNCHANGED <<data, engine, sip, forgotten>> /\ data \subseteq Calls
      /\ PMTypeOK' /\ UNCHANGED portbusy /\ job[w].call \in Calls /\ job[w].event \in Events
  BY SamePool DEF IInv, Typed, AtWork, SendEvent, Tellings, Events
<1>2. PICK c \in Calls, e \in Events : c = job[w].call /\ e = job[w].event
  BY <1>1
<1>3. /\ call' \in [Calls -> CallFields]
      /\ call'[c] = [call[c] EXCEPT !.evq = Append(@, e)]
      /\ \A d \in Calls \ {c} : call'[d] = call[d]
  <2>1. call' = Posted(e, c) /\ call \in [Calls -> CallFields]
    BY <1>1, <1>2 DEF SendEvent
  <2> QED BY <2>1, PostedFields
<1>4. /\ call'[c].state = call[c].state /\ call'[c].cc = call[c].cc
      /\ call'[c].localmedia = call[c].localmedia
      /\ call'[c].actions = call[c].actions /\ call'[c].next_state = call[c].next_state
  BY <1>1, <1>3 DEF CallFields
<1>5. PICK j \in JobFields : j = Done /\ j.at = "done"
  BY DoneFits
<1>6. /\ job' \in [Workers -> JobFields] /\ AtWork' /\ job'[w] = j
      /\ \A v \in Workers \ {w} : job'[v] = job[v]
  BY <1>1, <1>5, JobReplaced DEF SendEvent
<1>7. Typed'
  BY <1>1, <1>3, <1>6 DEF Typed
<1>8. PortsExclusive'
  BY <1>1, <1>3, <1>4, PortsFewer DEF IInv
<1>9. Unlisted'
  BY <1>1, <1>3, <1>4 DEF Followed, Unlisted
<1>10. Followed'
  BY <1>1, <1>3, <1>4, <1>5, <1>6, <1>9, FollowedJob DEF Keeps
<1> QED BY <1>7, <1>8, <1>10 DEF IInv

LEMMA TriggerKeeps ==
  ASSUME IInv, NEW c \in Calls, Trigger(c) PROVE IInv'
<1>1. /\ Typed /\ Followed /\ call \in [Calls -> CallFields] /\ call[c] \in CallFields
      /\ call[c].evq # <<>>
      /\ UNCHANGED <<data, engine, job, sip, forgotten>> /\ EngineTyped
      /\ PMTypeOK' /\ UNCHANGED portbusy
  BY SamePool DEF IInv, Typed, Trigger
<1>2. PICK e \in Events : e = Head(call[c].evq)
  <2>1. call[c].evq \in Seq(Events)
    BY <1>1 DEF CallFields
  <2> QED BY <1>1, <2>1
<1>3. PICK t \in Seq(Events) : t = Tail(call[c].evq)
  <2>1. Tail(call[c].evq) \in Seq(Events)
    BY <1>1 DEF CallFields
  <2> QED BY <2>1
<1>4. PICK n \in States \cup {"same", "idle", "dead"}, a \in Seq(Commands) :
        /\ n = Entry(call[c].state, e)[3] /\ a = Entry(call[c].state, e)[4]
        /\ call[c].state \in {"none", "DELETE", "ERROR"}
              => n \in {"same", "DELETE", "ERROR"} /\ a = <<>>
  BY EntryRow
<1>5. PICK f \in CallFields :
        /\ f = [call[c] EXCEPT !.evq = t, !.event = e, !.next_state = n, !.actions = a]
        /\ f.state = call[c].state /\ f.cc = call[c].cc /\ f.localmedia = call[c].localmedia
        /\ f.next_state = n /\ f.actions = a
  <2>1. [call[c] EXCEPT !.evq = t, !.event = e, !.next_state = n, !.actions = a] \in CallFields
    BY <1>1 DEF CallFields
  <2> QED BY <1>1, <2>1 DEF CallFields
<1>6. call' = [call EXCEPT ![c] = f]
  BY <1>1, <1>2, <1>3, <1>4, <1>5 DEF Trigger, State
<1>7. /\ call' \in [Calls -> CallFields] /\ call'[c] = f
      /\ \A d \in Calls \ {c} : call'[d] = call[d]
  BY <1>1, <1>6, Replaced
<1>8. Typed'
  BY <1>1, <1>7, TypedCommand
<1>9. PortsExclusive'
  BY <1>1, <1>5, <1>7, PortsFewer DEF IInv
<1>10. Unlisted'
  <2>1. /\ call'[c].state = call[c].state /\ call'[c].next_state = n /\ call'[c].actions = a
    BY <1>5, <1>7
  <2> QED BY <1>1, <1>4, <1>7, <2>1 DEF Followed, Unlisted
<1>11. Followed'
  BY <1>1, <1>5, <1>7, <1>10, FollowedWork DEF Keeps
<1> QED BY <1>8, <1>9, <1>11 DEF IInv

LEMMA SetStateKeeps ==
  ASSUME IInv, NEW c \in Calls, SetState(c) PROVE IInv'
<1>1. /\ Typed /\ Followed /\ call \in [Calls -> CallFields] /\ call[c] \in CallFields
      /\ call[c].next_state \notin {"idle", "dead"} /\ call[c].actions = <<>>
      /\ UNCHANGED <<engine, job, sip>> /\ EngineTyped
      /\ PMTypeOK' /\ UNCHANGED portbusy /\ data \subseteq Calls
  BY SamePool DEF IInv, Typed, SetState
<1>2. PICK s \in States \cup {"none"} :
        s = IF call[c].next_state = "same" THEN call[c].state ELSE call[c].next_state
  BY <1>1 DEF CallFields
<1>3. PICK f \in CallFields :
        /\ f = [call[c] EXCEPT !.state = s, !.next_state = "idle", !.event = "none"]
        /\ f.state = s /\ f.cc = call[c].cc /\ f.localmedia = call[c].localmedia
        /\ f.next_state = "idle" /\ f.actions = <<>>
  <2>1. [call[c] EXCEPT !.state = s, !.next_state = "idle", !.event = "none"] \in CallFields
    BY <1>1 DEF CallFields
  <2> QED BY <1>1, <2>1 DEF CallFields
<1>4. /\ call' = [call EXCEPT ![c] = f]
      /\ data' = IF s = "DELETE" THEN data \ {c} ELSE data
      /\ forgotten' = IF s = "DELETE" THEN forgotten \cup {call[c].cc} ELSE forgotten
  BY <1>1, <1>2, <1>3 DEF SetState, State
<1>5. /\ call' \in [Calls -> CallFields] /\ call'[c] = f
      /\ \A d \in Calls \ {c} : call'[d] = call[d]
  BY <1>1, <1>4, Replaced
<1>6. Typed'
  BY <1>1, <1>4, <1>5 DEF Typed, AtWork
<1>7. PortsExclusive'
  BY <1>1, <1>3, <1>5, PortsFewer DEF IInv
<1>8. s = "none" => call[c].state = "none"
  BY <1>1, <1>2 DEF CallFields, States
<1>9. call'[c].state = s /\ call'[c].cc = call[c].cc
      /\ call'[c].next_state = "idle" /\ call'[c].actions = <<>>
  BY <1>3, <1>5
<1>10. Unlisted'
  <2>1. c \notin data' => s \in {"none", "DELETE", "ERROR"}
    BY <1>1, <1>2, <1>4 DEF Followed, Unlisted
  <2>2. \A d \in Calls \ {c} : d \notin data' => d \notin data
    BY <1>4
  <2>3. Unlisted
    BY <1>1 DEF Followed
  <2>4. \A d \in Calls \ {c} : d \notin data' =>
          /\ call'[d].state \in {"none", "DELETE", "ERROR"} /\ call'[d].actions = <<>>
          /\ call'[d].next_state \in {"idle", "same", "DELETE", "ERROR"}
    BY <1>5, <2>2, <2>3 DEF Unlisted
  <2> QED BY <1>9, <2>1, <2>4 DEF Unlisted
<1>11. Followed'
  BY <1>1, <1>4, <1>5, <1>8, <1>9, <1>10, FollowedSet
<1> QED BY <1>6, <1>7, <1>11 DEF IInv

-----------------------------------------------------------------------------
\* What every command of a call has in common.
LEMMA CommandKeeps ==
  ASSUME IInv, NEW c \in Calls, call[c].actions # <<>>,
         call' \in [Calls -> CallFields], Keeps(c),
         \A d \in Calls \ {c} : call'[d] = call[d],
         UNCHANGED <<data, job, sip, forgotten>>, EngineTyped',
         PMTypeOK', PortsExclusive'
  PROVE  IInv'
<1>1. Typed' /\ Followed'
  BY TypedCommand, FollowedCommand DEF IInv
<1> QED BY <1>1 DEF IInv

LEMMA Returned ==
  ASSUME call \in [Calls -> CallFields], NEW c \in Calls, call[c].actions # <<>>,
         call' = Return(call, c)
  PROVE  /\ call' \in [Calls -> CallFields] /\ Keeps(c)
         /\ call'[c].localmedia = call[c].localmedia
         /\ \A d \in Calls \ {c} : call'[d] = call[d]
<1>1. /\ call' \in [Calls -> CallFields]
      /\ call'[c] = [call[c] EXCEPT !.actions = Tail(@)]
      /\ \A d \in Calls \ {c} : call'[d] = call[d]
  BY ReturnFields
<1> QED BY <1>1 DEF CallFields, Keeps

LEMMA Failed ==
  ASSUME call \in [Calls -> CallFields], NEW c \in Calls, call' = Fail(c)
  PROVE  /\ call' \in [Calls -> CallFields] /\ Keeps(c)
         /\ call'[c].localmedia = call[c].localmedia
         /\ \A d \in Calls \ {c} : call'[d] = call[d]
<1>1. /\ call' \in [Calls -> CallFields]
      /\ call'[c] = [call[c] EXCEPT !.evq = Append(@, "GEN_ERROR"), !.actions = <<>>]
      /\ \A d \in Calls \ {c} : call'[d] = call[d]
  BY FailFields
<1> QED BY <1>1 DEF CallFields, Keeps

\* One field of the call is set, and the command is done.
LEMMA SetAndReturned ==
  ASSUME call \in [Calls -> CallFields], NEW c \in Calls, call[c].actions # <<>>,
         NEW g \in CallFields, g.actions = call[c].actions,
         call' = Return([call EXCEPT ![c] = g], c)
  PROVE  /\ call' \in [Calls -> CallFields]
         /\ call'[c].state = g.state /\ call'[c].cc = g.cc
         /\ call'[c].localmedia = g.localmedia
         /\ \A d \in Calls \ {c} : call'[d] = call[d]
<1>1. PICK cl \in [Calls -> CallFields] :
        cl = [call EXCEPT ![c] = g] /\ cl[c] = g /\ \A d \in Calls \ {c} : cl[d] = call[d]
  <2>1. [call EXCEPT ![c] = g] \in [Calls -> CallFields]
    OBVIOUS
  <2> QED BY <2>1
<1>2. /\ call' \in [Calls -> CallFields]
      /\ call'[c] = [cl[c] EXCEPT !.actions = Tail(@)]
      /\ \A d \in Calls \ {c} : call'[d] = cl[d]
  BY <1>1, ReturnFields
<1>3. [g EXCEPT !.actions = Tail(@)].state = g.state
      /\ [g EXCEPT !.actions = Tail(@)].cc = g.cc
      /\ [g EXCEPT !.actions = Tail(@)].localmedia = g.localmedia
  BY DEF CallFields
<1> QED BY <1>1, <1>2, <1>3

LEMMA MedLsdpKeeps ==
  ASSUME IInv, NEW c \in Calls, MedLsdp(c) PROVE IInv'
<1>1. /\ Typed /\ PMTypeOK /\ call \in [Calls -> CallFields] /\ call[c] \in CallFields
      /\ call[c].actions # <<>> /\ EngineTyped'
      /\ UNCHANGED <<data, job, sip, forgotten>>
  BY DEF IInv, Typed, MedLsdp, At
<1>2. ASSUME NEW port \in Ports, GetPort(port),
             call' = Return([call EXCEPT ![c].localmedia = port], c)
      PROVE  IInv'
  <2>1. PICK g \in CallFields :
          /\ g = [call[c] EXCEPT !.localmedia = port] /\ g.localmedia = port
          /\ g.actions = call[c].actions /\ g.state = call[c].state /\ g.cc = call[c].cc
    <3>1. [call[c] EXCEPT !.localmedia = port] \in CallFields
      BY <1>1, FieldSet
    <3> QED BY <1>1, <3>1 DEF CallFields
  <2>2. call' = Return([call EXCEPT ![c] = g], c)
    BY <1>1, <1>2, <2>1
  <2>3. /\ call' \in [Calls -> CallFields] /\ Keeps(c) /\ call'[c].localmedia = port
        /\ \A d \in Calls \ {c} : call'[d] = call[d]
    BY <1>1, <2>1, <2>2, SetAndReturned DEF Keeps
  <2>4. PMTypeOK'
    BY <1>1, <1>2, PortPair, GrantTyped
  <2>5. PortsExclusive'
    BY <1>1, <1>2, <2>3, PortsGrant DEF IInv
  <2> QED BY <1>1, <2>3, <2>4, <2>5, CommandKeeps
<1>3. ASSUME call' = Fail(c), UNCHANGED pmvars PROVE IInv'
  <2>1. /\ call' \in [Calls -> CallFields] /\ Keeps(c)
        /\ call'[c].localmedia = call[c].localmedia
        /\ \A d \in Calls \ {c} : call'[d] = call[d]
    BY <1>1, <1>3, Failed
  <2>2. PMTypeOK' /\ PortsExclusive'
    BY <1>1, <1>3, <2>1, SamePool, PortsFewer DEF IInv
  <2> QED BY <1>1, <2>1, <2>2, CommandKeeps
<1> QED BY <1>2, <1>3 DEF MedLsdp, Ports

\* A call that only moves to another statement of isAvailable or stop.
LEMMA Moved ==
  ASSUME call \in [Calls -> CallFields], NEW c \in Calls,
         NEW pc \in Lines,
         call' = [call EXCEPT ![c].pc = pc]
  PROVE  /\ call' \in [Calls -> CallFields] /\ Keeps(c)
         /\ call'[c] = [call[c] EXCEPT !.pc = pc]
         /\ call'[c].localmedia = call[c].localmedia
         /\ \A d \in Calls \ {c} : call'[d] = call[d]
<1>1. [call[c] EXCEPT !.pc = pc] \in CallFields
  BY FieldSet
<1>2. /\ call' \in [Calls -> CallFields] /\ call'[c] = [call[c] EXCEPT !.pc = pc]
      /\ \A d \in Calls \ {c} : call'[d] = call[d]
  BY <1>1, Replaced
<1> QED BY <1>2 DEF CallFields, Keeps

\* A call that queues an event, and whose command is done.
LEMMA PostedAndReturned ==
  ASSUME call \in [Calls -> CallFields], NEW c \in Calls, call[c].actions # <<>>,
         NEW e \in Events, NEW cl, cl \in {Posted(e, c), [Posted(e, c) EXCEPT ![c].pc = "begin"]},
         call' = Return(cl, c)
  PROVE  /\ call' \in [Calls -> CallFields] /\ Keeps(c)
         /\ call'[c].localmedia = call[c].localmedia
         /\ \A d \in Calls \ {c} : call'[d] = call[d]
<1>1. PICK p \in [Calls -> CallFields] :
        /\ p = Posted(e, c) /\ p[c] = [call[c] EXCEPT !.evq = Append(@, e)]
        /\ \A d \in Calls \ {c} : p[d] = call[d]
  BY PostedFields
<1>2. /\ p[c].actions = call[c].actions /\ p[c].state = call[c].state
      /\ p[c].cc = call[c].cc /\ p[c].localmedia = call[c].localmedia
      /\ [p EXCEPT ![c].pc = "begin"] = [p EXCEPT ![c] = [p[c] EXCEPT !.pc = "begin"]]
  BY <1>1 DEF CallFields
<1>3. [p[c] EXCEPT !.pc = "begin"] \in CallFields
  BY FieldSet DEF Lines
<1>4. PICK g \in CallFields : cl = [call EXCEPT ![c] = g] /\ g.actions = call[c].actions
        /\ g.state = call[c].state /\ g.cc = call[c].cc /\ g.localmedia = call[c].localmedia
  <2>1. CASE cl = p
    <3>1. cl = [call EXCEPT ![c] = p[c]]
      BY <1>1, <2>1
    <3> QED BY <1>1, <1>2, <3>1
  <2>2. CASE cl = [p EXCEPT ![c].pc = "begin"]
    <3>1. cl = [call EXCEPT ![c] = [p[c] EXCEPT !.pc = "begin"]]
      BY <1>1, <1>2, <2>2
    <3> QED BY <1>2, <1>3, <3>1 DEF CallFields
  <2> QED BY <1>1, <2>1, <2>2
<1> QED BY <1>4, SetAndReturned DEF Keeps

LEMMA MedAvlKeeps ==
  ASSUME IInv, NEW c \in Calls, MedAvl(c) PROVE IInv'
<1>1. /\ Typed /\ PMTypeOK /\ call \in [Calls -> CallFields] /\ call[c] \in CallFields
      /\ call[c].actions # <<>> /\ EngineTyped'
      /\ UNCHANGED <<pmvars, data, job, sip, forgotten>>
  BY DEF IInv, Typed, MedAvl, At
<1>2. /\ call' \in [Calls -> CallFields] /\ Keeps(c)
      /\ call'[c].localmedia = call[c].localmedia
      /\ \A d \in Calls \ {c} : call'[d] = call[d]
  <2>1. CASE call' = [call EXCEPT ![c].pc = "own"]
    BY <1>1, <2>1, Moved DEF Lines
  <2>2. CASE \E e \in Events : call' = Return(Posted(e, c), c)
    BY <1>1, <2>2, PostedAndReturned
  <2>3. {"MED_AVL", "MED_UNAVL"} \subseteq Events
    BY DEF Events
  <2> QED BY <2>1, <2>2, <2>3 DEF MedAvl
<1>3. PMTypeOK' /\ PortsExclusive'
  BY <1>1, <1>2, SamePool, PortsFewer DEF IInv
<1> QED BY <1>1, <1>2, <1>3, CommandKeeps

\* A call that dies of a null reference keeps what it has.
LEMMA Died ==
  ASSUME call \in [Calls -> CallFields], NEW c \in Calls, call' = Dies(c)
  PROVE  /\ call' \in [Calls -> CallFields] /\ Keeps(c)
         /\ call'[c].localmedia = call[c].localmedia
         /\ \A d \in Calls \ {c} : call'[d] = call[d]
<1>1. PICK g \in CallFields :
        /\ g = [call[c] EXCEPT !.actions = <<>>, !.next_state = "dead", !.pc = "begin"]
        /\ g.localmedia = call[c].localmedia /\ g.state = call[c].state /\ g.cc = call[c].cc
  <2>1. [call[c] EXCEPT !.actions = <<>>, !.next_state = "dead", !.pc = "begin"] \in CallFields
    BY EmptySend DEF CallFields, Lines
  <2> QED BY <2>1 DEF CallFields
<1>2. call' = [call EXCEPT ![c] = g]
  BY <1>1 DEF Dies
<1> QED BY <1>1, <1>2, Replaced DEF Keeps

LEMMA MedOwnKeeps ==
  ASSUME IInv, NEW c \in Calls, MedOwn(c) PROVE IInv'
<1>1. /\ Typed /\ PMTypeOK /\ call \in [Calls -> CallFields] /\ call[c] \in CallFields
      /\ call[c].actions # <<>> /\ EngineTyped'
      /\ UNCHANGED <<pmvars, data, job, sip, forgotten>>
  BY DEF IInv, Typed, MedOwn, At
<1>2. /\ call' \in [Calls -> CallFields] /\ Keeps(c)
      /\ call'[c].localmedia = call[c].localmedia
      /\ \A d \in Calls \ {c} : call'[d] = call[d]
  <2>1. "MED_AVL" \in Events
    BY DEF Events
  <2> QED BY <1>1, <2>1, PostedAndReturned, Died DEF MedOwn
<1>3. PMTypeOK' /\ PortsExclusive'
  BY <1>1, <1>2, SamePool, PortsFewer DEF IInv
<1> QED BY <1>1, <1>2, <1>3, CommandKeeps

LEMMA MedStartKeeps ==
  ASSUME IInv, NEW c \in Calls, MedStart(c) PROVE IInv'
<1>1. /\ PMTypeOK /\ call \in [Calls -> CallFields] /\ call[c].actions # <<>>
      /\ EngineTyped' /\ UNCHANGED <<pmvars, data, job, sip, forgotten>>
  BY DEF IInv, Typed, MedStart, At
<1>2. /\ call' \in [Calls -> CallFields] /\ Keeps(c)
      /\ call'[c].localmedia = call[c].localmedia
      /\ \A d \in Calls \ {c} : call'[d] = call[d]
  BY <1>1, Returned, Failed DEF MedStart
<1>3. PMTypeOK' /\ PortsExclusive'
  BY <1>1, <1>2, SamePool, PortsFewer DEF IInv
<1> QED BY <1>1, <1>2, <1>3, CommandKeeps

\* The statements of stop(), before a port is let go.
LEMMA StopKeeps ==
  ASSUME IInv, NEW c \in Calls,
         StopTest(c) \/ StopTerminate(c) \/ StopForget(c) \/ StopDisown(c)
  PROVE  IInv'
<1>1. /\ Typed /\ PMTypeOK /\ call \in [Calls -> CallFields]
      /\ call[c].actions # <<>> /\ EngineTyped'
      /\ UNCHANGED <<pmvars, data, job, sip, forgotten>>
  BY DEF IInv, Typed, StopTest, StopTerminate, StopForget, StopDisown, Stopping, At
<1>2. \/ \E pc \in {"terminate", "forget", "disown", "free"} : call' = [call EXCEPT ![c].pc = pc]
      \/ call' = Dies(c)
  BY DEF StopTest, StopTerminate, StopForget, StopDisown
<1>3. /\ call' \in [Calls -> CallFields] /\ Keeps(c)
      /\ call'[c].localmedia = call[c].localmedia
      /\ \A d \in Calls \ {c} : call'[d] = call[d]
  BY <1>1, <1>2, Moved, Died DEF Lines
<1>4. PMTypeOK' /\ PortsExclusive'
  BY <1>1, <1>3, SamePool, PortsFewer DEF IInv
<1> QED BY <1>1, <1>3, <1>4, CommandKeeps

LEMMA FreeLsdpKeeps ==
  ASSUME IInv, NEW c \in Calls, FreeLsdp(c) PROVE IInv'
<1>1. /\ Typed /\ PMTypeOK /\ call \in [Calls -> CallFields] /\ call[c] \in CallFields
      /\ call[c].actions # <<>> /\ EngineTyped'
      /\ UNCHANGED <<data, job, sip, forgotten>>
  BY DEF IInv, Typed, FreeLsdp, Stopping, At
<1>2. CASE call[c].localmedia = None
  <2>1. call' = Dies(c) /\ UNCHANGED pmvars
    BY <1>2 DEF FreeLsdp
  <2>2. /\ call' \in [Calls -> CallFields] /\ Keeps(c)
        /\ call'[c].localmedia = call[c].localmedia
        /\ \A d \in Calls \ {c} : call'[d] = call[d]
    BY <1>1, <2>1, Died
  <2>3. PMTypeOK' /\ PortsExclusive'
    BY <1>1, <2>1, <2>2, SamePool, PortsFewer DEF IInv
  <2> QED BY <1>1, <2>2, <2>3, CommandKeeps
<1>3. CASE call[c].localmedia # None
  <2>1. /\ FreePort(call[c].localmedia)
        /\ call' = Return([call EXCEPT ![c].pc = "begin", ![c].localmedia = None], c)
    BY <1>3 DEF FreeLsdp
  <2>2. PICK g \in CallFields :
          /\ g = [call[c] EXCEPT !.pc = "begin", !.localmedia = None] /\ g.localmedia = None
          /\ g.actions = call[c].actions /\ g.state = call[c].state /\ g.cc = call[c].cc
    <3>1. [call[c] EXCEPT !.pc = "begin", !.localmedia = None] \in CallFields
      BY <1>1 DEF CallFields, Lines
    <3> QED BY <1>1, <3>1 DEF CallFields
  <2>3. call' = Return([call EXCEPT ![c] = g], c)
    BY <1>1, <2>1, <2>2
  <2>4. /\ call' \in [Calls -> CallFields] /\ Keeps(c) /\ call'[c].localmedia = None
        /\ \A d \in Calls \ {c} : call'[d] = call[d]
    BY <1>1, <2>2, <2>3, SetAndReturned DEF Keeps
  <2>5. PMTypeOK'
    BY <1>1, <2>1, ReleaseTyped
  <2>6. PortsExclusive'
    BY <1>1, <1>3, <2>1, <2>4, PortsRelease DEF IInv
  <2> QED BY <1>1, <2>4, <2>5, <2>6, CommandKeeps
<1> QED BY <1>2, <1>3

\* A call without a context makes no leg move.
LEMMA SipCommandKeeps ==
  ASSUME IInv, NEW c \in Calls, SipCommand(c) PROVE IInv'
<1>1. /\ Typed /\ Followed /\ PMTypeOK /\ call \in [Calls -> CallFields]
      /\ sip \in [Contexts -> LegFields]
      /\ call[c].actions # <<>> /\ call' = Return(call, c)
      /\ UNCHANGED <<pmvars, data, job, engine, forgotten>>
  BY DEF IInv, Typed, SipCommand, At
<1>0. PICK in : \E r \in React(Leg(c), in) : sip' = [sip EXCEPT ![call[c].cc].leg = r.to]
  BY DEF SipCommand, Request
<1>2. PICK r \in React(Leg(c), in) : sip' = [sip EXCEPT ![call[c].cc].leg = r.to]
  BY <1>0
<1>3. /\ call' \in [Calls -> CallFields] /\ Keeps(c)
      /\ call'[c].localmedia = call[c].localmedia
      /\ \A d \in Calls \ {c} : call'[d] = call[d]
  BY <1>1, Returned
<1>4. /\ sip' \in [Contexts -> LegFields]
      /\ \A x \in Contexts : sip'[x].made = sip[x].made
      /\ \A x \in Contexts : x # call[c].cc => sip'[x] = sip[x]
  <2>1. CASE call[c].cc \in Contexts
    <3>1. PICK x \in Contexts : x = call[c].cc
      BY <2>1
    <3>2. r.to \in LegStates
      BY <1>1, <1>2, <3>1, ReactLeg DEF Leg, LegFields
    <3>3. [sip[x] EXCEPT !.leg = r.to] \in LegFields
      BY <1>1, <3>2 DEF LegFields
    <3>4. sip' = [sip EXCEPT ![x] = [sip[x] EXCEPT !.leg = r.to]]
      BY <1>2, <3>1
    <3>5. sip'[x].made = sip[x].made
      BY <1>1, <3>4 DEF LegFields
    <3> QED BY <1>1, <3>1, <3>3, <3>4, <3>5
  <2>2. CASE call[c].cc \notin Contexts
    <3>1. sip' = sip
      BY <1>1, <1>2, <2>2
    <3> QED BY <1>1, <3>1
  <2> QED BY <2>1, <2>2
<1>5. Unlisted'
  BY <1>1, <1>3, Acting, UnlistedOther DEF Followed
<1>6. Followed'
  BY <1>1, <1>3, <1>4, <1>5, FollowedRequest DEF Keeps
<1>7. PMTypeOK' /\ PortsExclusive'
  BY <1>1, <1>3, SamePool, PortsFewer DEF IInv
<1>8. Typed'
  BY <1>1, <1>3, <1>4, <1>7 DEF Typed, AtWork
<1> QED BY <1>6, <1>7, <1>8 DEF IInv

LEMMA SipCallbackKeeps ==
  ASSUME IInv, NEW c \in Calls, SipCallback(c) PROVE IInv'
<1>1. /\ Typed /\ Followed /\ PMTypeOK /\ call \in [Calls -> CallFields]
      /\ call[c] \in CallFields /\ sip \in [Contexts -> LegFields]
      /\ call[c].actions # <<>> /\ EngineTyped'
      /\ UNCHANGED <<pmvars, data, job, engine>>
  BY DEF IInv, Typed, SipCallback, At
<1>2. ASSUME NEW x \in Contexts, CreateContext(x),
             call' = Return([call EXCEPT ![c].cc = x], c),
             forgotten' = forgotten \cup {call[c].cc}
      PROVE  IInv'
  <2>1. PICK g \in CallFields :
          /\ g = [call[c] EXCEPT !.cc = x] /\ g.cc = x
          /\ g.actions = call[c].actions /\ g.state = call[c].state
          /\ g.localmedia = call[c].localmedia
    <3>1. [call[c] EXCEPT !.cc = x] \in CallFields
      BY <1>1, FieldSet
    <3> QED BY <1>1, <3>1 DEF CallFields
  <2>2. call' = Return([call EXCEPT ![c] = g], c)
    BY <1>1, <1>2, <2>1
  <2>3. /\ call' \in [Calls -> CallFields]
        /\ call'[c].state = call[c].state /\ call'[c].cc = x
        /\ call'[c].localmedia = call[c].localmedia
        /\ \A d \in Calls \ {c} : call'[d] = call[d]
    BY <1>1, <2>1, <2>2, SetAndReturned
  <2>4. /\ sip' \in [Contexts -> LegFields] /\ ~sip[x].made /\ sip'[x].made = TRUE
        /\ \A y \in Contexts \ {x} : sip'[y] = sip[y]
    BY <1>1, <1>2 DEF CreateContext, LegFields
  <2>5. c \in data /\ call[c].state # "none"
    BY <1>1, Acting
  <2>6. Followed'
    BY <1>1, <1>2, <2>3, <2>4, <2>5, FollowedClaim
  <2>7. PMTypeOK' /\ PortsExclusive'
    BY <1>1, <2>3, SamePool, PortsFewer DEF IInv
  <2>8. Typed'
    BY <1>1, <2>3, <2>4, <2>7 DEF Typed, AtWork
  <2> QED BY <2>6, <2>7, <2>8 DEF IInv
<1>3. ASSUME call' = Fail(c), UNCHANGED <<sip, forgotten>> PROVE IInv'
  <2>1. /\ call' \in [Calls -> CallFields] /\ Keeps(c)
        /\ call'[c].localmedia = call[c].localmedia
        /\ \A d \in Calls \ {c} : call'[d] = call[d]
    BY <1>1, <1>3, Failed
  <2>2. PMTypeOK' /\ PortsExclusive'
    BY <1>1, <2>1, SamePool, PortsFewer DEF IInv
  <2> QED BY <1>1, <1>3, <2>1, <2>2, CommandKeeps
<1> QED BY <1>2, <1>3 DEF SipCallback

-----------------------------------------------------------------------------
LEMMA Start == Init => IInv
<1> SUFFICES ASSUME Init PROVE IInv
  OBVIOUS
<1>1. PMTypeOK
  <2>1. 0 \in 0 .. count /\ 0 % 2 = 0
    BY RangeEven
  <2> QED BY <2>1 DEF Init, PMInit, PMTypeOK
<1>2. \A c \in Calls : /\ call[c] \in CallFields /\ call[c].state = "none" /\ call[c].cc = None
                        /\ call[c].localmedia = None /\ call[c].actions = <<>>
                        /\ call[c].next_state = "idle"
  BY UnusedFields DEF Init, Unused
<1>3. call \in [Calls -> CallFields] /\ data = {} /\ EngineTyped
  BY <1>2 DEF Init
<1>4. /\ job \in [Workers -> JobFields] /\ \A w \in Workers : job[w].at = "done"
  BY DoneFits DEF Init
<1>5. /\ sip \in [Contexts -> LegFields]
      /\ \A x \in Contexts : sip[x].leg = "initial" /\ sip[x].made = FALSE
  BY LegStateNames DEF Init, LegFields, Media
<1>6. Typed
  BY <1>1, <1>3, <1>4, <1>5 DEF Typed, AtWork
<1>7. PortsExclusive
  BY <1>2 DEF PortsExclusive
<1>8. Followed
  <2>1. Unlisted /\ Blank /\ Kept /\ Single
    BY <1>2, <1>3 DEF Unlisted, Blank, Kept, Single
  <2>2. \A x \in Contexts : ~Claimed(x)
    BY <1>2, NoneApart DEF Claimed
  <2>3. Unmade /\ AskedOnce /\ AddsFirst
    BY <1>4, <1>5, <2>2 DEF Unmade, Working, AskedOnce, Notified, AddsFirst
  <2> QED BY <2>1, <2>3 DEF Followed
<1> QED BY <1>6, <1>7, <1>8 DEF IInv

LEMMA Stutter == IInv /\ UNCHANGED vars => IInv'
<1> SUFFICES ASSUME IInv, UNCHANGED vars PROVE IInv'
  OBVIOUS
<1>1. PMTypeOK' /\ UNCHANGED <<portbusy, call, data, engine, job, sip, forgotten>>
  BY SamePool DEF vars, pmvars, IInv, Typed
<1>2. Typed'
  BY <1>1 DEF IInv, Typed, AtWork
<1>3. PortsExclusive'
  BY <1>1, PortsFewer DEF IInv
<1>4. Unlisted'
  BY <1>1 DEF IInv, Followed, Unlisted
<1>5. Followed'
  BY <1>1, <1>4, FollowedWork DEF IInv, Keeps
<1> QED BY <1>2, <1>3, <1>5 DEF IInv

LEMMA Step == IInv /\ [Next]_vars => IInv'
<1> SUFFICES ASSUME IInv, [Next]_vars PROVE IInv'
  OBVIOUS
<1>1. ASSUME NEW c \in Calls, IssueCall(c) \/ Click(c) PROVE IInv'
  BY <1>1, IssueCallKeeps, ClickKeeps
<1>2. ASSUME NEW c \in Calls, Execute(c) PROVE IInv'
  BY <1>2, MedLsdpKeeps, MedAvlKeeps, MedOwnKeeps, MedStartKeeps, StopKeeps, FreeLsdpKeeps,
     SipCommandKeeps, SipCallbackKeeps DEF Execute, MedStop
<1>3. ASSUME NEW c \in Calls, Drain(c) PROVE IInv'
  BY <1>2, <1>3, TriggerKeeps, SetStateKeeps DEF Drain
<1>4. ASSUME NEW w \in Workers, Work(w) PROVE IInv'
  BY <1>4, FindKeeps, AddKeeps, DescribeKeeps, SendEventKeeps DEF Work
<1> QED BY <1>1, <1>3, <1>4, ReceiveKeeps, Stutter DEF Next

LEMMA Enough == IInv => TypeOK /\ PortsExclusive /\ OneCallPerContext
<1> SUFFICES ASSUME IInv PROVE TypeOK /\ OneCallPerContext
  BY DEF IInv
<1>1. PMTypeOK /\ data \in SUBSET Calls /\ EngineTyped
  BY DEF IInv, Typed
<1>2. \A c \in Calls : call[c] \in CallFields
  BY DEF IInv, Typed
<1>3. \A w \in Workers : job[w].at \in {"done", "find", "add", "media", "post"}
  BY DEF IInv, Typed, JobFields
<1>4. \A x \in Contexts : sip[x].leg \in LegStates /\ sip[x].sdp \in Media
  BY DEF IInv, Typed, LegFields
<1>5. TypeOK
  BY <1>1, <1>2, <1>3, <1>4 DEF TypeOK, CallFields, Ports, Lines
<1>6. OneCallPerContext
  BY <1>1 DEF IInv, Followed, Single, OneCallPerContext
<1> QED BY <1>5, <1>6

\* The fields of the calls and the sets hold what their declarations in Call,
\* CallCenter, MediaControl and CallLeg allow.
THEOREM TypeCorrect == Spec => []TypeOK
<1>1. IInv => TypeOK
  BY Enough
<1> QED BY Start, Step, <1>1, PTL DEF Spec

\* No two calls ever announce the same RTP port, and an announced port stays reserved,
\* for any number of calls, however they start, fail and stop (Call.getLSDP, freeLSDP).
THEOREM PortsKept == Spec => []PortsExclusive
<1>1. IInv => PortsExclusive
  BY Enough
<1> QED BY Start, Step, <1>1, PTL DEF Spec

\* For any number of EventWorkers, no CallContext is listed for two calls as long as no
\* call gave it up (CallCenter.EventWorker): although findCallContext and add are two
\* steps, a leg asks for its first call only once.
THEOREM ContextsFollowed == Spec => []OneCallPerContext
<1>1. IInv => OneCallPerContext
  BY Enough
<1> QED BY Start, Step, <1>1, PTL DEF Spec

-----------------------------------------------------------------------------
(***************************************************************************)
(* The engine, as long as no call asks for it again with an answer still   *)
(* in its queue.                                                           *)
(***************************************************************************)
\* What a sequence holds, and what comes before what in it.
Has(q, e) == \E i \in 1 .. Len(q) : q[i] = e
Before(q, e, f) == \E i, j \in 1 .. Len(q) : i < j /\ q[i] = e /\ q[j] = f

\* Every f of q has an e before it.
Covered(q, e, f) ==
  \A j \in 1 .. Len(q) : q[j] = f => \E i \in 1 .. Len(q) : i < j /\ q[i] = e

AtMostOnce(q, e) == \A i, j \in 1 .. Len(q) : q[i] = e /\ q[j] = e => i = j

\* The engine has answered, and the call has not handled it.
HasAnswer(q) == Has(q, "MED_AVL") \/ Has(q, "MED_UNAVL")

\* The state a call is in, or will be when its actions are done.
Heading(g) == IF g.next_state \in {"idle", "same"} THEN g.state ELSE g.next_state

\* What the state table says of the actions under way.
Tabled(g) ==
  /\ g.next_state # "dead"
  /\ g.next_state = "idle" => g.actions = <<>>
  /\ Has(g.actions, "MED_STOP") =>
       /\ g.state = "ACTIVE" /\ AtMostOnce(g.actions, "MED_STOP")
       /\ Heading(g) \in {"MUTING", "INACTIVE", "ERROR", "DELETE"}
  /\ Has(g.actions, "MED_AVL") =>
       /\ g.next_state = "same" /\ ~Has(g.actions, "MED_LSDP")
       /\ g.state \in {"CALLING", "RINGING"}
  /\ g.next_state = "CALLING" => g.state \in {"INACTIVE", "MISSED"}
  /\ g.next_state = "RINGING" => g.state = "INACTIVE"
  /\ g.next_state = "MISSED" => g.state = "RINGING"
  /\ g.state = "MISSED" => g.next_state \in {"idle", "same", "CALLING", "DELETE", "ERROR"}

\* Where a call is inside isAvailable and stop.
Placed(g) ==
  /\ g.pc = "own" => /\ g.actions # <<>> /\ Head(g.actions) = "MED_AVL"
                     /\ ~HasAnswer(g.evq)
  /\ g.pc \in {"terminate", "forget", "disown", "free"} =>
       g.actions # <<>> /\ Head(g.actions) = "MED_STOP"

\* A call that is, or will be, active has the engine (own) and a port; so has one that
\* is about to stop it.  It has the engine while it makes it its own, when it has been
\* told so, and as long as it is the owner (title), but for the moment within stop.
Holding(g, own, title) ==
  /\ Heading(g) = "ACTIVE" \/ Has(g.actions, "MED_STOP") => g.localmedia # None
  /\ Heading(g) = "ACTIVE" \/ g.pc = "own" \/ Has(g.evq, "MED_AVL") => own
  /\ Has(g.actions, "MED_STOP") /\ g.pc \in {"begin", "terminate", "forget"} => own
  /\ title => own \/ g.pc = "disown"

\* The states in which an answer of the engine may be left in the queue: it comes in time
\* or it will not be heeded.
Waiting == {"CALLING", "RINGING", "MISSED", "ERROR", "DELETE"}

Answering(g) ==
  /\ AtMostOnce(g.evq, "MED_AVL") /\ AtMostOnce(g.evq, "MED_UNAVL")
  /\ ~(Has(g.evq, "MED_AVL") /\ Has(g.evq, "MED_UNAVL"))
  /\ HasAnswer(g.evq) => g.state \in Waiting /\ Heading(g) \in Waiting

\* A call that is called back has no answer left from the time it was ringing.
Returning == {"MISSED", "CALLING", "ERROR", "DELETE"}

CallingBack(g) ==
  /\ Has(g.evq, "GUI_CALLBACK") => g.state \in Returning /\ Heading(g) \in Returning
  /\ \A a \in Answers : /\ g.state = "MISSED" => ~Before(g.evq, "GUI_CALLBACK", a)
                        /\ g.state = "CALLING" => ~Before(g.evq, a, "GUI_CALLBACK")
  /\ g.state = "MISSED" /\ g.next_state = "CALLING" => ~HasAnswer(g.evq)

\* The port was allocated, or the error that says it was not comes first.
Allocated(g) ==
  /\ g.state \in {"CALLING", "RINGING", "MISSED"} /\ g.next_state \notin {"ERROR", "DELETE"} =>
       \/ g.localmedia # None
       \/ /\ Has(g.evq, "GEN_ERROR") /\ Covered(g.evq, "GEN_ERROR", "MED_AVL")
          /\ Covered(g.evq, "GEN_ERROR", "GUI_CALLBACK")
  /\ g.state = "INACTIVE" /\ g.next_state \in {"CALLING", "RINGING"} =>
       Has(g.actions, "MED_LSDP") \/ g.localmedia # None \/ Has(g.evq, "GEN_ERROR")

Engine(g, own, title) ==
  /\ Tabled(g) /\ Placed(g) /\ Holding(g, own, title)
  /\ Answering(g) /\ CallingBack(g) /\ Allocated(g)

EachEngine == \A c \in Calls : Engine(call[c], rat = c, owner = c)

EngineInv == repeated = {} => EachEngine

-----------------------------------------------------------------------------
LEMMA HasNone == ASSUME NEW e PROVE ~Has(<<>>, e)
  BY DEF Has

LEMMA HasAppend ==
  ASSUME NEW S, NEW q \in Seq(S), NEW e \in S, NEW x
  PROVE  Has(Append(q, e), x) <=> Has(q, x) \/ e = x
<1>1. /\ Len(Append(q, e)) = Len(q) + 1 /\ Append(q, e)[Len(q) + 1] = e
      /\ \A i \in 1 .. Len(q) : Append(q, e)[i] = q[i]
  BY AppendProperties
<1>2. Len(q) \in Nat
  OBVIOUS
<1> QED BY <1>1, <1>2 DEF Has

LEMMA HasTail ==
  ASSUME NEW S, NEW q \in Seq(S), q # <<>>, NEW x
  PROVE  Has(q, x) <=> Head(q) = x \/ Has(Tail(q), x)
<1>1. /\ Len(q) \in Nat /\ Len(q) >= 1 /\ Len(Tail(q)) = Len(q) - 1 /\ Head(q) = q[1]
      /\ \A i \in 1 .. Len(q) - 1 : Tail(q)[i] = q[i + 1]
  BY HeadTailProperties
<1>2. ASSUME NEW i \in 1 .. Len(q), q[i] = x, i # 1 PROVE Has(Tail(q), x)
  <2>1. i - 1 \in 1 .. Len(q) - 1 /\ (i - 1) + 1 = i
    BY <1>1, <1>2
  <2> QED BY <1>1, <1>2, <2>1 DEF Has
<1>3. ASSUME NEW i \in 1 .. Len(q) - 1, Tail(q)[i] = x PROVE Has(q, x)
  <2>1. i + 1 \in 1 .. Len(q)
    BY <1>1, <1>3
  <2> QED BY <1>1, <1>3, <2>1 DEF Has
<1>4. Has(q, x) => Head(q) = x \/ Has(Tail(q), x)
  BY <1>1, <1>2 DEF Has
<1>5. Head(q) = x => Has(q, x)
  BY <1>1 DEF Has
<1>6. Has(Tail(q), x) => Has(q, x)
  BY <1>1, <1>3 DEF Has
<1> QED BY <1>4, <1>5, <1>6

LEMMA BeforeAppend ==
  ASSUME NEW S, NEW q \in Seq(S), NEW e \in S, NEW x, NEW y
  PROVE  Before(Append(q, e), x, y) <=> Before(q, x, y) \/ (e = y /\ Has(q, x))
<1>1. /\ Len(Append(q, e)) = Len(q) + 1 /\ Append(q, e)[Len(q) + 1] = e
      /\ \A i \in 1 .. Len(q) : Append(q, e)[i] = q[i]
  BY AppendProperties
<1>2. Len(q) \in Nat
  OBVIOUS
<1> QED BY <1>1, <1>2 DEF Has, Before

LEMMA BeforeTail ==
  ASSUME NEW S, NEW q \in Seq(S), q # <<>>, NEW x, NEW y
  PROVE  Before(q, x, y) <=> Before(Tail(q), x, y) \/ (Head(q) = x /\ Has(Tail(q), y))
<1>1. /\ Len(q) \in Nat /\ Len(q) >= 1 /\ Len(Tail(q)) = Len(q) - 1 /\ Head(q) = q[1]
      /\ \A i \in 1 .. Len(q) - 1 : Tail(q)[i] = q[i + 1]
  BY HeadTailProperties
<1>2. ASSUME NEW i \in 1 .. Len(q), i # 1
      PROVE  i - 1 \in 1 .. Len(Tail(q)) /\ Tail(q)[i - 1] = q[i]
  <2>1. i - 1 \in 1 .. Len(q) - 1 /\ (i - 1) + 1 = i
    BY <1>1, <1>2
  <2> QED BY <1>1, <2>1
<1>3. ASSUME NEW i \in 1 .. Len(Tail(q))
      PROVE  i + 1 \in 1 .. Len(q) /\ Tail(q)[i] = q[i + 1] /\ 1 < i + 1
  BY <1>1, <1>3
<1>4. ASSUME NEW i \in 1 .. Len(q), NEW j \in 1 .. Len(q), i < j, q[i] = x, q[j] = y
      PROVE  Before(Tail(q), x, y) \/ (Head(q) = x /\ Has(Tail(q), y))
  <2>1. j # 1 /\ j \in Nat /\ i \in Nat /\ i >= 1
    BY <1>1, <1>4
  <2>2. j - 1 \in 1 .. Len(Tail(q)) /\ Tail(q)[j - 1] = y
    BY <1>2, <1>4, <2>1
  <2>3. CASE i = 1
    BY <1>1, <1>4, <2>2, <2>3 DEF Has
  <2>4. CASE i # 1
    <3>1. i - 1 \in 1 .. Len(Tail(q)) /\ Tail(q)[i - 1] = x /\ i - 1 < j - 1
      BY <1>2, <1>4, <2>1, <2>4
    <3> QED BY <2>2, <3>1 DEF Before
  <2> QED BY <2>3, <2>4
<1>5. ASSUME NEW i \in 1 .. Len(Tail(q)), NEW j \in 1 .. Len(Tail(q)), i < j,
             Tail(q)[i] = x, Tail(q)[j] = y
      PROVE  Before(q, x, y)
  <2>1. i + 1 \in 1 .. Len(q) /\ j + 1 \in 1 .. Len(q) /\ q[i + 1] = x /\ q[j + 1] = y
    BY <1>3, <1>5
  <2>2. i + 1 < j + 1
    BY <1>1, <1>5
  <2> QED BY <2>1, <2>2 DEF Before
<1>6. ASSUME NEW j \in 1 .. Len(Tail(q)), Tail(q)[j] = y, Head(q) = x PROVE Before(q, x, y)
  <2>1. j + 1 \in 1 .. Len(q) /\ q[j + 1] = y /\ 1 < j + 1 /\ 1 \in 1 .. Len(q) /\ q[1] = x
    BY <1>1, <1>3, <1>6
  <2> QED BY <2>1 DEF Before
<1>7. Before(q, x, y) => Before(Tail(q), x, y) \/ (Head(q) = x /\ Has(Tail(q), y))
  BY <1>4 DEF Before
<1>8. Before(Tail(q), x, y) => Before(q, x, y)
  BY <1>5 DEF Before
<1>9. Head(q) = x /\ Has(Tail(q), y) => Before(q, x, y)
  BY <1>6 DEF Has
<1> QED BY <1>7, <1>8, <1>9

LEMMA CoveredAppend ==
  ASSUME NEW S, NEW q \in Seq(S), NEW e \in S, NEW x, NEW y
  PROVE  Covered(Append(q, e), x, y) <=> Covered(q, x, y) /\ (e = y => Has(q, x))
<1>1. /\ Len(Append(q, e)) = Len(q) + 1 /\ Append(q, e)[Len(q) + 1] = e
      /\ \A i \in 1 .. Len(q) : Append(q, e)[i] = q[i]
  BY AppendProperties
<1>2. Len(q) \in Nat
  OBVIOUS
<1>3. Covered(Append(q, e), x, y) => Covered(q, x, y)
  BY <1>1, <1>2 DEF Covered
<1>4. Covered(Append(q, e), x, y) /\ e = y => Has(q, x)
  BY <1>1, <1>2 DEF Covered, Has
<1>5. Covered(q, x, y) /\ (e = y => Has(q, x)) => Covered(Append(q, e), x, y)
  BY <1>1, <1>2 DEF Covered, Has
<1> QED BY <1>3, <1>4, <1>5

\* What is covered is not first; and it stays covered when something else is taken.
LEMMA CoveredTail ==
  ASSUME NEW S, NEW q \in Seq(S), q # <<>>, NEW x, NEW y, Covered(q, x, y)
  PROVE  Head(q) # y /\ (Head(q) # x => Covered(Tail(q), x, y))
<1>1. /\ Len(q) \in Nat /\ Len(q) >= 1 /\ Len(Tail(q)) = Len(q) - 1 /\ Head(q) = q[1]
      /\ \A i \in 1 .. Len(q) - 1 : Tail(q)[i] = q[i + 1]
  BY HeadTailProperties
<1>2. Head(q) # y
  <2> SUFFICES ASSUME q[1] = y PROVE FALSE
    BY <1>1
  <2>1. PICK i \in 1 .. Len(q) : i < 1 /\ q[i] = x
    BY <1>1 DEF Covered
  <2> QED BY <1>1, <2>1
<1>3. ASSUME Head(q) # x, NEW j \in 1 .. Len(Tail(q)), Tail(q)[j] = y
      PROVE  \E i \in 1 .. Len(Tail(q)) : i < j /\ Tail(q)[i] = x
  <2>1. j + 1 \in 1 .. Len(q) /\ q[j + 1] = y /\ j \in Nat
    BY <1>1, <1>3
  <2>2. PICK i \in 1 .. Len(q) : i < j + 1 /\ q[i] = x
    BY <2>1 DEF Covered
  <2>3. i # 1
    BY <1>1, <1>3, <2>2
  <2>4. i - 1 \in 1 .. Len(Tail(q)) /\ i - 1 < j /\ (i - 1) + 1 = i /\ i - 1 \in 1 .. Len(q) - 1
    BY <1>1, <2>1, <2>2, <2>3
  <2>5. Tail(q)[i - 1] = x
    BY <1>1, <2>2, <2>4
  <2> QED BY <2>4, <2>5
<1> QED BY <1>2, <1>3 DEF Covered

LEMMA OnceTail ==
  ASSUME NEW S, NEW q \in Seq(S), q # <<>>, NEW x, AtMostOnce(q, x)
  PROVE  AtMostOnce(Tail(q), x) /\ (Head(q) = x => ~Has(Tail(q), x))
<1>1. /\ Len(q) \in Nat /\ Len(q) >= 1 /\ Len(Tail(q)) = Len(q) - 1 /\ Head(q) = q[1]
      /\ \A i \in 1 .. Len(q) - 1 : Tail(q)[i] = q[i + 1]
  BY HeadTailProperties
<1>2. ASSUME NEW i \in 1 .. Len(Tail(q)), Tail(q)[i] = x
      PROVE  i + 1 \in 1 .. Len(q) /\ q[i + 1] = x /\ i + 1 # 1
  BY <1>1, <1>2
<1>3. AtMostOnce(Tail(q), x)
  BY <1>1, <1>2 DEF AtMostOnce
<1>4. Head(q) = x => ~Has(Tail(q), x)
  <2> SUFFICES ASSUME q[1] = x, NEW i \in 1 .. Len(Tail(q)), Tail(q)[i] = x PROVE FALSE
    BY <1>1 DEF Has
  <2>1. 1 \in 1 .. Len(q)
    BY <1>1
  <2> QED BY <1>2, <2>1 DEF AtMostOnce
<1> QED BY <1>3, <1>4

-----------------------------------------------------------------------------
(* What the state table does with event e in state s: next state n, actions a. *)

Ruled(s, e, n, a) ==
  /\ n \in States \cup {"same"}
  /\ s \in {"none", "DELETE", "ERROR"} => n \in {"same", "DELETE", "ERROR"}
  /\ n = "ACTIVE" => e = "MED_AVL" /\ s \in {"CALLING", "RINGING"}
  /\ n \in {"CALLING", "RINGING"} => Has(a, "MED_LSDP")
  /\ Has(a, "MED_STOP") => /\ s = "ACTIVE" /\ AtMostOnce(a, "MED_STOP")
                           /\ n \in {"MUTING", "INACTIVE", "ERROR", "DELETE"}
  /\ Has(a, "MED_AVL") => /\ n = "same" /\ ~Has(a, "MED_LSDP")
                          /\ s \in {"CALLING", "RINGING"}
  /\ n = "RINGING" => s = "INACTIVE"
  /\ n = "CALLING" => s = "INACTIVE" \/ (s = "MISSED" /\ e = "GUI_CALLBACK")
  /\ n = "MISSED" => s = "RINGING"
  /\ n = "INACTIVE" => \/ s \in {"CALLING", "RINGING"} /\ e = "MED_UNAVL"
                      \/ s \in {"ACTIVE", "MUTING"}
  /\ n = "MUTING" => s = "ACTIVE"
  /\ s = "MISSED" => n \in {"same", "CALLING", "DELETE", "ERROR"}
  /\ e = "GEN_ERROR" /\ s \in States => n = "ERROR"

StopLists == {<<"SIP_MUTE", "MED_STOP">>, <<"SIP_ACCEPT", "MED_STOP">>,
              <<"MED_STOP", "SIP_HANGUP">>, <<"MED_STOP">>}
Asking    == {<<"MED_AVL">>, <<"SIP_ACCEPT", "MED_AVL">>}
Listening == {<<"MED_LSDP">>, <<"MED_LSDP", "SIP_ACCEPT">>, <<"MED_LSDP", "SIP_INVITE">>,
              <<"SIP_CALLBACK", "MED_LSDP", "SIP_INVITE">>}

LEMMA HasOne == ASSUME NEW a, NEW x PROVE Has(<<a>>, x) <=> a = x
  BY DEF Has

LEMMA HasTwo == ASSUME NEW a, NEW b, NEW x PROVE Has(<<a, b>>, x) <=> a = x \/ b = x
<1>1. Len(<<a, b>>) = 2 /\ 1 .. 2 = {1, 2} /\ <<a, b>>[1] = a /\ <<a, b>>[2] = b
  OBVIOUS
<1> QED BY <1>1 DEF Has

LEMMA HasThree ==
  ASSUME NEW a, NEW b, NEW c, NEW x PROVE Has(<<a, b, c>>, x) <=> a = x \/ b = x \/ c = x
<1>1. /\ Len(<<a, b, c>>) = 3 /\ 1 .. 3 = {1, 2, 3} 
      /\ <<a, b, c>>[1] = a /\ <<a, b, c>>[2] = b /\ <<a, b, c>>[3] = c
  OBVIOUS
<1> QED BY <1>1 DEF Has

LEMMA ListActions ==
  ASSUME NEW a \in One \cup Two \cup More
  PROVE  /\ Has(a, "MED_STOP") => a \in StopLists
         /\ Has(a, "MED_AVL") => a \in Asking
         /\ Has(a, "MED_LSDP") <=> a \in Listening
<1>1. ASSUME NEW x \in One
      PROVE  /\ Has(x, "MED_STOP") => x \in StopLists
             /\ Has(x, "MED_AVL") => x \in Asking
             /\ Has(x, "MED_LSDP") <=> x \in Listening
  BY HasOne DEF One, StopLists, Asking, Listening
<1>2. ASSUME NEW x \in Two
      PROVE  /\ Has(x, "MED_STOP") => x \in StopLists
             /\ Has(x, "MED_AVL") => x \in Asking
             /\ Has(x, "MED_LSDP") <=> x \in Listening
  BY HasTwo DEF Two, StopLists, Asking, Listening
<1>3. ASSUME NEW x \in More
      PROVE  /\ Has(x, "MED_STOP") => x \in StopLists
             /\ Has(x, "MED_AVL") => x \in Asking
             /\ Has(x, "MED_LSDP") <=> x \in Listening
  BY HasNone, HasThree DEF More, StopLists, Asking, Listening
<1> QED BY <1>1, <1>2, <1>3

LEMMA StopsOnce == ASSUME NEW a \in StopLists PROVE AtMostOnce(a, "MED_STOP")
<1>1. a = <<"MED_STOP">> => AtMostOnce(a, "MED_STOP")
  BY DEF AtMostOnce
<1>2. ASSUME NEW x, NEW y, x # y PROVE AtMostOnce(<<x, y>>, "MED_STOP")
  BY <1>2 DEF AtMostOnce
<1> QED BY <1>1, <1>2 DEF StopLists

LEMMA RowRuled ==
  ASSUME NEW row \in StateTable PROVE Ruled(row[1], row[2], row[3], row[4])
<1>1. row[3] \in States \cup {"same"} /\ row[4] \in One \cup Two \cup More
  <2>1. row[4] \in One \cup Two \cup More
    BY SMTT(60) DEF StateTable, One, Two, More
  <2> QED BY <2>1, TableTyped
<1>2. /\ row[1] \in {"none", "DELETE", "ERROR"} => row[3] \in {"same", "DELETE", "ERROR"}
      /\ row[3] = "ACTIVE" => row[2] = "MED_AVL" /\ row[1] \in {"CALLING", "RINGING"}
  BY SMTT(60) DEF StateTable, States
<1>3. row[3] \in {"CALLING", "RINGING"} => row[4] \in Listening
  BY SMTT(60) DEF StateTable, Listening
<1>4. row[4] \in StopLists =>
         row[1] = "ACTIVE" /\ row[3] \in {"MUTING", "INACTIVE", "ERROR", "DELETE"}
  BY SMTT(60) DEF StateTable, StopLists
<1>5. row[4] \in Asking => /\ row[3] = "same" /\ row[4] \notin Listening
                           /\ row[1] \in {"CALLING", "RINGING"}
  <2>1. row[4] \in Asking => row[4] \notin Listening
    BY DEF Asking, Listening
  <2>2. row[4] \in Asking => row[3] = "same" /\ row[1] \in {"CALLING", "RINGING"}
    BY SMTT(60) DEF StateTable, Asking
  <2> QED BY <2>1, <2>2
<1>6. /\ row[3] = "RINGING" => row[1] = "INACTIVE"
      /\ row[3] = "CALLING" => row[1] = "INACTIVE" \/ (row[1] = "MISSED" /\ row[2] = "GUI_CALLBACK")
      /\ row[3] = "MISSED" => row[1] = "RINGING"
  BY SMTT(60) DEF StateTable
<1>7. /\ row[3] = "INACTIVE" => \/ row[1] \in {"CALLING", "RINGING"} /\ row[2] = "MED_UNAVL"
                                \/ row[1] \in {"ACTIVE", "MUTING"}
      /\ row[3] = "MUTING" => row[1] = "ACTIVE"
  <2>1. row[3] = "INACTIVE" => \/ row[1] \in {"CALLING", "RINGING"} /\ row[2] = "MED_UNAVL"
                              \/ row[1] \in {"ACTIVE", "MUTING"}
    BY SMTT(60) DEF StateTable
  <2>2. row[3] = "MUTING" => row[1] = "ACTIVE"
    BY SMTT(60) DEF StateTable
  <2> QED BY <2>1, <2>2
<1>8. /\ row[1] = "MISSED" => row[3] \in {"same", "CALLING", "DELETE", "ERROR"}
      /\ row[2] = "GEN_ERROR" => row[3] = "ERROR"
  <2>1. row[1] = "MISSED" => row[3] \in {"same", "CALLING", "DELETE", "ERROR"}
    BY SMTT(60) DEF StateTable
  <2>2. row[2] = "GEN_ERROR" => row[3] = "ERROR"
    BY SMTT(60) DEF StateTable
  <2> QED BY <2>1, <2>2
<1>9. /\ Has(row[4], "MED_STOP") => row[4] \in StopLists
      /\ Has(row[4], "MED_AVL") => row[4] \in Asking
      /\ Has(row[4], "MED_LSDP") <=> row[4] \in Listening
  BY <1>1, ListActions
<1>10. Has(row[4], "MED_STOP") => AtMostOnce(row[4], "MED_STOP")
  BY <1>9, StopsOnce
<1> QED BY <1>1, <1>2, <1>3, <1>4, <1>5, <1>6, <1>7, <1>8, <1>9, <1>10 DEF Ruled

LEMMA EntryRuled ==
  ASSUME NEW s, NEW e PROVE Ruled(s, e, Entry(s, e)[3], Entry(s, e)[4])
<1> DEFINE set == {row \in StateTable : row[1] = s /\ row[2] = e}
<1>1. CASE set = {}
  <2>1. Entry(s, e)[3] = "same" /\ Entry(s, e)[4] = <<>>
    <3>1. Entry(s, e) = <<s, e, "same", <<>>>>
      BY <1>1 DEF Entry
    <3> QED BY <3>1
  <2>2. ~(e = "GEN_ERROR" /\ s \in States)
    <3> SUFFICES ASSUME e = "GEN_ERROR", s \in States PROVE FALSE
      OBVIOUS
    <3>1. <<s, "GEN_ERROR", "ERROR", <<>>>> \in StateTable
      BY DEF StateTable
    <3>2. <<s, "GEN_ERROR", "ERROR", <<>>>> \in set
      BY <3>1
    <3> QED BY <1>1, <3>2
  <2>3. \A x : ~Has(Entry(s, e)[4], x)
    BY <2>1, HasNone
  <2> QED BY <2>1, <2>2, <2>3 DEF Ruled
<1>2. CASE set # {}
  <2>1. Entry(s, e) \in set
    BY <1>2 DEF Entry
  <2> QED BY <2>1, RowRuled
<1> QED BY <1>1, <1>2

-----------------------------------------------------------------------------
(* What each step does to one call. *)

LEMMA BeforeHas ==
  ASSUME NEW q, NEW x, NEW y
  PROVE  /\ Before(q, x, y) => Has(q, x) /\ Has(q, y)
         /\ ~Has(q, y) => Covered(q, x, y)
  BY DEF Before, Has, Covered

LEMMA OnceAppend ==
  ASSUME NEW S, NEW q \in Seq(S), NEW e \in S, NEW x, AtMostOnce(q, x), e = x => ~Has(q, x)
  PROVE  AtMostOnce(Append(q, e), x)
<1>1. /\ Len(Append(q, e)) = Len(q) + 1 /\ Append(q, e)[Len(q) + 1] = e
      /\ \A i \in 1 .. Len(q) : Append(q, e)[i] = q[i]
  BY AppendProperties
<1>2. Len(q) \in Nat
  OBVIOUS
<1> QED BY <1>1, <1>2 DEF Has, AtMostOnce

\* The fields that Engine is about, apart from the events, the actions and the place.
Alike(g, h) == /\ h.state = g.state /\ h.next_state = g.next_state
               /\ h.localmedia = g.localmedia

\* Another call lets the engine go.
LEMMA EngineWeaker ==
  ASSUME NEW g, NEW own \in BOOLEAN, NEW own2 \in BOOLEAN, NEW title \in BOOLEAN,
         NEW title2 \in BOOLEAN, Engine(g, own, title), own => own2, title2 => title
  PROVE  Engine(g, own2, title2)
<1>1. Holding(g, own2, title2)
  BY DEF Engine, Holding
<1> QED BY <1>1 DEF Engine

\* A call with no actions is at no place within isAvailable or stop.
LEMMA NowhereIdle ==
  ASSUME NEW g \in CallFields, Placed(g),
         g.actions = <<>> \/ Head(g.actions) \notin {"MED_AVL", "MED_STOP"}
  PROVE  g.pc = "begin"
  BY DEF CallFields, Lines, Placed

\* An event is put in the queue: not an answer of the engine, and the wish to call back
\* only where there is a button for it.
LEMMA EnginePosted ==
  ASSUME NEW g \in CallFields, NEW h, NEW e \in Events \ Answers, NEW own \in BOOLEAN,
         NEW title \in BOOLEAN, Engine(g, own, title), e = "GUI_CALLBACK" => g.state = "MISSED",
         Alike(g, h), h.pc = g.pc, h.actions = g.actions, h.evq = Append(g.evq, e)
  PROVE  Engine(h, own, title)
<1>1. g.evq \in Seq(Events) /\ Heading(h) = Heading(g) /\ e \notin {"MED_AVL", "MED_UNAVL"}
  BY DEF CallFields, Heading, Alike, Answers
<1>2. \A x : Has(h.evq, x) <=> Has(g.evq, x) \/ e = x
  BY <1>1, HasAppend
<1>3. HasAnswer(h.evq) <=> HasAnswer(g.evq)
  BY <1>1, <1>2 DEF HasAnswer
<1>4. \A x, y : Before(h.evq, x, y) <=> Before(g.evq, x, y) \/ (e = y /\ Has(g.evq, x))
  BY <1>1, BeforeAppend
<1>5. \A x, y : Covered(h.evq, x, y) <=> Covered(g.evq, x, y) /\ (e = y => Has(g.evq, x))
  BY <1>1, CoveredAppend
<1>6. Tabled(h) /\ Placed(h)
  BY <1>1, <1>3 DEF Engine, Tabled, Placed, Alike
<1>7. Holding(h, own, title)
  BY <1>1, <1>2 DEF Engine, Holding, Alike
<1>8. Answering(h)
  <2>1. AtMostOnce(g.evq, "MED_AVL") /\ AtMostOnce(g.evq, "MED_UNAVL")
    BY DEF Engine, Answering
  <2>2. AtMostOnce(h.evq, "MED_AVL") /\ AtMostOnce(h.evq, "MED_UNAVL")
    BY <1>1, <2>1, OnceAppend
  <2> QED BY <1>1, <1>2, <1>3, <2>2 DEF Engine, Answering, Alike
<1>9. CallingBack(h)
  <2>1. Has(h.evq, "GUI_CALLBACK") => g.state \in Returning /\ Heading(g) \in Returning
    <3>1. CASE e = "GUI_CALLBACK"
      BY <3>1 DEF Engine, Tabled, Heading, Returning
    <3>2. CASE e # "GUI_CALLBACK"
      BY <1>2, <3>2 DEF Engine, CallingBack
    <3> QED BY <3>1, <3>2
  <2>2. \A a \in Answers : /\ g.state = "MISSED" => ~Before(h.evq, "GUI_CALLBACK", a)
                           /\ g.state = "CALLING" => ~Before(h.evq, a, "GUI_CALLBACK")
    BY <1>4 DEF Engine, CallingBack
  <2> QED BY <1>1, <1>3, <2>1, <2>2 DEF Engine, CallingBack, Alike
<1>10. Allocated(h)
  BY <1>1, <1>2, <1>5 DEF Engine, Allocated, Alike
<1> QED BY <1>6, <1>7, <1>8, <1>9, <1>10 DEF Engine

\* An event is taken off the queue and looked up in the table.
LEMMA EngineTriggered ==
  ASSUME NEW g \in CallFields, NEW h, NEW own \in BOOLEAN, NEW title \in BOOLEAN,
         Engine(g, own, title), g.next_state = "idle", g.evq # <<>>,
         Ruled(g.state, Head(g.evq), h.next_state, h.actions),
         h.state = g.state, h.localmedia = g.localmedia, h.pc = g.pc, h.evq = Tail(g.evq)
  PROVE  Engine(h, own, title)
<1>0. PICK e : e = Head(g.evq)
  OBVIOUS
<1>1. g.evq \in Seq(Events) /\ Heading(g) = g.state /\ g.actions = <<>> /\ g.pc = "begin"
      /\ g.state \in States \cup {"none"}
  BY NowhereIdle DEF CallFields, Heading, Engine, Tabled
<1>2. \A x : Has(g.evq, x) <=> e = x \/ Has(h.evq, x)
  BY <1>0, <1>1, HasTail
<1>3. \A x, y : Before(g.evq, x, y) <=> Before(h.evq, x, y) \/ (e = x /\ Has(h.evq, y))
  BY <1>0, <1>1, BeforeTail
<1>4. \A y : Covered(g.evq, "GEN_ERROR", y) =>
               e # y /\ (e # "GEN_ERROR" => Covered(h.evq, "GEN_ERROR", y))
  BY <1>0, <1>1, CoveredTail
<1>5. Ruled(g.state, e, h.next_state, h.actions)
  BY <1>0
<1>6. /\ h.next_state = "same" => Heading(h) = g.state
      /\ h.next_state # "same" => Heading(h) = h.next_state
      /\ h.next_state \notin {"idle", "dead"}
  BY <1>1, <1>5 DEF Heading, Ruled, States
<1>7. \A x \in Answers : AtMostOnce(g.evq, x) =>
         AtMostOnce(h.evq, x) /\ (e = x => ~Has(h.evq, x))
  BY <1>0, <1>1, OnceTail
<1>8. Tabled(h) /\ Placed(h)
  BY <1>1, <1>5, <1>6 DEF Ruled, Tabled, Placed
<1>9. Heading(h) = "ACTIVE" \/ Has(h.actions, "MED_STOP") => own /\ g.localmedia # None
  <2>1. CASE g.state = "ACTIVE"
    BY <1>1, <2>1 DEF Engine, Holding
  <2>2. CASE g.state # "ACTIVE"
    <3>1. ASSUME Heading(h) = "ACTIVE"
          PROVE  e = "MED_AVL" /\ g.state \in {"CALLING", "RINGING"}
      BY <1>5, <1>6, <2>2, <3>1 DEF Ruled
    <3>2. ~Has(h.actions, "MED_STOP")
      BY <1>5, <2>2 DEF Ruled
    <3>3. ASSUME e = "MED_AVL", g.state \in {"CALLING", "RINGING"}
          PROVE  own /\ g.localmedia # None
      <4>1. Has(g.evq, "MED_AVL")
        BY <1>2, <3>3
      <4>2. own
        BY <4>1 DEF Engine, Holding
      <4>3. g.localmedia # None
        BY <1>4, <3>3 DEF Engine, Allocated
      <4> QED BY <4>2, <4>3
    <3> QED BY <3>1, <3>2, <3>3
  <2> QED BY <2>1, <2>2
<1>10. Holding(h, own, title)
  <2>1. Has(h.evq, "MED_AVL") => own
    BY <1>2 DEF Engine, Holding
  <2>2. title => own
    BY <1>1 DEF Engine, Holding
  <2> QED BY <1>1, <1>9, <2>1, <2>2 DEF Holding
<1>11. Answering(h)
  <2>1. AtMostOnce(h.evq, "MED_AVL") /\ AtMostOnce(h.evq, "MED_UNAVL")
    BY <1>7 DEF Engine, Answering, Answers
  <2>2. ~(Has(h.evq, "MED_AVL") /\ Has(h.evq, "MED_UNAVL"))
    BY <1>2 DEF Engine, Answering
  <2>3. ASSUME HasAnswer(h.evq) PROVE g.state \in Waiting /\ e \notin Answers
    <3>1. HasAnswer(g.evq)
      BY <1>2, <2>3 DEF HasAnswer
    <3>2. e \notin Answers
      BY <1>2, <1>7, <2>3 DEF Engine, Answering, Answers, HasAnswer
    <3> QED BY <3>1, <3>2 DEF Engine, Answering
  <2>4. ASSUME HasAnswer(h.evq) PROVE Heading(h) \in Waiting
    <3>1. e \notin {"MED_AVL", "MED_UNAVL"} /\ g.state \in Waiting
      BY <2>3, <2>4 DEF Answers
    <3>2. h.next_state \notin {"ACTIVE", "INACTIVE", "MUTING"}
      BY <1>5, <3>1 DEF Ruled, Waiting
    <3>3. h.next_state \in Waiting \cup {"same"}
      BY <1>5, <3>2 DEF Ruled, Waiting, States
    <3> QED BY <1>6, <3>1, <3>3
  <2> QED BY <2>1, <2>2, <2>3, <2>4 DEF Answering
<1>12. CallingBack(h)
  <2>1. ASSUME Has(h.evq, "GUI_CALLBACK") PROVE g.state \in Returning /\ Heading(h) \in Returning
    <3>1. g.state \in Returning
      BY <1>2, <2>1 DEF Engine, CallingBack
    <3>2. g.state = "CALLING" => e \notin {"MED_AVL", "MED_UNAVL"}
      BY <1>3, <2>1 DEF Engine, CallingBack, Answers
    <3>3. h.next_state \notin {"ACTIVE", "INACTIVE", "MUTING", "RINGING"}
      BY <1>5, <3>1, <3>2 DEF Ruled, Returning
    <3>4. h.next_state \in Returning \cup {"same"}
      BY <1>5, <3>3 DEF Ruled, Returning, States
    <3> QED BY <1>6, <3>1, <3>4
  <2>2. \A a \in Answers : /\ h.state = "MISSED" => ~Before(h.evq, "GUI_CALLBACK", a)
                           /\ h.state = "CALLING" => ~Before(h.evq, a, "GUI_CALLBACK")
    BY <1>3 DEF Engine, CallingBack
  <2>3. ASSUME h.state = "MISSED", h.next_state = "CALLING" PROVE ~HasAnswer(h.evq)
    <3>1. e = "GUI_CALLBACK"
      BY <1>5, <2>3 DEF Ruled
    <3> QED BY <1>3, <2>3, <3>1 DEF Engine, CallingBack, Answers, HasAnswer
  <2> QED BY <2>1, <2>2, <2>3 DEF CallingBack
<1>13. Allocated(h)
  <2>1. ASSUME g.state \in {"CALLING", "RINGING", "MISSED"}, h.next_state \notin {"ERROR", "DELETE"},
               g.localmedia = None
        PROVE  /\ Has(h.evq, "GEN_ERROR") /\ Covered(h.evq, "GEN_ERROR", "MED_AVL")
               /\ Covered(h.evq, "GEN_ERROR", "GUI_CALLBACK")
    <3>1. /\ Has(g.evq, "GEN_ERROR") /\ Covered(g.evq, "GEN_ERROR", "MED_AVL")
          /\ Covered(g.evq, "GEN_ERROR", "GUI_CALLBACK")
      BY <2>1 DEF Engine, Allocated
    <3>2. e # "GEN_ERROR"
      BY <1>5, <2>1 DEF Ruled, States
    <3> QED BY <1>2, <1>4, <3>1, <3>2
  <2>2. h.next_state \in {"CALLING", "RINGING"} => Has(h.actions, "MED_LSDP")
    BY <1>5 DEF Ruled
  <2> QED BY <2>1, <2>2 DEF Allocated
<1> QED BY <1>8, <1>10, <1>11, <1>12, <1>13 DEF Engine

\* The actions are done and the state is set.
LEMMA EngineSet ==
  ASSUME NEW g \in CallFields, NEW h, NEW own \in BOOLEAN, NEW title \in BOOLEAN,
         Engine(g, own, title), g.actions = <<>>,
         h.state = Heading(g), h.next_state = "idle", h.pc = g.pc,
         h.actions = <<>>, h.localmedia = g.localmedia, h.evq = g.evq
  PROVE  Engine(h, own, title)
<1>1. Heading(h) = Heading(g) /\ g.pc = "begin" /\ \A x : ~Has(h.actions, x) /\ ~Has(g.actions, x)
  BY HasNone, NowhereIdle DEF Heading, Engine
<1>2. /\ Heading(g) = "MISSED" => g.state \in {"MISSED", "RINGING"}
      /\ Heading(g) = "CALLING" => g.state \in {"CALLING", "INACTIVE", "MISSED"}
      /\ Heading(g) = "RINGING" => g.state \in {"RINGING", "INACTIVE"}
  BY DEF Engine, Tabled, Heading
<1>3. Tabled(h) /\ Placed(h)
  BY <1>1 DEF Tabled, Placed
<1>4. Holding(h, own, title) /\ Answering(h)
  BY <1>1 DEF Engine, Holding, Answering
<1>5. \A y : g.state = "INACTIVE" /\ y \in {"MED_AVL", "MED_UNAVL", "GUI_CALLBACK"} => ~Has(g.evq, y)
  BY DEF Engine, Answering, HasAnswer, Waiting, CallingBack, Returning
<1>6. CallingBack(h)
  <2>1. ASSUME NEW a \in Answers, h.state = "MISSED" PROVE ~Before(h.evq, "GUI_CALLBACK", a)
    <3>1. CASE g.state = "MISSED"
      BY <3>1 DEF Engine, CallingBack
    <3>2. CASE g.state = "RINGING"
      <4>1. ~Has(g.evq, "GUI_CALLBACK")
        BY <3>2 DEF Engine, CallingBack, Returning
      <4> QED BY <4>1, BeforeHas
    <3> QED BY <1>2, <2>1, <3>1, <3>2
  <2>2. ASSUME NEW a \in Answers, h.state = "CALLING" PROVE ~Before(h.evq, a, "GUI_CALLBACK")
    <3>1. CASE g.state = "CALLING"
      BY <3>1 DEF Engine, CallingBack
    <3>2. CASE g.state = "INACTIVE"
      BY <1>5, <3>2, BeforeHas
    <3>3. CASE g.state = "MISSED"
      <4>1. g.next_state = "CALLING"
        BY <2>2, <3>3 DEF Heading
      <4>2. ~Has(g.evq, a)
        BY <3>3, <4>1 DEF Engine, CallingBack, HasAnswer, Answers
      <4> QED BY <4>2, BeforeHas
    <3> QED BY <1>2, <2>2, <3>1, <3>2, <3>3
  <2>3. Has(h.evq, "GUI_CALLBACK") => h.state \in Returning /\ Heading(h) \in Returning
    BY <1>1 DEF Engine, CallingBack
  <2> QED BY <2>1, <2>2, <2>3 DEF CallingBack
<1>7. Allocated(h)
  <2> SUFFICES ASSUME Heading(g) \in {"CALLING", "RINGING", "MISSED"}, g.localmedia = None
               PROVE  /\ Has(g.evq, "GEN_ERROR") /\ Covered(g.evq, "GEN_ERROR", "MED_AVL")
                      /\ Covered(g.evq, "GEN_ERROR", "GUI_CALLBACK")
    BY DEF Allocated
  <2>1. g.next_state \notin {"ERROR", "DELETE"}
    BY DEF Heading
  <2>2. CASE g.state = "INACTIVE"
    <3>1. g.next_state \in {"CALLING", "RINGING"}
      BY <1>2, <2>2 DEF Heading
    <3>2. Has(g.evq, "GEN_ERROR")
      BY <1>1, <2>2, <3>1 DEF Engine, Allocated
    <3> QED BY <1>5, <2>2, <3>2, BeforeHas
  <2>3. CASE g.state # "INACTIVE"
    BY <1>2, <2>1, <2>3 DEF Engine, Allocated
  <2> QED BY <2>2, <2>3
<1> QED BY <1>3, <1>4, <1>6, <1>7 DEF Engine

\* An action that leaves engine and events alone is done, among them the allocation
\* of a port.
LEMMA EngineReturned ==
  ASSUME NEW g \in CallFields, NEW h, NEW own \in BOOLEAN, NEW title \in BOOLEAN,
         Engine(g, own, title), g.actions # <<>>,
         Head(g.actions) \notin {"MED_AVL", "MED_STOP"},
         h.state = g.state, h.next_state = g.next_state, h.pc = g.pc,
         h.localmedia # None \/ (h.localmedia = g.localmedia /\ Head(g.actions) # "MED_LSDP"),
         h.actions = Tail(g.actions), h.evq = g.evq
  PROVE  Engine(h, own, title)
<1>1. g.actions \in Seq(Commands) /\ Heading(h) = Heading(g) /\ g.pc = "begin"
  BY NowhereIdle DEF CallFields, Heading, Engine
<1>2. \A x : Has(g.actions, x) <=> Head(g.actions) = x \/ Has(h.actions, x)
  BY <1>1, HasTail
<1>3. AtMostOnce(g.actions, "MED_STOP") => AtMostOnce(h.actions, "MED_STOP")
  BY <1>1, OnceTail
<1>4. Tabled(h) /\ Placed(h)
  BY <1>1, <1>2, <1>3 DEF Engine, Tabled, Placed
<1>5. Holding(h, own, title)
  BY <1>1, <1>2 DEF Engine, Holding
<1>6. Answering(h) /\ CallingBack(h)
  BY <1>1 DEF Engine, Answering, CallingBack
<1>7. Allocated(h)
  BY <1>2 DEF Engine, Allocated
<1> QED BY <1>4, <1>5, <1>6, <1>7 DEF Engine

\* An action fails: the rest is given up and the error is queued.
LEMMA EngineFailed ==
  ASSUME NEW g \in CallFields, NEW h, NEW own \in BOOLEAN, NEW title \in BOOLEAN,
         Engine(g, own, title), Alike(g, h), h.pc = g.pc, h.actions = <<>>,
         Head(g.actions) \notin {"MED_AVL", "MED_STOP"}, h.evq = Append(g.evq, "GEN_ERROR")
  PROVE  Engine(h, own, title)
<1>1. g.pc = "begin"
  BY NowhereIdle DEF Engine
<1>2. g.evq \in Seq(Events) /\ "GEN_ERROR" \in Events /\ Heading(h) = Heading(g)
      /\ \A x : ~Has(h.actions, x)
  BY HasNone DEF Events, CallFields, Heading, Alike
<1>3. \A x : Has(h.evq, x) <=> Has(g.evq, x) \/ x = "GEN_ERROR"
  BY <1>2, HasAppend
<1>4. \A x, y : y # "GEN_ERROR" => (Before(h.evq, x, y) <=> Before(g.evq, x, y))
                                   /\ (Covered(h.evq, x, y) <=> Covered(g.evq, x, y))
  BY <1>2, BeforeAppend, CoveredAppend
<1>5. Tabled(h) /\ Placed(h)
  BY <1>1, <1>2 DEF Engine, Tabled, Placed, Alike
<1>6. Holding(h, own, title)
  BY <1>1, <1>2, <1>3 DEF Engine, Holding, Alike
<1>7. Answering(h)
  <2>1. AtMostOnce(h.evq, "MED_AVL") /\ AtMostOnce(h.evq, "MED_UNAVL")
    BY <1>2, OnceAppend DEF Engine, Answering
  <2> QED BY <1>2, <1>3, <2>1 DEF Engine, Answering, HasAnswer, Alike
<1>8. CallingBack(h)
  BY <1>2, <1>3, <1>4 DEF Engine, CallingBack, HasAnswer, Alike, Answers
<1>9. Allocated(h)
  BY <1>3, <1>4 DEF Engine, Allocated, Alike
<1> QED BY <1>5, <1>6, <1>7, <1>8, <1>9 DEF Engine

\* isAvailable() answers, and reserves the engine when the answer is yes.
LEMMA EngineAsked ==
  ASSUME NEW g \in CallFields, NEW h, NEW own \in BOOLEAN, NEW own2 \in BOOLEAN,
         NEW title \in BOOLEAN, NEW title2 \in BOOLEAN, NEW e \in Answers,
         Engine(g, own, title), own => own2, e = "MED_AVL" => own2, title2 => own2,
         g.actions # <<>>, Head(g.actions) = "MED_AVL", ~HasAnswer(g.evq),
         Alike(g, h), h.pc = "begin", h.actions = Tail(g.actions), h.evq = Append(g.evq, e)
  PROVE  Engine(h, own2, title2)
<1>1. /\ g.evq \in Seq(Events) /\ g.actions \in Seq(Commands) /\ Heading(h) = Heading(g)
      /\ e \in Events /\ e \in {"MED_AVL", "MED_UNAVL"}
  BY DEF CallFields, Heading, Alike, Events, Answers
<1>2. \A x : Has(g.actions, x) <=> Head(g.actions) = x \/ Has(h.actions, x)
  BY <1>1, HasTail
<1>3. \A x : Has(h.evq, x) <=> Has(g.evq, x) \/ e = x
  BY <1>1, HasAppend
<1>4. \A x, y : Before(h.evq, x, y) <=> Before(g.evq, x, y) \/ (e = y /\ Has(g.evq, x))
  BY <1>1, BeforeAppend
<1>5. \A x, y : Covered(h.evq, x, y) <=> Covered(g.evq, x, y) /\ (e = y => Has(g.evq, x))
  BY <1>1, CoveredAppend
<1>6. /\ g.next_state = "same" /\ Heading(g) = g.state /\ g.state \in {"CALLING", "RINGING"}
  BY <1>2 DEF Engine, Tabled, Heading
<1>7. AtMostOnce(g.actions, "MED_STOP") => AtMostOnce(h.actions, "MED_STOP")
  BY <1>1, OnceTail
<1>8. Tabled(h) /\ Placed(h)
  BY <1>1, <1>2, <1>6, <1>7 DEF Engine, Tabled, Placed, Alike
<1>9. Holding(h, own2, title2)
  <2>1. ~Has(h.actions, "MED_STOP")
    BY <1>2, <1>6 DEF Engine, Tabled
  <2>2. Has(h.evq, "MED_AVL") => own2
    BY <1>1, <1>3 DEF HasAnswer
  <2> QED BY <1>1, <1>6, <2>1, <2>2 DEF Holding
<1>10. Answering(h)
  <2>1. ~Has(g.evq, "MED_AVL") /\ ~Has(g.evq, "MED_UNAVL")
    BY DEF HasAnswer
  <2>2. AtMostOnce(h.evq, "MED_AVL") /\ AtMostOnce(h.evq, "MED_UNAVL")
    BY <1>1, <2>1, OnceAppend DEF Engine, Answering
  <2> QED BY <1>1, <1>3, <1>6, <2>1, <2>2 DEF Answering, Waiting, Alike
<1>11. CallingBack(h)
  <2>1. Has(h.evq, "GUI_CALLBACK") => Has(g.evq, "GUI_CALLBACK")
    BY <1>1, <1>3
  <2>2. \A a \in Answers : g.state = "CALLING" => ~Before(h.evq, a, "GUI_CALLBACK")
    BY <1>1, <1>4 DEF Engine, CallingBack
  <2> QED BY <1>1, <1>6, <2>1, <2>2 DEF Engine, CallingBack, Alike
<1>12. Allocated(h)
  BY <1>1, <1>3, <1>5, <1>6 DEF Engine, Allocated, Alike
<1> QED BY <1>8, <1>9, <1>10, <1>11, <1>12 DEF Engine

\* A call goes on within isAvailable or stop.
LEMMA EngineMoved ==
  ASSUME NEW g, NEW h, NEW own \in BOOLEAN, NEW own2 \in BOOLEAN, NEW title \in BOOLEAN,
         NEW title2 \in BOOLEAN, Engine(g, own, title), Alike(g, h), h.actions = g.actions,
         h.evq = g.evq, Placed(h), Holding(h, own2, title2)
  PROVE  Engine(h, own2, title2)
<1>1. Heading(h) = Heading(g)
  BY DEF Heading, Alike
<1>2. Tabled(h)
  BY <1>1 DEF Engine, Tabled, Alike
<1>3. Answering(h) /\ CallingBack(h) /\ Allocated(h)
  BY <1>1 DEF Engine, Answering, CallingBack, Allocated, Alike
<1> QED BY <1>2, <1>3 DEF Engine

\* Engine is about neither the context nor the remote descriptor.
LEMMA EngineAlike ==
  ASSUME NEW g, NEW h, Alike(g, h), h.pc = g.pc, h.actions = g.actions, h.evq = g.evq,
         NEW own \in BOOLEAN, NEW title \in BOOLEAN, Engine(g, own, title)
  PROVE  Engine(h, own, title)
<1>1. Heading(h) = Heading(g)
  BY DEF Heading, Alike
<1>2. Placed(h) /\ Holding(h, own, title)
  BY <1>1 DEF Engine, Placed, Holding, Alike
<1> QED BY <1>2, EngineMoved

\* A call that is about to stop has been active: it has the engine until it lets it go, a
\* port, and no answer of the engine in its queue.
LEMMA EngineStopping ==
  ASSUME NEW g \in CallFields, NEW own \in BOOLEAN, NEW title \in BOOLEAN,
         Engine(g, own, title), g.actions # <<>>, Head(g.actions) = "MED_STOP"
  PROVE  /\ Has(g.actions, "MED_STOP") /\ g.localmedia # None /\ g.state = "ACTIVE"
         /\ Heading(g) \in {"MUTING", "INACTIVE", "ERROR", "DELETE"}
         /\ g.pc \in {"begin", "terminate", "forget"} => own
         /\ ~HasAnswer(g.evq)
<1>1. Has(g.actions, "MED_STOP")
  BY HasTail DEF CallFields
<1>2. g.localmedia # None /\ (g.pc \in {"begin", "terminate", "forget"} => own)
  BY <1>1 DEF Engine, Holding
<1>3. g.state = "ACTIVE" /\ Heading(g) \in {"MUTING", "INACTIVE", "ERROR", "DELETE"}
  BY <1>1 DEF Engine, Tabled
<1>4. ~HasAnswer(g.evq)
  BY <1>3 DEF Engine, Answering, Waiting
<1> QED BY <1>1, <1>2, <1>3, <1>4

\* ... and goes on with stop().
LEMMA EngineStopped ==
  ASSUME NEW g \in CallFields, NEW h, NEW own \in BOOLEAN, NEW own2 \in BOOLEAN,
         NEW title \in BOOLEAN, NEW title2 \in BOOLEAN, Engine(g, own, title),
         g.actions # <<>>, Head(g.actions) = "MED_STOP",
         Alike(g, h), h.actions = g.actions, h.evq = g.evq,
         h.pc \in {"terminate", "forget", "disown", "free"},
         h.pc \in {"terminate", "forget"} => own2, title2 => own2 \/ h.pc = "disown"
  PROVE  Engine(h, own2, title2)
<1>1. /\ g.localmedia # None /\ Heading(g) # "ACTIVE" /\ ~Has(g.evq, "MED_AVL")
  BY EngineStopping DEF HasAnswer
<1>2. Heading(h) = Heading(g)
  BY DEF Heading, Alike
<1>3. Placed(h) /\ Holding(h, own2, title2)
  BY <1>1, <1>2 DEF Placed, Holding, Alike
<1> QED BY <1>3, EngineMoved

\* The port is released, and the call has done with stopping.
LEMMA EngineFreed ==
  ASSUME NEW g \in CallFields, NEW h, NEW own \in BOOLEAN, NEW title \in BOOLEAN,
         Engine(g, own, title), g.actions # <<>>, Head(g.actions) = "MED_STOP", g.pc = "free",
         h.state = g.state, h.next_state = g.next_state, h.pc = "begin",
         h.actions = Tail(g.actions), h.evq = g.evq
  PROVE  Engine(h, own, title)
<1>1. g.actions \in Seq(Commands) /\ Heading(h) = Heading(g)
  BY DEF CallFields, Heading
<1>2. \A x : Has(g.actions, x) <=> Head(g.actions) = x \/ Has(h.actions, x)
  BY <1>1, HasTail
<1>3. /\ Has(g.actions, "MED_STOP") /\ g.state = "ACTIVE" /\ ~HasAnswer(g.evq)
      /\ Heading(g) \in {"MUTING", "INACTIVE", "ERROR", "DELETE"}
  BY EngineStopping
<1>4. ~Has(h.actions, "MED_STOP") /\ g.next_state # "idle"
  BY <1>1, <1>3, OnceTail DEF Engine, Tabled
<1>5. Tabled(h) /\ Placed(h)
  BY <1>1, <1>2, <1>4 DEF Engine, Tabled, Placed
<1>6. Holding(h, own, title)
  BY <1>1, <1>3, <1>4 DEF Engine, Holding, HasAnswer
<1>7. Answering(h) /\ CallingBack(h) /\ Allocated(h)
  BY <1>1, <1>3 DEF Engine, Answering, CallingBack, Allocated
<1> QED BY <1>5, <1>6, <1>7 DEF Engine

\* A call as it starts: idle, with the user's wish to call or without.
LEMMA EngineFresh ==
  ASSUME NEW g, NEW own \in BOOLEAN, NEW title \in BOOLEAN, title => own, g.pc = "begin",
         g.state \in {"none", "INACTIVE", "ERROR"}, g.next_state = "idle", g.actions = <<>>,
         g.evq \in {<<>>, <<"GUI_UNMUTE">>}
  PROVE  Engine(g, own, title)
<1>1. Heading(g) = g.state /\ \A x : ~Has(g.actions, x)
  BY HasNone DEF Heading
<1>2. ~Has(g.evq, "MED_AVL") /\ ~Has(g.evq, "MED_UNAVL") /\ ~Has(g.evq, "GUI_CALLBACK")
  BY HasNone, HasOne
<1>3. AtMostOnce(g.evq, "MED_AVL") /\ AtMostOnce(g.evq, "MED_UNAVL")
  BY <1>2 DEF AtMostOnce, Has
<1> QED BY <1>1, <1>2, <1>3
     DEF Engine, Tabled, Placed, Holding, Answering, HasAnswer, CallingBack, Allocated

\* A Call object that is not made yet is the owner only if it has the engine.
LEMMA EngineBlank ==
  ASSUME NEW g \in CallFields, NEW own \in BOOLEAN, NEW title \in BOOLEAN,
         Engine(g, own, title), g.state = "none"
  PROVE  title => own
<1> SUFFICES ASSUME g.pc = "disown" PROVE FALSE
  BY DEF Engine, Holding
<1>1. g.actions # <<>> /\ Head(g.actions) = "MED_STOP"
  BY DEF Engine, Placed
<1> QED BY <1>1, EngineStopping

-----------------------------------------------------------------------------
(* What each step does to all of them. *)

\* One call makes a step; the others keep the engine, and none becomes its owner.
LEMMA OneSteps ==
  ASSUME EachEngine, NEW c \in Calls, \A d \in Calls \ {c} : call'[d] = call[d],
         \A d \in Calls \ {c} : (rat = d => rat' = d) /\ (owner' = d => owner = d),
         Engine(call'[c], rat' = c, owner' = c)
  PROVE  EachEngine'
<1>1. ASSUME NEW d \in Calls \ {c} PROVE Engine(call'[d], rat' = d, owner' = d)
  <2>1. PICK own \in BOOLEAN, own2 \in BOOLEAN, title \in BOOLEAN, title2 \in BOOLEAN :
          own = (rat = d) /\ own2 = (rat' = d) /\ title = (owner = d) /\ title2 = (owner' = d)
    OBVIOUS
  <2>2. Engine(call[d], own, title)
    BY <2>1 DEF EachEngine
  <2>3. (own => own2) /\ (title2 => title)
    BY <2>1
  <2>4. Engine(call[d], own2, title2)
    BY <2>2, <2>3, EngineWeaker
  <2>5. call'[d] = call[d]
    OBVIOUS
  <2> QED BY <2>1, <2>4, <2>5
<1> QED BY <1>1 DEF EachEngine

LEMMA SameEngine ==
  ASSUME EachEngine, UNCHANGED <<rat, owner>>, NEW c \in Calls,
         \A d \in Calls \ {c} : call'[d] = call[d],
         \A own, title \in BOOLEAN : Engine(call[c], own, title) => Engine(call'[c], own, title)
  PROVE  EachEngine'
<1>1. PICK own \in BOOLEAN, title \in BOOLEAN : own = (rat = c) /\ title = (owner = c)
  OBVIOUS
<1>2. Engine(call[c], own, title)
  BY <1>1 DEF EachEngine
<1>3. Engine(call'[c], own, title)
  BY <1>2
<1>4. Engine(call'[c], rat' = c, owner' = c)
  BY <1>1, <1>3
<1> QED BY <1>4, OneSteps

\* A step that touches neither the calls nor the engine.
LEMMA CallsSame ==
  ASSUME EachEngine, UNCHANGED <<call, rat, owner>> PROVE EachEngine'
<1>1. ASSUME NEW d \in Calls PROVE Engine(call'[d], rat' = d, owner' = d)
  <2>1. PICK own \in BOOLEAN, title \in BOOLEAN : own = (rat = d) /\ title = (owner = d)
    OBVIOUS
  <2>2. Engine(call[d], own, title)
    BY <2>1 DEF EachEngine
  <2> QED BY <2>1, <2>2
<1> QED BY <1>1 DEF EachEngine

\* A call is made anew.
LEMMA FreshEngine ==
  ASSUME IInv, EachEngine, UNCHANGED <<rat, owner>>, NEW c \in Calls, call[c].state = "none",
         \A d \in Calls \ {c} : call'[d] = call[d],
         call'[c].state \in {"INACTIVE", "ERROR"}, call'[c].next_state = "idle",
         call'[c].actions = <<>>, call'[c].pc = "begin", call'[c].evq \in {<<>>, <<"GUI_UNMUTE">>}
  PROVE  EachEngine'
<1>1. call[c] \in CallFields
  BY DEF IInv, Typed
<1>2. ASSUME NEW own \in BOOLEAN, NEW title \in BOOLEAN, Engine(call[c], own, title)
      PROVE  Engine(call'[c], own, title)
  <2>1. title => own
    BY <1>1, <1>2, EngineBlank
  <2> QED BY <2>1, EngineFresh
<1> QED BY <1>2, SameEngine

LEMMA IssueCallEngine ==
  ASSUME IInv, EachEngine, NEW c \in Calls, IssueCall(c) PROVE EachEngine'
<1>1. /\ call \in [Calls -> CallFields] /\ UNCHANGED <<rat, owner>> /\ call[c].state = "none"
  BY DEF IInv, Typed, IssueCall, State
<1>2. PICK f :
        /\ call' = [call EXCEPT ![c] = f] /\ f.state \in {"INACTIVE", "ERROR"} /\ f.pc = "begin"
        /\ f.next_state = "idle" /\ f.actions = <<>> /\ f.evq = <<"GUI_UNMUTE">>
  <2>1. ASSUME NEW x \in Contexts
        PROVE  LET f == [Unused EXCEPT !.state = "INACTIVE", !.cc = x, !.evq = <<"GUI_UNMUTE">>]
               IN  /\ f.state \in {"INACTIVE", "ERROR"} /\ f.next_state = "idle"
                   /\ f.pc = "begin" /\ f.actions = <<>> /\ f.evq = <<"GUI_UNMUTE">>
    BY DEF Unused
  <2>2. LET f == [Unused EXCEPT !.state = "ERROR", !.evq = <<"GUI_UNMUTE">>]
        IN  /\ f.state \in {"INACTIVE", "ERROR"} /\ f.next_state = "idle"
            /\ f.pc = "begin" /\ f.actions = <<>> /\ f.evq = <<"GUI_UNMUTE">>
    BY DEF Unused
  <2> QED BY <2>1, <2>2 DEF IssueCall
<1>3. call'[c] = f /\ \A d \in Calls \ {c} : call'[d] = call[d]
  BY <1>1, <1>2
<1> QED BY <1>1, <1>2, <1>3, FreshEngine

\* The record of a call after an event was queued.
LEMMA PostedAlike ==
  ASSUME call \in [Calls -> CallFields], NEW c \in Calls, NEW e \in Events,
         call' = Posted(e, c)
  PROVE  /\ Alike(call[c], call'[c]) /\ call'[c].pc = call[c].pc
         /\ call'[c].actions = call[c].actions /\ call'[c].evq = Append(call[c].evq, e)
         /\ \A d \in Calls \ {c} : call'[d] = call[d]
<1>1. /\ call'[c] = [call[c] EXCEPT !.evq = Append(@, e)]
      /\ \A d \in Calls \ {c} : call'[d] = call[d]
  BY PostedFields
<1> QED BY <1>1 DEF CallFields, Alike

LEMMA PostEngine ==
  ASSUME IInv, EachEngine, UNCHANGED <<rat, owner>>, NEW c \in Calls, NEW e \in Events \ Answers,
         e = "GUI_CALLBACK" => call[c].state = "MISSED", call' = Posted(e, c)
  PROVE  EachEngine'
<1>1. call \in [Calls -> CallFields]
  BY DEF IInv, Typed
<1>2. /\ Alike(call[c], call'[c]) /\ call'[c].pc = call[c].pc
      /\ call'[c].actions = call[c].actions /\ call'[c].evq = Append(call[c].evq, e)
      /\ \A d \in Calls \ {c} : call'[d] = call[d]
  BY <1>1, PostedAlike
<1>3. \A own, title \in BOOLEAN : Engine(call[c], own, title) => Engine(call'[c], own, title)
  BY <1>1, <1>2, EnginePosted
<1> QED BY <1>2, <1>3, SameEngine

LEMMA ClickEngine ==
  ASSUME IInv, EachEngine, NEW c \in Calls, Click(c) PROVE EachEngine'
<1>1. PICK e \in Buttons(call[c].state) : call' = Posted(e, c)
  BY DEF Click, State
<1>2. e \in Events \ Answers /\ (e = "GUI_CALLBACK" => call[c].state = "MISSED")
  BY DEF Buttons, Events, Answers
<1>3. UNCHANGED <<rat, owner>>
  BY DEF Click
<1> QED BY <1>1, <1>2, <1>3, PostEngine

LEMMA AddEngine ==
  ASSUME IInv, EachEngine, NEW w \in Workers, Add(w) PROVE EachEngine'
<1>1. PICK c \in Calls :
        /\ call[c].state = "none"
        /\ call' = [call EXCEPT ![c] = [Unused EXCEPT !.state = "INACTIVE", !.cc = job[w].cc]]
  BY DEF Add, State
<1>2. UNCHANGED <<rat, owner>> /\ call \in [Calls -> CallFields]
  BY DEF Add, IInv, Typed
<1>3. /\ call'[c] = [Unused EXCEPT !.state = "INACTIVE", !.cc = job[w].cc]
      /\ \A d \in Calls \ {c} : call'[d] = call[d]
  BY <1>1, <1>2
<1>4. /\ call'[c].state = "INACTIVE" /\ call'[c].next_state = "idle" /\ call'[c].pc = "begin"
      /\ call'[c].actions = <<>> /\ call'[c].evq = <<>>
  BY <1>3 DEF Unused
<1> QED BY <1>1, <1>2, <1>3, <1>4, FreshEngine

LEMMA DescribeEngine ==
  ASSUME IInv, EachEngine, NEW w \in Workers, Describe(w) PROVE EachEngine'
<1>1. /\ call \in [Calls -> CallFields] /\ job[w].call \in Calls /\ UNCHANGED <<rat, owner>>
  BY DEF Describe, IInv, Typed, AtWork
<1>2. PICK c \in Calls : c = job[w].call
  BY <1>1
<1>3. PICK m : call' = [call EXCEPT ![c].remotemedia = m]
  BY <1>2 DEF Describe
<1>4. /\ call'[c] = [call[c] EXCEPT !.remotemedia = m]
      /\ \A d \in Calls \ {c} : call'[d] = call[d]
  BY <1>1, <1>3
<1>5. /\ Alike(call[c], call'[c]) /\ call'[c].pc = call[c].pc
      /\ call'[c].actions = call[c].actions /\ call'[c].evq = call[c].evq
  BY <1>1, <1>4 DEF Alike, CallFields
<1>6. \A own, title \in BOOLEAN : Engine(call[c], own, title) => Engine(call'[c], own, title)
  BY <1>5, EngineAlike
<1> QED BY <1>1, <1>4, <1>6, SameEngine

\* What a worker has to tell is none of the engine's answers.
LEMMA SendEventEngine ==
  ASSUME IInv, EachEngine, NEW w \in Workers, SendEvent(w) PROVE EachEngine'
<1>1. job[w].call \in Calls /\ UNCHANGED <<rat, owner>> /\ job[w].event \in Tellings
  BY DEF SendEvent, IInv, Typed, AtWork
<1>2. PICK c \in Calls, e \in Tellings : c = job[w].call /\ e = job[w].event
  BY <1>1
<1>3. e \in Events \ Answers /\ e # "GUI_CALLBACK"
  BY DEF Events, Answers, Tellings
<1>4. call' = Posted(e, c)
  BY <1>2 DEF SendEvent
<1> QED BY <1>1, <1>3, <1>4, PostEngine

\* The call takes its next event.
LEMMA TriggerEngine ==
  ASSUME IInv, EachEngine, NEW c \in Calls, Trigger(c) PROVE EachEngine'
<1>1. /\ call \in [Calls -> CallFields] /\ UNCHANGED <<rat, owner>>
      /\ call[c].next_state = "idle" /\ call[c].evq # <<>>
  BY DEF Trigger, IInv, Typed, Running
<1>2. PICK e, n, a :
        /\ e = Head(call[c].evq) /\ Ruled(call[c].state, e, n, a)
        /\ call' = [call EXCEPT ![c].evq = Tail(@), ![c].event = e,
                                ![c].next_state = n, ![c].actions = a]
  <2>1. PICK e : e = Head(call[c].evq)
    OBVIOUS
  <2>2. Ruled(call[c].state, e, Entry(call[c].state, e)[3], Entry(call[c].state, e)[4])
    BY EntryRuled
  <2> QED BY <2>1, <2>2 DEF Trigger, State
<1>3. /\ call'[c] = [call[c] EXCEPT !.evq = Tail(@), !.event = e, !.next_state = n, !.actions = a]
      /\ \A d \in Calls \ {c} : call'[d] = call[d]
  BY <1>1, <1>2
<1>4. /\ call'[c].evq = Tail(call[c].evq) /\ call'[c].next_state = n
      /\ call'[c].actions = a /\ call'[c].state = call[c].state
      /\ call'[c].localmedia = call[c].localmedia /\ call'[c].pc = call[c].pc
  BY <1>1, <1>3 DEF CallFields
<1>5. call[c] \in CallFields
      /\ Ruled(call[c].state, Head(call[c].evq), call'[c].next_state, call'[c].actions)
  BY <1>1, <1>2, <1>4
<1>6. \A own, title \in BOOLEAN : Engine(call[c], own, title) => Engine(call'[c], own, title)
  BY <1>1, <1>4, <1>5, EngineTriggered
<1> QED BY <1>1, <1>3, <1>6, SameEngine

LEMMA SetStateEngine ==
  ASSUME IInv, EachEngine, NEW c \in Calls, SetState(c) PROVE EachEngine'
<1>1. /\ call \in [Calls -> CallFields] /\ UNCHANGED <<rat, owner>>
      /\ call[c].next_state \notin {"idle", "dead"} /\ call[c].actions = <<>>
  BY DEF SetState, IInv, Typed
<1>2. call' = [call EXCEPT ![c].state = Heading(call[c]), ![c].next_state = "idle",
                           ![c].event = "none"]
  BY <1>1 DEF SetState, State, Heading
<1>3. /\ call'[c] = [call[c] EXCEPT !.state = Heading(call[c]), !.next_state = "idle",
                                    !.event = "none"]
      /\ \A d \in Calls \ {c} : call'[d] = call[d]
  BY <1>1, <1>2
<1>4. /\ call'[c].state = Heading(call[c]) /\ call'[c].next_state = "idle"
      /\ call'[c].actions = <<>> /\ call'[c].localmedia = call[c].localmedia
      /\ call'[c].evq = call[c].evq /\ call'[c].pc = call[c].pc
  BY <1>1, <1>3 DEF CallFields
<1>5. \A own, title \in BOOLEAN : Engine(call[c], own, title) => Engine(call'[c], own, title)
  BY <1>1, <1>4, EngineSet
<1> QED BY <1>1, <1>3, <1>5, SameEngine

-----------------------------------------------------------------------------
(* The actions of the event lists. *)

LEMMA ReturnEngine ==
  ASSUME IInv, EachEngine, NEW c \in Calls, call[c].actions # <<>>, UNCHANGED <<rat, owner>>,
         Head(call[c].actions) \notin {"MED_AVL", "MED_STOP"},
         call'[c].state = call[c].state, call'[c].next_state = call[c].next_state,
         call'[c].pc = call[c].pc,
         \/ call'[c].localmedia # None
         \/ call'[c].localmedia = call[c].localmedia /\ Head(call[c].actions) # "MED_LSDP",
         call'[c].actions = Tail(call[c].actions), call'[c].evq = call[c].evq,
         \A d \in Calls \ {c} : call'[d] = call[d]
  PROVE  EachEngine'
<1>1. call[c] \in CallFields
  BY DEF IInv, Typed
<1>2. \A own, title \in BOOLEAN : Engine(call[c], own, title) => Engine(call'[c], own, title)
  BY <1>1, EngineReturned
<1> QED BY <1>2, SameEngine

LEMMA FailEngine ==
  ASSUME IInv, EachEngine, NEW c \in Calls, UNCHANGED <<rat, owner>>, call' = Fail(c),
         Head(call[c].actions) \notin {"MED_AVL", "MED_STOP"}
  PROVE  EachEngine'
<1>1. call \in [Calls -> CallFields]
  BY DEF IInv, Typed
<1>2. /\ call'[c] = [call[c] EXCEPT !.evq = Append(@, "GEN_ERROR"), !.actions = <<>>]
      /\ \A d \in Calls \ {c} : call'[d] = call[d]
  BY <1>1, FailFields
<1>3. /\ Alike(call[c], call'[c]) /\ call'[c].actions = <<>> /\ call'[c].pc = call[c].pc
      /\ call'[c].evq = Append(call[c].evq, "GEN_ERROR")
  BY <1>1, <1>2 DEF CallFields, Alike
<1>4. \A own, title \in BOOLEAN : Engine(call[c], own, title) => Engine(call'[c], own, title)
  BY <1>1, <1>3, EngineFailed
<1> QED BY <1>2, <1>4, SameEngine

\* The record of a call when an action is done, without or with one field set before.
LEMMA ReturnAlike ==
  ASSUME call \in [Calls -> CallFields], NEW c \in Calls, call[c].actions # <<>>,
         call' = Return(call, c)
  PROVE  /\ Alike(call[c], call'[c]) /\ call'[c].actions = Tail(call[c].actions)
         /\ call'[c].evq = call[c].evq /\ call'[c].pc = call[c].pc
         /\ \A d \in Calls \ {c} : call'[d] = call[d]
<1>1. /\ call'[c] = [call[c] EXCEPT !.actions = Tail(@)]
      /\ \A d \in Calls \ {c} : call'[d] = call[d]
  BY ReturnFields
<1> QED BY <1>1 DEF CallFields, Alike

LEMMA SetAlike ==
  ASSUME call \in [Calls -> CallFields], NEW c \in Calls, call[c].actions # <<>>,
         NEW g \in CallFields, g.actions = call[c].actions,
         call' = Return([call EXCEPT ![c] = g], c)
  PROVE  /\ Alike(g, call'[c]) /\ call'[c].actions = Tail(call[c].actions)
         /\ call'[c].evq = g.evq /\ call'[c].pc = g.pc
         /\ \A d \in Calls \ {c} : call'[d] = call[d]
<1>1. PICK cl \in [Calls -> CallFields] :
        cl = [call EXCEPT ![c] = g] /\ cl[c] = g /\ \A d \in Calls \ {c} : cl[d] = call[d]
  <2>1. [call EXCEPT ![c] = g] \in [Calls -> CallFields]
    OBVIOUS
  <2> QED BY <2>1
<1>2. /\ call'[c] = [cl[c] EXCEPT !.actions = Tail(@)]
      /\ \A d \in Calls \ {c} : call'[d] = cl[d]
  BY <1>1, ReturnFields
<1>3. call'[c] = [g EXCEPT !.actions = Tail(@)]
  BY <1>1, <1>2
<1>4. /\ Alike(g, call'[c]) /\ call'[c].actions = Tail(g.actions) /\ call'[c].evq = g.evq
      /\ call'[c].pc = g.pc
  BY <1>3 DEF CallFields, Alike
<1> QED BY <1>1, <1>2, <1>4

LEMMA MedLsdpEngine ==
  ASSUME IInv, EachEngine, NEW c \in Calls, MedLsdp(c) PROVE EachEngine'
<1>1. /\ call \in [Calls -> CallFields] /\ call[c] \in CallFields
      /\ call[c].actions # <<>> /\ UNCHANGED <<rat, owner>>
      /\ Head(call[c].actions) \notin {"MED_AVL", "MED_STOP"}
  BY DEF IInv, Typed, MedLsdp, At
<1>2. ASSUME NEW port \in Ports, call' = Return([call EXCEPT ![c].localmedia = port], c)
      PROVE  EachEngine'
  <2>1. PICK g \in CallFields :
          /\ g = [call[c] EXCEPT !.localmedia = port] /\ g.localmedia = port
          /\ g.actions = call[c].actions /\ g.state = call[c].state /\ g.evq = call[c].evq
          /\ g.pc = call[c].pc /\ g.next_state = call[c].next_state
    <3>1. [call[c] EXCEPT !.localmedia = port] \in CallFields
      BY <1>1, FieldSet
    <3> QED BY <1>1, <3>1 DEF CallFields
  <2>2. call' = Return([call EXCEPT ![c] = g], c)
    BY <1>1, <1>2, <2>1
  <2>3. /\ Alike(g, call'[c]) /\ call'[c].actions = Tail(call[c].actions)
        /\ call'[c].evq = g.evq /\ call'[c].pc = g.pc /\ \A d \in Calls \ {c} : call'[d] = call[d]
    BY <1>1, <2>1, <2>2, SetAlike
  <2>4. call'[c].localmedia # None
    BY <1>2, <2>1, <2>3, NoneApart DEF Alike
  <2> QED BY <1>1, <2>1, <2>3, <2>4, ReturnEngine DEF Alike
<1> QED BY <1>1, <1>2, FailEngine DEF MedLsdp, Ports

LEMMA MedStartEngine ==
  ASSUME IInv, EachEngine, NEW c \in Calls, MedStart(c) PROVE EachEngine'
<1>1. /\ call \in [Calls -> CallFields] /\ call[c].actions # <<>> /\ UNCHANGED <<rat, owner>>
      /\ Head(call[c].actions) \notin {"MED_AVL", "MED_STOP", "MED_LSDP"}
  BY DEF IInv, Typed, MedStart, At
<1>2. CASE call' = Return(call, c)
  BY <1>1, <1>2, ReturnAlike, ReturnEngine DEF Alike
<1> QED BY <1>1, <1>2, FailEngine DEF MedStart

LEMMA SipCommandEngine ==
  ASSUME IInv, EachEngine, NEW c \in Calls, SipCommand(c) PROVE EachEngine'
<1>1. /\ call \in [Calls -> CallFields] /\ call[c].actions # <<>> /\ UNCHANGED <<rat, owner>>
      /\ Head(call[c].actions) \notin {"MED_AVL", "MED_STOP", "MED_LSDP"}
      /\ call' = Return(call, c)
  BY DEF IInv, Typed, SipCommand, At, LegInput
<1> QED BY <1>1, ReturnAlike, ReturnEngine DEF Alike

LEMMA SipCallbackEngine ==
  ASSUME IInv, EachEngine, NEW c \in Calls, SipCallback(c) PROVE EachEngine'
<1>1. /\ call \in [Calls -> CallFields] /\ call[c] \in CallFields
      /\ call[c].actions # <<>> /\ UNCHANGED <<rat, owner>>
      /\ Head(call[c].actions) \notin {"MED_AVL", "MED_STOP", "MED_LSDP"}
  BY DEF IInv, Typed, SipCallback, At
<1>2. ASSUME NEW x \in Contexts, call' = Return([call EXCEPT ![c].cc = x], c)
      PROVE  EachEngine'
  <2>1. PICK g \in CallFields :
          /\ g = [call[c] EXCEPT !.cc = x] /\ g.localmedia = call[c].localmedia
          /\ g.actions = call[c].actions /\ g.state = call[c].state /\ g.evq = call[c].evq
          /\ g.pc = call[c].pc /\ g.next_state = call[c].next_state
    <3>1. [call[c] EXCEPT !.cc = x] \in CallFields
      BY <1>1, FieldSet
    <3> QED BY <1>1, <3>1 DEF CallFields
  <2>2. call' = Return([call EXCEPT ![c] = g], c)
    BY <1>1, <1>2, <2>1
  <2>3. /\ Alike(g, call'[c]) /\ call'[c].actions = Tail(call[c].actions)
        /\ call'[c].evq = g.evq /\ call'[c].pc = g.pc /\ \A d \in Calls \ {c} : call'[d] = call[d]
    BY <1>1, <2>1, <2>2, SetAlike
  <2> QED BY <1>1, <2>1, <2>3, ReturnEngine DEF Alike
<1> QED BY <1>1, <1>2, FailEngine DEF SipCallback

-----------------------------------------------------------------------------
(* isAvailable and stop. *)

LEMMA HasAnswered == ASSUME NEW c \in Calls PROVE Answered(c) <=> HasAnswer(call[c].evq)
  BY DEF Answered, HasAnswer, Has, Answers

\* The record of a call that moves within isAvailable or stop.
LEMMA MovedAlike ==
  ASSUME call \in [Calls -> CallFields], NEW c \in Calls, NEW pc \in Lines,
         call' = [call EXCEPT ![c].pc = pc]
  PROVE  /\ Alike(call[c], call'[c]) /\ call'[c].actions = call[c].actions
         /\ call'[c].evq = call[c].evq /\ call'[c].pc = pc
         /\ \A d \in Calls \ {c} : call'[d] = call[d]
<1>1. call'[c] = [call[c] EXCEPT !.pc = pc] /\ \A d \in Calls \ {c} : call'[d] = call[d]
  BY Moved
<1> QED BY <1>1 DEF CallFields, Alike

\* The record of a call that gets its answer and leaves isAvailable.
LEMMA AnsweredAlike ==
  ASSUME call \in [Calls -> CallFields], NEW c \in Calls, call[c].actions # <<>>,
         NEW e \in Events,
         \/ call' = Return(Posted(e, c), c) /\ call[c].pc = "begin"
         \/ call' = Return([Posted(e, c) EXCEPT ![c].pc = "begin"], c)
  PROVE  /\ Alike(call[c], call'[c]) /\ call'[c].pc = "begin"
         /\ call'[c].actions = Tail(call[c].actions) /\ call'[c].evq = Append(call[c].evq, e)
         /\ \A d \in Calls \ {c} : call'[d] = call[d]
<1>1. PICK p \in [Calls -> CallFields] :
        /\ p = Posted(e, c) /\ p[c] = [call[c] EXCEPT !.evq = Append(@, e)]
        /\ \A d \in Calls \ {c} : p[d] = call[d]
  <2>1. /\ Posted(e, c) \in [Calls -> CallFields]
        /\ Posted(e, c)[c] = [call[c] EXCEPT !.evq = Append(@, e)]
        /\ \A d \in Calls \ {c} : Posted(e, c)[d] = call[d]
    BY PostedFields
  <2> QED BY <2>1
<1>2. /\ p[c].actions = call[c].actions /\ p[c].pc = call[c].pc /\ Alike(call[c], p[c])
      /\ p[c].evq = Append(call[c].evq, e) /\ p[c] \in CallFields
  <2>1. call[c] \in CallFields /\ p[c] \in CallFields
    BY <1>1
  <2>2. /\ p[c].actions = call[c].actions /\ p[c].pc = call[c].pc /\ p[c].state = call[c].state
        /\ p[c].next_state = call[c].next_state /\ p[c].localmedia = call[c].localmedia
        /\ p[c].evq = Append(call[c].evq, e)
    BY <1>1, <2>1 DEF CallFields
  <2> QED BY <2>1, <2>2 DEF Alike
<1>3. PICK g \in CallFields : g = [p[c] EXCEPT !.pc = "begin"]
  BY <1>2, FieldSet DEF Lines
<1>4. /\ g.actions = call[c].actions /\ g.pc = "begin" /\ Alike(call[c], g)
      /\ g.evq = Append(call[c].evq, e)
  BY <1>2, <1>3 DEF CallFields, Alike
<1>5. call' = Return([call EXCEPT ![c] = g], c)
  <2>1. CASE call' = Return(p, c) /\ call[c].pc = "begin"
    <3>1. g = p[c]
      BY <1>2, <1>3, <2>1 DEF CallFields
    <3>2. [call EXCEPT ![c] = g] = p
      BY <1>1, <3>1
    <3> QED BY <2>1, <3>2
  <2>2. CASE call' = Return([p EXCEPT ![c].pc = "begin"], c)
    <3>1. [call EXCEPT ![c] = g] = [p EXCEPT ![c].pc = "begin"]
      BY <1>1, <1>3
    <3> QED BY <2>2, <3>1
  <2> QED BY <1>1, <2>1, <2>2
<1> QED BY <1>4, <1>5, SetAlike DEF Alike

\* A call that asks and has no answer yet is told that it has the engine, that another one
\* has it, or makes one where there is none.
LEMMA MedAvlEngine ==
  ASSUME IInv, EachEngine, NEW c \in Calls, MedAvl(c), repeated' = {} PROVE EachEngine'
<1>1. /\ call \in [Calls -> CallFields] /\ call[c] \in CallFields
      /\ call[c].actions # <<>> /\ Head(call[c].actions) = "MED_AVL" /\ call[c].pc = "begin"
      /\ owner' = owner /\ None \notin Calls
  BY NoneApart DEF IInv, Typed, MedAvl, At
<1>2. ~HasAnswer(call[c].evq)
  <2>1. ~Answered(c)
    BY DEF MedAvl
  <2> QED BY <2>1, HasAnswered
<1>3. PICK own \in BOOLEAN, title \in BOOLEAN : own = (rat = c) /\ title = (owner = c)
  OBVIOUS
<1>4. Engine(call[c], own, title)
  BY <1>3 DEF EachEngine
<1>5. title => own
  BY <1>1, <1>4 DEF Engine, Holding
<1>6. CASE rat # None
  <2>1. PICK e \in Answers :
          /\ e = (IF owner = c THEN "MED_AVL" ELSE "MED_UNAVL") /\ e \in Events
          /\ call' = Return(Posted(e, c), c) /\ rat' = rat
    BY <1>6 DEF MedAvl, Answers, Events
  <2>2. /\ Alike(call[c], call'[c]) /\ call'[c].pc = "begin"
        /\ call'[c].actions = Tail(call[c].actions) /\ call'[c].evq = Append(call[c].evq, e)
        /\ \A d \in Calls \ {c} : call'[d] = call[d]
    BY <1>1, <2>1, AnsweredAlike
  <2>3. e = "MED_AVL" => own
    BY <1>3, <1>5, <2>1
  <2>4. Engine(call'[c], own, title)
    BY <1>1, <1>2, <1>4, <1>5, <2>2, <2>3, EngineAsked
  <2>5. Engine(call'[c], rat' = c, owner' = c)
    BY <1>1, <1>3, <2>1, <2>4
  <2> QED BY <1>1, <2>1, <2>2, <2>5, OneSteps
<1>7. CASE rat = None
  <2>1. call' = [call EXCEPT ![c].pc = "own"] /\ rat' = c
    BY <1>7 DEF MedAvl
  <2>2. /\ Alike(call[c], call'[c]) /\ call'[c].actions = call[c].actions
        /\ call'[c].evq = call[c].evq /\ call'[c].pc = "own"
        /\ \A d \in Calls \ {c} : call'[d] = call[d]
    BY <1>1, <2>1, MovedAlike DEF Lines
  <2>3. Placed(call'[c])
    BY <1>1, <1>2, <2>2 DEF Placed
  <2>4. PICK own2 \in BOOLEAN : own2 = TRUE /\ own2 = (rat' = c)
    BY <2>1
  <2>5. Holding(call'[c], own2, title)
    <3>1. Heading(call'[c]) = Heading(call[c])
      BY <2>2 DEF Heading, Alike
    <3> QED BY <1>4, <2>2, <2>4, <3>1 DEF Engine, Holding, Alike
  <2>6. Engine(call'[c], rat' = c, owner' = c)
    <3>1. Engine(call'[c], own2, title)
      BY <1>4, <2>2, <2>3, <2>5, EngineMoved
    <3> QED BY <1>1, <1>3, <2>4, <3>1
  <2>7. \A d \in Calls : rat # d
    BY <1>1, <1>7
  <2> QED BY <1>1, <2>2, <2>6, <2>7, OneSteps
<1> QED BY <1>6, <1>7

LEMMA MedOwnEngine ==
  ASSUME IInv, EachEngine, NEW c \in Calls, MedOwn(c) PROVE EachEngine'
<1>1. /\ call \in [Calls -> CallFields] /\ call[c] \in CallFields
      /\ call[c].actions # <<>> /\ Head(call[c].actions) = "MED_AVL" /\ call[c].pc = "own"
      /\ rat' = rat /\ "MED_AVL" \in Answers /\ "MED_AVL" \in Events
  BY DEF IInv, Typed, MedOwn, At, Answers, Events
<1>2. PICK own \in BOOLEAN, title \in BOOLEAN, title2 \in BOOLEAN :
        own = (rat = c) /\ title = (owner = c) /\ title2 = (owner' = c)
  OBVIOUS
<1>3. Engine(call[c], own, title)
  BY <1>2 DEF EachEngine
<1>4. own /\ ~HasAnswer(call[c].evq)
  BY <1>1, <1>3 DEF Engine, Holding, Placed
<1>5. owner' = c /\ call' = Return([Posted("MED_AVL", c) EXCEPT ![c].pc = "begin"], c)
  BY <1>2, <1>4, NoneApart DEF MedOwn
<1>6. /\ Alike(call[c], call'[c]) /\ call'[c].pc = "begin"
      /\ call'[c].actions = Tail(call[c].actions)
      /\ call'[c].evq = Append(call[c].evq, "MED_AVL")
      /\ \A d \in Calls \ {c} : call'[d] = call[d]
  BY <1>1, <1>5, AnsweredAlike
<1>7. Engine(call'[c], own, title2)
  BY <1>1, <1>3, <1>4, <1>6, EngineAsked
<1>8. Engine(call'[c], rat' = c, owner' = c)
  BY <1>1, <1>2, <1>7
<1> QED BY <1>1, <1>5, <1>6, <1>8, OneSteps

\* A call that stops the engine has it up to rat = null, and a port to release.
LEMMA StopperHolds ==
  ASSUME IInv, EachEngine, NEW c \in Calls, At(c, "MED_STOP")
  PROVE  /\ call[c].pc \in {"begin", "terminate", "forget"} => rat = c
         /\ call[c].localmedia # None
<1>1. /\ call[c] \in CallFields /\ call[c].actions # <<>>
      /\ Head(call[c].actions) = "MED_STOP"
  BY DEF IInv, Typed, At
<1>2. PICK own \in BOOLEAN, title \in BOOLEAN : own = (rat = c) /\ title = (owner = c)
  OBVIOUS
<1>3. Engine(call[c], own, title)
  BY <1>2 DEF EachEngine
<1>4. (call[c].pc \in {"begin", "terminate", "forget"} => own) /\ call[c].localmedia # None
  BY <1>1, <1>3, EngineStopping
<1> QED BY <1>2, <1>4

\* The steps of stop(), each to the next.
LEMMA StopEngine ==
  ASSUME IInv, EachEngine, NEW c \in Calls, At(c, "MED_STOP"),
         NEW pc \in {"terminate", "forget", "disown", "free"},
         call' = [call EXCEPT ![c].pc = pc],
         \A d \in Calls \ {c} : (rat = d => rat' = d) /\ (owner' = d => owner = d),
         pc \in {"terminate", "forget"} => rat' = c, owner' = c => rat' = c \/ pc = "disown"
  PROVE  EachEngine'
<1>1. /\ call \in [Calls -> CallFields] /\ call[c] \in CallFields /\ call[c].actions # <<>>
      /\ Head(call[c].actions) = "MED_STOP"
  BY DEF IInv, Typed, At
<1>2. /\ Alike(call[c], call'[c]) /\ call'[c].actions = call[c].actions
      /\ call'[c].evq = call[c].evq /\ call'[c].pc = pc
      /\ \A d \in Calls \ {c} : call'[d] = call[d]
  BY <1>1, MovedAlike DEF Lines
<1>3. PICK own \in BOOLEAN, title \in BOOLEAN, own2 \in BOOLEAN, title2 \in BOOLEAN :
        own = (rat = c) /\ title = (owner = c) /\ own2 = (rat' = c) /\ title2 = (owner' = c)
  OBVIOUS
<1>4. Engine(call[c], own, title)
  BY <1>3 DEF EachEngine
<1>5. /\ call'[c].pc \in {"terminate", "forget", "disown", "free"}
      /\ call'[c].pc \in {"terminate", "forget"} => own2
      /\ title2 => own2 \/ call'[c].pc = "disown"
  BY <1>2, <1>3
<1>6. ASSUME NEW h, h = call'[c]
      PROVE  Engine(h, own2, title2)
  <2>1. Alike(call[c], h) /\ h.actions = call[c].actions /\ h.evq = call[c].evq
    BY <1>2, <1>6
  <2>2. /\ h.pc \in {"terminate", "forget", "disown", "free"}
        /\ h.pc \in {"terminate", "forget"} => own2
        /\ title2 => own2 \/ h.pc = "disown"
    BY <1>5, <1>6
  <2> QED BY <1>1, <1>4, <2>1, <2>2, EngineStopped
<1>7. Engine(call'[c], rat' = c, owner' = c)
  BY <1>3, <1>6
<1> QED BY <1>2, <1>7, OneSteps

LEMMA StopStepsEngine ==
  ASSUME IInv, EachEngine, NEW c \in Calls,
         StopTest(c) \/ StopTerminate(c) \/ StopForget(c) \/ StopDisown(c)
  PROVE  EachEngine'
<1>1. /\ At(c, "MED_STOP") /\ None \notin Calls
      /\ call[c].pc \in {"begin", "terminate", "forget"} => rat = c
  BY NoneApart, StopperHolds DEF StopTest, StopTerminate, StopForget, StopDisown, Stopping
<1>2. CASE StopTest(c)
  <2>1. rat = c /\ call' = [call EXCEPT ![c].pc = "terminate"] /\ UNCHANGED <<rat, owner>>
    BY <1>1, <1>2 DEF StopTest, Stopping
  <2> QED BY <1>1, <2>1, StopEngine
<1>3. CASE StopTerminate(c)
  <2>1. rat = c /\ call' = [call EXCEPT ![c].pc = "forget"] /\ UNCHANGED <<rat, owner>>
    BY <1>1, <1>3 DEF StopTerminate, Stopping
  <2> QED BY <1>1, <2>1, StopEngine
<1>4. CASE StopForget(c)
  <2>1. rat = c /\ call' = [call EXCEPT ![c].pc = "disown"] /\ owner' = owner
    BY <1>1, <1>4 DEF StopForget, Stopping
  <2> QED BY <1>1, <2>1, StopEngine
<1>5. CASE StopDisown(c)
  <2>1. owner' = None /\ call' = [call EXCEPT ![c].pc = "free"] /\ rat' = rat
    BY <1>5 DEF StopDisown
  <2> QED BY <1>1, <2>1, StopEngine
<1> QED BY <1>2, <1>3, <1>4, <1>5

LEMMA FreeLsdpEngine ==
  ASSUME IInv, EachEngine, NEW c \in Calls, FreeLsdp(c) PROVE EachEngine'
<1>1. /\ call \in [Calls -> CallFields] /\ call[c] \in CallFields
      /\ call[c].actions # <<>> /\ Head(call[c].actions) = "MED_STOP" /\ call[c].pc = "free"
      /\ At(c, "MED_STOP") /\ UNCHANGED <<rat, owner>>
  BY DEF IInv, Typed, FreeLsdp, Stopping, At
<1>2. call' = Return([call EXCEPT ![c].pc = "begin", ![c].localmedia = None], c)
  BY <1>1, StopperHolds DEF FreeLsdp
<1>3. PICK g \in CallFields :
        /\ g = [call[c] EXCEPT !.pc = "begin", !.localmedia = None] /\ g.pc = "begin"
        /\ g.actions = call[c].actions /\ g.state = call[c].state /\ g.evq = call[c].evq
        /\ g.next_state = call[c].next_state
  <2>1. [call[c] EXCEPT !.pc = "begin", !.localmedia = None] \in CallFields
    BY <1>1 DEF CallFields, Lines
  <2> QED BY <1>1, <2>1 DEF CallFields
<1>4. call' = Return([call EXCEPT ![c] = g], c)
  BY <1>1, <1>2, <1>3
<1>5. /\ Alike(g, call'[c]) /\ call'[c].actions = Tail(call[c].actions)
      /\ call'[c].evq = g.evq /\ call'[c].pc = g.pc /\ \A d \in Calls \ {c} : call'[d] = call[d]
  BY <1>1, <1>3, <1>4, SetAlike
<1>6. /\ call'[c].state = call[c].state /\ call'[c].next_state = call[c].next_state
      /\ call'[c].evq = call[c].evq /\ call'[c].pc = "begin"
  BY <1>3, <1>5 DEF Alike
<1>7. \A own, title \in BOOLEAN : Engine(call[c], own, title) => Engine(call'[c], own, title)
  BY <1>1, <1>5, <1>6, EngineFreed
<1> QED BY <1>1, <1>5, <1>7, SameEngine

-----------------------------------------------------------------------------
LEMMA EngineStart == Init => EngineInv
<1> SUFFICES ASSUME Init, NEW c \in Calls PROVE Engine(call[c], rat = c, owner = c)
  BY DEF EngineInv, EachEngine
<1>1. /\ call[c].state = "none" /\ call[c].next_state = "idle" /\ call[c].pc = "begin"
      /\ call[c].actions = <<>> /\ call[c].evq = <<>> /\ owner # c
  BY NoneApart DEF Init, Unused
<1>2. PICK own \in BOOLEAN, title \in BOOLEAN : own = (rat = c) /\ title = (owner = c)
  OBVIOUS
<1>3. Engine(call[c], own, title)
  BY <1>1, <1>2, EngineFresh
<1> QED BY <1>2, <1>3

\* No step takes a call off the list of those that asked again.
LEMMA RepeatedGrows == [Next]_vars => repeated \subseteq repeated'
<1> SUFFICES ASSUME [Next]_vars PROVE repeated \subseteq repeated'
  OBVIOUS
<1>1. ASSUME NEW c \in Calls, Execute(c) PROVE repeated \subseteq repeated'
  <2>1. MedAvl(c) => repeated \subseteq repeated'
    BY DEF MedAvl
  <2>2. MedLsdp(c) \/ MedOwn(c) \/ MedStart(c) => UNCHANGED repeated
    BY DEF MedLsdp, MedOwn, MedStart
  <2>3. MedStop(c) => UNCHANGED repeated
    BY DEF MedStop, StopTest, StopTerminate, StopForget, StopDisown, FreeLsdp
  <2>4. SipCommand(c) \/ SipCallback(c) => UNCHANGED repeated
    BY DEF SipCommand, SipCallback
  <2> QED BY <1>1, <2>1, <2>2, <2>3, <2>4 DEF Execute
<1>2. ASSUME NEW c \in Calls, Drain(c) PROVE repeated \subseteq repeated'
  BY <1>1, <1>2 DEF Drain, Trigger, SetState
<1>3. ASSUME NEW c \in Calls, IssueCall(c) \/ Click(c) PROVE UNCHANGED repeated
  BY <1>3 DEF IssueCall, Click
<1>4. ASSUME NEW x \in Contexts, Receive(x) PROVE UNCHANGED repeated
  BY <1>4 DEF Receive
<1>5. ASSUME NEW w \in Workers, Work(w) PROVE UNCHANGED repeated
  BY <1>5 DEF Work, Find, Add, Describe, SendEvent
<1>6. UNCHANGED vars => UNCHANGED repeated
  BY DEF vars
<1> QED BY <1>2, <1>3, <1>4, <1>5, <1>6 DEF Next

LEMMA EngineStep == IInv /\ EngineInv /\ [Next]_vars => EngineInv'
<1> SUFFICES ASSUME IInv, EngineInv, [Next]_vars, repeated' = {} PROVE EachEngine'
  BY DEF EngineInv
<1>0. EachEngine
  BY RepeatedGrows DEF EngineInv
<1>1. ASSUME NEW c \in Calls, IssueCall(c) \/ Click(c) PROVE EachEngine'
  BY <1>0, <1>1, IssueCallEngine, ClickEngine
<1>2. ASSUME NEW c \in Calls, Execute(c) PROVE EachEngine'
  BY <1>0, <1>2, MedLsdpEngine, MedAvlEngine, MedOwnEngine, MedStartEngine, StopStepsEngine,
     FreeLsdpEngine, SipCommandEngine, SipCallbackEngine DEF Execute, MedStop
<1>3. ASSUME NEW c \in Calls, Drain(c) PROVE EachEngine'
  BY <1>0, <1>2, <1>3, TriggerEngine, SetStateEngine DEF Drain
<1>4. ASSUME NEW w \in Workers, Work(w) PROVE EachEngine'
  <2>1. Find(w) => UNCHANGED <<call, rat, owner>>
    BY DEF Find
  <2> QED BY <1>0, <1>4, <2>1, CallsSame, AddEngine, DescribeEngine, SendEventEngine DEF Work
<1>5. ASSUME NEW x \in Contexts, Receive(x) PROVE EachEngine'
  <2>1. UNCHANGED <<call, rat, owner>>
    BY <1>5 DEF Receive
  <2> QED BY <1>0, <2>1, CallsSame
<1>6. CASE UNCHANGED vars
  <2>1. UNCHANGED <<call, rat, owner>>
    BY <1>6 DEF vars
  <2> QED BY <1>0, <2>1, CallsSame
<1> QED BY <1>1, <1>3, <1>4, <1>5, <1>6 DEF Next

LEMMA EngineEnough ==
  ASSUME IInv, EngineInv PROVE EngineHeld /\ StopsOwnEngine /\ NeverDead
<1> SUFFICES ASSUME EachEngine PROVE EngineHeld /\ StopsOwnEngine /\ NeverDead
  BY DEF EngineInv, EngineHeld, StopsOwnEngine, NeverDead
<1>1. ASSUME NEW c \in Calls
      PROVE  /\ Heading(call[c]) = "ACTIVE" => rat = c /\ call[c].localmedia # None
             /\ call[c].next_state # "dead"
  <2>1. PICK own \in BOOLEAN, title \in BOOLEAN : own = (rat = c) /\ title = (owner = c)
    OBVIOUS
  <2>2. Engine(call[c], own, title)
    BY <2>1 DEF EachEngine
  <2> QED BY <2>1, <2>2 DEF Engine, Holding, Tabled
<1>2. \A c \in Calls : State(c) = "ACTIVE" /\ ~Running(c) => Heading(call[c]) = "ACTIVE"
  BY DEF State, Running, Heading
<1>3. EngineHeld
  BY <1>1, <1>2 DEF EngineHeld
<1>4. StopsOwnEngine
  BY StopperHolds DEF StopsOwnEngine
<1>5. NeverDead
  BY <1>1 DEF NeverDead
<1> QED BY <1>3, <1>4, <1>5

\* As long as no call has asked for the engine with an earlier answer still in its queue, a
\* call that is active has the engine and a port, for any number of calls, contexts,
\* workers, clicks and notifications, whatever fails, and although stop() runs beside
\* isAvailable() (MediaControl, the state table of Call.init).
THEOREM ActiveHasEngine == Spec => []EngineHeld
<1>1. Init => IInv /\ EngineInv
  BY Start, EngineStart
<1>2. IInv /\ EngineInv /\ [Next]_vars => (IInv /\ EngineInv)'
  BY Step, EngineStep
<1>3. IInv /\ EngineInv => EngineHeld
  BY EngineEnough
<1> QED BY <1>1, <1>2, <1>3, PTL DEF Spec

\* ... up to its rat = null, what stop() ends is the engine of the call that stops, although
\* it looks at no owner and other calls go on between its statements
\* (MediaControl.java:70-72) ...
THEOREM EngineNotStolen == Spec => []StopsOwnEngine
<1>1. Init => IInv /\ EngineInv
  BY Start, EngineStart
<1>2. IInv /\ EngineInv /\ [Next]_vars => (IInv /\ EngineInv)'
  BY Step, EngineStep
<1>3. IInv /\ EngineInv => StopsOwnEngine
  BY EngineEnough
<1> QED BY <1>1, <1>2, <1>3, PTL DEF Spec

\* ... and neither stop() nor freeLSDP meets a null reference, which would leave the event
\* object of the call locked (Call.java:96-101, 186-189).
THEOREM CallsSurvive == Spec => []NeverDead
<1>1. Init => IInv /\ EngineInv
  BY Start, EngineStart
<1>2. IInv /\ EngineInv /\ [Next]_vars => (IInv /\ EngineInv)'
  BY Step, EngineStep
<1>3. IInv /\ EngineInv => NeverDead
  BY EngineEnough
<1> QED BY <1>1, <1>2, <1>3, PTL DEF Spec
=============================================================================
