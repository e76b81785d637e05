----------------------------- MODULE IPT_Event -----------------------------
(***************************************************************************)
(* bonephone/IPT_Event.java: the event object of one call, and the threads *)
(* that call set() on it (the Swing thread, the EventWorkers of CallCenter *)
(* and, from inside an observer, whichever of them is draining the queue). *)
(*                                                                         *)
(* Statements of set() that touch shared fields are separate steps.  Two   *)
(* details of the code matter: the monitor of "synchronized (locked)" is   *)
(* the Boolean object that locked refers to when the statement is reached  *)
(* (Boolean.FALSE or Boolean.TRUE), and locked=Boolean.FALSE is assigned   *)
(* outside any monitor.  Steps are sequentially consistent.                *)
(***************************************************************************)
EXTENDS Naturals, Sequences, FiniteSets

CONSTANTS Threads,
          NoThread,   \* no thread is inside a monitor
          MaxPosts,   \* bound: calls of set() in a behaviour
          MaxDepth    \* bound: nesting of set() within observers

ASSUME Bounds == MaxPosts \in Nat /\ MaxDepth \in Nat \ {0} /\ NoThread \notin Threads

VARIABLES evq,      \* Queue: the numbers of the events waiting
          event,    \* the field read by get()
          locked,   \* the object the field refers to: TRUE or FALSE
          changed,  \* java.util.Observable: the changed flag
          monitor,  \* monitor[b]: the thread inside synchronized(b), or NoThread
          stack,    \* stack[t]: the active calls of set() of t, innermost last
          posted,   \* number of events posted
          told      \* what StateMachine.update read from get(), in order

vars == <<evq, event, locked, changed, monitor, stack, posted, told>>

Init == /\ evq = <<>>
        /\ event = 0
        /\ locked = FALSE
        /\ changed = FALSE
        /\ monitor = [b \in BOOLEAN |-> NoThread]
        /\ stack = [t \in Threads |-> <<>>]
        /\ posted = 0
        /\ told = <<>>

Top(t) == stack[t][Len(stack[t])]

At(t, pc) == stack[t] # <<>> /\ Top(t).pc = pc

Goto(t, pc) == stack' = [stack EXCEPT ![t][Len(stack[t])].pc = pc]

Return(t) == stack' = [stack EXCEPT ![t] = SubSeq(@, 1, Len(@) - 1)]

-----------------------------------------------------------------------------
\* Mutant: the event goes to the head of the queue.
Insert_Front(t) ==
  /\ posted < MaxPosts
  /\ stack[t] = <<>> \/ (At(t, "handle") /\ Len(stack[t]) < MaxDepth)
  /\ posted' = posted + 1
  /\ evq' = <<posted + 1>> \o evq
  /\ stack' = [stack EXCEPT ![t] = Append(@, [pc |-> "lock", mon |-> FALSE])]
  /\ UNCHANGED <<event, locked, changed, monitor, told>>

\* A thread calls set(): from outside, or from an observer it is notifying.
Insert(t) ==
  /\ posted < MaxPosts
  /\ stack[t] = <<>> \/ (At(t, "handle") /\ Len(stack[t]) < MaxDepth)
  /\ posted' = posted + 1
  /\ evq' = Append(evq, posted + 1)
  /\ stack' = [stack EXCEPT ![t] = Append(@, [pc |-> "lock", mon |-> FALSE])]
  /\ UNCHANGED <<event, locked, changed, monitor, told>>

\* synchronized (locked): evaluate the expression, then enter its monitor.
Lock(t) ==
  /\ At(t, "lock")
  /\ stack' = [stack EXCEPT ![t][Len(stack[t])] = [pc |-> "enter", mon |-> locked]]
  /\ UNCHANGED <<evq, event, locked, changed, monitor, posted, told>>

Enter(t) ==
  /\ At(t, "enter")
  /\ monitor[Top(t).mon] = NoThread
  /\ monitor' = [monitor EXCEPT ![Top(t).mon] = t]
  /\ Goto(t, "check")
  /\ UNCHANGED <<evq, event, locked, changed, posted, told>>

\* Mutant: locked is not tested.
Check_NoTest(t) ==
  /\ At(t, "check")
  /\ Goto(t, "mark")
  /\ UNCHANGED <<evq, event, locked, changed, monitor, posted, told>>

Check(t) ==
  /\ At(t, "check")
  /\ IF locked
       THEN Return(t) /\ monitor' = [monitor EXCEPT ![Top(t).mon] = NoThread]
       ELSE Goto(t, "mark") /\ UNCHANGED monitor
  /\ UNCHANGED <<evq, event, locked, changed, posted, told>>

Mark(t) ==
  /\ At(t, "mark")
  /\ locked' = TRUE
  /\ monitor' = [monitor EXCEPT ![Top(t).mon] = NoThread]
  /\ Goto(t, "size")
  /\ UNCHANGED <<evq, event, changed, posted, told>>

Size(t) ==
  /\ At(t, "size")
  /\ Goto(t, IF evq = <<>> THEN "unlock" ELSE "fetch")
  /\ UNCHANGED <<evq, event, locked, changed, monitor, posted, told>>

\* Mutant: a missing event is stored as one behind the last.
Fetch_StoresNull(t) ==
  /\ At(t, "fetch")
  /\ event' = IF evq = <<>> THEN MaxPosts + 1 ELSE Head(evq)
  /\ evq' = IF evq = <<>> THEN evq ELSE Tail(evq)
  /\ Goto(t, "changed")
  /\ UNCHANGED <<locked, changed, monitor, posted, told>>

\* fetch() returns null on an empty queue; the cast then throws, and the thread
\* leaves all its active calls of set().
Fetch(t) ==
  /\ At(t, "fetch")
  /\ IF evq = <<>>
       THEN /\ stack' = [stack EXCEPT ![t] = <<>>]
            /\ UNCHANGED <<evq, event>>
       ELSE /\ event' = Head(evq)
            /\ evq' = Tail(evq)
            /\ Goto(t, "changed")
  /\ UNCHANGED <<locked, changed, monitor, posted, told>>

SetChanged(t) ==
  /\ At(t, "changed")
  /\ changed' = TRUE
  /\ Goto(t, "notify")
  /\ UNCHANGED <<evq, event, locked, monitor, posted, told>>

\* notifyObservers() does nothing when the flag is not set.
Notify(t) ==
  /\ At(t, "notify")
  /\ changed' = FALSE
  /\ Goto(t, IF changed THEN "read" ELSE "size")
  /\ UNCHANGED <<evq, event, locked, monitor, posted, told>>

\* StateMachine.update: e=get(), then trigger(e), whose actions may post.
Read(t) ==
  /\ At(t, "read")
  /\ told' = Append(told, event)
  /\ Goto(t, "handle")
  /\ UNCHANGED <<evq, event, locked, changed, monitor, posted>>

\* Mutant: set() returns after one event.
Handled_Once(t) ==
  /\ At(t, "handle")
  /\ Goto(t, "unlock")
  /\ UNCHANGED <<evq, event, locked, changed, monitor, posted, told>>

Handled(t) ==
  /\ At(t, "handle")
  /\ Goto(t, "size")
  /\ UNCHANGED <<evq, event, locked, changed, monitor, posted, told>>

\* Mutant: locked is not reset.
Unlock_Forgotten(t) ==
  /\ At(t, "unlock")
  /\ Return(t)
  /\ UNCHANGED <<evq, event, locked, changed, monitor, posted, told>>

Unlock(t) ==
  /\ At(t, "unlock")
  /\ locked' = FALSE
  /\ Return(t)
  /\ UNCHANGED <<evq, event, changed, monitor, posted, told>>

\* Every step of set() but the call itself, which nothing forces.
Progress(t) == \/ Lock(t) \/ Enter(t) \/ Check(t) \/ Mark(t) \/ Size(t)
               \/ Fetch(t) \/ SetChanged(t) \/ Notify(t) \/ Read(t)
               \/ Handled(t) \/ Unlock(t)

Next == \E t \in Threads : Insert(t) \/ Progress(t)

Spec == Init /\ [][Next]_vars /\ \A t \in Threads : WF_vars(Progress(t))
-----------------------------------------------------------------------------
PCs == {"lock", "enter", "check", "mark", "size", "fetch", "changed", "notify",
        "read", "handle", "unlock"}

\* The fields of the event object, and the program counters of its threads.
TypeOK == /\ evq \in Seq(1 .. MaxPosts)
          /\ event \in 0 .. MaxPosts
          /\ locked \in BOOLEAN /\ changed \in BOOLEAN
          /\ monitor \in [BOOLEAN -> Threads \cup {NoThread}]
          /\ stack \in [Threads -> Seq([pc : PCs, mon : BOOLEAN])]
          /\ posted \in 0 .. MaxPosts
          /\ told \in Seq(0 .. MaxPosts)

\* The active calls of set() of all threads.
Frames == {f \in Threads \X (1 .. MaxDepth) : f[2] <= Len(stack[f[1]])}
PC(f) == stack[f[1]][f[2]].pc

\* The call is never wedged: when no thread is inside set() the object is
\* unlocked, so the next set() drains the queue.  This has to survive a thread
\* that dies of the null fetch() while another one drains (IPT_Event.set).
IdleUnlocked == Frames = {} => ~locked

\* IPT_Event.java:7-9 "the observer notification is deferred until the previous
\* observer notification is completed": one observer notification at a time.  It holds
\* for one thread; two threads can enter on different objects (IPT_Event.java:38).
OneNotification == Cardinality({f \in Frames : PC(f) \in {"read", "handle"}}) <= 1

\* IPT_Event.java:5-6 "Events are queued at first. Then we notify all observers
\* about this event": every event posted is told to the observers in the end.
EveryEventTold == \A n \in 1 .. MaxPosts :
  (posted >= n) ~> (\E i \in 1 .. Len(told) : told[i] = n)

\* IPT_Event.java:5-9 as a whole, for a single posting thread: set() implements
\* the queue of EventQueueSpec, every event told once, in order.
Abstract == INSTANCE EventQueueSpec WITH told <- Len(told)
ImplementsQueue == Abstract!Spec
ToldInOrder == \A i \in 1 .. Len(told) : told[i] = i
=============================================================================
