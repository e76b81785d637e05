-------------------------- MODULE IPT_Event_proofs --------------------------
(***************************************************************************)
(* For any number of threads, posts and nested calls: the event object is  *)
(* never left locked with nobody inside, and its monitors, although        *)
(* exchanged inside their own blocks, are held by the threads in them.     *)
(* For one thread, as the telephone uses it: each event is told once, in   *)
(* the order of the posts, so that the object implements a queue.          *)
(***************************************************************************)
EXTENDS IPT_Event, SequenceTheorems, FiniteSetTheorems, TLAPS

USE Bounds

Frame == [pc : PCs, mon : BOOLEAN]

\* Where a call of set() is past the test of locked.
Draining == {"size", "fetch", "changed", "notify", "read", "handle", "unlock"}

-----------------------------------------------------------------------------
(* What is said of the active calls s of one thread. *)

\* Only an observer's handler makes a nested call.
Nested(s) == \A d \in 1 .. Len(s) : d < Len(s) => s[d].pc = "handle"

\* The thread is in the block synchronized on b.
Inside(s, b) == s # <<>> /\ s[Len(s)].pc \in {"check", "mark"} /\ s[Len(s)].mon = b

Drains(s) == \E d \in 1 .. Len(s) : s[d].pc \in Draining

\* The thread is about to fetch from the empty queue q, and to die of it.
Starved(s, q) == s # <<>> /\ s[Len(s)].pc = "fetch" /\ q = <<>>

\* The three ways a step changes the calls of a thread from s to r.
Replaced(s, r, f) ==
  /\ r \in Seq(Frame) /\ Len(s) >= 1 /\ Len(r) = Len(s) /\ r[Len(s)] = f
  /\ \A d \in 1 .. Len(s) : d < Len(s) => r[d] = s[d]

Pushed(s, r, f) ==
  /\ r \in Seq(Frame) /\ Len(r) = Len(s) + 1 /\ r[Len(s) + 1] = f
  /\ \A d \in 1 .. Len(s) : r[d] = s[d]

Popped(s, r) ==
  /\ r \in Seq(Frame) /\ Len(s) >= 1 /\ Len(r) = Len(s) - 1
  /\ \A d \in 1 .. Len(r) : r[d] = s[d]

-----------------------------------------------------------------------------
(* The invariant. *)

Structure == \A t \in Threads : Nested(stack[t]) /\ Len(stack[t]) <= MaxDepth

Owners == \A t \in Threads, b \in BOOLEAN : Inside(stack[t], b) <=> monitor[b] = t

\* IdleUnlocked is not inductive: a drainer can die of a null fetch.  While the
\* object is locked there is one that will not.
SomebodyDrains ==
  locked => \E t \in Threads : Drains(stack[t]) /\ ~Starved(stack[t], evq)

IInv == TypeOK /\ Structure /\ Owners /\ SomebodyDrains

-----------------------------------------------------------------------------
(* Lemmas about the calls of one thread. *)

LEMMA Tops == ASSUME NEW s \in Seq(Frame), s # <<>>
              PROVE  /\ Len(s) \in Nat /\ Len(s) >= 1 /\ s[Len(s)] \in Frame
                     /\ s[Len(s)].pc \in PCs /\ s[Len(s)].mon \in BOOLEAN
<1>1. Len(s) \in Nat /\ Len(s) >= 1
  OBVIOUS
<1>2. s[Len(s)] \in Frame
  BY <1>1
<1> QED BY <1>1, <1>2 DEF Frame

LEMMA Replacing ==
  ASSUME NEW s \in Seq(Frame), s # <<>>, NEW f \in Frame
  PROVE  Replaced(s, [s EXCEPT ![Len(s)] = f], f)
<1>1. Len(s) \in Nat /\ Len(s) >= 1
  BY Tops
<1>2. Len(s) \in 1 .. Len(s)
  BY <1>1
<1>3. [s EXCEPT ![Len(s)] = f] \in Seq(Frame) /\ Len([s EXCEPT ![Len(s)] = f]) = Len(s)
  BY <1>2, ExceptSeq
<1> DEFINE r == [s EXCEPT ![Len(s)] = f]
<1>4. \A d \in 1 .. Len(s) : r[d] = IF d = Len(s) THEN f ELSE s[d]
  BY <1>2, ExceptSeq
<1>5. r \in Seq(Frame) /\ Len(r) = Len(s)
  BY <1>3
<1> HIDE DEF r
<1>6. Replaced(s, r, f)
  BY <1>1, <1>2, <1>4, <1>5 DEF Replaced
<1> QED BY <1>6 DEF r

LEMMA Pushing ==
  ASSUME NEW s \in Seq(Frame), NEW f \in Frame
  PROVE  Pushed(s, Append(s, f), f)
BY DEF Pushed

LEMMA Popping ==
  ASSUME NEW s \in Seq(Frame), s # <<>>
  PROVE  Popped(s, SubSeq(s, 1, Len(s) - 1))
<1>1. Len(s) \in Nat /\ Len(s) >= 1
  BY Tops
<1>2. 1 \in Int /\ Len(s) - 1 \in Int /\ \A d \in 1 .. Len(s) - 1 : s[d] \in Frame
  BY <1>1
<1> DEFINE r == SubSeq(s, 1, Len(s) - 1)
<1>3. /\ r \in Seq(Frame)
      /\ Len(r) = IF 1 <= Len(s) - 1 THEN Len(s) - 1 - 1 + 1 ELSE 0
      /\ \A d \in 1 .. Len(s) - 1 - 1 + 1 : r[d] = s[1 + d - 1]
  BY <1>2, SubSeqProperties
<1> HIDE DEF r
<1> DEFINE n == Len(s)
           m == Len(r)
<1>4. m = n - 1
  <2>1. n \in Nat /\ n >= 1 /\ m = IF 1 <= n - 1 THEN n - 1 - 1 + 1 ELSE 0
    BY <1>1, <1>3
  <2> HIDE DEF n, m
  <2> QED BY <2>1
<1>5. \A d \in 1 .. Len(r) : r[d] = s[d]
  <2> SUFFICES ASSUME NEW d \in 1 .. Len(r) PROVE r[d] = s[d]
    OBVIOUS
  <2>1. d \in 1 .. Len(s) - 1 - 1 + 1 /\ 1 + d - 1 = d
    BY <1>1, <1>4
  <2> QED BY <1>3, <2>1
<1>6. Popped(s, r)
  BY <1>1, <1>3, <1>4, <1>5 DEF Popped
<1> QED BY <1>6 DEF r

LEMMA ReplacedKeeps ==
  ASSUME NEW s \in Seq(Frame), NEW r, NEW f \in Frame, Replaced(s, r, f), Nested(s)
  PROVE  /\ Nested(r) /\ r # <<>> /\ r[Len(r)] = f
         /\ f.pc \in Draining => Drains(r)
         /\ s[Len(s)].pc \notin Draining /\ Drains(s) => Drains(r)
<1>1. Len(s) \in Nat /\ Len(r) \in Nat
  BY DEF Replaced
<1>2. Nested(r)
  BY <1>1 DEF Nested, Replaced
<1>3. r # <<>> /\ r[Len(r)] = f /\ Len(r) \in 1 .. Len(r)
  BY <1>1 DEF Replaced
<1>4. f.pc \in Draining => Drains(r)
  BY <1>3 DEF Drains
<1>5. ASSUME s[Len(s)].pc \notin Draining, Drains(s) PROVE Drains(r)
  <2>1. PICK d \in 1 .. Len(s) : s[d].pc \in Draining
    BY <1>5 DEF Drains
  <2>2. d < Len(s) /\ d \in 1 .. Len(r) /\ r[d] = s[d]
    BY <2>1, <1>5, <1>1 DEF Replaced
  <2> QED BY <2>1, <2>2 DEF Drains
<1> QED BY <1>2, <1>3, <1>4, <1>5

LEMMA PushedKeeps ==
  ASSUME NEW s \in Seq(Frame), NEW r, NEW f \in Frame, Pushed(s, r, f), Nested(s),
         s = <<>> \/ s[Len(s)].pc = "handle"
  PROVE  /\ Nested(r) /\ r # <<>> /\ r[Len(r)] = f
         /\ Drains(s) => Drains(r)
<1>1. Len(s) \in Nat /\ Len(r) \in Nat /\ Len(r) = Len(s) + 1
  BY DEF Pushed
<1>2. Nested(r)
  <2> SUFFICES ASSUME NEW d \in 1 .. Len(r), d < Len(r) PROVE r[d].pc = "handle"
    BY DEF Nested
  <2>1. d \in 1 .. Len(s) /\ r[d] = s[d]
    BY <1>1 DEF Pushed
  <2>2. CASE d < Len(s)
    BY <2>1, <2>2 DEF Nested
  <2>3. CASE d = Len(s)
    BY <2>1, <2>3
  <2> QED BY <1>1, <2>1, <2>2, <2>3
<1>3. r # <<>> /\ r[Len(r)] = f
  BY <1>1 DEF Pushed
<1>4. Drains(s) => Drains(r)
  BY <1>1 DEF Drains, Pushed
<1> QED BY <1>2, <1>3, <1>4

LEMMA PoppedKeeps ==
  ASSUME NEW s \in Seq(Frame), NEW r, Popped(s, r), Nested(s)
  PROVE  /\ Nested(r)
         /\ r # <<>> => r[Len(r)].pc = "handle"
         /\ s[Len(s)].pc \notin Draining /\ Drains(s) => Drains(r)
<1>1. Len(s) \in Nat /\ Len(r) \in Nat /\ Len(r) = Len(s) - 1
  BY DEF Popped
<1>2. \A d \in 1 .. Len(r) : r[d].pc = "handle"
  BY <1>1 DEF Popped, Nested
<1>3. Nested(r)
  BY <1>2 DEF Nested
<1>4. r # <<>> => r[Len(r)].pc = "handle"
  BY <1>1, <1>2 DEF Popped
<1>5. ASSUME s[Len(s)].pc \notin Draining, Drains(s) PROVE Drains(r)
  <2>1. PICK d \in 1 .. Len(s) : s[d].pc \in Draining
    BY <1>5 DEF Drains
  <2>2. d # Len(s)
    BY <2>1, <1>5
  <2>3. d \in 1 .. Len(r) /\ r[d] = s[d]
    BY <2>1, <2>2, <1>1 DEF Popped
  <2> QED BY <2>1, <2>3 DEF Drains
<1> QED BY <1>3, <1>4, <1>5

-----------------------------------------------------------------------------
(* Lemmas about one step of thread t. *)

Others(t) == \A u \in Threads : u # t => stack'[u] = stack[u]

\* Goto and Return in terms of the three ways.
LEMMA Moving ==
  ASSUME TypeOK, NEW t \in Threads, stack[t] # <<>>, NEW f \in Frame,
         stack' = [stack EXCEPT ![t][Len(stack[t])] = f]
  PROVE  /\ Replaced(stack[t], stack'[t], f) /\ Others(t)
         /\ stack' \in [Threads -> Seq(Frame)]
<1>1. stack \in [Threads -> Seq(Frame)]
  BY DEF TypeOK, Frame
<1> DEFINE r == [stack[t] EXCEPT ![Len(stack[t])] = f]
<1>2. Replaced(stack[t], r, f)
  BY <1>1, Replacing
<1>3. stack' = [stack EXCEPT ![t] = r]
  OBVIOUS
<1>4. r \in Seq(Frame)
  BY <1>2 DEF Replaced
<1> HIDE DEF r
<1> QED BY <1>1, <1>2, <1>3, <1>4 DEF Others

LEMMA GoingTo ==
  ASSUME TypeOK, NEW t \in Threads, stack[t] # <<>>, NEW pc \in PCs, Goto(t, pc)
  PROVE  /\ Replaced(stack[t], stack'[t], [pc |-> pc, mon |-> Top(t).mon]) /\ Others(t)
         /\ stack' \in [Threads -> Seq(Frame)]
         /\ [pc |-> pc, mon |-> Top(t).mon] \in Frame
<1>1. stack[t] \in Seq(Frame)
  BY DEF TypeOK, Frame
<1>2. Top(t) \in Frame /\ Top(t).mon \in BOOLEAN
  BY <1>1, Tops DEF Top
<1> DEFINE f == [pc |-> pc, mon |-> Top(t).mon]
<1>3. f \in Frame
  BY <1>2 DEF Frame
<1>4. [Top(t) EXCEPT !.pc = pc] = f
  BY <1>2 DEF Frame
<1>5. stack' = [stack EXCEPT ![t][Len(stack[t])] = f]
  BY <1>4 DEF Goto, Top
<1> HIDE DEF f
<1>6. Replaced(stack[t], stack'[t], f) /\ Others(t) /\ stack' \in [Threads -> Seq(Frame)]
  BY <1>3, <1>5, Moving
<1> QED BY <1>3, <1>6 DEF f

LEMMA Returning ==
  ASSUME TypeOK, NEW t \in Threads, stack[t] # <<>>, Return(t)
  PROVE  Popped(stack[t], stack'[t]) /\ Others(t) /\ stack' \in [Threads -> Seq(Frame)]
<1>1. stack \in [Threads -> Seq(Frame)]
  BY DEF TypeOK, Frame
<1> DEFINE r == SubSeq(stack[t], 1, Len(stack[t]) - 1)
<1>2. Popped(stack[t], r)
  BY <1>1, Popping
<1>3. stack' = [stack EXCEPT ![t] = r]
  BY DEF Return
<1>4. r \in Seq(Frame)
  BY <1>2 DEF Popped
<1> HIDE DEF r
<1> QED BY <1>1, <1>2, <1>3, <1>4 DEF Others

\* Owners is kept by a step that enters no block, enters one, or leaves it.
LEMMA OwnersSame ==
  ASSUME Owners, NEW t \in Threads, Others(t), monitor' = monitor,
         \A b \in BOOLEAN : Inside(stack'[t], b) <=> Inside(stack[t], b)
  PROVE  Owners'
<1> SUFFICES ASSUME NEW u \in Threads, NEW b \in BOOLEAN
             PROVE  Inside(stack'[u], b) <=> monitor[b] = u
  BY DEF Owners
<1>1. CASE u = t
  BY <1>1 DEF Owners
<1>2. CASE u # t
  BY <1>2 DEF Owners, Others
<1> QED BY <1>1, <1>2

LEMMA OwnersEnter ==
  ASSUME TypeOK, Owners, NEW t \in Threads, NEW m \in BOOLEAN, Others(t),
         monitor[m] = NoThread, monitor' = [monitor EXCEPT ![m] = t],
         \A b \in BOOLEAN : ~Inside(stack[t], b),
         \A b \in BOOLEAN : Inside(stack'[t], b) <=> b = m
  PROVE  Owners'
<1> SUFFICES ASSUME NEW u \in Threads, NEW b \in BOOLEAN
             PROVE  Inside(stack'[u], b) <=> monitor'[b] = u
  BY DEF Owners
<1>1. monitor'[b] = IF b = m THEN t ELSE monitor[b]
  BY DEF TypeOK
<1>2. CASE u = t
  <2>1. monitor[b] # t
    BY DEF Owners
  <2> QED BY <1>1, <1>2, <2>1
<1>3. CASE u # t
  <2>1. Inside(stack'[u], b) <=> monitor[b] = u
    BY <1>3 DEF Owners, Others
  <2>2. u # NoThread
    OBVIOUS
  <2> QED BY <1>1, <1>3, <2>1, <2>2
<1> QED BY <1>2, <1>3

LEMMA OwnersLeave ==
  ASSUME TypeOK, Owners, NEW t \in Threads, NEW m \in BOOLEAN, Others(t),
         Inside(stack[t], m), monitor' = [monitor EXCEPT ![m] = NoThread],
         \A b \in BOOLEAN : ~Inside(stack'[t], b)
  PROVE  Owners'
<1> SUFFICES ASSUME NEW u \in Threads, NEW b \in BOOLEAN
             PROVE  Inside(stack'[u], b) <=> monitor'[b] = u
  BY DEF Owners
<1>1. monitor'[b] = IF b = m THEN NoThread ELSE monitor[b]
  BY DEF TypeOK
<1>2. u # NoThread /\ monitor[m] = t
  BY DEF Owners
<1>3. CASE u = t
  <2>1. b # m => ~Inside(stack[t], b)
    BY DEF Inside
  <2>2. b # m => monitor[b] # t
    BY <2>1 DEF Owners
  <2> QED BY <1>1, <1>2, <1>3, <2>2
<1>4. CASE u # t
  <2>1. Inside(stack'[u], b) <=> monitor[b] = u
    BY <1>4 DEF Owners, Others
  <2> QED BY <1>1, <1>2, <1>4, <2>1
<1> QED BY <1>3, <1>4

\* SomebodyDrains is kept by a step after which its thread drains, and by one
\* that changes neither locked nor what its own thread contributes.
LEMMA DrainsItself ==
  ASSUME NEW t \in Threads, Drains(stack'[t]), ~Starved(stack'[t], evq')
  PROVE  SomebodyDrains'
BY DEF SomebodyDrains

LEMMA DrainsStill ==
  ASSUME SomebodyDrains, NEW t \in Threads, Others(t), locked' = locked,
         evq' = evq \/ evq' # <<>>,
         Drains(stack[t]) => Drains(stack'[t]), ~Starved(stack'[t], evq')
  PROVE  SomebodyDrains'
<1> SUFFICES ASSUME locked PROVE \E u \in Threads : Drains(stack'[u]) /\ ~Starved(stack'[u], evq')
  BY DEF SomebodyDrains
<1>1. PICK u \in Threads : Drains(stack[u]) /\ ~Starved(stack[u], evq)
  BY DEF SomebodyDrains
<1>2. CASE u = t
  BY <1>1, <1>2
<1>3. CASE u # t
  <2>1. stack'[u] = stack[u]
    BY <1>3 DEF Others
  <2>2. ~Starved(stack'[u], evq')
    BY <1>1, <2>1 DEF Starved
  <2> QED BY <1>1, <2>1, <2>2
<1> QED BY <1>2, <1>3

LEMMA StructureKept ==
  ASSUME Structure, NEW t \in Threads, Others(t), Nested(stack'[t]),
         Len(stack'[t]) <= MaxDepth
  PROVE  Structure'
<1> SUFFICES ASSUME NEW u \in Threads PROVE Nested(stack'[u]) /\ Len(stack'[u]) <= MaxDepth
  BY DEF Structure
<1>1. CASE u = t
  BY <1>1
<1>2. CASE u # t
  BY <1>2 DEF Structure, Others
<1> QED BY <1>1, <1>2

\* What holds after a step that goes from one place of set() to another.
LEMMA AfterMove ==
  ASSUME TypeOK, Structure, NEW t \in Threads, stack[t] # <<>>, NEW f \in Frame,
         Replaced(stack[t], stack'[t], f), Others(t)
  PROVE  /\ Structure'
         /\ \A b \in BOOLEAN : Inside(stack'[t], b) <=> f.pc \in {"check", "mark"} /\ f.mon = b
         /\ \A q : Starved(stack'[t], q) <=> f.pc = "fetch" /\ q = <<>>
         /\ f.pc \in Draining => Drains(stack'[t])
         /\ Top(t).pc \notin Draining /\ Drains(stack[t]) => Drains(stack'[t])
<1> DEFINE s == stack[t]
           r == stack'[t]
<1>1. s \in Seq(Frame) /\ Nested(s) /\ Len(s) <= MaxDepth
  BY DEF TypeOK, Frame, Structure
<1>2. Replaced(s, r, f)
  OBVIOUS
<1>3. Top(t) = s[Len(s)] /\ Len(r) = Len(s)
  BY <1>2 DEF Top, Replaced
<1> HIDE DEF s, r
<1>4. /\ Nested(r) /\ r # <<>> /\ r[Len(r)] = f
      /\ f.pc \in Draining => Drains(r)
      /\ s[Len(s)].pc \notin Draining /\ Drains(s) => Drains(r)
  BY <1>1, <1>2, ReplacedKeeps
<1>5. Structure'
  BY <1>1, <1>3, <1>4, StructureKept DEF r
<1>6. \A b \in BOOLEAN : Inside(r, b) <=> f.pc \in {"check", "mark"} /\ f.mon = b
  BY <1>4 DEF Inside
<1>7. \A q : Starved(r, q) <=> f.pc = "fetch" /\ q = <<>>
  BY <1>4 DEF Starved
<1> QED BY <1>3, <1>4, <1>5, <1>6, <1>7 DEF s, r

\* The same for Goto.
LEMMA AfterGoto ==
  ASSUME TypeOK, Structure, NEW t \in Threads, stack[t] # <<>>, NEW pc \in PCs, Goto(t, pc)
  PROVE  /\ stack' \in [Threads -> Seq(Frame)] /\ Others(t) /\ Structure'
         /\ \A b \in BOOLEAN : Inside(stack'[t], b) <=> pc \in {"check", "mark"} /\ Top(t).mon = b
         /\ \A q : Starved(stack'[t], q) <=> pc = "fetch" /\ q = <<>>
         /\ pc \in Draining => Drains(stack'[t])
         /\ Top(t).pc \notin Draining /\ Drains(stack[t]) => Drains(stack'[t])
<1> DEFINE f == [pc |-> pc, mon |-> Top(t).mon]
<1>1. /\ Replaced(stack[t], stack'[t], f) /\ Others(t)
      /\ stack' \in [Threads -> Seq(Frame)] /\ f \in Frame
  BY GoingTo
<1>2. f.pc = pc /\ f.mon = Top(t).mon
  OBVIOUS
<1> HIDE DEF f
<1> QED BY <1>1, <1>2, AfterMove

LEMMA AfterReturn ==
  ASSUME TypeOK, Structure, NEW t \in Threads, stack[t] # <<>>, Return(t)
  PROVE  /\ stack' \in [Threads -> Seq(Frame)] /\ Others(t) /\ Structure'
         /\ \A b \in BOOLEAN : ~Inside(stack'[t], b)
         /\ \A q : ~Starved(stack'[t], q)
         /\ Top(t).pc \notin Draining /\ Drains(stack[t]) => Drains(stack'[t])
<1> DEFINE s == stack[t]
           r == stack'[t]
<1>1. s \in Seq(Frame) /\ Nested(s) /\ Len(s) <= MaxDepth
  BY DEF TypeOK, Frame, Structure
<1>2. Popped(s, r) /\ Others(t) /\ stack' \in [Threads -> Seq(Frame)]
  BY Returning
<1>3. Top(t) = s[Len(s)]
  BY DEF Top
<1> HIDE DEF s, r
<1>4. /\ Nested(r)
      /\ r # <<>> => r[Len(r)].pc = "handle"
      /\ s[Len(s)].pc \notin Draining /\ Drains(s) => Drains(r)
  BY <1>1, <1>2, PoppedKeeps
<1>5. Len(r) <= MaxDepth
  BY <1>1, <1>2 DEF Popped
<1>6. Structure'
  BY <1>2, <1>4, <1>5, StructureKept DEF r
<1>7. (\A b \in BOOLEAN : ~Inside(r, b)) /\ (\A q : ~Starved(r, q))
  BY <1>4 DEF Inside, Starved
<1> QED BY <1>2, <1>3, <1>4, <1>6, <1>7 DEF s, r

LEMMA WhereAt ==
  ASSUME NEW t \in Threads, NEW pc, At(t, pc)
  PROVE  /\ stack[t] # <<>> /\ Top(t).pc = pc
         /\ \A b \in BOOLEAN : Inside(stack[t], b) <=> pc \in {"check", "mark"} /\ Top(t).mon = b
         /\ \A q : Starved(stack[t], q) <=> pc = "fetch" /\ q = <<>>
         /\ pc \in Draining => (stack[t] \in Seq(Frame) => Drains(stack[t]))
<1>1. stack[t] # <<>> /\ Top(t).pc = pc
  BY DEF At
<1>2. ASSUME pc \in Draining, stack[t] \in Seq(Frame) PROVE Drains(stack[t])
  <2>1. Len(stack[t]) \in 1 .. Len(stack[t])
    BY <1>1, <1>2, Tops
  <2> QED BY <1>1, <1>2, <2>1 DEF Drains, Top
<1> QED BY <1>1, <1>2 DEF Inside, Starved, Top

-----------------------------------------------------------------------------
(* The actions. *)

LEMMA FrameType == Frame = [pc : PCs, mon : BOOLEAN]
BY DEF Frame

LEMMA InsertKeeps == ASSUME IInv, NEW t \in Threads, Insert(t) PROVE IInv'
<1> USE DEF IInv
<1> DEFINE f == [pc |-> "lock", mon |-> FALSE]
           s == stack[t]
           r == stack'[t]
<1>1. stack \in [Threads -> Seq(Frame)] /\ posted \in 0 .. MaxPosts /\ evq \in Seq(1 .. MaxPosts)
  BY DEF TypeOK, Frame
<1>2. f \in Frame
  BY DEF Frame, PCs
<1>3. stack' = [stack EXCEPT ![t] = Append(s, f)]
  BY DEF Insert
<1>4. s \in Seq(Frame) /\ Nested(s) /\ Len(s) <= MaxDepth
  BY <1>1 DEF Structure
<1>5. s = <<>> \/ (s[Len(s)].pc = "handle" /\ Len(s) < MaxDepth)
  BY DEF Insert, At, Top
<1>6. posted' \in 0 .. MaxPosts /\ evq' \in Seq(1 .. MaxPosts) /\ evq' # <<>>
  <2>1. posted + 1 \in 1 .. MaxPosts /\ posted' = posted + 1 /\ evq' = Append(evq, posted + 1)
    BY <1>1 DEF Insert
  <2> QED BY <1>1, <2>1
<1>7. /\ event' = event /\ locked' = locked /\ changed' = changed
      /\ monitor' = monitor /\ told' = told
  BY DEF Insert
<1> HIDE DEF f
<1>8. r = Append(s, f) /\ Pushed(s, r, f)
  BY <1>1, <1>2, <1>3, <1>4, Pushing
<1>9. Others(t) /\ stack' \in [Threads -> Seq(Frame)]
  BY <1>1, <1>3, <1>8 DEF Others, Pushed
<1> HIDE DEF s, r
<1>10. Nested(r) /\ r # <<>> /\ r[Len(r)] = f /\ (Drains(s) => Drains(r))
  BY <1>2, <1>4, <1>5, <1>8, PushedKeeps
<1>11. Len(r) <= MaxDepth
  <2>1. Len(r) = Len(s) + 1 /\ Len(s) \in Nat
    BY <1>4, <1>8 DEF Pushed
  <2>2. s = <<>> => Len(s) = 0
    OBVIOUS
  <2> QED BY <1>5, <2>1, <2>2
<1>12. Structure'
  BY <1>9, <1>10, <1>11, StructureKept DEF r
<1>13. f.pc = "lock"
  BY DEF f
<1>14. \A b \in BOOLEAN : ~Inside(r, b)
  BY <1>10, <1>13 DEF Inside
<1>15. \A b \in BOOLEAN : ~Inside(s, b)
  BY <1>5 DEF Inside
<1>16. Owners'
  BY <1>7, <1>9, <1>14, <1>15, OwnersSame DEF s, r
<1>17. ~Starved(r, evq')
  BY <1>6 DEF Starved
<1>18. SomebodyDrains'
  BY <1>6, <1>7, <1>9, <1>10, <1>17, DrainsStill DEF s, r
<1>19. TypeOK'
  BY <1>6, <1>7, <1>9, FrameType DEF TypeOK
<1> QED BY <1>12, <1>16, <1>18, <1>19

\* The first half of set(), before locked is taken.
LEMMA EntryKeeps ==
  ASSUME IInv, NEW t \in Threads, Lock(t) \/ Enter(t) \/ Check(t)
  PROVE  IInv'
<1> USE DEF IInv
<1>0. stack \in [Threads -> Seq(Frame)] /\ locked \in BOOLEAN
  BY DEF TypeOK, Frame
<1>1. CASE Lock(t)
  <2> DEFINE f == [pc |-> "enter", mon |-> locked]
  <2>1. At(t, "lock") /\ stack' = [stack EXCEPT ![t][Len(stack[t])] = f]
    BY <1>1 DEF Lock
  <2>2. UNCHANGED <<evq, event, locked, changed, monitor, posted, told>>
    BY <1>1 DEF Lock
  <2>3. f \in Frame /\ f.pc = "enter"
    BY <1>0 DEF Frame, PCs
  <2> HIDE DEF f
  <2>4. /\ stack[t] # <<>> /\ Top(t).pc = "lock"
        /\ \A b \in BOOLEAN : ~Inside(stack[t], b)
    BY <2>1, WhereAt
  <2>5. /\ Replaced(stack[t], stack'[t], f) /\ Others(t)
        /\ stack' \in [Threads -> Seq(Frame)]
    BY <2>1, <2>3, <2>4, Moving
  <2>6. /\ Structure'
        /\ \A b \in BOOLEAN : ~Inside(stack'[t], b)
        /\ ~Starved(stack'[t], evq')
        /\ Drains(stack[t]) => Drains(stack'[t])
    BY <2>3, <2>4, <2>5, AfterMove DEF Draining
  <2>7. Owners'
    BY <2>2, <2>4, <2>5, <2>6, OwnersSame
  <2>8. SomebodyDrains'
    BY <2>2, <2>5, <2>6, DrainsStill
  <2>9. TypeOK'
    BY <2>2, <2>5, FrameType DEF TypeOK
  <2> QED BY <2>6, <2>7, <2>8, <2>9
<1>2. CASE Enter(t)
  <2> DEFINE m == Top(t).mon
  <2>1. /\ At(t, "enter") /\ Goto(t, "check") /\ monitor[m] = NoThread
        /\ monitor' = [monitor EXCEPT ![m] = t]
    BY <1>2 DEF Enter
  <2>2. UNCHANGED <<evq, event, locked, changed, posted, told>>
    BY <1>2 DEF Enter
  <2>3. /\ stack[t] # <<>> /\ Top(t).pc = "enter"
        /\ \A b \in BOOLEAN : ~Inside(stack[t], b)
    BY <2>1, WhereAt
  <2>4. m \in BOOLEAN
    BY <1>0, <2>3, Tops DEF Top
  <2>5. "check" \in PCs
    BY DEF PCs
  <2>6. /\ stack' \in [Threads -> Seq(Frame)] /\ Others(t) /\ Structure'
        /\ \A b \in BOOLEAN : Inside(stack'[t], b) <=> m = b
        /\ ~Starved(stack'[t], evq')
        /\ Drains(stack[t]) => Drains(stack'[t])
    BY <2>1, <2>3, <2>5, AfterGoto DEF Draining
  <2> HIDE DEF m
  <2>7. Owners'
    BY <2>1, <2>3, <2>4, <2>6, OwnersEnter
  <2>8. SomebodyDrains'
    BY <2>2, <2>6, DrainsStill
  <2>9. monitor' \in [BOOLEAN -> Threads \cup {NoThread}]
    BY <2>1, <2>4 DEF TypeOK
  <2>10. TypeOK'
    BY <2>2, <2>6, <2>9, FrameType DEF TypeOK
  <2> QED BY <2>6, <2>7, <2>8, <2>10
<1>3. CASE Check(t)
  <2> DEFINE m == Top(t).mon
  <2>1. At(t, "check") /\ UNCHANGED <<evq, event, locked, changed, posted, told>>
    BY <1>3 DEF Check
  <2>2. /\ stack[t] # <<>> /\ Top(t).pc = "check"
        /\ \A b \in BOOLEAN : Inside(stack[t], b) <=> m = b
    BY <2>1, WhereAt
  <2>3. m \in BOOLEAN
    BY <1>0, <2>2, Tops DEF Top
  <2>4. CASE locked
    <3>1. Return(t) /\ monitor' = [monitor EXCEPT ![m] = NoThread]
      BY <1>3, <2>4 DEF Check
    <3>2. /\ stack' \in [Threads -> Seq(Frame)] /\ Others(t) /\ Structure'
          /\ \A b \in BOOLEAN : ~Inside(stack'[t], b)
          /\ ~Starved(stack'[t], evq')
          /\ Drains(stack[t]) => Drains(stack'[t])
      BY <2>2, <3>1, AfterReturn DEF Draining
    <3> HIDE DEF m
    <3>3. Owners'
      BY <2>2, <2>3, <3>1, <3>2, OwnersLeave
    <3>4. SomebodyDrains'
      BY <2>1, <3>2, DrainsStill
    <3>5. monitor' \in [BOOLEAN -> Threads \cup {NoThread}]
      BY <2>3, <3>1 DEF TypeOK
    <3>6. TypeOK'
      BY <2>1, <3>2, <3>5, FrameType DEF TypeOK
    <3> QED BY <3>2, <3>3, <3>4, <3>6
  <2>5. CASE ~locked
    <3>1. Goto(t, "mark") /\ monitor' = monitor
      BY <1>3, <2>5 DEF Check
    <3>2. "mark" \in PCs
      BY DEF PCs
    <3>3. /\ stack' \in [Threads -> Seq(Frame)] /\ Others(t) /\ Structure'
          /\ \A b \in BOOLEAN : Inside(stack'[t], b) <=> m = b
      BY <2>2, <3>1, <3>2, AfterGoto
    <3> HIDE DEF m
    <3>4. Owners'
      BY <2>2, <3>1, <3>3, OwnersSame
    <3>5. SomebodyDrains'
      BY <2>1, <2>5 DEF SomebodyDrains
    <3>6. TypeOK'
      BY <2>1, <3>1, <3>3, FrameType DEF TypeOK
    <3> QED BY <3>3, <3>4, <3>5, <3>6
  <2> QED BY <1>0, <2>4, <2>5
<1> QED BY <1>1, <1>2, <1>3

\* The second half: the thread drains the queue.
LEMMA DrainKeeps ==
  ASSUME IInv, NEW t \in Threads,
         \/ Mark(t) \/ Size(t) \/ Fetch(t) \/ SetChanged(t) \/ Notify(t) \/ Read(t)
         \/ Handled(t) \/ Unlock(t)
  PROVE  IInv'
<1> USE DEF IInv
<1>0. stack \in [Threads -> Seq(Frame)]
  BY DEF TypeOK, Frame
<1>1. CASE Mark(t)
  <2> DEFINE m == Top(t).mon
  <2>1. /\ At(t, "mark") /\ Goto(t, "size") /\ locked' = TRUE
        /\ monitor' = [monitor EXCEPT ![m] = NoThread]
        /\ UNCHANGED <<evq, event, changed, posted, told>>
    BY <1>1 DEF Mark
  <2>2. /\ stack[t] # <<>> /\ Top(t).pc = "mark"
        /\ \A b \in BOOLEAN : Inside(stack[t], b) <=> m = b
    BY <2>1, WhereAt
  <2>3. m \in BOOLEAN
    BY <1>0, <2>2, Tops DEF Top
  <2>4. "size" \in PCs /\ "size" \in Draining
    BY DEF PCs, Draining
  <2>5. /\ stack' \in [Threads -> Seq(Frame)] /\ Others(t) /\ Structure'
        /\ \A b \in BOOLEAN : ~Inside(stack'[t], b)
        /\ ~Starved(stack'[t], evq') /\ Drains(stack'[t])
    BY <2>1, <2>2, <2>4, AfterGoto
  <2> HIDE DEF m
  <2>6. Owners'
    BY <2>1, <2>2, <2>3, <2>5, OwnersLeave
  <2>7. SomebodyDrains'
    BY <2>5, DrainsItself
  <2>8. monitor' \in [BOOLEAN -> Threads \cup {NoThread}]
    BY <2>1, <2>3 DEF TypeOK
  <2>9. TypeOK'
    BY <2>1, <2>5, <2>8, FrameType DEF TypeOK
  <2> QED BY <2>5, <2>6, <2>7, <2>9
\* A step inside the loop that cannot fail.
<1>2. ASSUME NEW from \in Draining, NEW pc \in Draining, At(t, from), Goto(t, pc),
             pc = "fetch" => evq' # <<>>, UNCHANGED <<locked, monitor, posted>>,
             evq' \in Seq(1 .. MaxPosts), event' \in 0 .. MaxPosts, changed' \in BOOLEAN,
             told' \in Seq(0 .. MaxPosts)
      PROVE  IInv'
  <2>1. pc \in PCs /\ pc \notin {"check", "mark"} /\ from \notin {"check", "mark"}
    BY DEF PCs, Draining
  <2>2. stack[t] # <<>> /\ \A b \in BOOLEAN : ~Inside(stack[t], b)
    BY <1>2, <2>1, WhereAt
  <2>3. /\ stack' \in [Threads -> Seq(Frame)] /\ Others(t) /\ Structure'
        /\ \A b \in BOOLEAN : ~Inside(stack'[t], b)
        /\ ~Starved(stack'[t], evq') /\ Drains(stack'[t])
    BY <1>2, <2>1, <2>2, AfterGoto
  <2>4. Owners'
    BY <1>2, <2>2, <2>3, OwnersSame
  <2>5. SomebodyDrains'
    BY <2>3, DrainsItself
  <2>6. TypeOK'
    BY <1>2, <2>3, FrameType DEF TypeOK
  <2> QED BY <2>3, <2>4, <2>5, <2>6
<1> DEFINE Places == {"size", "fetch", "changed", "notify", "read", "handle", "unlock"}
<1>3. Places \subseteq Draining
  BY DEF Draining
<1>4. /\ evq \in Seq(1 .. MaxPosts) /\ event \in 0 .. MaxPosts /\ changed \in BOOLEAN
      /\ told \in Seq(0 .. MaxPosts)
  BY DEF TypeOK
<1>5. CASE Size(t)
  <2>1. UNCHANGED <<evq, event, locked, changed, monitor, posted, told>> /\ At(t, "size")
    BY <1>5 DEF Size
  <2>2. CASE evq = <<>>
    BY <1>2, <1>3, <1>4, <1>5, <2>1, <2>2 DEF Size
  <2>3. CASE evq # <<>>
    BY <1>2, <1>3, <1>4, <1>5, <2>1, <2>3 DEF Size
  <2> QED BY <2>2, <2>3
<1>6. CASE Fetch(t)
  <2>1. At(t, "fetch") /\ UNCHANGED <<locked, changed, monitor, posted, told>>
    BY <1>6 DEF Fetch
  <2>2. CASE evq # <<>>
    <3>1. event' = Head(evq) /\ evq' = Tail(evq) /\ Goto(t, "changed")
      BY <1>6, <2>2 DEF Fetch
    <3>2. event' \in 0 .. MaxPosts /\ evq' \in Seq(1 .. MaxPosts)
      BY <1>4, <2>2, <3>1
    <3> QED BY <1>2, <1>3, <1>4, <2>1, <3>1, <3>2
  <2>3. CASE evq = <<>>
    <3>1. stack' = [stack EXCEPT ![t] = <<>>] /\ UNCHANGED <<evq, event>>
      BY <1>6, <2>3 DEF Fetch
    <3>2. /\ stack' \in [Threads -> Seq(Frame)] /\ Others(t) /\ stack'[t] = <<>>
      BY <1>0, <3>1 DEF Others
    <3>3. Starved(stack[t], evq) /\ \A b \in BOOLEAN : ~Inside(stack[t], b)
      BY <2>1, <2>3, WhereAt
    <3>4. Structure'
      <4>1. Nested(stack'[t]) /\ Len(stack'[t]) <= MaxDepth
        BY <3>2 DEF Nested
      <4> QED BY <3>2, <4>1, StructureKept
    <3>5. Owners'
      <4>1. \A b \in BOOLEAN : ~Inside(stack'[t], b)
        BY <3>2 DEF Inside
      <4> QED BY <2>1, <3>2, <3>3, <4>1, OwnersSame
    \* The thread that drains and is not starved is another one.
    <3>6. SomebodyDrains'
      <4> SUFFICES ASSUME locked
                   PROVE  \E u \in Threads : Drains(stack'[u]) /\ ~Starved(stack'[u], evq')
        BY <2>1 DEF SomebodyDrains
      <4>1. PICK u \in Threads : Drains(stack[u]) /\ ~Starved(stack[u], evq)
        BY DEF SomebodyDrains
      <4>2. u # t
        BY <3>3, <4>1
      <4> QED BY <3>1, <3>2, <4>1, <4>2 DEF Others
    <3>7. TypeOK'
      BY <2>1, <3>1, <3>2, FrameType DEF TypeOK
    <3> QED BY <3>4, <3>5, <3>6, <3>7
  <2> QED BY <2>2, <2>3
<1>7. CASE SetChanged(t)
  BY <1>2, <1>3, <1>4, <1>7 DEF SetChanged
<1>8. CASE Notify(t)
  <2>1. CASE changed
    BY <1>2, <1>3, <1>4, <1>8, <2>1 DEF Notify
  <2>2. CASE ~changed
    BY <1>2, <1>3, <1>4, <1>8, <2>2 DEF Notify
  <2> QED BY <2>1, <2>2
<1>9. CASE Read(t)
  <2>1. told' \in Seq(0 .. MaxPosts)
    BY <1>4, <1>9 DEF Read
  <2> QED BY <1>2, <1>3, <1>4, <1>9, <2>1 DEF Read
<1>10. CASE Handled(t)
  BY <1>2, <1>3, <1>4, <1>10 DEF Handled
<1>11. CASE Unlock(t)
  <2>1. /\ At(t, "unlock") /\ Return(t) /\ locked' = FALSE
        /\ UNCHANGED <<evq, event, changed, monitor, posted, told>>
    BY <1>11 DEF Unlock
  <2>2. stack[t] # <<>> /\ \A b \in BOOLEAN : ~Inside(stack[t], b)
    BY <2>1, WhereAt
  <2>3. /\ stack' \in [Threads -> Seq(Frame)] /\ Others(t) /\ Structure'
        /\ \A b \in BOOLEAN : ~Inside(stack'[t], b)
    BY <2>1, <2>2, AfterReturn
  <2>4. Owners'
    BY <2>1, <2>2, <2>3, OwnersSame
  <2>5. SomebodyDrains'
    BY <2>1 DEF SomebodyDrains
  <2>6. TypeOK'
    BY <2>1, <2>3, FrameType DEF TypeOK
  <2> QED BY <2>3, <2>4, <2>5, <2>6
<1> QED BY <1>1, <1>5, <1>6, <1>7, <1>8, <1>9, <1>10, <1>11

-----------------------------------------------------------------------------
LEMMA InitOK == ASSUME Init PROVE IInv
<1>1. TypeOK
  <2>1. monitor \in [BOOLEAN -> Threads \cup {NoThread}]
    BY DEF Init
  <2>2. stack \in [Threads -> Seq(Frame)]
    BY DEF Init
  <2>3. /\ evq \in Seq(1 .. MaxPosts) /\ told \in Seq(0 .. MaxPosts)
        /\ event \in 0 .. MaxPosts /\ posted \in 0 .. MaxPosts
    BY DEF Init
  <2>4. locked \in BOOLEAN /\ changed \in BOOLEAN
    BY DEF Init
  <2> QED BY <2>1, <2>2, <2>3, <2>4, FrameType DEF TypeOK
<1>2. Structure
  BY DEF Init, Structure, Nested
<1>3. Owners
  BY DEF Init, Owners, Inside
<1>4. SomebodyDrains
  BY DEF Init, SomebodyDrains
<1> QED BY <1>1, <1>2, <1>3, <1>4 DEF IInv

LEMMA Inductive == ASSUME IInv, [Next]_vars PROVE IInv'
<1>1. CASE Next
  <2>1. PICK t \in Threads : Insert(t) \/ Progress(t)
    BY <1>1 DEF Next
  <2>2. CASE Insert(t)
    BY <2>2, InsertKeeps
  <2>3. CASE Progress(t)
    BY <2>3, EntryKeeps, DrainKeeps DEF Progress
  <2> QED BY <2>1, <2>2, <2>3
<1>2. CASE UNCHANGED vars
  <2>1. TypeOK'
    BY <1>2 DEF IInv, TypeOK, vars
  <2>2. Structure' /\ Owners' /\ SomebodyDrains'
    BY <1>2 DEF IInv, Structure, Owners, SomebodyDrains, vars
  <2> QED BY <2>1, <2>2 DEF IInv
<1> QED BY <1>1, <1>2

\* A locked object has a thread that drains it, hence an active call.
LEMMA IdleFromDrainer == ASSUME IInv PROVE IdleUnlocked
<1> SUFFICES ASSUME locked PROVE Frames # {}
  BY DEF IdleUnlocked
<1>1. PICK t \in Threads : Drains(stack[t])
  BY DEF IInv, SomebodyDrains
<1>2. PICK d \in 1 .. Len(stack[t]) : TRUE
  BY <1>1 DEF Drains
<1>3. Len(stack[t]) \in Nat /\ Len(stack[t]) <= MaxDepth
  BY DEF IInv, TypeOK, Structure
<1>4. <<t, d>> \in Frames
  BY <1>2, <1>3 DEF Frames
<1> QED BY <1>4

-----------------------------------------------------------------------------
(* One thread. With several, two can drain at once: OneNotification and the order *)
(* of the queue are then lost (set() may find locked FALSE on the other object).  *)

SingleThread == \A t, u \in Threads : t = u

\* Where the outermost call of the thread is, "out" when it has none.
Main(s) == IF s = <<>> THEN "out" ELSE s[1].pc

Entering == {"lock", "enter", "check"}

\* A nested call finds the object locked, and returns before it drains.
Shallow(s) == /\ Len(s) <= 2
              /\ Len(s) = 2 => s[1].pc = "handle" /\ s[2].pc \in Entering

\* The event fetched, and not yet read by the state machine.
Fetched(m) == IF m \in {"changed", "notify", "read"} THEN 1 ELSE 0

\* What the fields hold while the outermost call is at m.
Fields(m) == /\ locked <=> m \in Draining
             /\ changed <=> m = "notify"
             /\ m = "fetch" => evq # <<>>
             /\ m \in {"unlock", "out"} => evq = <<>>

\* Events told, the one fetched and those waiting are the events posted, in order.
Numbers(m) == /\ posted = Len(told) + Fetched(m) + Len(evq)
              /\ Fetched(m) = 1 => event = Len(told) + 1
              /\ \A i \in 1 .. Len(evq) : evq[i] = Len(told) + Fetched(m) + i

InTurn == \A t \in Threads :
  Shallow(stack[t]) /\ Fields(Main(stack[t])) /\ Numbers(Main(stack[t]))

AloneInv == IInv /\ ToldInOrder /\ InTurn

LEMMA MainCall ==
  ASSUME NEW s \in Seq(Frame), Shallow(s), s # <<>>
  PROVE  /\ Len(s) \in {1, 2} /\ Main(s) = s[1].pc
         /\ Len(s) = 1 => Main(s) = s[Len(s)].pc
         /\ Len(s) = 2 => Main(s) = "handle" /\ s[Len(s)].pc \in Entering
<1>1. \A n \in Nat : n >= 1 /\ n <= 2 => n \in {1, 2}
  OBVIOUS
<1>2. Len(s) \in {1, 2}
  BY <1>1, Tops DEF Shallow
<1> QED BY <1>2 DEF Main, Shallow

LEMMA MainReplaced ==
  ASSUME NEW s \in Seq(Frame), Shallow(s), s # <<>>, NEW f \in Frame, NEW r,
         Replaced(s, r, f)
  PROVE  /\ Len(s) = 1 => Shallow(r) /\ Main(r) = f.pc
         /\ Len(s) = 2 /\ f.pc \in Entering => Shallow(r) /\ Main(r) = "handle"
<1>1. Len(s) \in {1, 2} /\ (Len(s) = 2 => s[1].pc = "handle")
  BY MainCall DEF Shallow
<1>2. r \in Seq(Frame) /\ Len(r) = Len(s) /\ r[Len(s)] = f
  BY DEF Replaced
<1>3. r # <<>>
  BY <1>1, <1>2
<1>4. CASE Len(s) = 1
  BY <1>2, <1>3, <1>4 DEF Shallow, Main
<1>5. CASE Len(s) = 2
  <2>1. r[1] = s[1]
    BY <1>5 DEF Replaced
  <2> QED BY <1>1, <1>2, <1>3, <1>5, <2>1 DEF Shallow, Main
<1> QED BY <1>1, <1>4, <1>5

LEMMA MainPushed ==
  ASSUME NEW s \in Seq(Frame), Shallow(s), s = <<>> \/ s[Len(s)].pc = "handle",
         NEW f \in Frame, f.pc = "lock", NEW r, Pushed(s, r, f)
  PROVE  /\ Shallow(r) /\ (s = <<>> => Main(r) = "lock") /\ (s # <<>> => Main(r) = Main(s))
<1>1. r \in Seq(Frame) /\ Len(r) = Len(s) + 1 /\ r[Len(s) + 1] = f
  BY DEF Pushed
<1>2. Len(s) \in Nat /\ r # <<>>
  BY <1>1
<1>3. CASE s = <<>>
  <2>1. Len(s) = 0
    BY <1>3
  <2> QED BY <1>1, <1>2, <1>3, <2>1 DEF Shallow, Main
<1>4. CASE s # <<>>
  <2>1. Len(s) = 1 /\ s[1].pc = "handle" /\ Main(s) = "handle"
    BY <1>4, MainCall DEF Entering
  <2>2. r[1] = s[1]
    BY <2>1 DEF Pushed
  <2> QED BY <1>1, <1>2, <1>4, <2>1, <2>2 DEF Shallow, Main, Entering
<1> QED BY <1>3, <1>4

LEMMA MainPopped ==
  ASSUME NEW s \in Seq(Frame), Shallow(s), s # <<>>, NEW r, Popped(s, r)
  PROVE  /\ Shallow(r)
         /\ Len(s) = 1 => Main(r) = "out"
         /\ Len(s) = 2 => Main(r) = "handle"
<1>1. Len(s) \in {1, 2} /\ (Len(s) = 2 => s[1].pc = "handle")
  BY MainCall DEF Shallow
<1>2. r \in Seq(Frame) /\ Len(r) = Len(s) - 1
  BY DEF Popped
<1>3. CASE Len(s) = 1
  <2>1. r = <<>>
    BY <1>2, <1>3
  <2> QED BY <1>2, <1>3, <2>1 DEF Shallow, Main
<1>4. CASE Len(s) = 2
  <2>1. Len(r) = 1
    BY <1>2, <1>4
  <2>2. r # <<>>
    BY <2>1
  <2>3. r[1] = s[1]
    BY <1>4, <2>1 DEF Popped
  <2> QED BY <1>1, <1>4, <2>1, <2>2, <2>3 DEF Shallow, Main
<1> QED BY <1>1, <1>3, <1>4

\* With one thread, what is said of its calls is all of InTurn.
LEMMA OnlyThread ==
  ASSUME SingleThread, NEW t \in Threads, NEW n, Shallow(stack'[t]), Main(stack'[t]) = n,
         Fields(n)', Numbers(n)'
  PROVE  InTurn'
<1> SUFFICES ASSUME NEW u \in Threads
             PROVE  (Shallow(stack[u]) /\ Fields(Main(stack[u])) /\ Numbers(Main(stack[u])))'
  BY DEF InTurn
<1>1. u = t
  BY DEF SingleThread
<1>2. Fields(Main(stack[u]))'
  BY <1>1 DEF Fields
<1>3. Numbers(Main(stack[u]))'
  BY <1>1 DEF Numbers
<1> QED BY <1>1, <1>2, <1>3

LEMMA MainAt ==
  ASSUME AloneInv, NEW t \in Threads, NEW pc, At(t, pc)
  PROVE  /\ stack[t] \in Seq(Frame) /\ stack[t] # <<>> /\ Shallow(stack[t])
         /\ Len(stack[t]) \in {1, 2} /\ stack[t][Len(stack[t])].pc = pc
         /\ pc \notin Entering => Len(stack[t]) = 1
         /\ Len(stack[t]) = 1 => Main(stack[t]) = pc
         /\ Len(stack[t]) = 2 => Main(stack[t]) = "handle"
<1>1. stack[t] \in Seq(Frame) /\ stack[t] # <<>> /\ Shallow(stack[t])
  BY DEF AloneInv, IInv, TypeOK, Frame, InTurn, At
<1>2. stack[t][Len(stack[t])].pc = pc
  BY DEF At, Top
<1> QED BY <1>1, <1>2, MainCall

\* A step of the outermost call from one place to the next.
LEMMA AloneGoto ==
  ASSUME AloneInv, NEW t \in Threads, NEW from, NEW pc \in PCs,
         At(t, from), Goto(t, pc), from \notin Entering \/ Len(stack[t]) = 1
  PROVE  Shallow(stack'[t]) /\ Main(stack'[t]) = pc
<1> DEFINE s == stack[t]
           r == stack'[t]
<1>1. s \in Seq(Frame) /\ s # <<>> /\ Shallow(s) /\ Len(s) = 1
  BY MainAt
<1> DEFINE f == [pc |-> pc, mon |-> Top(t).mon]
<1>2. Replaced(s, r, f) /\ f \in Frame /\ f.pc = pc
  BY <1>1, GoingTo DEF AloneInv, IInv
<1> HIDE DEF s, r, f
<1>3. Shallow(r) /\ Main(r) = pc
  BY <1>1, <1>2, MainReplaced
<1> QED BY <1>3 DEF r

\* Where the outermost call is when a call is at pc.
LEMMA AloneAt ==
  ASSUME AloneInv, NEW t \in Threads, NEW pc, At(t, pc)
  PROVE  LET m == IF Len(stack[t]) = 1 THEN pc ELSE "handle" IN Fields(m) /\ Numbers(m)
<1> DEFINE m == IF Len(stack[t]) = 1 THEN pc ELSE "handle"
<1>1. m = Main(stack[t])
  BY MainAt
<1>2. Fields(Main(stack[t])) /\ Numbers(Main(stack[t]))
  BY DEF AloneInv, InTurn
<1> QED BY <1>1, <1>2

LEMMA AloneTypes ==
  ASSUME AloneInv
  PROVE  /\ evq \in Seq(1 .. MaxPosts) /\ Len(evq) \in Nat
         /\ told \in Seq(0 .. MaxPosts) /\ Len(told) \in Nat
         /\ posted \in Nat /\ locked \in BOOLEAN /\ changed \in BOOLEAN
         /\ (evq = <<>> <=> Len(evq) = 0)
BY DEF AloneInv, IInv, TypeOK

\* Before the queue is drained, and while a handler runs, nothing is said of m.
LEMMA SameFields ==
  ASSUME NEW m, NEW n, Fields(m), Numbers(m),
         UNCHANGED <<evq, event, locked, changed, posted, told>>,
         n = m \/ (m \in Entering /\ n \in Entering \cup {"mark"})
  PROVE  Fields(n)' /\ Numbers(n)'
<1>1. CASE n = m
  BY <1>1 DEF Fields, Numbers
<1>2. CASE m \in Entering /\ n \in Entering \cup {"mark"}
  <2>1. /\ m \notin {"notify", "fetch", "unlock", "out"} \cup Draining
        /\ n \notin {"notify", "fetch", "unlock", "out"} \cup Draining
        /\ Fetched(m) = 0 /\ Fetched(n) = 0
    BY <1>2 DEF Entering, Draining, Fetched
  <2>2. Fields(n)'
    BY <2>1 DEF Fields
  <2>3. Numbers(n)'
    BY <2>1 DEF Numbers
  <2> QED BY <2>2, <2>3
<1> QED BY <1>1, <1>2

LEMMA InsertAlone ==
  ASSUME SingleThread, AloneInv, NEW t \in Threads, Insert(t)
  PROVE  InTurn'
<1> DEFINE f == [pc |-> "lock", mon |-> FALSE]
<1>1. PICK s \in Seq(Frame) : s = stack[t] /\ Shallow(s)
  BY DEF AloneInv, IInv, TypeOK, Frame, InTurn
<1>2. f \in Frame /\ f.pc = "lock"
  BY DEF Frame, PCs
<1>3. stack \in [Threads -> Seq(Frame)] /\ stack' = [stack EXCEPT ![t] = Append(s, f)]
  BY <1>1 DEF Insert, AloneInv, IInv, TypeOK, Frame
<1>4. s = <<>> \/ s[Len(s)].pc = "handle"
  BY <1>1 DEF Insert, At, Top
<1>5. /\ posted' = posted + 1 /\ evq' = Append(evq, posted + 1)
      /\ event' = event /\ locked' = locked /\ changed' = changed /\ told' = told
  BY DEF Insert
<1>6. stack'[t] = Append(s, f)
  BY <1>3
<1> HIDE DEF f
<1>7. PICK r : r = stack'[t] /\ Pushed(s, r, f)
  BY <1>1, <1>2, <1>6, Pushing
<1>8. PICK m : m = Main(s)
  OBVIOUS
<1>9. PICK n : n = Main(r)
  OBVIOUS
<1>10. Fields(m) /\ Numbers(m)
  BY <1>1, <1>8 DEF AloneInv, InTurn
<1>11. Shallow(r) /\ (s = <<>> => n = "lock") /\ (s # <<>> => n = m)
  BY <1>1, <1>2, <1>4, <1>7, <1>8, <1>9, MainPushed
<1>12. (m = "out" /\ n = "lock") \/ (m = "handle" /\ n = "handle")
  <2>1. s = <<>> => m = "out"
    BY <1>8 DEF Main
  <2>2. s # <<>> => m = "handle"
    BY <1>1, <1>4, <1>8, MainCall DEF Entering
  <2> QED BY <1>11, <2>1, <2>2
<1>13. evq' # <<>>
  BY <1>5, AloneTypes
<1>14. Fields(n)'
  <2>1. locked' <=> n \in Draining
    BY <1>5, <1>10, <1>12 DEF Fields, Draining
  <2>2. changed' <=> n = "notify"
    BY <1>5, <1>10, <1>12 DEF Fields
  <2>3. n \notin {"fetch", "unlock", "out"}
    BY <1>12
  <2> QED BY <2>1, <2>2, <2>3 DEF Fields
<1>15. Fetched(m) = 0 /\ Fetched(n) = 0
  BY <1>12 DEF Fetched
<1>16. Numbers(n)'
  <2>1. PICK k \in Nat, l \in Nat, q \in Seq(1 .. MaxPosts) :
         k = Len(told) /\ l = Len(evq) /\ q = evq'
    <3>1. evq' \in Seq(1 .. MaxPosts)
      BY InsertKeeps DEF AloneInv, IInv, TypeOK
    <3> QED BY <3>1, AloneTypes
  <2>2. posted = k + l /\ \A i \in 1 .. l : evq[i] = k + i
    BY <1>10, <1>15, <2>1 DEF Numbers
  <2>3. Len(q) = l + 1 /\ q[l + 1] = k + l + 1 /\ \A i \in 1 .. l : q[i] = evq[i]
    BY <1>5, <2>1, <2>2, AloneTypes
  <2>4. ASSUME NEW i \in 1 .. l + 1 PROVE q[i] = k + i
    <3>1. CASE i = l + 1
      BY <2>3, <3>1
    <3>2. CASE i # l + 1
      BY <2>2, <2>3, <3>2
    <3> QED BY <3>1, <3>2
  <2>5. posted' = k + 0 + Len(q) /\ \A i \in 1 .. Len(q) : q[i] = k + 0 + i
    BY <1>5, <2>1, <2>2, <2>3, <2>4
  <2> QED BY <1>5, <1>15, <2>1, <2>5 DEF Numbers
<1> QED BY <1>7, <1>9, <1>11, <1>14, <1>16, OnlyThread

\* The first half of set(): a nested call sees locked and returns.
LEMMA EntryAlone ==
  ASSUME SingleThread, AloneInv, NEW t \in Threads, Lock(t) \/ Enter(t) \/ Check(t)
  PROVE  InTurn'
<1>1. PICK s \in Seq(Frame) : s = stack[t]
  BY DEF AloneInv, IInv, TypeOK, Frame
<1>2. PICK pc \in Entering : At(t, pc)
  BY DEF Lock, Enter, Check, Entering
<1>3. /\ s # <<>> /\ Shallow(s) /\ Len(s) \in {1, 2}
      /\ Len(s) = 1 => Main(s) = pc
      /\ Len(s) = 2 => Main(s) = "handle"
  BY <1>1, <1>2, MainAt
<1>4. PICK m : m = Main(s) /\ Fields(m) /\ Numbers(m)
  BY <1>1 DEF AloneInv, InTurn
<1>5. UNCHANGED <<evq, event, locked, changed, posted, told>>
  BY DEF Lock, Enter, Check
<1>6. "handle" \notin Entering \cup {"mark"}
  BY DEF Entering
\* A call that stays at the entrance.
<1>7. ASSUME NEW f \in Frame, f.pc \in Entering, Replaced(s, stack'[t], f)
      PROVE  InTurn'
  <2>1. PICK n : /\ Shallow(stack'[t]) /\ n = Main(stack'[t])
                 /\ Len(s) = 1 => n = f.pc
                 /\ Len(s) = 2 => n = m
    BY <1>3, <1>4, <1>7, MainReplaced
  <2>2. n = m \/ (m \in Entering /\ n \in Entering)
    BY <1>2, <1>3, <1>4, <1>7, <2>1
  <2>3. Fields(n)' /\ Numbers(n)'
    BY <1>4, <1>5, <2>2, SameFields
  <2> QED BY <2>1, <2>3, OnlyThread
<1>8. CASE Lock(t)
  <2>1. PICK f : f = [pc |-> "enter", mon |-> locked]
    OBVIOUS
  <2>2. stack' = [stack EXCEPT ![t][Len(stack[t])] = f]
    BY <1>8, <2>1 DEF Lock
  <2>3. f \in Frame /\ f.pc \in Entering
    BY <2>1, AloneTypes DEF Frame, PCs, Entering
  <2>4. Replaced(s, stack'[t], f)
    BY <1>1, <1>3, <2>2, <2>3, Moving DEF AloneInv, IInv
  <2> QED BY <1>7, <2>3, <2>4
<1>9. CASE Enter(t)
  <2>1. Goto(t, "check") /\ "check" \in PCs
    BY <1>9 DEF Enter, PCs
  <2>2. PICK f : f = [pc |-> "check", mon |-> Top(t).mon]
    OBVIOUS
  <2>3. f \in Frame /\ Replaced(s, stack'[t], f)
    BY <1>1, <1>3, <2>1, <2>2, GoingTo DEF AloneInv, IInv
  <2>4. f.pc \in Entering
    BY <2>2 DEF Entering
  <2> QED BY <1>7, <2>3, <2>4
<1>10. CASE Check(t)
  <2>1. At(t, "check")
    BY <1>10 DEF Check
  <2>2. Len(s) = 1 => m = "check"
    BY <1>1, <1>4, <2>1, MainAt
  <2>3. CASE locked
    <3>1. Len(s) = 2
      BY <1>3, <1>4, <2>2, <2>3 DEF Fields, Draining
    <3>2. Return(t)
      BY <1>10, <2>3 DEF Check
    <3>3. Popped(s, stack'[t])
      BY <1>1, <1>3, <3>2, Returning DEF AloneInv, IInv
    <3>4. Shallow(stack'[t]) /\ Main(stack'[t]) = m
      BY <1>3, <1>4, <3>1, <3>3, MainPopped
    <3>5. Fields(m)' /\ Numbers(m)'
      BY <1>4, <1>5, SameFields
    <3> QED BY <3>4, <3>5, OnlyThread
  <2>4. CASE ~locked
    <3>1. Len(s) = 1
      BY <1>3, <1>4, <2>4 DEF Fields, Draining
    <3>2. Goto(t, "mark") /\ "mark" \in PCs
      BY <1>10, <2>4 DEF Check, PCs
    <3>3. Shallow(stack'[t]) /\ Main(stack'[t]) = "mark"
      BY <1>1, <2>1, <3>1, <3>2, AloneGoto
    <3>4. Fields("mark")' /\ Numbers("mark")'
      BY <1>4, <1>5, <2>2, <3>1, SameFields DEF Entering
    <3> QED BY <3>3, <3>4, OnlyThread
  <2> QED BY <2>3, <2>4
<1> QED BY <1>8, <1>9, <1>10

\* The loop of set(), which only the outermost call runs.
LEMMA LoopAlone ==
  ASSUME SingleThread, AloneInv, NEW t \in Threads, NEW from \in PCs, At(t, from),
         from \notin Entering, NEW pc \in PCs, Goto(t, pc), Fields(pc)', Numbers(pc)'
  PROVE  InTurn'
BY AloneGoto, OnlyThread

LEMMA DrainAlone ==
  ASSUME SingleThread, AloneInv, NEW t \in Threads,
         \/ Mark(t) \/ Size(t) \/ Fetch(t) \/ SetChanged(t) \/ Notify(t) \/ Read(t)
         \/ Handled(t) \/ Unlock(t)
  PROVE  InTurn' /\ (~Read(t) => UNCHANGED told)
<1>0. ~Read(t) => UNCHANGED told
  BY DEF Mark, Size, Fetch, SetChanged, Notify, Handled, Unlock
<1> DEFINE Places == {"mark", "size", "fetch", "changed", "notify", "read", "handle", "unlock"}
<1>1. PICK from \in Places : At(t, from)
  BY DEF Mark, Size, Fetch, SetChanged, Notify, Read, Handled, Unlock
<1>2. Places \subseteq PCs /\ Places \cap Entering = {}
  BY DEF PCs, Entering
<1>3. Len(stack[t]) = 1
  BY <1>1, <1>2, MainAt
<1>4. ASSUME NEW pc, At(t, pc) PROVE Fields(pc) /\ Numbers(pc)
  BY <1>3, <1>4, AloneAt
<1>5. ASSUME NEW pc \in Places, Goto(t, pc), Fields(pc)', Numbers(pc)' PROVE InTurn'
  BY <1>1, <1>2, <1>5, LoopAlone
<1>6. PICK k \in Nat, l \in Nat, q \in Seq(1 .. MaxPosts) :
        k = Len(told) /\ l = Len(evq) /\ q = evq
  BY AloneTypes
<1>7. CASE Mark(t)
  <2>1. At(t, "mark") /\ Goto(t, "size") /\ locked' = TRUE /\ UNCHANGED <<evq, event, changed, posted, told>>
    BY <1>7 DEF Mark
  <2>2. Fields("mark") /\ Numbers("mark")
    BY <1>4, <2>1
  <2>3. Fields("size")'
    BY <2>1, <2>2 DEF Fields, Draining
  <2>4. Numbers("size")'
    BY <2>1, <2>2 DEF Numbers, Fetched
  <2> QED BY <1>0, <1>5, <1>7, <2>1, <2>3, <2>4 DEF Mark
<1>8. CASE Size(t)
  <2>1. At(t, "size") /\ UNCHANGED <<evq, event, locked, changed, posted, told>>
    BY <1>8 DEF Size
  <2>2. Fields("size") /\ Numbers("size")
    BY <1>4, <2>1
  <2>3. CASE evq = <<>>
    <3>1. Fields("unlock")'
      BY <2>1, <2>2, <2>3 DEF Fields, Draining
    <3>2. Numbers("unlock")'
      BY <2>1, <2>2 DEF Numbers, Fetched
    <3> QED BY <1>5, <1>8, <2>1, <2>3, <3>1, <3>2 DEF Size
  <2>4. CASE evq # <<>>
    <3>1. Fields("fetch")'
      BY <2>1, <2>2, <2>4 DEF Fields, Draining
    <3>2. Numbers("fetch")'
      BY <2>1, <2>2 DEF Numbers, Fetched
    <3> QED BY <1>5, <1>8, <2>1, <2>4, <3>1, <3>2 DEF Size
  <2> QED BY <2>3, <2>4
<1>9. CASE Fetch(t)
  <2>1. At(t, "fetch") /\ UNCHANGED <<locked, changed, posted, told>>
    BY <1>9 DEF Fetch
  <2>2. Fields("fetch") /\ Numbers("fetch")
    BY <1>4, <2>1
  <2>3. evq # <<>>
    BY <2>2 DEF Fields
  <2>4. event' = Head(evq) /\ evq' = Tail(evq) /\ Goto(t, "changed")
    BY <1>9, <2>3 DEF Fetch
  <2>5. Fields("changed")'
    BY <2>1, <2>2 DEF Fields, Draining
  <2>6. posted = k + l /\ \A i \in 1 .. l : q[i] = k + i
    BY <1>6, <2>2 DEF Numbers, Fetched
  <2>7. q # <<>> /\ l >= 1 /\ Len(Tail(q)) = l - 1 /\ Head(q) = q[1]
        /\ \A i \in 1 .. l - 1 : Tail(q)[i] = q[i + 1]
    BY <1>6, <2>3
  <2>8. /\ posted = k + 1 + Len(Tail(q)) /\ Head(q) = k + 1
        /\ \A i \in 1 .. Len(Tail(q)) : Tail(q)[i] = k + 1 + i
    BY <1>6, <2>6, <2>7
  <2>9. Numbers("changed")'
    BY <1>6, <2>1, <2>4, <2>8 DEF Numbers, Fetched
  <2> QED BY <1>0, <1>5, <1>9, <2>1, <2>4, <2>5, <2>9
<1>10. CASE SetChanged(t)
  <2>1. At(t, "changed") /\ changed' = TRUE /\ Goto(t, "notify")
        /\ UNCHANGED <<evq, event, locked, posted, told>>
    BY <1>10 DEF SetChanged
  <2>2. Fields("changed") /\ Numbers("changed")
    BY <1>4, <2>1
  <2>3. Fields("notify")'
    BY <2>1, <2>2 DEF Fields, Draining
  <2>4. Numbers("notify")'
    BY <2>1, <2>2 DEF Numbers, Fetched
  <2> QED BY <1>5, <2>1, <2>3, <2>4
<1>11. CASE Notify(t)
  <2>1. At(t, "notify") /\ changed' = FALSE /\ UNCHANGED <<evq, event, locked, posted, told>>
    BY <1>11 DEF Notify
  <2>2. Fields("notify") /\ Numbers("notify")
    BY <1>4, <2>1
  <2>3. Goto(t, "read")
    BY <1>11, <2>2 DEF Notify, Fields
  <2>4. Fields("read")'
    BY <2>1, <2>2 DEF Fields, Draining
  <2>5. Numbers("read")'
    BY <2>1, <2>2 DEF Numbers, Fetched
  <2> QED BY <1>5, <2>1, <2>3, <2>4, <2>5
<1>12. CASE Read(t)
  <2>1. At(t, "read") /\ told' = Append(told, event) /\ Goto(t, "handle")
        /\ UNCHANGED <<evq, event, locked, changed, posted>>
    BY <1>12 DEF Read
  <2>2. Fields("read") /\ Numbers("read")
    BY <1>4, <2>1
  <2>3. Fields("handle")'
    BY <2>1, <2>2 DEF Fields, Draining
  <2>4. Len(told') = k + 1
    BY <1>6, <2>1, AloneTypes
  <2>5. posted = k + 1 + l /\ \A i \in 1 .. l : q[i] = k + 1 + i
    BY <1>6, <2>2 DEF Numbers, Fetched
  <2>6. posted = k + 1 + 0 + l /\ \A i \in 1 .. l : q[i] = k + 1 + 0 + i
    BY <1>6, <2>5
  <2>7. Numbers("handle")'
    BY <1>6, <2>1, <2>4, <2>6 DEF Numbers, Fetched
  <2> QED BY <1>5, <1>12, <2>1, <2>3, <2>7
<1>13. CASE Handled(t)
  <2>1. At(t, "handle") /\ Goto(t, "size")
        /\ UNCHANGED <<evq, event, locked, changed, posted, told>>
    BY <1>13 DEF Handled
  <2>2. Fields("handle") /\ Numbers("handle")
    BY <1>4, <2>1
  <2>3. Fields("size")'
    BY <2>1, <2>2 DEF Fields, Draining
  <2>4. Numbers("size")'
    BY <2>1, <2>2 DEF Numbers, Fetched
  <2> QED BY <1>5, <2>1, <2>3, <2>4
<1>14. CASE Unlock(t)
  <2>1. At(t, "unlock") /\ Return(t) /\ locked' = FALSE
        /\ UNCHANGED <<evq, event, changed, posted, told>>
    BY <1>14 DEF Unlock
  <2>2. Fields("unlock") /\ Numbers("unlock")
    BY <1>4, <2>1
  <2>3. PICK s : s = stack[t] /\ s \in Seq(Frame) /\ s # <<>> /\ Shallow(s)
    BY <2>1, MainAt
  <2>4. Popped(s, stack'[t])
    BY <2>1, <2>3, Returning DEF AloneInv, IInv
  <2>5. Shallow(stack'[t]) /\ Main(stack'[t]) = "out"
    BY <1>3, <2>3, <2>4, MainPopped
  <2>6. Fields("out")'
    BY <2>1, <2>2 DEF Fields, Draining
  <2>7. Numbers("out")'
    BY <2>1, <2>2 DEF Numbers, Fetched
  <2> QED BY <2>1, <2>5, <2>6, <2>7, OnlyThread
<1> HIDE DEF Places
<1>15. InTurn'
  BY <1>7, <1>8, <1>9, <1>10, <1>11, <1>12, <1>13, <1>14
<1> QED BY <1>0, <1>15

\* The state machine reads the event after the last one it was told.
LEMMA ReadsNext ==
  ASSUME AloneInv, NEW t \in Threads, Read(t)
  PROVE  /\ told' = Append(told, Len(told) + 1) /\ Len(told)' = Len(told) + 1
         /\ Len(told) < posted /\ UNCHANGED posted /\ ToldInOrder'
<1>1. At(t, "read") /\ told' = Append(told, event) /\ UNCHANGED posted
  BY DEF Read
<1>2. Len(stack[t]) = 1
  BY <1>1, MainAt DEF Entering
<1>3. Numbers("read")
  BY <1>1, <1>2, AloneAt
<1>4. PICK k \in Nat, l \in Nat : k = Len(told) /\ l = Len(evq)
  BY AloneTypes
<1>5. event = k + 1 /\ posted = k + 1 + l
  BY <1>3, <1>4 DEF Numbers, Fetched
<1>6. /\ Len(told') = k + 1 /\ told'[k + 1] = k + 1
      /\ \A i \in 1 .. k : told'[i] = told[i]
  BY <1>1, <1>4, <1>5, AloneTypes
<1>7. \A i \in 1 .. k : told[i] = i
  BY <1>4 DEF AloneInv, ToldInOrder
<1>8. \A i \in 1 .. k + 1 : told'[i] = i
  BY <1>4, <1>6, <1>7
<1>9. ToldInOrder'
  BY <1>6, <1>8 DEF ToldInOrder
<1> QED BY <1>1, <1>4, <1>5, <1>6, <1>9

LEMMA AloneInit == ASSUME Init PROVE AloneInv
<1>1. IInv
  BY InitOK
<1>2. ToldInOrder
  BY DEF Init, ToldInOrder
<1>3. ASSUME NEW t \in Threads
      PROVE  Shallow(stack[t]) /\ Fields(Main(stack[t])) /\ Numbers(Main(stack[t]))
  <2>1. stack[t] = <<>> /\ Main(stack[t]) = "out"
    BY DEF Init, Main
  <2>2. evq = <<>> /\ told = <<>> /\ posted = 0 /\ ~locked /\ ~changed
    BY DEF Init
  <2>3. Shallow(stack[t])
    BY <2>1 DEF Shallow
  <2>4. Fields("out")
    BY <2>2 DEF Fields, Draining
  <2>5. Numbers("out")
    BY <2>2 DEF Numbers, Fetched
  <2> QED BY <2>1, <2>3, <2>4, <2>5
<1> QED BY <1>1, <1>2, <1>3 DEF AloneInv, InTurn

LEMMA AloneInductive ==
  ASSUME SingleThread, AloneInv, [Next]_vars
  PROVE  AloneInv'
<1>1. IInv'
  BY Inductive DEF AloneInv
<1>2. ASSUME UNCHANGED told PROVE ToldInOrder'
  BY <1>2 DEF AloneInv, ToldInOrder
<1>3. CASE Next
  <2>1. PICK t \in Threads : Insert(t) \/ Progress(t)
    BY <1>3 DEF Next
  <2>2. CASE Insert(t)
    BY <1>1, <1>2, <2>2, InsertAlone DEF AloneInv, Insert
  <2>3. CASE Lock(t) \/ Enter(t) \/ Check(t)
    <3>1. InTurn' /\ UNCHANGED told
      BY <2>3, EntryAlone DEF Lock, Enter, Check
    <3> QED BY <1>1, <1>2, <3>1 DEF AloneInv
  <2>4. CASE \/ Mark(t) \/ Size(t) \/ Fetch(t) \/ SetChanged(t) \/ Notify(t) \/ Read(t)
             \/ Handled(t) \/ Unlock(t)
    BY <1>1, <1>2, <2>4, DrainAlone, ReadsNext DEF AloneInv
  <2> QED BY <2>1, <2>2, <2>3, <2>4 DEF Progress
<1>4. CASE UNCHANGED vars
  <2>1. ToldInOrder'
    BY <1>2, <1>4 DEF vars
  <2>2. InTurn'
    BY <1>4 DEF AloneInv, InTurn, Fields, Numbers, vars
  <2> QED BY <1>1, <2>1, <2>2 DEF AloneInv
<1> QED BY <1>3, <1>4

\* Only the outermost call of the one thread can be at read or handle.
LEMMA OneFromAlone ==
  ASSUME SingleThread, AloneInv
  PROVE  OneNotification
<1> DEFINE Notifying == {f \in Frames : PC(f) \in {"read", "handle"}}
<1>1. ASSUME NEW f \in Notifying PROVE f[1] \in Threads /\ f = <<f[1], 1>>
  <2>1. PICK t \in Threads, d \in 1 .. MaxDepth : f = <<t, d>> /\ d <= Len(stack[t])
    BY DEF Frames
  <2>2. stack[t] \in Seq(Frame) /\ Shallow(stack[t])
    BY DEF AloneInv, IInv, TypeOK, Frame, InTurn
  <2>3. stack[t][d].pc \notin Entering
    BY <2>1 DEF PC, Entering
  <2>4. d = 1
    BY <2>1, <2>2, <2>3 DEF Shallow
  <2> QED BY <2>1, <2>4
<1>2. \A f, g \in Notifying : f = g
  BY <1>1 DEF SingleThread
<1> HIDE DEF Notifying
<1>3. CASE Notifying = {}
  BY <1>3, FS_EmptySet DEF OneNotification, Notifying
<1>4. CASE Notifying # {}
  <2>1. PICK f \in Notifying : Notifying = {f}
    BY <1>2, <1>4
  <2>2. Cardinality(Notifying) = 1
    BY <2>1, FS_Singleton
  <2> QED BY <2>2 DEF OneNotification, Notifying
<1> QED BY <1>3, <1>4

\* A step of the event object is a step of the queue it promises, or a stutter.
LEMMA QueueStep ==
  ASSUME SingleThread, AloneInv, [Next]_vars
  PROVE  [Abstract!Next]_<<posted, Len(told)>>
<1>1. CASE Next
  <2>1. PICK t \in Threads : Insert(t) \/ Progress(t)
    BY <1>1 DEF Next
  <2>2. CASE Insert(t)
    BY <2>2 DEF Insert, Abstract!Next, Abstract!Post
  <2>3. CASE Read(t)
    BY <2>3, ReadsNext DEF Abstract!Next, Abstract!Tell
  <2>4. CASE Progress(t) /\ ~Read(t)
    BY <2>4 DEF Progress, Lock, Enter, Check, Mark, Size, Fetch, SetChanged, Notify,
                Handled, Unlock
  <2> QED BY <2>1, <2>2, <2>3, <2>4
<1>2. CASE UNCHANGED vars
  BY <1>2 DEF vars
<1> QED BY <1>1, <1>2

-----------------------------------------------------------------------------
\* The fields of the event object and the calls of its threads keep their types.
THEOREM TypeCorrect == Spec => []TypeOK
<1>1. IInv => TypeOK
  BY DEF IInv
<1> QED BY InitOK, Inductive, <1>1, PTL DEF Spec

\* IPT_Event.set never leaves the object locked behind it, whichever thread dies of
\* the null fetch of line 43.
THEOREM NeverWedged == Spec => []IdleUnlocked
BY InitOK, Inductive, IdleFromDrainer, PTL DEF Spec

\* With one thread: no observer is notified before the notification before it is
\* complete, also when an observer posts (IPT_Event.java:7-9).
THEOREM OneAtATime == SingleThread => (Spec => []OneNotification)
<1> SUFFICES ASSUME SingleThread PROVE Spec => []OneNotification
  OBVIOUS
<1>1. Init => AloneInv
  BY AloneInit
<1>2. AloneInv /\ [Next]_vars => AloneInv'
  BY AloneInductive
<1>3. AloneInv => OneNotification
  BY OneFromAlone
<1> QED BY <1>1, <1>2, <1>3, PTL DEF Spec

\* With one thread: the state machine reads the events in the order of the calls of
\* set(), each once and none left out (IPT_Event.java:41-49).
THEOREM InOrder == SingleThread => (Spec => []ToldInOrder)
<1> SUFFICES ASSUME SingleThread PROVE Spec => []ToldInOrder
  OBVIOUS
<1>1. Init => AloneInv
  BY AloneInit
<1>2. AloneInv /\ [Next]_vars => AloneInv'
  BY AloneInductive
<1>3. AloneInv => ToldInOrder
  BY DEF AloneInv
<1> QED BY <1>1, <1>2, <1>3, PTL DEF Spec

\* With one thread, set() implements the queue of its comment (IPT_Event.java:5-9):
\* the safety part of ImplementsQueue, its fairness apart.
THEOREM QueueImplemented ==
  SingleThread => (Spec => Abstract!Init /\ [][Abstract!Next]_<<posted, Len(told)>>)
<1> SUFFICES ASSUME SingleThread
             PROVE  Spec => Abstract!Init /\ [][Abstract!Next]_<<posted, Len(told)>>
  OBVIOUS
<1>1. Init => AloneInv /\ Abstract!Init
  BY AloneInit DEF Init, Abstract!Init
<1>2. AloneInv /\ [Next]_vars => AloneInv'
  BY AloneInductive
<1>3. AloneInv /\ [Next]_vars => [Abstract!Next]_<<posted, Len(told)>>
  BY QueueStep
<1> QED BY <1>1, <1>2, <1>3, PTL DEF Spec
=============================================================================
