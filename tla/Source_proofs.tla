---------------------------- MODULE Source_proofs ----------------------------
(***************************************************************************)
(* Whatever packets come and whenever the main loop gets to the source,    *)
(* the buffers stay in order, no assertion fails, each unit is mixed once  *)
(* and none that is due is left waiting, while time wraps round any number *)
(* of times: for every value of the parameters for which the times that    *)
(* are compared lie within half of the range (WindowParameters).           *)
(***************************************************************************)
EXTENDS Source, Integers, WellFoundedInduction, SequenceTheorems, TLAPS

-----------------------------------------------------------------------------
(***************************************************************************)
(* Numbers: induction over them (a set of them has a least one), the       *)
(* bounds the constants give, and the window of times.                     *)
(***************************************************************************)

\* A set of numbers has a least one; the induction that is needed is done with it.
LEMMA Least == ASSUME NEW S \in SUBSET Nat, S # {}
               PROVE  \E m \in S : \A k \in S : m <= k
<1> DEFINE Below == {ss \in Nat \X Nat : ss[1] < ss[2]}
<1>1. IsWellFoundedOn(Below, Nat)
  BY NatLessThanWellFounded DEF OpToRel
<1>2. \E m \in S : \A k \in S : ~(<<k, m>> \in Below)
  <2> HIDE DEF Below
  <2> QED BY <1>1, WFMin
<1>3. \A k, m \in S : k < m => <<k, m>> \in Below
  OBVIOUS
<1> HIDE DEF Below
<1>4. \A k, m \in S : ~(k < m) => m <= k
  OBVIOUS
<1> QED BY <1>2, <1>3, <1>4

\* A set of numbers with a bound has a maximum.
LEMMA Greatest == ASSUME NEW h \in Nat, NEW S \in SUBSET (0 .. h), S # {}
                  PROVE  Max(S) \in S /\ \A x \in S : x <= Max(S)
<1> DEFINE D == {h - x : x \in S}
<1>1. D \in SUBSET Nat /\ D # {}
  <2>1. \A x \in S : h - x \in Nat
    OBVIOUS
  <2> QED BY <2>1
<1>2. PICK d \in D : \A e \in D : d <= e
  <2> HIDE DEF D
  <2> QED BY <1>1, Least
<1>3. PICK x \in S : d = h - x
  OBVIOUS
<1>4. \A y \in S : h - y \in D
  OBVIOUS
<1>5. \A y \in S : x >= y
  BY <1>2, <1>3, <1>4
<1> QED BY <1>3, <1>5 DEF Max

\* The range of time has two halves.
LEMMA HalfRange == half_range \in Nat /\ half_range >= 2 /\ Wrap = 2 * half_range
  BY TickerParameters DEF half_range

\* Every parameter is a number.
LEMMA Params ==
  /\ frame_dur \in Nat /\ MaxUnits \in Nat /\ cushion \in Nat /\ max_packets \in Nat
  /\ history_ts \in Nat /\ keep_source_ts \in Nat /\ repair_max_gap \in Nat
  /\ transit_jump \in Nat /\ Sane \in Nat /\ Fresh \in Nat
  /\ frame_dur >= 1 /\ MaxUnits >= 1 /\ cushion >= 1 /\ max_packets >= 1 /\ history_ts >= 1
  /\ transit_jump >= 1 /\ Sane >= 1 /\ Fresh >= 1
  /\ MaxTroubles \in Nat /\ SkewAfter \in Nat /\ RepairAfter \in Nat /\ Stall \in Nat
  /\ Start \in Ticks /\ Start \in Nat /\ Start < Wrap
<1>1. \A c \in {frame_dur, MaxUnits, cushion, max_packets, history_ts, keep_source_ts,
                repair_max_gap, transit_jump, Sane, Fresh} : c \in Nat /\ c >= 1
  <2>1. \A c \in Nat \ {0} : c \in Nat /\ c >= 1
    OBVIOUS
  <2> QED BY <2>1, SourceParameters
<1>2. \A c \in {MaxTroubles, SkewAfter, RepairAfter, Stall} : c \in Nat
  BY SourceParameters
<1>3. Start \in Ticks /\ Start \in Nat /\ Start < Wrap
  BY SourceParameters, HalfRange DEF Ticks
<1> QED BY <1>1, <1>2, <1>3

\* The sets of bounds have a maximum.
LEMMA Sets ==
  /\ Max(Ages) \in Nat /\ \A x \in Ages : x \in Nat /\ x <= Max(Ages)
  /\ Max(Elapsed) \in Nat /\ \A x \in Elapsed : x \in Nat /\ x >= 1 /\ x <= Max(Elapsed)
  /\ Max(Delays) \in Nat /\ Max(Delays) <= half_range
  /\ \A x \in Delays : x \in Nat /\ x <= Max(Delays)
<1>1. \A S \in {Ages, Elapsed, Delays} : S # {} /\ S \in SUBSET (0 .. half_range)
  BY SourceParameters
<1>2. \A S \in {Ages, Elapsed, Delays} : Max(S) \in S /\ \A x \in S : x <= Max(S)
  BY <1>1, HalfRange, Greatest
<1> QED BY <1>1, <1>2, HalfRange, SourceParameters

\* What was mixed ends in less than Mixed, whatever it is that sets it.
LEMMA MixedIs ==
  /\ Mixed \in Nat /\ cushion + frame_dur - 1 <= Mixed /\ Max(Delays) <= Mixed
<1> DEFINE S == {cushion + frame_dur - 1, Max(Delays)}
<1>1. S \in SUBSET (0 .. (cushion + frame_dur + half_range))
  BY Params, Sets, HalfRange
<1>2. cushion + frame_dur + half_range \in Nat
  BY Params, HalfRange
<1>3. Max(S) \in S /\ \A x \in S : x <= Max(S)
  <2> HIDE DEF S
  <2>1. S # {} BY DEF S
  <2> QED BY <1>1, <1>2, <2>1, Greatest
<1> QED BY <1>3, Params, Sets DEF Mixed

\* The products are numbers.
LEMMA Products ==
  /\ MaxUnits * frame_dur \in Nat /\ MaxTroubles * frame_dur \in Nat
  /\ (MaxUnits + MaxTroubles) * frame_dur = MaxUnits * frame_dur + MaxTroubles * frame_dur
  BY Params

\* The window the times lie in, and its width.
LEMMA Windows ==
  /\ Lead \in Nat /\ Lead = Mixed + 2 * transit_jump /\ Lead < Sane
  /\ Past \in Nat
  /\ Past = Max(Ages) + Max(Elapsed) + Stall + history_ts + 2 * Mixed + 5 * frame_dur + transit_jump
  /\ Future \in Nat
  /\ Future = Lead + cushion + MaxUnits * frame_dur + MaxTroubles * frame_dur
  /\ Past + Future < half_range
<1>1. Lead \in Nat /\ Lead = Mixed + 2 * transit_jump
  BY Params, MixedIs DEF Lead
<1>2. Future \in Nat /\ Future = Lead + cushion + MaxUnits * frame_dur + MaxTroubles * frame_dur
  BY <1>1, Params, Products DEF Future
<1>3. /\ Past \in Nat
      /\ Past = Max(Ages) + Max(Elapsed) + Stall + history_ts + 2 * Mixed + 5 * frame_dur + transit_jump
  BY Params, MixedIs, Sets DEF Past
<1> QED BY <1>1, <1>2, <1>3, WindowParameters
-----------------------------------------------------------------------------
\* Time as seen from n: the ticks since Past before it.
Since(n, t) == ts_sub(t, ts_sub(n, Past))

\* The window begins Past before now.
LEMMA Origin == ASSUME NEW n \in Ticks
                PROVE  ts_sub(n, Past) \in Ticks /\ Since(n, n) = Past
  BY HalfRange, Windows DEF ts_sub, Ticks, Since

\* What Since gives is a number within the range.
LEMMA SinceTyped == ASSUME NEW n \in Ticks, NEW t \in Ticks
                    PROVE  Since(n, t) \in 0 .. Wrap - 1
  BY HalfRange, Origin DEF Since, ts_sub, Ticks

\* Since tells times apart.
LEMMA SameTime == ASSUME NEW n \in Ticks, NEW s \in Ticks, NEW t \in Ticks
                  PROVE  Since(n, s) = Since(n, t) <=> s = t
<1> DEFINE o == ts_sub(n, Past)
<1>1. o \in 0 .. Wrap - 1 BY Origin DEF Ticks
<1>2. half_range \in Nat /\ Wrap = 2 * half_range
  BY HalfRange
<1>3. Since(n, s) = (IF s < o THEN s + Wrap - o ELSE s - o)
      /\ Since(n, t) = (IF t < o THEN t + Wrap - o ELSE t - o)
  BY DEF Since, ts_sub
<1> HIDE DEF o
<1> QED BY <1>1, <1>2, <1>3 DEF Ticks

\* In the window times are ordered as numbers are.
LEMMA Later == ASSUME NEW n \in Ticks, NEW s \in Ticks, NEW t \in Ticks,
                      Since(n, s) <= Past + Future, Since(n, t) <= Past + Future
               PROVE  ts_gt(s, t) <=> Since(n, s) > Since(n, t)
<1> DEFINE o == ts_sub(n, Past)
<1>1. o \in 0 .. Wrap - 1 BY Origin DEF Ticks
<1>2. half_range \in Nat /\ Wrap = 2 * half_range /\ Past + Future < half_range /\ Past + Future \in Nat
  BY HalfRange, Windows
<1>3. Since(n, s) = (IF s < o THEN s + Wrap - o ELSE s - o)
      /\ Since(n, t) = (IF t < o THEN t + Wrap - o ELSE t - o)
  BY DEF Since, ts_sub
<1> HIDE DEF o
<1> QED BY <1>1, <1>2, <1>3 DEF Ticks, ts_gt

\* A time put off within the window.
LEMMA Added == ASSUME NEW n \in Ticks, NEW t \in Ticks, NEW d \in Nat, Since(n, t) + d <= Past + Future
               PROVE  ts_add(t, d) \in Ticks /\ Since(n, ts_add(t, d)) = Since(n, t) + d
<1> DEFINE o == ts_sub(n, Past)
<1>1. o \in 0 .. Wrap - 1 BY Origin DEF Ticks
<1>2. half_range \in Nat /\ Wrap = 2 * half_range /\ Past + Future < half_range /\ Past + Future \in Nat
  BY HalfRange, Windows
<1>3. Since(n, t) = (IF t < o THEN t + Wrap - o ELSE t - o)
  BY DEF Since, ts_sub
<1>4. d < Wrap BY <1>2, SinceTyped DEF Ticks
<1>5. ts_add(t, d) = IF t + d < Wrap THEN t + d ELSE t + d - Wrap
  BY <1>2, <1>4 DEF ts_add, Ticks
<1>6. Since(n, ts_add(t, d)) = IF ts_add(t, d) < o THEN ts_add(t, d) + Wrap - o ELSE ts_add(t, d) - o
  BY DEF Since, ts_sub
<1> HIDE DEF o
<1> QED BY <1>1, <1>2, <1>3, <1>4, <1>5, <1>6 DEF Ticks

\* A time brought forward within the window.
LEMMA Subtracted == ASSUME NEW n \in Ticks, NEW t \in Ticks, NEW d \in Nat, d <= Since(n, t)
                    PROVE  ts_sub(t, d) \in Ticks /\ Since(n, ts_sub(t, d)) = Since(n, t) - d
<1> DEFINE o == ts_sub(n, Past)
<1>1. o \in 0 .. Wrap - 1 BY Origin DEF Ticks
<1>2. half_range \in Nat /\ Wrap = 2 * half_range
  BY HalfRange
<1>3. Since(n, t) = (IF t < o THEN t + Wrap - o ELSE t - o)
  BY DEF Since, ts_sub
<1>4. d < Wrap BY <1>2, SinceTyped DEF Ticks
<1>5. ts_sub(t, d) = IF t < d THEN t + Wrap - d ELSE t - d
  BY DEF ts_sub
<1>6. Since(n, ts_sub(t, d)) = IF ts_sub(t, d) < o THEN ts_sub(t, d) + Wrap - o ELSE ts_sub(t, d) - o
  BY DEF Since, ts_sub
<1> HIDE DEF o
<1> QED BY <1>1, <1>2, <1>3, <1>4, <1>5, <1>6 DEF Ticks

\* How long it is from s to t.
LEMMA Between == ASSUME NEW n \in Ticks, NEW s \in Ticks, NEW t \in Ticks
                 PROVE  ts_sub(t, s) = IF Since(n, s) <= Since(n, t)
                                         THEN Since(n, t) - Since(n, s)
                                         ELSE Since(n, t) - Since(n, s) + Wrap
<1> DEFINE o == ts_sub(n, Past)
<1>1. o \in 0 .. Wrap - 1 BY Origin DEF Ticks
<1>2. half_range \in Nat /\ Wrap = 2 * half_range
  BY HalfRange
<1>3. Since(n, s) = (IF s < o THEN s + Wrap - o ELSE s - o)
      /\ Since(n, t) = (IF t < o THEN t + Wrap - o ELSE t - o)
  BY DEF Since, ts_sub
<1> HIDE DEF o
<1> QED BY <1>1, <1>2, <1>3 DEF Ticks, ts_sub

\* When time goes on by d, all times are d closer to the horizon.
LEMMA GoesOn == ASSUME NEW n \in Ticks, NEW t \in Ticks, NEW d \in Nat, d <= Past, d <= Since(n, t)
                PROVE  ts_add(n, d) \in Ticks /\ Since(ts_add(n, d), t) = Since(n, t) - d
<1>1. /\ ts_add(n, d) \in Ticks
      /\ ts_add(n, d) = IF n + d < Wrap THEN n + d ELSE n + d - Wrap
  BY HalfRange, Windows DEF ts_add, Ticks
<1>2. half_range \in Nat /\ Wrap = 2 * half_range /\ Past < half_range /\ Past \in Nat
  BY HalfRange, Windows
<1> DEFINE o == ts_sub(n, Past)
             p == ts_sub(ts_add(n, d), Past)
<1>4. o = IF n < Past THEN n + Wrap - Past ELSE n - Past
  BY DEF ts_sub
<1>5. p = IF ts_add(n, d) < Past THEN ts_add(n, d) + Wrap - Past ELSE ts_add(n, d) - Past
  BY DEF ts_sub
<1>6. /\ Since(n, t) = (IF t < o THEN t + Wrap - o ELSE t - o)
      /\ Since(ts_add(n, d), t) = (IF t < p THEN t + Wrap - p ELSE t - p)
  BY DEF Since, ts_sub
<1> HIDE DEF o, p
<1> QED BY <1>1, <1>2, <1>4, <1>5, <1>6 DEF Ticks

-----------------------------------------------------------------------------
(***************************************************************************)
(* Buffers: where a new node goes, and what keeps their order.             *)
(***************************************************************************)

\* The last place of the buffer after which all is later than t.
LEMMA PlaceExists ==
  ASSUME NEW S, NEW b \in Seq(S), NEW t
  PROVE  Place(b, t) \in 0 .. Len(b) /\ StopsAt(b, t, Place(b, t))
<1> DEFINE After(p) == \A i \in p + 1 .. Len(b) : ts_gt(b[i].playout, t)
           A == {p \in 0 .. Len(b) : After(p)}
<1>1. Len(b) \in Nat /\ A \in SUBSET Nat /\ Len(b) \in A
  OBVIOUS
<1>2. PICK p \in A : \A q \in A : p <= q
  <2> HIDE DEF A
  <2>1. A # {} BY <1>1
  <2> QED BY <1>1, <2>1, Least
<1>3. p \in 0 .. Len(b) /\ After(p)
  OBVIOUS
<1>4. p # 0 => ~ts_gt(b[p].playout, t)
  <2> SUFFICES ASSUME p # 0, ts_gt(b[p].playout, t) PROVE FALSE
    OBVIOUS
  <2>1. After(p - 1)
    <3> SUFFICES ASSUME NEW i \in (p - 1) + 1 .. Len(b) PROVE ts_gt(b[i].playout, t)
      OBVIOUS
    <3>1. i = p \/ i \in p + 1 .. Len(b)
      BY <1>1, <1>3
    <3> QED BY <3>1, <1>3
  <2>2. p - 1 \in A
    BY <1>1, <1>3, <2>1
  <2> HIDE DEF A
  <2> QED BY <1>2, <2>2, <1>3
<1>5. StopsAt(b, t, p)
  BY <1>3, <1>4 DEF StopsAt
<1> QED BY <1>3, <1>5 DEF Place

-----------------------------------------------------------------------------
\* The times of a buffer are in the window, and each is later than those before.
InWindow(n, b) == \A i \in 1 .. Len(b) : b[i].playout \in Ticks /\ Since(n, b[i].playout) <= Past + Future

SortedAt(n, b) == \A i, j \in 1 .. Len(b) : i < j => Since(n, b[i].playout) < Since(n, b[j].playout)

\* The place of a time in a buffer divides what is later from what is not.
LEMMA PlaceIs ==
  ASSUME NEW n \in Ticks, NEW S, NEW b \in Seq(S), NEW t \in Ticks, Since(n, t) <= Past + Future,
         InWindow(n, b), SortedAt(n, b)
  PROVE  /\ Place(b, t) \in 0 .. Len(b)
         /\ \A i \in 1 .. Len(b) : i <= Place(b, t) => Since(n, b[i].playout) <= Since(n, t)
         /\ \A i \in 1 .. Len(b) : i > Place(b, t) => Since(n, b[i].playout) > Since(n, t)
         /\ Exists(b, t) <=> \E i \in 1 .. Len(b) : b[i].playout = t
<1> DEFINE p == Place(b, t)
<1>1. p \in 0 .. Len(b) /\ StopsAt(b, t, p) /\ Len(b) \in Nat
  BY PlaceExists
<1>2. \A i \in 1 .. Len(b) : Since(n, b[i].playout) \in Int /\ b[i].playout \in Ticks
  BY SinceTyped, HalfRange DEF InWindow
<1>3. Since(n, t) \in Int
  BY SinceTyped, HalfRange
<1>4. \A i \in 1 .. Len(b) : ts_gt(b[i].playout, t) <=> Since(n, b[i].playout) > Since(n, t)
  BY Later DEF InWindow
<1>5. \A i \in 1 .. Len(b) : i > p => Since(n, b[i].playout) > Since(n, t)
  <2> SUFFICES ASSUME NEW i \in 1 .. Len(b), i > p PROVE Since(n, b[i].playout) > Since(n, t)
    OBVIOUS
  <2>1. i \in p + 1 .. Len(b) BY <1>1
  <2> QED BY <1>1, <1>4, <2>1 DEF StopsAt
<1>6. p # 0 => Since(n, b[p].playout) <= Since(n, t)
  BY <1>1, <1>2, <1>3, <1>4 DEF StopsAt
<1>7. \A i \in 1 .. Len(b) : i <= p => Since(n, b[i].playout) <= Since(n, t)
  <2> SUFFICES ASSUME NEW i \in 1 .. Len(b), i <= p PROVE Since(n, b[i].playout) <= Since(n, t)
    OBVIOUS
  <2>1. p \in 1 .. Len(b) BY <1>1
  <2>2. i = p \/ Since(n, b[i].playout) < Since(n, b[p].playout)
    BY <1>1, <2>1 DEF SortedAt
  <2> QED BY <1>1, <1>2, <1>3, <1>6, <2>1, <2>2
<1>8. Exists(b, t) => \E i \in 1 .. Len(b) : b[i].playout = t
  BY <1>1 DEF Exists
<1>9. ASSUME NEW i \in 1 .. Len(b), b[i].playout = t PROVE Exists(b, t)
  <2>1. ~(i > p) BY <1>5, <1>9, <1>3
  <2>2. p \in 1 .. Len(b) /\ i <= p BY <1>1, <2>1
  <2>3. ~(i < p)
    <3> SUFFICES ASSUME i < p PROVE FALSE OBVIOUS
    <3>1. Since(n, t) < Since(n, b[p].playout) BY <2>2, <1>9 DEF SortedAt
    <3> QED BY <3>1, <1>6, <2>2, <1>2, <1>3
  <2>4. i = p BY <1>1, <2>2, <2>3
  <2> QED BY <2>2, <2>4, <1>9 DEF Exists
<1> HIDE DEF p
<1>10. Exists(b, t) <=> \E i \in 1 .. Len(b) : b[i].playout = t
  BY <1>8, <1>9
<1> QED BY <1>1, <1>5, <1>7, <1>10 DEF p

\* Two buffers with a node between them.
LEMMA Joined ==
  ASSUME NEW S, NEW u \in Seq(S), NEW v \in Seq(S), NEW x \in S
  PROVE  /\ u \o <<x>> \o v \in Seq(S) /\ Len(u \o <<x>> \o v) = Len(u) + Len(v) + 1
         /\ \A i \in 1 .. Len(u) + Len(v) + 1 :
              (u \o <<x>> \o v)[i] = IF i <= Len(u) THEN u[i]
                                     ELSE IF i = Len(u) + 1 THEN x ELSE v[i - (Len(u) + 1)]
<1> DEFINE w == u \o <<x>>
<1>1. <<x>> \in Seq(S) /\ Len(<<x>>) = 1 /\ <<x>>[1] = x /\ Len(u) \in Nat /\ Len(v) \in Nat
  OBVIOUS
<1>2. /\ w \in Seq(S) /\ Len(w) = Len(u) + 1
      /\ \A i \in 1 .. Len(u) + 1 : w[i] = IF i <= Len(u) THEN u[i] ELSE <<x>>[i - Len(u)]
  BY <1>1, ConcatProperties
<1> HIDE DEF w
<1>3. /\ w \o v \in Seq(S) /\ Len(w \o v) = Len(w) + Len(v)
      /\ \A i \in 1 .. Len(w) + Len(v) : (w \o v)[i] = IF i <= Len(w) THEN w[i] ELSE v[i - Len(w)]
  <2>0. w \in Seq(S)
    BY <1>2
  <2>1. w \o v \in Seq(S) /\ Len(w \o v) = Len(w) + Len(v)
    BY <2>0, ConcatProperties
  <2>2. \A i \in 1 .. Len(w) + Len(v) : (w \o v)[i] = IF i <= Len(w) THEN w[i] ELSE v[i - Len(w)]
    BY <2>0, ConcatProperties
  <2> QED BY <2>1, <2>2
<1>4. Len(w \o v) = Len(u) + Len(v) + 1
  BY <1>1, <1>2, <1>3
<1>5. ASSUME NEW i \in 1 .. Len(u) + Len(v) + 1
      PROVE (w \o v)[i] = IF i <= Len(u) THEN u[i]
                          ELSE IF i = Len(u) + 1 THEN x ELSE v[i - (Len(u) + 1)]
  <2>1. i \in 1 .. Len(w) + Len(v)
    BY <1>1, <1>2
  <2>2. CASE i <= Len(u)
    BY <1>1, <1>2, <1>3, <2>1, <2>2
  <2>3. CASE i = Len(u) + 1
    <3>1. i - Len(u) = 1 /\ i \in 1 .. Len(u) + 1 /\ ~(i <= Len(u)) /\ i <= Len(w)
      BY <1>1, <1>2, <2>3
    <3> QED BY <1>1, <1>2, <1>3, <2>1, <3>1, <2>3
  <2>4. CASE i > Len(u) + 1
    <3>1. ~(i <= Len(u)) /\ i # Len(u) + 1 /\ ~(i <= Len(w))
      BY <1>1, <1>2, <2>4
    <3>2. (w \o v)[i] = v[i - Len(w)]
      BY <1>3, <2>1, <3>1
    <3> QED BY <1>2, <3>1, <3>2
  <2>5. i <= Len(u) \/ i = Len(u) + 1 \/ i > Len(u) + 1
    BY <1>1
  <2> QED BY <2>2, <2>3, <2>4, <2>5
<1> QED BY <1>3, <1>4, <1>5 DEF w

\* What pb_add makes of a buffer.
InsertAt(b, p, node) == SubSeq(b, 1, p) \o <<node>> \o SubSeq(b, p + 1, Len(b))

\* The nodes of a buffer with one more.
LEMMA Inserted ==
  ASSUME NEW S, NEW b \in Seq(S), NEW node \in S, NEW p \in 0 .. Len(b)
  PROVE  /\ InsertAt(b, p, node) \in Seq(S) /\ Len(InsertAt(b, p, node)) = Len(b) + 1
         /\ \A i \in 1 .. Len(b) + 1 :
              InsertAt(b, p, node)[i] = IF i <= p THEN b[i] ELSE IF i = p + 1 THEN node ELSE b[i - 1]
<1> DEFINE u == SubSeq(b, 1, p)  v == SubSeq(b, p + 1, Len(b))
<1>1. Len(b) \in Nat /\ p \in Nat /\ p <= Len(b)
  OBVIOUS
<1>2. u \in Seq(S) /\ Len(u) = p /\ \A i \in 1 .. p : u[i] = b[i]
  BY <1>1
<1>3. v \in Seq(S) /\ Len(v) = Len(b) - p /\ \A i \in 1 .. Len(b) - p : v[i] = b[p + i]
  BY <1>1
<1> HIDE DEF u, v
<1>4. /\ u \o <<node>> \o v \in Seq(S) /\ Len(u \o <<node>> \o v) = Len(u) + Len(v) + 1
      /\ \A i \in 1 .. Len(u) + Len(v) + 1 :
           (u \o <<node>> \o v)[i] = IF i <= Len(u) THEN u[i]
                                     ELSE IF i = Len(u) + 1 THEN node ELSE v[i - (Len(u) + 1)]
  BY <1>2, <1>3, Joined
<1> DEFINE c == u \o <<node>> \o v
<1> HIDE DEF c
<1>5. c \in Seq(S) /\ Len(c) = Len(b) + 1
  BY <1>1, <1>2, <1>3, <1>4 DEF c
<1>6. \A i \in 1 .. Len(b) + 1 :
        c[i] = IF i <= p THEN u[i] ELSE IF i = p + 1 THEN node ELSE v[i - (p + 1)]
  BY <1>1, <1>2, <1>3, <1>4 DEF c
<1>7. \A i \in 1 .. Len(b) + 1 : i > p + 1 => v[i - (p + 1)] = b[i - 1]
  <2> SUFFICES ASSUME NEW i \in 1 .. Len(b) + 1, i > p + 1 PROVE v[i - (p + 1)] = b[i - 1]
    OBVIOUS
  <2>1. i - (p + 1) \in 1 .. Len(b) - p /\ p + (i - (p + 1)) = i - 1
    BY <1>1
  <2> QED BY <1>3, <2>1
<1>8. \A i \in 1 .. Len(b) + 1 :
        c[i] = IF i <= p THEN b[i] ELSE IF i = p + 1 THEN node ELSE b[i - 1]
  BY <1>1, <1>2, <1>6, <1>7
<1>9. c = InsertAt(b, p, node)
  BY DEF c, u, v, InsertAt
<1> QED BY <1>5, <1>8, <1>9

\* A new unit goes to its place, and the order stays.
LEMMA PbAdd ==
  ASSUME NEW n \in Ticks, NEW S, NEW b \in Seq(S), NEW node \in S, NEW t, t = node.playout,
         t \in Ticks, Since(n, t) <= Past + Future,
         InWindow(n, b), SortedAt(n, b), ~Exists(b, t)
  PROVE  /\ pb_add(b, node) \in Seq(S) /\ Len(pb_add(b, node)) = Len(b) + 1
         /\ \A i \in 1 .. Len(b) + 1 :
              pb_add(b, node)[i] = IF i <= Place(b, t) THEN b[i]
                                   ELSE IF i = Place(b, t) + 1 THEN node ELSE b[i - 1]
         /\ InWindow(n, pb_add(b, node)) /\ SortedAt(n, pb_add(b, node))
<1> DEFINE p == Place(b, t)  c == pb_add(b, node)
<1>1. p \in 0 .. Len(b) /\ Len(b) \in Nat
  BY PlaceIs
<1>2. c = InsertAt(b, p, node)
  BY DEF pb_add, InsertAt
<1>3. /\ c \in Seq(S) /\ Len(c) = Len(b) + 1
      /\ \A i \in 1 .. Len(b) + 1 :
           c[i] = IF i <= p THEN b[i] ELSE IF i = p + 1 THEN node ELSE b[i - 1]
  <2> HIDE DEF c, p
  <2>1. p \in 0 .. Len(b) BY <1>1
  <2>2. InsertAt(b, p, node) \in Seq(S) /\ Len(InsertAt(b, p, node)) = Len(b) + 1
    BY <2>1, Inserted
  <2>3. \A i \in 1 .. Len(b) + 1 : InsertAt(b, p, node)[i] =
          IF i <= p THEN b[i] ELSE IF i = p + 1 THEN node ELSE b[i - 1]
    BY <2>1, Inserted
  <2> QED BY <1>2, <2>2, <2>3
<1>4. /\ \A i \in 1 .. Len(b) : i <= p => Since(n, b[i].playout) < Since(n, t)
      /\ \A i \in 1 .. Len(b) : i > p => Since(n, b[i].playout) > Since(n, t)
  <2>1. \A i \in 1 .. Len(b) : Since(n, b[i].playout) # Since(n, t)
    BY PlaceIs, SameTime DEF InWindow
  <2>2. \A i \in 1 .. Len(b) : Since(n, b[i].playout) \in Int
    BY SinceTyped, HalfRange DEF InWindow
  <2>3. Since(n, t) \in Int
    BY SinceTyped, HalfRange
  <2>4. /\ \A i \in 1 .. Len(b) : i <= p => Since(n, b[i].playout) <= Since(n, t)
        /\ \A i \in 1 .. Len(b) : i > p => Since(n, b[i].playout) > Since(n, t)
    BY PlaceIs
  <2> QED BY <2>1, <2>2, <2>3, <2>4
<1> HIDE DEF p, c
<1>5. InWindow(n, c)
  <2> SUFFICES ASSUME NEW i \in 1 .. Len(c)
               PROVE c[i].playout \in Ticks /\ Since(n, c[i].playout) <= Past + Future
    BY DEF InWindow
  <2>1. CASE i <= p
    <3>1. i \in 1 .. Len(b) /\ c[i] = b[i] BY <2>1, <1>1, <1>3
    <3> QED BY <3>1 DEF InWindow
  <2>2. CASE i = p + 1
    <3>1. c[i] = node BY <2>2, <1>1, <1>3
    <3> QED BY <3>1
  <2>3. CASE i > p + 1
    <3>1. i - 1 \in 1 .. Len(b) /\ c[i] = b[i - 1] BY <2>3, <1>1, <1>3
    <3> QED BY <3>1 DEF InWindow
  <2> QED BY <2>1, <2>2, <2>3, <1>1, <1>3
<1>6. SortedAt(n, c)
  <2> SUFFICES ASSUME NEW i \in 1 .. Len(c), NEW j \in 1 .. Len(c), i < j
               PROVE Since(n, c[i].playout) < Since(n, c[j].playout)
    BY DEF SortedAt
  <2> DEFINE old(k) == IF k <= p THEN k ELSE k - 1
  <2>1. \A k \in 1 .. Len(c) : k # p + 1 => old(k) \in 1 .. Len(b) /\ c[k] = b[old(k)]
    BY <1>1, <1>3
  <2>2. CASE i # p + 1 /\ j # p + 1
    <3>1. old(i) < old(j) BY <1>1, <1>3, <2>2
    <3> HIDE DEF old
    <3> QED BY <2>1, <2>2, <3>1 DEF SortedAt
  <2>3. CASE i = p + 1
    <3>1. old(j) = j - 1 /\ j - 1 > p BY <1>1, <1>3, <2>3
    <3>2. c[i] = node BY <1>1, <1>3, <2>3
    <3>3. j # p + 1 BY <1>1, <1>3, <2>3
    <3> QED BY <2>1, <3>1, <3>2, <3>3, <1>4
  <2>4. CASE j = p + 1
    <3>1. old(i) = i /\ i <= p BY <1>1, <1>3, <2>4
    <3>2. c[j] = node BY <1>1, <1>3, <2>4
    <3>3. i # p + 1 BY <1>1, <1>3, <2>4
    <3> QED BY <2>1, <3>1, <3>2, <3>3, <1>4
  <2> QED BY <2>2, <2>3, <2>4
<1> QED BY <1>3, <1>5, <1>6 DEF p, c

\* The times of a buffer lie between two bounds.
Within(n, b, lo, hi) ==
  \A i \in 1 .. Len(b) : /\ b[i].playout \in Ticks
                         /\ lo <= Since(n, b[i].playout) /\ Since(n, b[i].playout) <= hi

\* A buffer between bounds is in the window.
LEMMA InsideWindow ==
  ASSUME NEW n \in Ticks, NEW S, NEW b \in Seq(S), NEW lo \in Int, NEW hi \in Int,
         hi <= Past + Future, Within(n, b, lo, hi)
  PROVE  InWindow(n, b)
<1> SUFFICES ASSUME NEW i \in 1 .. Len(b)
             PROVE  b[i].playout \in Ticks /\ Since(n, b[i].playout) <= Past + Future
  BY DEF InWindow
<1>1. b[i].playout \in Ticks /\ Since(n, b[i].playout) <= hi
  BY DEF Within
<1>2. Since(n, b[i].playout) \in Int
  BY <1>1, SinceTyped, HalfRange
<1>3. Past + Future \in Int
  BY Windows
<1> QED BY <1>1, <1>2, <1>3

\* Wider bounds hold as well.
LEMMA Wider ==
  ASSUME NEW n \in Ticks, NEW S, NEW b \in Seq(S), NEW lo \in Int, NEW hi \in Int,
         NEW lo2 \in Int, NEW hi2 \in Int, lo2 <= lo, hi <= hi2, Within(n, b, lo, hi)
  PROVE  Within(n, b, lo2, hi2)
<1> SUFFICES ASSUME NEW i \in 1 .. Len(b)
             PROVE  /\ b[i].playout \in Ticks
                    /\ lo2 <= Since(n, b[i].playout) /\ Since(n, b[i].playout) <= hi2
  BY DEF Within
<1>1. b[i].playout \in Ticks /\ lo <= Since(n, b[i].playout) /\ Since(n, b[i].playout) <= hi
  BY DEF Within
<1>2. Since(n, b[i].playout) \in Int
  BY <1>1, SinceTyped, HalfRange
<1> QED BY <1>1, <1>2

\* pb_validate asks of neighbours what is true of all.
LEMMA InOrder ==
  ASSUME NEW n \in Ticks, NEW S, NEW b \in Seq(S), InWindow(n, b), SortedAt(n, b)
  PROVE  Ordered(b)
<1> SUFFICES ASSUME NEW i \in 1 .. Len(b) - 1 PROVE ts_gt(b[i + 1].playout, b[i].playout)
  BY DEF Ordered
<1>1. i \in 1 .. Len(b) /\ i + 1 \in 1 .. Len(b) /\ i < i + 1
  OBVIOUS
<1>2. Since(n, b[i].playout) < Since(n, b[i + 1].playout)
  BY <1>1 DEF SortedAt
<1>3. /\ b[i].playout \in Ticks /\ Since(n, b[i].playout) <= Past + Future
      /\ b[i + 1].playout \in Ticks /\ Since(n, b[i + 1].playout) <= Past + Future
  BY <1>1 DEF InWindow
<1>4. Since(n, b[i].playout) \in Int /\ Since(n, b[i + 1].playout) \in Int
  BY <1>3, SinceTyped, HalfRange
<1>5. Since(n, b[i + 1].playout) > Since(n, b[i].playout)
  BY <1>2, <1>4
<1> QED BY <1>3, <1>5, Later

\* pb_add keeps the bounds and the order.
LEMMA AddKeeps ==
  ASSUME NEW n \in Ticks, NEW S, NEW b \in Seq(S), NEW node \in S, node.playout \in Ticks,
         NEW lo \in Int, NEW hi \in Int, hi <= Past + Future,
         lo <= Since(n, node.playout), Since(n, node.playout) <= hi,
         Within(n, b, lo, hi), SortedAt(n, b)
  PROVE  /\ pb_add(b, node) \in Seq(S)
         /\ Len(pb_add(b, node)) \in {Len(b), Len(b) + 1}
         /\ Len(pb_add(b, node)) # 0
         /\ Within(n, pb_add(b, node), lo, hi) /\ SortedAt(n, pb_add(b, node))
<1> DEFINE t == node.playout  c == pb_add(b, node)
<1>1. InWindow(n, b)
  BY InsideWindow
<1>2. Len(b) \in Nat
  OBVIOUS
<1>3. Since(n, t) <= Past + Future
  <2>1. Since(n, t) \in Int /\ Past + Future \in Int
    BY SinceTyped, HalfRange, Windows
  <2> QED BY <2>1
<1>4. CASE Exists(b, t)
  <2>1. c = b
    BY <1>4 DEF pb_add
  <2>2. Len(b) # 0
    <3>1. \E i \in 1 .. Len(b) : b[i].playout = t
      BY <1>1, <1>3, <1>4, PlaceIs
    <3> QED BY <3>1, <1>2
  <2> QED BY <2>1, <2>2
<1>5. CASE ~Exists(b, t)
  <2>1. c \in Seq(S) /\ Len(c) = Len(b) + 1
    BY <1>1, <1>3, <1>5, PbAdd
  <2>2. \A i \in 1 .. Len(b) + 1 : c[i] = IF i <= Place(b, t) THEN b[i]
                                          ELSE IF i = Place(b, t) + 1 THEN node ELSE b[i - 1]
    BY <1>1, <1>3, <1>5, PbAdd
  <2>3. SortedAt(n, c)
    BY <1>1, <1>3, <1>5, PbAdd
  <2>4. Place(b, t) \in 0 .. Len(b)
    BY PlaceExists
  <2>5. Within(n, c, lo, hi)
    <3> HIDE DEF c
    <3> SUFFICES ASSUME NEW i \in 1 .. Len(c)
                 PROVE  /\ c[i].playout \in Ticks
                        /\ lo <= Since(n, c[i].playout) /\ Since(n, c[i].playout) <= hi
      BY DEF Within
    <3>1. i \in 1 .. Len(b) + 1
      BY <2>1
    <3>2. c[i] = node \/ \E j \in 1 .. Len(b) : c[i] = b[j]
      <4>1. CASE i <= Place(b, t)
        <5>1. i \in 1 .. Len(b) BY <1>2, <2>4, <4>1
        <5> QED BY <5>1, <3>1, <2>2, <4>1
      <4>2. CASE i = Place(b, t) + 1
        <5>1. ~(i <= Place(b, t)) BY <2>4, <4>2
        <5> QED BY <5>1, <3>1, <2>2, <4>2
      <4>3. CASE i > Place(b, t) + 1
        <5>1. i - 1 \in 1 .. Len(b) /\ ~(i <= Place(b, t)) /\ i # Place(b, t) + 1
          BY <1>2, <2>4, <4>3, <3>1
        <5> QED BY <5>1, <3>1, <2>2
      <4> QED BY <4>1, <4>2, <4>3, <2>4, <3>1
    <3> QED BY <3>2 DEF Within
  <2> HIDE DEF c
  <2>6. Len(c) # 0
    BY <1>2, <2>1
  <2> QED BY <2>1, <2>3, <2>5, <2>6 DEF c
<1> QED BY <1>4, <1>5

\* What is left of a buffer of which k nodes were taken from the head.
LEMMA RestKeeps ==
  ASSUME NEW n \in Ticks, NEW S, NEW b \in Seq(S), NEW k \in 0 .. Len(b),
         NEW lo, NEW hi, Within(n, b, lo, hi), SortedAt(n, b)
  PROVE  /\ SubSeq(b, k + 1, Len(b)) \in Seq(S) /\ Len(SubSeq(b, k + 1, Len(b))) = Len(b) - k
         /\ \A i \in 1 .. Len(b) - k : SubSeq(b, k + 1, Len(b))[i] = b[k + i]
         /\ Within(n, SubSeq(b, k + 1, Len(b)), lo, hi) /\ SortedAt(n, SubSeq(b, k + 1, Len(b)))
<1> DEFINE c == SubSeq(b, k + 1, Len(b))
<1>1. Len(b) \in Nat /\ k \in Nat
  OBVIOUS
<1>2. c \in Seq(S) /\ Len(c) = Len(b) - k /\ \A i \in 1 .. Len(b) - k : c[i] = b[k + i]
  BY <1>1
<1> HIDE DEF c
<1>3. \A i \in 1 .. Len(c) : k + i \in 1 .. Len(b) /\ c[i] = b[k + i]
  BY <1>1, <1>2
<1>4. Within(n, c, lo, hi)
  BY <1>3 DEF Within
<1>5. SortedAt(n, c)
  <2> SUFFICES ASSUME NEW i \in 1 .. Len(c), NEW j \in 1 .. Len(c), i < j
               PROVE Since(n, c[i].playout) < Since(n, c[j].playout)
    BY DEF SortedAt
  <2>1. k + i < k + j
    BY <1>1
  <2> QED BY <2>1, <1>3 DEF SortedAt
<1> QED BY <1>2, <1>4, <1>5 DEF c

\* A buffer without its first node, which is earlier than all others.
LEMMA TailKeeps ==
  ASSUME NEW n \in Ticks, NEW S, NEW b \in Seq(S), b # <<>>,
         NEW lo, NEW hi, Within(n, b, lo, hi), SortedAt(n, b)
  PROVE  /\ Tail(b) \in Seq(S) /\ Len(Tail(b)) = Len(b) - 1
         /\ Within(n, Tail(b), lo, hi) /\ SortedAt(n, Tail(b))
         /\ b[1] \in S /\ b[1].playout \in Ticks
         /\ lo <= Since(n, b[1].playout) /\ Since(n, b[1].playout) <= hi
         /\ \A i \in 1 .. Len(b) - 1 : Tail(b)[i] = b[i + 1]
         /\ \A i \in 1 .. Len(b) - 1 : Since(n, b[1].playout) < Since(n, Tail(b)[i].playout)
<1>1. Len(b) \in Nat /\ Len(b) # 0
  OBVIOUS
<1>2. 1 \in 0 .. Len(b) /\ 1 \in 1 .. Len(b)
  BY <1>1
<1>3. Tail(b) \in Seq(S) /\ Len(Tail(b)) = Len(b) - 1
  BY HeadTailProperties
<1>4. \A i \in 1 .. Len(b) - 1 : Tail(b)[i] = b[i + 1]
  <2>1. \A i \in 1 .. Len(Tail(b)) : Tail(b)[i] = b[i + 1]
    BY HeadTailProperties
  <2> QED BY <1>3, <2>1
<1>5. \A i \in 1 .. Len(b) - 1 : i + 1 \in 1 .. Len(b) /\ 1 < i + 1
  BY <1>1
<1>6. Within(n, Tail(b), lo, hi)
  BY <1>3, <1>4, <1>5 DEF Within
<1>7. SortedAt(n, Tail(b))
  <2> SUFFICES ASSUME NEW i \in 1 .. Len(b) - 1, NEW j \in 1 .. Len(b) - 1, i < j
               PROVE Since(n, Tail(b)[i].playout) < Since(n, Tail(b)[j].playout)
    BY <1>3 DEF SortedAt
  <2>1. i + 1 < j + 1
    OBVIOUS
  <2> QED BY <2>1, <1>4, <1>5 DEF SortedAt
<1>8. \A i \in 1 .. Len(b) - 1 : Since(n, b[1].playout) < Since(n, Tail(b)[i].playout)
  BY <1>2, <1>4, <1>5 DEF SortedAt
<1>9. b[1] \in S
  BY <1>2
<1> QED BY <1>2, <1>3, <1>4, <1>6, <1>7, <1>8, <1>9 DEF Within

\* All is closer to the horizon when time goes on.
LEMMA TimePasses ==
  ASSUME NEW n \in Ticks, NEW S, NEW b \in Seq(S), NEW d \in Nat, d <= Past,
         NEW lo \in Int, NEW hi \in Int, d <= lo, Within(n, b, lo, hi), SortedAt(n, b)
  PROVE  Within(ts_add(n, d), b, lo - d, hi - d) /\ SortedAt(ts_add(n, d), b)
<1>1. \A i \in 1 .. Len(b) :
         /\ b[i].playout \in Ticks /\ Since(n, b[i].playout) \in Int
         /\ lo <= Since(n, b[i].playout) /\ Since(n, b[i].playout) <= hi
  BY SinceTyped, HalfRange DEF Within
<1>2. \A i \in 1 .. Len(b) : d <= Since(n, b[i].playout)
  BY <1>1
<1>3. \A i \in 1 .. Len(b) : Since(ts_add(n, d), b[i].playout) = Since(n, b[i].playout) - d
  BY <1>1, <1>2, GoesOn
<1>4. Within(ts_add(n, d), b, lo - d, hi - d)
  BY <1>1, <1>3 DEF Within
<1>5. SortedAt(ts_add(n, d), b)
  <2> SUFFICES ASSUME NEW i \in 1 .. Len(b), NEW j \in 1 .. Len(b), i < j
               PROVE Since(ts_add(n, d), b[i].playout) < Since(ts_add(n, d), b[j].playout)
    BY DEF SortedAt
  <2>1. Since(n, b[i].playout) < Since(n, b[j].playout)
    BY DEF SortedAt
  <2> QED BY <1>1, <1>3, <2>1
<1> QED BY <1>4, <1>5

-----------------------------------------------------------------------------
(***************************************************************************)
(* The units a packet is split into.                                       *)
(***************************************************************************)

\* What pktbuf and channel hold, and what media holds.
Packet == [playout : Ticks, units : 1 .. MaxUnits]
Unit == [playout : Ticks, is : {"waiting", "late", "mixed", "again"}]

\* The loop of vanilla_decoder_output as a function of the units it has put out.
OutputTo(m, t, k, g) ==
  g = [n \in 0 .. k |-> IF n = 0 THEN m ELSE AddUnit(g[n - 1], ts_add(t, (n - 1) * frame_dur))]

\* The recursive function of the decoder has a value for every number of units.
LEMMA OutputExists == ASSUME NEW m, NEW t, NEW k \in Nat
                      PROVE  \E g : OutputTo(m, t, k, g)
<1> DEFINE Without == {j \in Nat : ~\E g : OutputTo(m, t, j, g)}
<1>1. SUFFICES ASSUME Without # {} PROVE FALSE
  OBVIOUS
<1>2. PICK j \in Without : \A i \in Without : j <= i
  <2> HIDE DEF Without
  <2>1. Without \in SUBSET Nat
    BY DEF Without
  <2> QED BY <1>1, <2>1, Least
<1>3. j \in Nat /\ ~\E g : OutputTo(m, t, j, g)
  OBVIOUS
<1>4. j # 0
  <2>1. OutputTo(m, t, 0, [n \in 0 .. 0 |-> m])
    BY DEF OutputTo
  <2> QED BY <1>3, <2>1
<1>5. PICK g : OutputTo(m, t, j - 1, g)
  <2>1. j - 1 \in Nat /\ ~(j <= j - 1)
    BY <1>3, <1>4
  <2>2. j - 1 \notin Without
    <3> HIDE DEF Without
    <3> QED BY <1>2, <2>1
  <2> QED BY <2>1, <2>2
<1> DEFINE h == [n \in 0 .. j |-> IF n = j THEN AddUnit(g[j - 1], ts_add(t, (j - 1) * frame_dur)) ELSE g[n]]
<1>6. \A n \in 0 .. j : h[n] = IF n = 0 THEN m ELSE AddUnit(h[n - 1], ts_add(t, (n - 1) * frame_dur))
  <2> SUFFICES ASSUME NEW n \in 0 .. j
               PROVE h[n] = IF n = 0 THEN m ELSE AddUnit(h[n - 1], ts_add(t, (n - 1) * frame_dur))
    OBVIOUS
  <2>1. CASE n = j
    <3>1. n - 1 \in 0 .. j /\ n - 1 # j
      BY <2>1, <1>3, <1>4
    <3>2. h[n - 1] = g[j - 1]
      BY <2>1, <3>1
    <3>3. h[n] = AddUnit(g[j - 1], ts_add(t, (j - 1) * frame_dur))
      BY <2>1
    <3> HIDE DEF h
    <3> QED BY <2>1, <3>2, <3>3, <1>4
  <2>2. CASE n # j
    <3>1. n \in 0 .. j - 1
      BY <2>2, <1>3
    <3>2. h[n] = g[n]
      BY <2>2
    <3>3. g[n] = IF n = 0 THEN m ELSE AddUnit(g[n - 1], ts_add(t, (n - 1) * frame_dur))
      BY <1>5, <3>1 DEF OutputTo
    <3>4. n # 0 => h[n - 1] = g[n - 1]
      <4>1. n # 0 => n - 1 \in 0 .. j /\ n - 1 # j
        BY <3>1
      <4> QED BY <4>1
    <3> HIDE DEF h
    <3> QED BY <3>2, <3>3, <3>4
  <2> QED BY <2>1, <2>2
<1>7. OutputTo(m, t, j, h)
  <2>1. h = [n \in 0 .. j |-> h[n]]
    OBVIOUS
  <2> HIDE DEF h
  <2> QED BY <1>6, <2>1 DEF OutputTo
<1> HIDE DEF h
<1> QED BY <1>3, <1>7

\* What the decoder puts out is the value of that function.
LEMMA OutputIs == ASSUME NEW m, NEW packet, packet.units \in Nat
                  PROVE  \E g : /\ OutputTo(m, packet.playout, packet.units, g)
                                /\ vanilla_decoder_output(m, packet) = g[packet.units]
<1> DEFINE g == CHOOSE g : OutputTo(m, packet.playout, packet.units, g)
<1>1. OutputTo(m, packet.playout, packet.units, g)
  BY OutputExists
<1>2. vanilla_decoder_output(m, packet) = g[packet.units]
  BY DEF vanilla_decoder_output, OutputTo
<1> QED BY <1>1, <1>2

\* What is passed was mixed or came too late, what is ahead waits.
MixedTo(b, pos) == \A i \in 1 .. Len(b) : b[i].is \in IF i <= pos THEN {"mixed", "late"} ELSE {"waiting"}

\* A buffer that is being filled, with its iterator: where the iterator was, it stays,
\* at time x if it was at a unit (moved), and before it there is a unit not later
\* than first.
Filling(n, lo, hi, moved, x, first, m) ==
  /\ m \in [buffer : Seq(Unit), pos : Nat, full : BOOLEAN]
  /\ m.pos <= Len(m.buffer)
  /\ Within(n, m.buffer, lo, hi) /\ SortedAt(n, m.buffer)
  /\ MixedTo(m.buffer, m.pos)
  /\ (m.pos # 0) = moved
  /\ moved => m.buffer[m.pos].playout = x
  /\ ~moved /\ m.buffer # <<>> => Since(n, m.buffer[1].playout) <= first
  /\ m.full => m.buffer # <<>>

\* A unit that is not there yet is added; the iterator stays at its node.
LEMMA NewUnit ==
  ASSUME NEW n \in Ticks, NEW lo \in Int, NEW hi \in Int, hi <= Past + Future,
         NEW moved \in BOOLEAN, NEW x, NEW first \in Int, NEW m,
         Filling(n, lo, hi, moved, x, first, m), NEW unit \in Ticks,
         lo <= Since(n, unit), Since(n, unit) <= hi,
         m.buffer = <<>> => Since(n, unit) <= first,
         ~m.full, ~Exists(m.buffer, unit)
  PROVE  Filling(n, lo, hi, moved, x, first, AddUnit(m, unit)) /\ AddUnit(m, unit).buffer # <<>>
<1> DEFINE b == m.buffer
           p == Place(b, unit)
           node == [playout |-> unit, is |-> IF p < m.pos THEN "late" ELSE "waiting"]
           c == pb_add(b, node)
           q == Moved(b, unit, m.pos)
           r == AddUnit(m, unit)
<1>1. /\ m \in [buffer : Seq(Unit), pos : Nat, full : BOOLEAN] /\ b \in Seq(Unit)
      /\ m.pos \in Nat /\ m.pos <= Len(b) /\ Len(b) \in Nat
      /\ Within(n, b, lo, hi) /\ SortedAt(n, b)
  BY DEF Filling
<1>2. r = [m EXCEPT !.buffer = c, !.pos = q]
  BY DEF AddUnit
<1>3. node \in Unit /\ node.playout = unit
  BY DEF Unit
<1>4. InWindow(n, b) /\ Since(n, unit) <= Past + Future /\ ~Exists(b, node.playout)
  <2>1. InWindow(n, b)
    BY <1>1, InsideWindow
  <2>2. Since(n, unit) \in Int /\ Past + Future \in Int
    BY SinceTyped, HalfRange, Windows
  <2> QED BY <1>3, <2>1, <2>2
<1>5. p \in 0 .. Len(b)
  BY <1>1, PlaceExists
<1> HIDE DEF node
<1>6. /\ c \in Seq(Unit) /\ Len(c) = Len(b) + 1
      /\ \A i \in 1 .. Len(b) + 1 : c[i] = IF i <= p THEN b[i] ELSE IF i = p + 1 THEN node ELSE b[i - 1]
  <2>1. node.playout \in Ticks /\ Since(n, node.playout) <= Past + Future
    BY <1>3, <1>4
  <2>2. c \in Seq(Unit) /\ Len(c) = Len(b) + 1
    BY <1>1, <1>3, <1>4, <2>1, PbAdd
  <2>3. \A i \in 1 .. Len(b) + 1 :
              pb_add(b, node)[i] = IF i <= Place(b, node.playout) THEN b[i]
                                   ELSE IF i = Place(b, node.playout) + 1 THEN node ELSE b[i - 1]
    BY <1>1, <1>3, <1>4, <2>1, PbAdd
  <2> QED BY <1>3, <2>2, <2>3
<1>7. Within(n, c, lo, hi) /\ SortedAt(n, c)
  <2>1. Within(n, c, lo, hi)
    BY <1>1, <1>3, AddKeeps
  <2>2. SortedAt(n, c)
    BY <1>1, <1>3, AddKeeps
  <2> QED BY <2>1, <2>2
<1>8. q = IF p < m.pos THEN m.pos + 1 ELSE m.pos
  BY <1>3, <1>4 DEF Moved
<1>9. r.buffer = c /\ r.pos = q /\ r.full = m.full /\ r \in [buffer : Seq(Unit), pos : Nat, full : BOOLEAN]
  <2>1. q \in Nat
    BY <1>1, <1>5, <1>8
  <2> HIDE DEF c, q
  <2> QED BY <1>1, <1>2, <1>6, <2>1
<1>10. node.is = IF p < m.pos THEN "late" ELSE "waiting"
  BY DEF node
<1> HIDE DEF c, q, p, r
<1>11. MixedTo(c, q)
  <2> SUFFICES ASSUME NEW i \in 1 .. Len(c)
               PROVE c[i].is \in IF i <= q THEN {"mixed", "late"} ELSE {"waiting"}
    BY DEF MixedTo
  <2>1. CASE i <= p
    <3>1. i \in 1 .. Len(b) /\ c[i] = b[i] /\ (i <= q <=> i <= m.pos)
      BY <2>1, <1>1, <1>5, <1>6, <1>8
    <3> QED BY <3>1 DEF Filling, MixedTo
  <2>2. CASE i = p + 1
    <3>1. c[i] = node /\ (i <= q <=> p < m.pos)
      BY <2>2, <1>1, <1>5, <1>6, <1>8
    <3> QED BY <3>1, <1>10
  <2>3. CASE i > p + 1
    <3>1. i - 1 \in 1 .. Len(b) /\ c[i] = b[i - 1] /\ (i <= q <=> i - 1 <= m.pos)
      BY <2>3, <1>1, <1>5, <1>6, <1>8
    <3> QED BY <3>1 DEF Filling, MixedTo
  <2> QED BY <2>1, <2>2, <2>3, <1>5
<1>12. (q # 0) = moved /\ q <= Len(c)
  BY <1>1, <1>5, <1>6, <1>8 DEF Filling
<1>13. moved => c[q].playout = x
  <2> SUFFICES ASSUME moved PROVE c[q].playout = x
    OBVIOUS
  <2>1. m.pos # 0 /\ b[m.pos].playout = x
    BY DEF Filling
  <2>2. q \in 1 .. Len(b) + 1 /\ c[q] = b[m.pos]
    BY <2>1, <1>1, <1>5, <1>6, <1>8
  <2> QED BY <2>1, <2>2
<1>14. ~moved => Since(n, c[1].playout) <= first
  <2> SUFFICES ASSUME ~moved PROVE Since(n, c[1].playout) <= first
    OBVIOUS
  <2>1. CASE p = 0
    <3>1. c[1] = node
      BY <2>1, <1>1, <1>6
    <3>2. CASE b = <<>>
      BY <3>1, <3>2, <1>3
    <3>3. CASE b # <<>>
      <4>1. 1 \in 1 .. Len(b) /\ Since(n, b[1].playout) <= first
        BY <3>3, <1>1 DEF Filling
      <4>2. Since(n, b[1].playout) > Since(n, unit)
        <5>1. \A i \in 1 .. Len(b) : i > Place(b, unit) => Since(n, b[i].playout) > Since(n, unit)
          BY <1>1, <1>4, PlaceIs
        <5> QED BY <5>1, <4>1, <2>1 DEF p
      <4>3. Since(n, unit) \in Int /\ Since(n, b[1].playout) \in Int
        BY <4>1, <1>1, SinceTyped, HalfRange DEF Within
      <4> QED BY <3>1, <4>1, <4>2, <4>3, <1>3
    <3> QED BY <3>2, <3>3
  <2>2. CASE p # 0
    <3>1. 1 \in 1 .. Len(b) + 1 /\ 1 <= p /\ b # <<>>
      BY <2>2, <1>1, <1>5
    <3>2. c[1] = b[1]
      BY <3>1, <1>6
    <3> QED BY <3>1, <3>2 DEF Filling
  <2> QED BY <2>1, <2>2
<1>15. c # <<>>
  BY <1>1, <1>6
<1>16. Filling(n, lo, hi, moved, x, first, r)
  BY <1>7, <1>9, <1>11, <1>12, <1>13, <1>14, <1>15 DEF Filling
<1> QED BY <1>9, <1>15, <1>16 DEF r

\* A unit of a packet is added, or it stops the packet; the buffer stays as it should.
LEMMA AddUnitKeeps ==
  ASSUME NEW n \in Ticks, NEW lo \in Int, NEW hi \in Int, hi <= Past + Future,
         NEW moved \in BOOLEAN, NEW x, NEW first \in Int, NEW m,
         Filling(n, lo, hi, moved, x, first, m), NEW unit \in Ticks,
         lo <= Since(n, unit), Since(n, unit) <= hi,
         m.buffer = <<>> => Since(n, unit) <= first
  PROVE  Filling(n, lo, hi, moved, x, first, AddUnit(m, unit)) /\ AddUnit(m, unit).buffer # <<>>
<1>1. CASE ~m.full /\ ~Exists(m.buffer, unit)
  BY <1>1, NewUnit
<1>2. CASE m.full \/ Exists(m.buffer, unit)
  <2>1. AddUnit(m, unit) = [m EXCEPT !.full = TRUE]
    BY <1>2 DEF AddUnit
  <2>2. m.buffer # <<>>
    <3>1. CASE m.full
      BY <3>1 DEF Filling
    <3>2. CASE Exists(m.buffer, unit)
      <4>1. m.buffer \in Seq(Unit) /\ Place(m.buffer, unit) \in 0 .. Len(m.buffer)
        BY PlaceExists DEF Filling
      <4> QED BY <3>2, <4>1 DEF Exists
    <3> QED BY <1>2, <3>1, <3>2
  <2>3. /\ [m EXCEPT !.full = TRUE] \in [buffer : Seq(Unit), pos : Nat, full : BOOLEAN]
        /\ [m EXCEPT !.full = TRUE].buffer = m.buffer /\ [m EXCEPT !.full = TRUE].pos = m.pos
    BY DEF Filling
  <2> QED BY <2>1, <2>2, <2>3 DEF Filling
<1> QED BY <1>1, <1>2

\* Products grow with their factors.
LEMMA LessTimes == ASSUME NEW a \in Nat, NEW b \in Nat, NEW c \in Nat, a <= b
                   PROVE  a * c <= b * c /\ a * c \in Nat
<1>1. b * c = a * c + (b - a) * c
  OBVIOUS
<1>2. (b - a) * c \in Nat /\ a * c \in Nat
  OBVIOUS
<1> QED BY <1>1, <1>2

\* The units of a packet are in media, or what it holds already stopped them.
LEMMA DecodedKeeps ==
  ASSUME NEW n \in Ticks, NEW lo \in Int, NEW hi \in Int, hi <= Past + Future,
         NEW moved \in BOOLEAN, NEW x, NEW first \in Int, NEW m,
         Filling(n, lo, hi, moved, x, first, m), NEW packet \in Packet,
         lo <= Since(n, packet.playout), Since(n, packet.playout) <= first,
         Since(n, packet.playout) + (packet.units - 1) * frame_dur <= hi
  PROVE  Filling(n, lo, hi, moved, x, first, vanilla_decoder_output(m, packet))
<1> DEFINE t == packet.playout  k == packet.units
<1>1. t \in Ticks /\ k \in Nat /\ k >= 1 /\ frame_dur \in Nat /\ Past + Future \in Int
  BY Params, Windows DEF Packet
<1>2. PICK g : OutputTo(m, t, k, g) /\ vanilla_decoder_output(m, packet) = g[k]
  BY <1>1, OutputIs
<1> DEFINE Good(j) == Filling(n, lo, hi, moved, x, first, g[j]) /\ (j # 0 => g[j].buffer # <<>>)
<1> HIDE DEF t, k
<1>3. \A j \in 0 .. k : g[j] = IF j = 0 THEN m ELSE AddUnit(g[j - 1], ts_add(t, (j - 1) * frame_dur))
  BY <1>1, <1>2 DEF OutputTo
<1>4. Good(0)
  BY <1>1, <1>3
<1>5. ASSUME NEW j \in 1 .. k, Good(j - 1) PROVE Good(j)
  <2>1. (j - 1) * frame_dur <= (k - 1) * frame_dur /\ (j - 1) * frame_dur \in Nat
    <3>1. j - 1 \in Nat /\ k - 1 \in Nat /\ j - 1 <= k - 1
      BY <1>1
    <3> QED BY <3>1, <1>1, LessTimes
  <2>2. Since(n, t) \in Int /\ (k - 1) * frame_dur \in Int
    BY <1>1, SinceTyped, HalfRange
  <2>3. lo <= Since(n, t) /\ Since(n, t) <= first /\ Since(n, t) + (k - 1) * frame_dur <= hi
    BY DEF t, k
  <2>4. Since(n, t) + (j - 1) * frame_dur <= Past + Future
    BY <2>1, <2>2, <2>3, <1>1
  <2> DEFINE u == ts_add(t, (j - 1) * frame_dur)
  <2>5. u \in Ticks /\ Since(n, u) = Since(n, t) + (j - 1) * frame_dur
    BY <1>1, <2>1, <2>4, Added
  <2>6. g[j - 1].buffer = <<>> => Since(n, u) <= first
    <3> SUFFICES ASSUME g[j - 1].buffer = <<>> PROVE Since(n, u) <= first
      OBVIOUS
    <3>1. j - 1 = 0
      BY <1>5
    <3>2. (j - 1) * frame_dur = 0
      BY <3>1, <1>1
    <3> QED BY <2>2, <2>3, <2>5, <3>2
  <2>7. lo <= Since(n, u) /\ Since(n, u) <= hi
    BY <2>1, <2>2, <2>3, <2>5
  <2>8. g[j] = AddUnit(g[j - 1], u)
    BY <1>1, <1>3
  <2> HIDE DEF u
  <2>9. Filling(n, lo, hi, moved, x, first, g[j - 1])
    BY <1>5
  <2>10. Filling(n, lo, hi, moved, x, first, AddUnit(g[j - 1], u)) /\ AddUnit(g[j - 1], u).buffer # <<>>
    BY <2>5, <2>6, <2>7, <2>9, AddUnitKeeps
  <2> QED BY <2>8, <2>10
<1> HIDE DEF Good
<1> DEFINE Bad == {j \in 0 .. k : ~Good(j)}
<1>6. Bad = {}
  <2> SUFFICES ASSUME Bad # {} PROVE FALSE
    OBVIOUS
  <2>1. Bad \in SUBSET Nat
    BY <1>1
  <2>2. PICK j \in Bad : \A i \in Bad : j <= i
    <3> HIDE DEF Bad
    <3> QED BY <2>1, Least
  <2>3. j \in 0 .. k /\ ~Good(j)
    OBVIOUS
  <2>4. j \in 1 .. k
    BY <2>3, <1>4, <1>1
  <2>5. j - 1 \in 0 .. k /\ ~(j <= j - 1)
    BY <2>4, <1>1
  <2>6. j - 1 \notin Bad
    <3> HIDE DEF Bad
    <3> QED BY <2>2, <2>5
  <2>7. Good(j - 1)
    BY <2>5, <2>6
  <2> QED BY <1>5, <2>3, <2>4, <2>7
<1>7. Good(k)
  <2>1. k \in 0 .. k
    BY <1>1
  <2> QED BY <1>6, <2>1
<1> QED BY <1>2, <1>7 DEF Good

-----------------------------------------------------------------------------
(***************************************************************************)
(* The inductive invariant.  Times are counted from the beginning of the   *)
(* window, which lies Past before now and moves with it; so the wrap of    *)
(* time is never seen, and every comparison of the code is one of numbers. *)
(***************************************************************************)

\* When the unit comes that is to be mixed next.
Due == Since(now, next_played)

\* Units wait this long before or after they are played, at most.
Reach == Mixed + 2 * frame_dur
Hist == history_ts + Reach + frame_dur

\* How far units were pushed back: once for each skew found and adapted to.
Drift == IF skew = "NONE" THEN troubles * frame_dur ELSE (troubles - 1) * frame_dur

\* The latest times of channel and media.
ChannelEnd == Past + Lead + Drift
MediaEnd == Past + cushion + MaxUnits * frame_dur + Drift

\* The type of every variable; playout is small, and no assertion has failed.
Typed ==
  /\ at \in {"receive", "packets", "decode", "play", "audit"}
  /\ now \in Ticks /\ transit \in Ticks /\ talkstart \in Ticks /\ next_played \in Ticks
  /\ playout \in 0 .. Mixed + transit_jump
  /\ pktbuf \in Seq(Packet) /\ channel \in Seq(Packet) /\ media \in Seq(Unit)
  /\ media_pos \in 0 .. Len(media) /\ Len(pktbuf) <= max_packets
  /\ begun \in BOOLEAN /\ failed = FALSE /\ hold_repair = 0
  /\ age \in 0 .. Fresh /\ units_per_packet \in 0 .. MaxUnits
  /\ post_talkstart_units \in 0 .. RepairAfter + 1
  /\ skew \in {"NONE", "FAST", "SLOW"}
  /\ troubles \in 0 .. MaxTroubles
  /\ skew # "NONE" => troubles # 0

\* Before the first packet there is nothing to play.
Begins ==
  /\ ~begun => channel = <<>> /\ media = <<>> /\ playout = 0 /\ at \notin {"decode", "play"}
  /\ begun => age # 0

\* The packets received: in order, and sent not long ago.
Queued ==
  /\ SortedAt(now, pktbuf)
  /\ Within(now, pktbuf,
            IF at = "receive" THEN Past - Max(Ages) ELSE Past - Max(Ages) - Max(Elapsed), Past)
  /\ at \notin {"receive", "packets"} => pktbuf = <<>>

\* What is mixed next is due not far from now; a source that found no skew may be a
\* unit further back, the room the next adaptation needs.
Mixes == begun =>
  /\ Due <= Past + Mixed + 1
  /\ Past - Stall - Reach <= IF skew = "NONE" THEN Due ELSE Due - frame_dur
  /\ at \in {"packets", "decode"} => Past - Stall <= Due /\ Due <= Past + Mixed
  /\ at = "play" /\ media_pos = 0 /\ media # <<>> => Past - Stall <= Due

\* The packets with playout times; after decoding only those that are not due are left.
Channelled ==
  /\ SortedAt(now, channel) /\ Within(now, channel, Due - Reach, ChannelEnd)
  /\ at \in {"play", "audit", "receive"} =>
       Within(now, channel, Past + cushion - frame_dur + 2, ChannelEnd)
  /\ at = "play" /\ skew # "NONE" => Within(now, channel, Past + cushion + 1, ChannelEnd)

\* The units: in order, none older than the history, none later than a packet reaches.
Kept ==
  /\ SortedAt(now, media)
  /\ media_pos = 0 => Within(now, media, Due - Reach, MediaEnd)
  /\ at \in {"receive", "packets", "decode"} => Within(now, media, Due - Hist, MediaEnd)
  /\ at \in {"play", "audit"} =>
       Within(now, media,
              IF skew = "NONE" THEN Past - Stall - Hist - frame_dur ELSE Past - Stall - Hist,
              MediaEnd)

\* The unit mixed last ends where the next one is due; with no such unit the first one
\* is due.
Pointed ==
  /\ media_pos # 0 => Since(now, media[media_pos].playout) + frame_dur = Due
  /\ media_pos = 0 /\ media # <<>> => Since(now, media[1].playout) <= Past + cushion

\* After mixing, what is ahead waits for the next round.
Done == at \in {"audit", "receive"} /\ Due < Past + cushion =>
          \A i \in 1 .. Len(media) : i > media_pos => Past + cushion <= Since(now, media[i].playout)

\* Together with MixedTo, every conjunct is needed for another one.
IInv == /\ Typed /\ Begins /\ Queued /\ Mixes /\ Channelled /\ Kept /\ Pointed
        /\ MixedTo(media, media_pos) /\ Done

-----------------------------------------------------------------------------
\* The distances of the invariant are numbers.
LEMMA Numbers ==
  /\ Reach \in Nat /\ Hist \in Nat /\ Reach = Mixed + 2 * frame_dur
  /\ Hist = history_ts + Mixed + 3 * frame_dur
  BY Params, MixedIs DEF Reach, Hist

\* The window reaches further back than all that is compared.
LEMMA Distances ==
  /\ Past - Stall - Reach - frame_dur >= history_ts /\ Past - Stall - Reach \in Int
  /\ transit_jump <= Past
<1>1. \A a, e, s, h, m, f, t \in Nat :
        LET p == a + e + s + h + 2 * m + 5 * f + t
            r == m + 2 * f
        IN  p - s - r - f >= h /\ p - s - r \in Int /\ t <= p
  OBVIOUS
<1>2. /\ Max(Ages) \in Nat /\ Max(Elapsed) \in Nat /\ Stall \in Nat /\ history_ts \in Nat
      /\ Mixed \in Nat /\ frame_dur \in Nat /\ transit_jump \in Nat
  BY Sets, Params, MixedIs
<1> DEFINE p == Max(Ages) + Max(Elapsed) + Stall + history_ts + 2 * Mixed + 5 * frame_dur + transit_jump
           r == Mixed + 2 * frame_dur
<1>3. p - Stall - r - frame_dur >= history_ts /\ p - Stall - r \in Int /\ transit_jump <= p
  BY <1>1, <1>2
<1>4. p = Past /\ r = Reach
  BY Windows, Numbers
<1> HIDE DEF p, r
<1> QED BY <1>3, <1>4

\* Due is a number.
LEMMA DueTyped == ASSUME Typed PROVE Due \in 0 .. Wrap - 1 /\ Due \in Int
  BY SinceTyped, HalfRange DEF Typed, Due

\* What was pushed back stays in the window.
LEMMA Drifts ==
  ASSUME NEW s, NEW c \in 0 .. MaxTroubles, s # "NONE" => c # 0
  PROVE  LET d == IF s = "NONE" THEN c * frame_dur ELSE (c - 1) * frame_dur
         IN  d \in Nat /\ d <= MaxTroubles * frame_dur
<1>1. c \in Nat /\ MaxTroubles \in Nat /\ frame_dur \in Nat
  BY Params
<1>2. c * frame_dur <= MaxTroubles * frame_dur /\ c * frame_dur \in Nat
  BY <1>1, LessTimes
<1>3. c # 0 => (c - 1) * frame_dur <= MaxTroubles * frame_dur /\ (c - 1) * frame_dur \in Nat
  <2> SUFFICES ASSUME c # 0
               PROVE (c - 1) * frame_dur <= MaxTroubles * frame_dur /\ (c - 1) * frame_dur \in Nat
    OBVIOUS
  <2>1. c - 1 \in Nat /\ c - 1 <= MaxTroubles
    BY <1>1
  <2> QED BY <2>1, <1>1, LessTimes
<1> QED BY <1>2, <1>3

\* The latest times are in the window.
LEMMA EndsTyped ==
  ASSUME Typed
  PROVE  /\ Drift \in Nat /\ ChannelEnd \in Int /\ MediaEnd \in Int
         /\ ChannelEnd <= Past + Future /\ MediaEnd <= Past + Future
         /\ ChannelEnd = Past + Lead + Drift
         /\ MediaEnd = Past + cushion + MaxUnits * frame_dur + Drift
<1>1. Drift \in Nat /\ Drift <= MaxTroubles * frame_dur
  BY Drifts DEF Typed, Drift
<1>2. MaxUnits * frame_dur \in Nat /\ MaxTroubles * frame_dur \in Nat
  BY Products
<1> HIDE DEF Drift
<1> QED BY <1>1, <1>2, Params, Windows DEF ChannelEnd, MediaEnd

\* A trouble more makes room for another skew.
LEMMA DriftGrows ==
  ASSUME Typed, Typed',
         \/ UNCHANGED <<skew, troubles>>
         \/ troubles' = troubles + 1
         \/ skew' = "NONE" /\ UNCHANGED troubles
  PROVE  Drift <= Drift' /\ ChannelEnd <= ChannelEnd' /\ MediaEnd <= MediaEnd'
<1>1. troubles \in Nat /\ troubles' \in Nat /\ frame_dur \in Nat
  BY Params DEF Typed
<1>2. (troubles + 1) * frame_dur = troubles * frame_dur + frame_dur
  BY <1>1
<1>3. (troubles - 1) * frame_dur = troubles * frame_dur - frame_dur
  BY <1>1
<1>4. troubles * frame_dur \in Int
  BY <1>1
<1>5. troubles' = troubles + 1 => troubles' - 1 = troubles
  BY <1>1
<1>6. Drift <= Drift'
  <2>1. CASE UNCHANGED <<skew, troubles>>
    <3>1. Drift' = Drift /\ Drift \in Nat
      BY <2>1, EndsTyped DEF Drift
    <3> QED BY <3>1
  <2>2. CASE troubles' = troubles + 1
    <3>1. Drift' = troubles * frame_dur \/ Drift' = troubles * frame_dur + frame_dur
      BY <2>2, <1>2, <1>5 DEF Drift
    <3>2. Drift = troubles * frame_dur \/ Drift = troubles * frame_dur - frame_dur
      BY <1>3 DEF Drift
    <3> QED BY <3>1, <3>2, <1>1, <1>4
  <2>3. CASE skew' = "NONE" /\ UNCHANGED troubles
    <3>1. Drift' = troubles * frame_dur
      BY <2>3 DEF Drift
    <3>2. Drift = troubles * frame_dur \/ Drift = troubles * frame_dur - frame_dur
      BY <1>3 DEF Drift
    <3> QED BY <3>1, <3>2, <1>1, <1>4
  <2> QED BY <2>1, <2>2, <2>3
<1>7. Drift \in Nat /\ Drift' \in Nat
  BY Drifts DEF Typed, Drift
<1>8. ChannelEnd' = Past + Lead + Drift' /\ MediaEnd' = Past + cushion + MaxUnits * frame_dur + Drift'
  BY DEF ChannelEnd, MediaEnd
<1>9. ChannelEnd = Past + Lead + Drift /\ MediaEnd = Past + cushion + MaxUnits * frame_dur + Drift
  BY DEF ChannelEnd, MediaEnd
<1>10. MaxUnits * frame_dur \in Nat
  BY Products
<1> HIDE DEF Drift
<1> QED BY <1>6, <1>7, <1>8, <1>9, <1>10, Params, Windows

\* A skew that is adapted to is paid with a unit's time.
LEMMA DriftPays ==
  ASSUME Typed, Typed', skew # "NONE", skew' = "NONE", troubles' >= troubles
  PROVE  /\ Drift' >= Drift + frame_dur
         /\ ChannelEnd' >= ChannelEnd + frame_dur /\ MediaEnd' >= MediaEnd + frame_dur
<1>1. troubles \in Nat /\ troubles' \in Nat /\ frame_dur \in Nat
  BY Params DEF Typed
<1>2. troubles * frame_dur <= troubles' * frame_dur /\ troubles * frame_dur \in Nat
  <2>1. troubles <= troubles'
    BY <1>1
  <2> QED BY <2>1, <1>1, LessTimes
<1>5. troubles' * frame_dur \in Nat
  <2>1. \A x \in Nat : x * frame_dur \in Nat
    BY <1>1
  <2> QED BY <2>1, <1>1
<1>3. (troubles - 1) * frame_dur = troubles * frame_dur - frame_dur
  BY <1>1
<1>4. Drift' = troubles' * frame_dur /\ Drift = troubles * frame_dur - frame_dur
  BY <1>3 DEF Drift
<1>6. Drift' >= Drift + frame_dur
  <2>1. \A x, y \in Nat : x <= y => y >= x - frame_dur + frame_dur
    BY <1>1
  <2> QED BY <2>1, <1>2, <1>4, <1>5
<1>7. Drift \in Nat /\ Drift' \in Nat
  BY Drifts DEF Typed, Drift
<1>8. ChannelEnd' = Past + Lead + Drift' /\ MediaEnd' = Past + cushion + MaxUnits * frame_dur + Drift'
  BY DEF ChannelEnd, MediaEnd
<1>9. ChannelEnd = Past + Lead + Drift /\ MediaEnd = Past + cushion + MaxUnits * frame_dur + Drift
  BY DEF ChannelEnd, MediaEnd
<1>10. MaxUnits * frame_dur \in Nat
  BY Products
<1> HIDE DEF Drift
<1> QED BY <1>1, <1>6, <1>7, <1>8, <1>9, <1>10, Params, Windows

-----------------------------------------------------------------------------
(***************************************************************************)
(* The first state, and the steps that leave the units alone.              *)
(***************************************************************************)

\* An empty buffer is as it should be.
LEMMA NoneKept == ASSUME NEW n, NEW lo, NEW hi
                  PROVE  Within(n, <<>>, lo, hi) /\ SortedAt(n, <<>>) /\ MixedTo(<<>>, 0)
  BY DEF Within, SortedAt, MixedTo

\* A counter with a bound.
LEMMA Capped == ASSUME NEW x \in Nat, NEW bound \in Nat
                PROVE  UpTo(x, bound) \in 0 .. bound /\ (x >= 1 /\ bound >= 1 => UpTo(x, bound) >= 1)
  BY DEF UpTo

\* Times stay times.
LEMMA AddTyped == ASSUME NEW s \in Ticks, NEW d \in Nat, d < Wrap PROVE ts_add(s, d) \in Ticks
  BY HalfRange DEF Ticks, ts_add

LEMMA SubTyped == ASSUME NEW s \in Ticks, NEW d \in Nat, d < Wrap PROVE ts_sub(s, d) \in Ticks
  BY HalfRange DEF Ticks, ts_sub

\* A source without packets and units.
LEMMA EmptySource ==
  ASSUME Typed, ~begun, at = "receive", pktbuf = <<>>, channel = <<>>, media = <<>>,
         media_pos = 0, playout = 0
  PROVE  IInv
<1>1. Begins
  BY DEF Begins
<1>2. Queued
  BY NoneKept DEF Queued
<1>3. Mixes
  BY DEF Mixes
<1>4. Channelled
  BY NoneKept DEF Channelled
<1>5. Kept
  BY NoneKept DEF Kept
<1>6. Pointed
  BY DEF Pointed
<1>7. MixedTo(media, media_pos)
  BY NoneKept
<1>8. Done
  <2>1. \A i \in 1 .. Len(media) : FALSE
    OBVIOUS
  <2> QED BY <2>1 DEF Done
<1> QED BY <1>1, <1>2, <1>3, <1>4, <1>5, <1>6, <1>7, <1>8 DEF IInv

\* The invariant holds at the beginning.
LEMMA Initially == Init => IInv
<1> SUFFICES ASSUME Init PROVE IInv
  OBVIOUS
<1>1. 0 \in Ticks
  BY HalfRange DEF Ticks
<1>2. Typed
  <2>1. <<>> \in Seq(Packet) /\ <<>> \in Seq(Unit) /\ Len(<<>>) = 0
    OBVIOUS
  <2>2. /\ 0 \in 0 .. Mixed + transit_jump /\ 0 \in 0 .. Fresh /\ 0 \in 0 .. MaxUnits
        /\ 0 \in 0 .. RepairAfter + 1 /\ 0 \in 0 .. MaxTroubles /\ 0 <= max_packets
        /\ 0 \in 0 .. 0
    BY Params, MixedIs
  <2> QED BY <1>1, <2>1, <2>2, Params DEF Init, Typed
<1> QED BY <1>2, EmptySource DEF Init

\* Nothing changes.
LEMMA Stutters == ASSUME IInv, UNCHANGED vars PROVE IInv'
  BY DEF IInv, vars, timing, Typed, Begins, Queued, Mixes, Channelled, Kept, Pointed, Done, Due,
         ChannelEnd, MediaEnd, Drift

-----------------------------------------------------------------------------
\* A packet is received: it is not older than any other may be.
LEMMA ReceivePacketKeeps == ASSUME IInv, ReceivePacket PROVE IInv'
<1> USE DEF IInv
<1>1. PICK t \in Ages : \E units \in 1 .. MaxUnits :
        pktbuf' = pktbuf_enqueue(pktbuf, [playout |-> ts_sub(now, t), units |-> units])
  BY DEF ReceivePacket
<1>2. PICK units \in 1 .. MaxUnits :
        pktbuf' = pktbuf_enqueue(pktbuf, [playout |-> ts_sub(now, t), units |-> units])
  BY <1>1
<1> DEFINE packet == [playout |-> ts_sub(now, t), units |-> units]
           longer == pb_add(pktbuf, packet)
<1>3. /\ at = "receive" /\ now \in Ticks /\ pktbuf \in Seq(Packet) /\ Len(pktbuf) <= max_packets
      /\ Within(now, pktbuf, Past - Max(Ages), Past) /\ SortedAt(now, pktbuf)
  BY DEF ReceivePacket, Typed, Queued
<1>4. t \in Nat /\ t <= Max(Ages) /\ Max(Ages) \in Nat
  BY Sets
<1>5. ts_sub(now, t) \in Ticks /\ Since(now, ts_sub(now, t)) = Past - t
  <2>1. Since(now, now) = Past
    BY <1>3, Origin
  <2>2. t <= Past
    BY <1>4, Windows, Params, Sets, MixedIs
  <2> QED BY <1>3, <1>4, <2>1, <2>2, Subtracted
<1>6. packet \in Packet /\ packet.playout \in Ticks /\ Since(now, packet.playout) = Past - t
  BY <1>5 DEF Packet
<1> HIDE DEF packet
<1>7. Past - Max(Ages) \in Int /\ Past \in Int /\ Past <= Past + Future
  BY Windows, Sets
<1>8. /\ Past - Max(Ages) <= Since(now, packet.playout)
      /\ Since(now, packet.playout) <= Past
  BY <1>4, <1>6, <1>7
<1>9. /\ longer \in Seq(Packet) /\ Len(longer) \in {Len(pktbuf), Len(pktbuf) + 1}
      /\ Len(longer) # 0
  BY <1>3, <1>6, <1>7, <1>8, AddKeeps
<1>10. Within(now, longer, Past - Max(Ages), Past) /\ SortedAt(now, longer)
  <2>1. Within(now, longer, Past - Max(Ages), Past)
    BY <1>3, <1>6, <1>7, <1>8, AddKeeps
  <2>2. SortedAt(now, longer)
    BY <1>3, <1>6, <1>7, <1>8, AddKeeps
  <2> QED BY <2>1, <2>2
<1>11. pktbuf' = IF Len(longer) > max_packets THEN Tail(longer) ELSE longer
  BY <1>2 DEF pktbuf_enqueue, packet
<1> HIDE DEF longer
<1>12. /\ pktbuf' \in Seq(Packet) /\ Len(pktbuf') <= max_packets
       /\ Within(now, pktbuf', Past - Max(Ages), Past) /\ SortedAt(now, pktbuf')
  <2>1. CASE Len(longer) > max_packets
    <3>1. longer # <<>>
      BY <1>9
    <3>2. Tail(longer) \in Seq(Packet) /\ Len(Tail(longer)) = Len(longer) - 1
      BY <1>3, <1>9, <1>10, <3>1, TailKeeps
    <3>3. Within(now, Tail(longer), Past - Max(Ages), Past)
      BY <1>3, <1>9, <1>10, <3>1, TailKeeps
    <3>4. SortedAt(now, Tail(longer))
      BY <1>3, <1>9, <1>10, <3>1, TailKeeps
    <3>5. Len(longer) - 1 <= max_packets
      BY <1>3, <1>9, Params
    <3> QED BY <1>11, <2>1, <3>2, <3>3, <3>4, <3>5
  <2>2. CASE ~(Len(longer) > max_packets)
    <3>1. Len(longer) <= max_packets
      BY <2>2, <1>9, Params
    <3> QED BY <1>9, <1>10, <1>11, <2>2, <3>1
  <2> QED BY <2>1, <2>2
<1>13. UNCHANGED <<at, now, channel, media, media_pos, begun, age, timing, next_played,
                   hold_repair, skew, failed, troubles>>
  BY DEF ReceivePacket
<1>14. Queued'
  BY <1>3, <1>12, <1>13 DEF Queued
<1>15. Typed'
  BY <1>12, <1>13 DEF Typed, timing
<1> QED BY <1>14, <1>15, <1>13
      DEF timing, Begins, Mixes, Channelled, Kept, Pointed, Done, Due, ChannelEnd, MediaEnd, Drift

\* No packet is left.
LEMMA PacketsProcessedKeeps == ASSUME IInv, PacketsProcessed PROVE IInv'
<1> USE DEF IInv
<1>1. /\ at = "packets" /\ pktbuf = <<>> /\ at' = (IF begun THEN "decode" ELSE "audit")
      /\ UNCHANGED <<now, pktbuf, channel, media, media_pos, begun, age, timing, next_played,
                     hold_repair, skew, failed, troubles>>
  BY DEF PacketsProcessed
<1>2. Typed'
  BY <1>1 DEF Typed, timing
<1>3. Begins'
  BY <1>1 DEF Begins, timing
<1>4. Queued'
  BY <1>1, NoneKept DEF Queued
<1>5. Mixes'
  BY <1>1 DEF Mixes, Due
<1>6. CASE begun
  <2>1. at' = "decode"
    BY <1>1, <1>6
  <2>2. Channelled' /\ Kept' /\ Pointed' /\ MixedTo(media, media_pos)' /\ Done'
    BY <1>1, <2>1 DEF Channelled, Kept, Pointed, Done, Due, ChannelEnd, MediaEnd, Drift
  <2> QED BY <1>2, <1>3, <1>4, <1>5, <2>2
<1>7. CASE ~begun
  <2>1. channel' = <<>> /\ media' = <<>> /\ media_pos' = 0
    BY <1>1, <1>7 DEF Begins, Typed
  <2>2. Channelled' /\ Kept'
    BY <2>1, NoneKept DEF Channelled, Kept
  <2>3. Pointed' /\ MixedTo(media, media_pos)'
    BY <2>1, NoneKept DEF Pointed
  <2>4. Done'
    <3>1. \A i \in 1 .. Len(media') : FALSE
      BY <2>1
    <3> QED BY <3>1 DEF Done
  <2> QED BY <1>2, <1>3, <1>4, <1>5, <2>2, <2>3, <2>4
<1> QED BY <1>6, <1>7

\* The source is removed: a trouble more, and nothing is left to be late.
LEMMA RemovedKeeps == ASSUME IInv, Removed PROVE IInv'
<1>1. PICK elapsed \in Elapsed \cup {0} : now' = ts_add(now, elapsed)
  BY DEF Removed
<1>2. elapsed \in Nat /\ elapsed < Wrap
  BY Sets, HalfRange, Windows, Params, MixedIs
<1>3. now' \in Ticks
  BY <1>1, <1>2, AddTyped DEF IInv, Typed
<1>4. 0 \in Ticks
  BY HalfRange DEF Ticks
<1>5. troubles' \in 0 .. MaxTroubles
  BY Params DEF Removed, Trouble, IInv, Typed
<1>6. at' = "receive" /\ failed' = FALSE
  BY DEF Removed, IInv, Typed
<1>7. Typed'
  <2>1. <<>> \in Seq(Packet) /\ <<>> \in Seq(Unit) /\ Len(<<>>) = 0
    OBVIOUS
  <2>2. /\ 0 \in 0 .. Mixed + transit_jump /\ 0 \in 0 .. Fresh /\ 0 \in 0 .. MaxUnits
        /\ 0 \in 0 .. RepairAfter + 1 /\ 0 <= max_packets /\ 0 \in 0 .. 0
    BY Params, MixedIs
  <2> QED BY <1>3, <1>4, <1>5, <1>6, <2>1, <2>2 DEF Removed, Typed
<1>8. (Typed /\ ~begun /\ at = "receive" /\ pktbuf = <<>> /\ channel = <<>> /\ media = <<>>
        /\ media_pos = 0 /\ playout = 0 => IInv)'
  BY EmptySource, PTL
<1> QED BY <1>6, <1>7, <1>8 DEF Removed

\* Nothing is left to mix, or it is not time yet.
LEMMA PlayedKeeps == ASSUME IInv, Played PROVE IInv'
<1> USE DEF IInv
<1>1. /\ at = "play" /\ ~(ts_gt(end_ts, next_played) /\ media_pos < Len(media)) /\ at' = "audit"
      /\ UNCHANGED <<now, pktbuf, channel, media, media_pos, begun, age, timing, next_played,
                     hold_repair, skew, failed, troubles>>
  BY DEF Played
<1>2. Typed' /\ Begins' /\ Queued' /\ Mixes'
  BY <1>1 DEF Typed, Begins, Queued, Mixes, Due, timing
<1>3. Channelled' /\ Kept' /\ Pointed' /\ MixedTo(media, media_pos)'
  BY <1>1 DEF Channelled, Kept, Pointed, Due, ChannelEnd, MediaEnd, Drift
<1>4. ASSUME Due < Past + cushion PROVE media_pos = Len(media)
  <2>1. now \in Ticks /\ next_played \in Ticks /\ media_pos \in 0 .. Len(media) /\ Len(media) \in Nat
    BY DEF Typed
  <2>2. /\ end_ts \in Ticks /\ Since(now, end_ts) = Past + cushion
        /\ Past + cushion <= Past + Future /\ Past + Future \in Nat /\ Past + cushion \in Nat
    <3>1. Past + cushion <= Past + Future /\ Past + Future \in Nat /\ Past + cushion \in Nat
      BY Windows, Params, Products, MixedIs
    <3>2. Since(now, now) = Past
      BY <2>1, Origin
    <3> QED BY <2>1, <3>1, <3>2, Params, Added DEF end_ts
  <2>3. ts_gt(end_ts, next_played)
    <3>1. Due \in Int
      BY DueTyped
    <3>2. Since(now, end_ts) > Since(now, next_played) /\ Since(now, next_played) <= Past + Future
      BY <1>4, <2>2, <3>1 DEF Due
    <3> QED BY <2>1, <2>2, <3>2, Later
  <2> QED BY <1>1, <2>1, <2>3
<1>5. Done'
  <2>1. media' = media /\ media_pos' = media_pos /\ Due' = Due /\ now' = now
    BY <1>1 DEF Due
  <2>2. Due < Past + cushion => \A i \in 1 .. Len(media) : ~(i > media_pos)
    BY <1>4 DEF Typed
  <2> QED BY <2>1, <2>2 DEF Done
<1> QED BY <1>2, <1>3, <1>5

-----------------------------------------------------------------------------
(***************************************************************************)
(* Time passes.                                                            *)
(***************************************************************************)

\* What is mixed in this round ends at cushion from now.
LEMMA EndTime ==
  ASSUME Typed
  PROVE  /\ end_ts \in Ticks /\ Since(now, end_ts) = Past + cushion
         /\ Past + cushion <= Past + Future /\ Past + Future \in Nat /\ Past + cushion \in Nat
<1>1. Past + cushion <= Past + Future /\ Past + Future \in Nat /\ Past + cushion \in Nat
  BY Windows, Params, Products, MixedIs
<1>2. now \in Ticks
  BY DEF Typed
<1>3. Since(now, now) = Past
  BY <1>2, Origin
<1> QED BY <1>1, <1>2, <1>3, Params, Added DEF end_ts

\* A source that is not stalled has played something not long ago.
LEMMA NotStalled ==
  ASSUME NEW n \in Ticks, NEW t \in Ticks, Since(n, t) <= Past + Future,
         ts_gt(n, t) => ~(ts_sub(n, t) > Stall)
  PROVE  Past - Stall <= Since(n, t)
<1>1. Since(n, n) = Past
  BY Origin
<1>2. Since(n, t) \in Int /\ Past \in Nat /\ Stall \in Nat /\ Future \in Nat
  BY SinceTyped, HalfRange, Windows, Params
<1>3. CASE Since(n, t) < Past
  <2>1. ts_gt(n, t)
    <3>1. Since(n, n) > Since(n, t) /\ Since(n, n) <= Past + Future
      BY <1>1, <1>2, <1>3
    <3> QED BY <3>1, Later
  <2>2. ts_sub(n, t) = Past - Since(n, t)
    <3>1. Since(n, t) <= Since(n, n)
      BY <1>1, <1>2, <1>3
    <3> QED BY <3>1, <1>1, Between
  <2> QED BY <1>2, <2>1, <2>2
<1> QED BY <1>2, <1>3

\* Time passes by less than the window has to spare, and a skew is found.
LEMMA RoundKeeps == ASSUME IInv, Round PROVE IInv'
<1> USE DEF IInv
<1>1. PICK elapsed \in Elapsed : now' = ts_add(now, elapsed) /\ ~Stalled(now')
  BY DEF Round
<1>2. /\ at = "receive" /\ at' = "packets" /\ age' = UpTo(age + 1, Fresh)
      /\ UNCHANGED <<pktbuf, channel, media, media_pos, begun, timing, next_played, hold_repair,
                     failed>>
      /\ \/ skew' \in {skew, "NONE"} /\ UNCHANGED troubles
         \/ skew' \in {"FAST", "SLOW"} /\ troubles < MaxTroubles /\ troubles' = troubles + 1
  BY DEF Round, Trouble
<1>3. elapsed \in Nat /\ elapsed >= 1 /\ elapsed <= Max(Elapsed) /\ Max(Elapsed) \in Nat /\ elapsed < Wrap
      /\ elapsed <= Past
  BY Sets, HalfRange, Windows, Params, MixedIs
<1>4. now \in Ticks /\ next_played \in Ticks /\ now' \in Ticks /\ pktbuf \in Seq(Packet)
      /\ channel \in Seq(Packet) /\ media \in Seq(Unit) /\ media_pos \in 0 .. Len(media)
  BY <1>1, <1>3, AddTyped DEF Typed
<1>5. Typed'
  <2>1. age' \in 0 .. Fresh
    BY <1>2, Capped, Params DEF Typed
  <2>2. /\ troubles' \in 0 .. MaxTroubles /\ (skew' # "NONE" => troubles' # 0)
        /\ skew' \in {"NONE", "FAST", "SLOW"}
    <3>1. troubles \in 0 .. MaxTroubles /\ (skew # "NONE" => troubles # 0)
          /\ skew \in {"NONE", "FAST", "SLOW"} /\ MaxTroubles \in Nat
      BY Params DEF Typed
    <3>2. CASE skew' \in {skew, "NONE"} /\ UNCHANGED troubles
      BY <3>1, <3>2
    <3>3. CASE skew' \in {"FAST", "SLOW"} /\ troubles < MaxTroubles /\ troubles' = troubles + 1
      BY <3>1, <3>3
    <3> QED BY <1>2, <3>2, <3>3
  <2> QED BY <1>2, <1>4, <2>1, <2>2 DEF Typed, timing
<1>6. Begins'
  <2>1. age' # 0
    <3>1. age + 1 \in Nat /\ age + 1 >= 1
      BY Params DEF Typed
    <3>2. UpTo(age + 1, Fresh) >= 1
      BY <3>1, Capped, Params
    <3> QED BY <1>2, <3>2
  <2> QED BY <1>2, <2>1 DEF Begins, timing
<1>7. Max(Ages) \in Nat /\ Past - Max(Ages) - Max(Elapsed) \in Int /\ Past - Max(Ages) \in Int /\ Past \in Int
      /\ elapsed <= Past - Max(Ages)
  BY <1>3, Sets, Windows, Params, MixedIs
<1>8. Queued'
  <2>1. Within(now, pktbuf, Past - Max(Ages), Past) /\ SortedAt(now, pktbuf)
    BY <1>2 DEF Queued
  <2>2. Within(now', pktbuf, Past - Max(Ages) - elapsed, Past - elapsed)
    BY <1>1, <1>3, <1>4, <1>7, <2>1, TimePasses
  <2>3. SortedAt(now', pktbuf)
    BY <1>1, <1>3, <1>4, <1>7, <2>1, TimePasses
  <2>4. Within(now', pktbuf, Past - Max(Ages) - Max(Elapsed), Past)
    <3>1. /\ Past - Max(Ages) - elapsed \in Int /\ Past - elapsed \in Int
          /\ Past - Max(Ages) - Max(Elapsed) <= Past - Max(Ages) - elapsed /\ Past - elapsed <= Past
      BY <1>3, <1>7
    <3> QED BY <1>4, <1>7, <2>2, <3>1, Wider
  <2> QED BY <1>2, <2>3, <2>4 DEF Queued
<1>9. (skew' # "NONE" \/ skew' = "NONE") /\ Drift <= Drift' /\ ChannelEnd <= ChannelEnd' /\ MediaEnd <= MediaEnd'
  <2>1. \/ UNCHANGED <<skew, troubles>>
        \/ troubles' = troubles + 1
        \/ skew' = "NONE" /\ UNCHANGED troubles
    BY <1>2
  <2> QED BY <1>5, <2>1, DriftGrows
<1>10. CASE ~begun
  <2>1. channel' = <<>> /\ media' = <<>> /\ media_pos' = 0 /\ begun' = FALSE
    BY <1>2, <1>10 DEF Begins, Typed
  <2>2. Channelled' /\ Kept'
    BY <2>1, NoneKept DEF Channelled, Kept
  <2>3. Pointed' /\ MixedTo(media, media_pos)'
    BY <2>1, NoneKept DEF Pointed
  <2>4. Done' /\ Mixes'
    BY <1>2, <2>1 DEF Done, Mixes
  <2> QED BY <1>5, <1>6, <1>8, <2>2, <2>3, <2>4
<1>11. CASE begun
  <2>1. /\ Due <= Past + Mixed + 1 /\ Past - Stall - Reach <= Due /\ Due \in Int
        /\ Due \in Nat
    <3>1. Due \in Int /\ Due \in 0 .. Wrap - 1
      BY DueTyped
    <3>2. Due <= Past + Mixed + 1 /\ (Past - Stall - Reach <= Due \/ Past - Stall - Reach <= Due - frame_dur)
      BY <1>11 DEF Mixes
    <3> QED BY <3>1, <3>2, Numbers, Windows, Params, HalfRange
  <2>2. elapsed <= Due /\ elapsed <= Due - Reach /\ elapsed <= Due - Hist
        /\ Due - Reach \in Int /\ Due - Hist \in Int
    BY <1>3, <2>1, Numbers, Windows, Params, MixedIs, Sets
  <2>3. Due' = Due - elapsed
    <3>1. Since(ts_add(now, elapsed), next_played) = Since(now, next_played) - elapsed
      BY <1>3, <1>4, <2>2, GoesOn DEF Due
    <3> QED BY <1>1, <1>2, <3>1 DEF Due
  <2>4. Past - Stall <= Due' /\ Due' <= Past + Mixed
    <3>1. Due' <= Past + Mixed
      BY <1>3, <2>1, <2>3, Windows, MixedIs
    <3>2. Since(now', next_played) <= Past + Future
      <4>1. Past + Mixed <= Past + Future /\ Past + Mixed \in Int /\ Past + Future \in Int
        BY Windows, MixedIs, Params, Products
      <4>2. Due' \in Int /\ Due' = Since(now', next_played)
        BY <1>2, <1>3, <2>1, <2>3 DEF Due
      <4> QED BY <3>1, <4>1, <4>2
    <3>3. ts_gt(now', next_played) => ~(ts_sub(now', next_played) > Stall)
      BY <1>1, <1>11 DEF Stalled
    <3>4. Past - Stall <= Since(now', next_played)
      BY <1>4, <3>2, <3>3, NotStalled
    <3> QED BY <1>2, <3>1, <3>4 DEF Due
  <2>5. Mixes'
    <3>1. Past - Stall - Reach <= Due' - frame_dur /\ Past - Stall - Reach <= Due'
          /\ Due' <= Past + Mixed + 1
      BY <2>1, <2>3, <2>4, <1>3, Numbers, Windows, Params, MixedIs
    <3> QED BY <1>2, <2>4, <3>1 DEF Mixes
  <2>6. /\ ChannelEnd \in Int /\ MediaEnd \in Int /\ ChannelEnd' \in Int /\ MediaEnd' \in Int
        /\ ChannelEnd - elapsed <= ChannelEnd' /\ MediaEnd - elapsed <= MediaEnd'
        /\ ChannelEnd - elapsed \in Int /\ MediaEnd - elapsed \in Int
    <3>1. ChannelEnd \in Int /\ MediaEnd \in Int
      BY EndsTyped
    <3>2. ChannelEnd' \in Int /\ MediaEnd' \in Int
      <4>1. (Typed => ChannelEnd \in Int /\ MediaEnd \in Int)'
        BY EndsTyped, PTL
      <4> QED BY <4>1, <1>5
    <3> HIDE DEF IInv
    <3> QED BY <3>1, <3>2, <1>3, <1>9
  <2>7. Channelled'
    <3>1. Within(now, channel, Due - Reach, ChannelEnd) /\ SortedAt(now, channel)
      BY DEF Channelled
    <3>2. Within(now', channel, Due - Reach - elapsed, ChannelEnd - elapsed)
      BY <1>1, <1>3, <1>4, <2>2, <2>6, <3>1, TimePasses
    <3>3. SortedAt(now', channel)
      BY <1>1, <1>3, <1>4, <2>2, <2>6, <3>1, TimePasses
    <3>4. Due' - Reach \in Int /\ Due - Reach - elapsed \in Int /\ Due' - Reach <= Due - Reach - elapsed
      BY <1>3, <2>1, <2>2, <2>3, Numbers
    <3>5. Within(now', channel, Due' - Reach, ChannelEnd')
      BY <1>4, <2>6, <3>2, <3>4, Wider
    <3> QED BY <1>2, <3>3, <3>5 DEF Channelled
  <2>8. Kept'
    <3>1. Within(now, media, Due - Hist, MediaEnd) /\ SortedAt(now, media)
      BY <1>2 DEF Kept
    <3>2. Within(now', media, Due - Hist - elapsed, MediaEnd - elapsed)
      BY <1>1, <1>3, <1>4, <2>2, <2>6, <3>1, TimePasses
    <3>3. SortedAt(now', media)
      BY <1>1, <1>3, <1>4, <2>2, <2>6, <3>1, TimePasses
    <3>4. Due' - Hist \in Int /\ Due - Hist - elapsed \in Int /\ Due' - Hist <= Due - Hist - elapsed
      BY <1>3, <2>1, <2>2, <2>3, Numbers
    <3>5. Within(now', media, Due' - Hist, MediaEnd')
      BY <1>4, <2>6, <3>2, <3>4, Wider
    <3>6. ASSUME media_pos = 0 PROVE Within(now', media, Due' - Reach, MediaEnd')
      <4>1. Within(now, media, Due - Reach, MediaEnd)
        BY <3>6 DEF Kept
      <4>2. Within(now', media, Due - Reach - elapsed, MediaEnd - elapsed)
        BY <1>1, <1>3, <1>4, <2>2, <2>6, <3>1, <4>1, TimePasses
      <4>3. Due' - Reach \in Int /\ Due - Reach - elapsed \in Int /\ Due' - Reach <= Due - Reach - elapsed
        BY <1>3, <2>1, <2>2, <2>3, Numbers
      <4> QED BY <1>4, <2>6, <4>2, <4>3, Wider
    <3> QED BY <1>2, <3>3, <3>5, <3>6 DEF Kept
  <2>9. Pointed'
    <3>0. Within(now, media, Due - Hist, MediaEnd)
      BY <1>2 DEF Kept
    <3>1. ASSUME NEW i \in 1 .. Len(media)
          PROVE  /\ Since(now', media[i].playout) = Since(now, media[i].playout) - elapsed
                 /\ Since(now, media[i].playout) \in Int
      <4>1. /\ media[i].playout \in Ticks /\ Due - Hist <= Since(now, media[i].playout)
            /\ Since(now, media[i].playout) \in Int
        BY <1>4, <3>0, SinceTyped, HalfRange DEF Within
      <4>2. elapsed <= Since(now, media[i].playout)
        BY <1>3, <2>2, <4>1
      <4>3. Since(ts_add(now, elapsed), media[i].playout) = Since(now, media[i].playout) - elapsed
        BY <1>3, <1>4, <4>1, <4>2, GoesOn
      <4> QED BY <1>1, <4>1, <4>3
    <3>2. media_pos # 0 => Since(now', media[media_pos].playout) + frame_dur = Due'
      <4> SUFFICES ASSUME media_pos # 0 PROVE Since(now', media[media_pos].playout) + frame_dur = Due'
        OBVIOUS
      <4>1. media_pos \in 1 .. Len(media)
        BY <1>4
      <4>2. Since(now, media[media_pos].playout) + frame_dur = Due
        BY DEF Pointed
      <4>3. /\ Since(now', media[media_pos].playout) = Since(now, media[media_pos].playout) - elapsed
            /\ Since(now, media[media_pos].playout) \in Int
        BY <3>1, <4>1
      <4> QED BY <1>3, <2>1, <2>3, <4>2, <4>3, Params
    <3>3. media_pos = 0 /\ media # <<>> => Since(now', media[1].playout) <= Past + cushion
      <4> SUFFICES ASSUME media_pos = 0, media # <<>> PROVE Since(now', media[1].playout) <= Past + cushion
        OBVIOUS
      <4>1. 1 \in 1 .. Len(media)
        BY <1>4
      <4>2. Since(now, media[1].playout) <= Past + cushion
        BY DEF Pointed
      <4>3. /\ Since(now', media[1].playout) = Since(now, media[1].playout) - elapsed
            /\ Since(now, media[1].playout) \in Int
        BY <3>1, <4>1
      <4>4. Past + cushion \in Int /\ elapsed \in Nat
        BY <1>3, Windows, Params
      <4> QED BY <4>2, <4>3, <4>4
    <3> QED BY <1>2, <3>2, <3>3 DEF Pointed
  <2>10. Done' /\ MixedTo(media, media_pos)'
    BY <1>2 DEF Done
  <2> QED BY <1>5, <1>6, <1>8, <2>5, <2>7, <2>8, <2>9, <2>10
<1> QED BY <1>10, <1>11 DEF Typed

-----------------------------------------------------------------------------
(***************************************************************************)
(* The audit of the units, and the decoder.                                *)
(***************************************************************************)

\* The times of media lie in the window whatever the engine does.
LEMMA MediaTimes ==
  ASSUME IInv, begun
  PROVE  \A i \in 1 .. Len(media) : /\ media[i].playout \in Ticks
                                    /\ Since(now, media[i].playout) \in Int
                                    /\ Since(now, media[i].playout) <= MediaEnd
                                    /\ Since(now, media[i].playout) <= Past + Future
<1>1. \A i \in 1 .. Len(media) : media[i].playout \in Ticks /\ Since(now, media[i].playout) <= MediaEnd
  <2>1. at \in {"receive", "packets", "decode"} \/ at \in {"play", "audit"}
    BY DEF IInv, Typed
  <2>2. \E lo \in Int : Within(now, media, lo, MediaEnd)
    <3>1. Due - Hist \in Int /\ Past - Stall - Hist - frame_dur \in Int /\ Past - Stall - Hist \in Int
      BY DueTyped, Numbers, Windows, Params DEF IInv
    <3> QED BY <2>1, <3>1 DEF IInv, Kept
  <2> QED BY <2>2 DEF Within
<1>2. MediaEnd \in Int /\ MediaEnd <= Past + Future /\ Past + Future \in Int
  BY EndsTyped, Windows DEF IInv
<1>3. now \in Ticks
  BY DEF IInv, Typed
<1>4. \A i \in 1 .. Len(media) : Since(now, media[i].playout) \in Int
  BY <1>1, <1>3, SinceTyped, HalfRange
<1> QED BY <1>1, <1>2, <1>4

\* Units go from the head up to the history; the one mixed last stays.
LEMMA AuditKeeps == ASSUME IInv, source_audit PROVE IInv'
<1>0. Typed /\ Begins /\ Queued /\ Mixes /\ Channelled /\ Kept /\ Pointed /\ MixedTo(media, media_pos) /\ Done
  BY DEF IInv
<1>1. PICK n \in 0 .. Len(media) :
        /\ IF age = 0 THEN n = 0 ELSE Audited(media, media_pos, history_ts, n)
        /\ media' = SubSeq(media, n + 1, Len(media))
        /\ media_pos' = media_pos - n
  BY DEF source_audit
<1>2. /\ at = "audit" /\ at' = "receive"
      /\ UNCHANGED <<now, pktbuf, channel, begun, age, timing, next_played, hold_repair, skew,
                     failed, troubles>>
  BY DEF source_audit
<1>3. now \in Ticks /\ media \in Seq(Unit) /\ media_pos \in 0 .. Len(media) /\ Len(media) \in Nat
      /\ n \in Nat /\ n <= Len(media) /\ media_pos \in Nat
  BY <1>0 DEF Typed
<1>4. Due' = Due /\ ChannelEnd' = ChannelEnd /\ MediaEnd' = MediaEnd
  BY <1>2 DEF Due, ChannelEnd, MediaEnd, Drift
<1>5. Begins' /\ Queued' /\ Mixes'
  <2>1. ~begun => media' = <<>>
    <3> SUFFICES ASSUME ~begun PROVE media' = <<>>
      OBVIOUS
    <3>1. media = <<>> /\ n = 0
      BY <1>0, <1>3 DEF Begins
    <3>2. SubSeq(media, n + 1, Len(media)) \in Seq(Unit) /\ Len(SubSeq(media, n + 1, Len(media))) = 0
      BY <3>1
    <3> QED BY <1>1, <3>2
  <2>2. Begins'
    BY <1>0, <1>2, <2>1 DEF Begins, timing
  <2>3. Queued'
    BY <1>0, <1>2, NoneKept DEF Queued
  <2>4. Mixes'
    BY <1>0, <1>2, <1>4 DEF Mixes
  <2> QED BY <2>2, <2>3, <2>4
<1>6. Channelled'
  BY <1>0, <1>2, <1>4 DEF Channelled
<1>7. ASSUME NEW lo, Within(now, media, lo, MediaEnd)
      PROVE  /\ media' \in Seq(Unit) /\ Len(media') = Len(media) - n
             /\ \A i \in 1 .. Len(media) - n : media'[i] = media[n + i]
             /\ Within(now, media', lo, MediaEnd) /\ SortedAt(now, media')
  <2>1. SortedAt(now, media)
    BY <1>0 DEF Kept
  <2>2. media' \in Seq(Unit) /\ Len(media') = Len(media) - n
    BY <1>1, <1>3, <1>7, <2>1, RestKeeps
  <2>3. \A i \in 1 .. Len(media) - n : media'[i] = media[n + i]
    BY <1>1, <1>3, <1>7, <2>1, RestKeeps
  <2>4. Within(now, media', lo, MediaEnd)
    BY <1>1, <1>3, <1>7, <2>1, RestKeeps
  <2>5. SortedAt(now, media')
    BY <1>1, <1>3, <1>7, <2>1, RestKeeps
  <2> QED BY <2>2, <2>3, <2>4, <2>5
<1>8. \E lo : Within(now, media, lo, MediaEnd)
  BY <1>0, <1>2 DEF Kept
<1>9. /\ media' \in Seq(Unit) /\ Len(media') = Len(media) - n
      /\ \A i \in 1 .. Len(media) - n : media'[i] = media[n + i]
      /\ SortedAt(now, media')
  BY <1>7, <1>8
<1>10. begun /\ media_pos # 0 =>
         /\ n < media_pos
         /\ \A i \in 1 .. Len(media) : i > n => Due - Hist <= Since(now, media[i].playout)
  <2> SUFFICES ASSUME begun, media_pos # 0
               PROVE  /\ n < media_pos
                      /\ \A i \in 1 .. Len(media) : i > n => Due - Hist <= Since(now, media[i].playout)
    OBVIOUS
  <2> DEFINE t == media[media_pos].playout  cutoff == ts_sub(t, history_ts)
  <2>1. Audited(media, media_pos, history_ts, n)
    BY <1>0, <1>1 DEF Begins
  <2>2. (\A i \in 1 .. n : ts_gt(cutoff, media[i].playout)) /\ ~ts_gt(cutoff, media[n + 1].playout)
    BY <2>1 DEF Audited
  <2>3. media_pos \in 1 .. Len(media)
    BY <1>3
  <2>4. t \in Ticks /\ Since(now, t) + frame_dur = Due /\ Since(now, t) \in Int /\ Since(now, t) <= Past + Future
    BY <1>0, <2>3, MediaTimes DEF Pointed, IInv
  <2>5. history_ts \in Nat /\ history_ts >= 1 /\ history_ts <= Since(now, t)
    <3>1. Past - Stall - Reach <= Due \/ Past - Stall - Reach <= Due - frame_dur
      BY <1>0 DEF Mixes
    <3>2. Due \in Int
      BY <1>0, DueTyped
    <3>3. Past - Stall - Reach - frame_dur >= history_ts /\ Past - Stall - Reach \in Int
      BY Distances
    <3>4. Past - Stall - Reach <= Due
      BY <3>1, <3>2, <3>3, Params
    <3>5. history_ts \in Nat /\ history_ts >= 1 /\ frame_dur \in Nat
      BY Params
    <3> HIDE DEF t
    <3>6. history_ts <= Since(now, t)
      BY <2>4, <3>2, <3>3, <3>4, <3>5
    <3> QED BY <3>5, <3>6
  <2>6. cutoff \in Ticks /\ Since(now, cutoff) = Since(now, t) - history_ts
    BY <1>3, <2>4, <2>5, Subtracted
  <2> HIDE DEF cutoff, t
  <2>7. Since(now, cutoff) <= Past + Future /\ Since(now, cutoff) \in Int
    BY <2>4, <2>5, <2>6, Windows
  <2>8. \A i \in 1 .. Len(media) : ts_gt(cutoff, media[i].playout) <=> Since(now, cutoff) > Since(now, media[i].playout)
    BY <1>3, <2>6, <2>7, MediaTimes, Later
  <2>9. n < media_pos
    <3> SUFFICES ASSUME ~(n < media_pos) PROVE FALSE
      OBVIOUS
    <3>1. media_pos \in 1 .. n
      BY <1>3, <2>3
    <3>2. Since(now, cutoff) > Since(now, t)
      BY <2>2, <2>3, <2>8, <3>1 DEF t
    <3> QED BY <2>4, <2>5, <2>6, <3>2
  <2>10. n + 1 \in 1 .. Len(media)
    BY <1>3, <2>9
  <2>11. Due - Hist <= Since(now, media[n + 1].playout)
    <3>1. ~(Since(now, cutoff) > Since(now, media[n + 1].playout))
      BY <2>2, <2>8, <2>10
    <3>2. Since(now, media[n + 1].playout) \in Int
      BY <2>10, MediaTimes
    <3>3. Due \in Int /\ Since(now, cutoff) = Due - frame_dur - history_ts
      BY <2>4, <2>5, <2>6, <1>0, DueTyped, Params
    <3> QED BY <3>1, <3>2, <3>3, Numbers, Params, MixedIs
  <2>12. ASSUME NEW i \in 1 .. Len(media), i > n PROVE Due - Hist <= Since(now, media[i].playout)
    <3>1. i = n + 1 \/ n + 1 < i
      BY <1>3, <2>12
    <3>2. n + 1 < i => Since(now, media[n + 1].playout) < Since(now, media[i].playout)
      BY <1>0, <2>10 DEF Kept, SortedAt
    <3>3. Since(now, media[i].playout) \in Int /\ Since(now, media[n + 1].playout) \in Int
      BY <2>10, MediaTimes
    <3>4. Due - Hist \in Int
      BY <1>0, DueTyped, Numbers
    <3> QED BY <2>11, <3>1, <3>2, <3>3, <3>4
  <2> QED BY <2>9, <2>12
<1>11. media_pos = 0 => n = 0
  <2> SUFFICES ASSUME media_pos = 0 PROVE n = 0
    OBVIOUS
  <2> QED BY <1>1 DEF Audited
<1>12. media_pos' \in 0 .. Len(media') /\ (media_pos' = 0 <=> media_pos = 0)
  <2>1. CASE ~begun
    <3>1. media = <<>>
      BY <1>0, <2>1 DEF Begins
    <3>2. n = 0 /\ media_pos = 0
      BY <1>3, <3>1
    <3> QED BY <1>1, <1>9, <3>1, <3>2
  <2>2. CASE begun
    BY <1>1, <1>3, <1>9, <1>10, <1>11, <2>2
  <2> QED BY <2>1, <2>2, <1>0 DEF Typed
<1>13. Typed'
  BY <1>0, <1>2, <1>9, <1>12 DEF Typed, timing
<1>14. Kept'
  <2>1. media_pos = 0 => Within(now, media', Due - Reach, MediaEnd)
    BY <1>0, <1>7 DEF Kept
  <2>2. Within(now, media', Due - Hist, MediaEnd)
    <3>1. CASE ~begun
      <4>1. media = <<>>
        BY <1>0, <3>1 DEF Begins
      <4>2. Within(now, media, Due - Hist, MediaEnd)
        BY <4>1, NoneKept
      <4> QED BY <1>7, <4>2
    <3>2. CASE begun /\ media_pos = 0
      <4>1. Within(now, media', Due - Reach, MediaEnd)
        BY <2>1, <3>2
      <4>2. Due - Reach \in Int /\ Due - Hist \in Int /\ MediaEnd \in Int /\ Due - Hist <= Due - Reach
            /\ MediaEnd <= MediaEnd
        <5>1. MediaEnd \in Int
          BY <1>0, EndsTyped
        <5>2. Due \in Int
          BY <1>0, DueTyped
        <5> QED BY <5>1, <5>2, Numbers, Params, MixedIs
      <4> QED BY <1>3, <1>9, <4>1, <4>2, Wider
    <3>3. CASE begun /\ media_pos # 0
      <4> SUFFICES ASSUME NEW i \in 1 .. Len(media')
                   PROVE  /\ media'[i].playout \in Ticks /\ Due - Hist <= Since(now, media'[i].playout)
                          /\ Since(now, media'[i].playout) <= MediaEnd
        BY DEF Within
      <4>1. n + i \in 1 .. Len(media) /\ n + i > n /\ media'[i] = media[n + i]
        BY <1>3, <1>9
      <4>2. Due - Hist <= Since(now, media[n + i].playout)
        BY <1>10, <3>3, <4>1
      <4>3. media[n + i].playout \in Ticks /\ Since(now, media[n + i].playout) <= MediaEnd
        BY <3>3, <4>1, MediaTimes
      <4> QED BY <4>1, <4>2, <4>3
    <3> QED BY <3>1, <3>2, <3>3, <1>0 DEF Typed
  <2> QED BY <1>2, <1>4, <1>9, <1>12, <2>1, <2>2 DEF Kept
<1>15. Pointed'
  <2>1. media_pos # 0 => media'[media_pos'] = media[media_pos] /\ media_pos' # 0
    <3> SUFFICES ASSUME media_pos # 0 PROVE media'[media_pos'] = media[media_pos]
      BY <1>12
    <3>1. media_pos' \in 1 .. Len(media) - n /\ n + media_pos' = media_pos
      BY <1>1, <1>3, <1>9, <1>12
    <3> QED BY <1>9, <3>1
  <2>2. media_pos = 0 /\ media' # <<>> => media'[1] = media[1] /\ media # <<>>
    <3> SUFFICES ASSUME media_pos = 0, media' # <<>> PROVE media'[1] = media[1] /\ media # <<>>
      OBVIOUS
    <3>1. n = 0 /\ Len(media') # 0
      BY <1>9, <1>11
    <3>2. 1 \in 1 .. Len(media) - n /\ n + 1 = 1 /\ media # <<>>
      BY <1>3, <1>9, <3>1
    <3> QED BY <1>9, <3>2
  <2> QED BY <1>0, <1>2, <1>4, <1>12, <2>1, <2>2 DEF Pointed
<1>16. MixedTo(media, media_pos)'
  <2> SUFFICES ASSUME NEW i \in 1 .. Len(media')
               PROVE media'[i].is \in IF i <= media_pos' THEN {"mixed", "late"} ELSE {"waiting"}
    BY DEF MixedTo
  <2>1. n + i \in 1 .. Len(media) /\ media'[i] = media[n + i] /\ (i <= media_pos' <=> n + i <= media_pos)
    BY <1>1, <1>3, <1>9
  <2> QED BY <1>0, <2>1 DEF MixedTo
<1>17. Done'
  <2> SUFFICES ASSUME Due < Past + cushion, NEW i \in 1 .. Len(media'), i > media_pos'
               PROVE Past + cushion <= Since(now, media'[i].playout)
    BY <1>2, <1>4 DEF Done
  <2>1. n + i \in 1 .. Len(media) /\ media'[i] = media[n + i] /\ n + i > media_pos
    BY <1>1, <1>3, <1>9
  <2> QED BY <1>0, <1>2, <2>1 DEF Done
<1> QED BY <1>5, <1>6, <1>13, <1>14, <1>15, <1>16, <1>17 DEF IInv

-----------------------------------------------------------------------------
\* A packet that is due is split into units, or none is.
LEMMA DecodeKeeps == ASSUME IInv, Decode PROVE IInv'
<1>0. Typed /\ Begins /\ Queued /\ Mixes /\ Channelled /\ Kept /\ Pointed /\ MixedTo(media, media_pos) /\ Done
  BY DEF IInv
<1>1. /\ at = "decode" /\ begun
      /\ UNCHANGED <<now, pktbuf, begun, age, timing, next_played, hold_repair, skew, failed,
                     troubles>>
  BY <1>0 DEF Decode, Begins
<1>2. Due' = Due /\ ChannelEnd' = ChannelEnd /\ MediaEnd' = MediaEnd
  BY <1>1 DEF Due, ChannelEnd, MediaEnd, Drift
<1>3. /\ now \in Ticks /\ media \in Seq(Unit) /\ media_pos \in 0 .. Len(media) /\ Len(media) \in Nat
      /\ media_pos \in Nat /\ channel \in Seq(Packet) /\ Len(channel) \in Nat
  BY <1>0 DEF Typed
<1>4. /\ Within(now, channel, Due - Reach, ChannelEnd) /\ SortedAt(now, channel)
      /\ Within(now, media, Due - Hist, MediaEnd) /\ SortedAt(now, media)
      /\ (media_pos = 0 => Within(now, media, Due - Reach, MediaEnd))
  BY <1>0, <1>1 DEF Channelled, Kept
<1>5. /\ end_ts \in Ticks /\ Since(now, end_ts) = Past + cushion
      /\ Past + cushion <= Past + Future /\ Past + Future \in Nat /\ Past + cushion \in Nat
  BY <1>0, EndTime
<1>6. /\ Due \in Int /\ Due - Reach \in Int /\ Due - Hist \in Int /\ Due - Hist <= Due - Reach
      /\ ChannelEnd \in Int /\ MediaEnd \in Int /\ ChannelEnd <= Past + Future /\ MediaEnd <= Past + Future
      /\ Past - Stall <= Due /\ Due <= Past + Mixed
  <2>1. ChannelEnd \in Int /\ MediaEnd \in Int
    BY <1>0, EndsTyped
  <2>2. ChannelEnd <= Past + Future
    BY <1>0, EndsTyped
  <2>3. MediaEnd <= Past + Future
    BY <1>0, EndsTyped
  <2>4. Due \in Int
    BY <1>0, DueTyped
  <2>5. Past - Stall <= Due /\ Due <= Past + Mixed
    BY <1>0, <1>1 DEF Mixes
  <2>6. Reach \in Nat /\ Hist \in Nat /\ Reach <= Hist
    BY Numbers, Params, MixedIs
  <2> QED BY <2>1, <2>2, <2>3, <2>4, <2>5, <2>6
<1>7. ASSUME channel # <<>>
      PROVE  /\ channel[1] \in Packet /\ channel[1].playout \in Ticks
             /\ Due - Reach <= Since(now, channel[1].playout)
             /\ Since(now, channel[1].playout) \in Int
             /\ Since(now, channel[1].playout) <= Past + Future
             /\ ts_gt(channel[1].playout, end_ts) <=> Since(now, channel[1].playout) > Past + cushion
  <2>1. /\ channel[1] \in Packet /\ channel[1].playout \in Ticks
        /\ Due - Reach <= Since(now, channel[1].playout)
        /\ Since(now, channel[1].playout) <= ChannelEnd
    BY <1>3, <1>4, <1>6, <1>7, TailKeeps
  <2>2. Since(now, channel[1].playout) \in Int
    BY <1>3, <2>1, SinceTyped, HalfRange
  <2>3. Since(now, channel[1].playout) <= Past + Future
    BY <1>5, <1>6, <2>1, <2>2
  <2>4. ts_gt(channel[1].playout, end_ts) <=> Since(now, channel[1].playout) > Since(now, end_ts)
    BY <1>3, <1>5, <2>1, <2>3, Later
  <2> QED BY <1>5, <2>1, <2>2, <2>3, <2>4
<1>8. Queued' /\ (at' \in {"decode", "play"} => Begins')
  BY <1>0, <1>1, NoneKept DEF Queued, Begins, timing
<1>9. CASE channel # <<>> /\ ~ts_gt(channel[1].playout, end_ts)
  <2> DEFINE m == [buffer |-> media, pos |-> media_pos, full |-> FALSE]
             lo == IF media_pos = 0 THEN Due - Reach ELSE Due - Hist
             moved == media_pos # 0
             x == media[media_pos].playout
             first == Past + cushion
  <2>1. channel' = Tail(channel) /\ media' = Output.buffer /\ media_pos' = Output.pos /\ at' = "decode"
    BY <1>1, <1>9 DEF Decode
  <2>2. Output = vanilla_decoder_output(m, channel[1])
    BY DEF Output
  <2>3. lo \in Int /\ first \in Int /\ lo <= Due - Reach /\ Due - Hist <= lo
    BY <1>5, <1>6
  <2>4. Filling(now, lo, MediaEnd, moved, x, first, m)
    <3>1. m \in [buffer : Seq(Unit), pos : Nat, full : BOOLEAN] /\ m.pos <= Len(m.buffer)
      BY <1>3
    <3>2. Within(now, m.buffer, lo, MediaEnd) /\ SortedAt(now, m.buffer) /\ MixedTo(m.buffer, m.pos)
      BY <1>0, <1>4
    <3>3. /\ (m.pos # 0) = moved
          /\ moved => m.buffer[m.pos].playout = x
          /\ m.full => m.buffer # <<>>
      OBVIOUS
    <3>4. ~moved /\ m.buffer # <<>> => Since(now, m.buffer[1].playout) <= first
      BY <1>0 DEF Pointed
    <3> HIDE DEF m, lo, moved, x, first
    <3> QED BY <3>1, <3>2, <3>3, <3>4 DEF Filling
  <2>5. /\ channel[1] \in Packet /\ lo <= Since(now, channel[1].playout)
        /\ Since(now, channel[1].playout) <= first
    <3>1. /\ channel[1] \in Packet /\ Since(now, channel[1].playout) \in Int
          /\ Due - Reach <= Since(now, channel[1].playout)
          /\ ~(Since(now, channel[1].playout) > Past + cushion)
      BY <1>7, <1>9
    <3> QED BY <1>5, <1>6, <2>3, <3>1
  <2>6. Since(now, channel[1].playout) + (channel[1].units - 1) * frame_dur <= MediaEnd
    <3>1. Since(now, channel[1].playout) <= Past + cushion /\ Since(now, channel[1].playout) \in Int
      BY <2>5, <1>7, <1>9
    <3>2. channel[1].units - 1 \in Nat /\ channel[1].units - 1 <= MaxUnits
      BY <2>5, Params DEF Packet
    <3>3. (channel[1].units - 1) * frame_dur <= MaxUnits * frame_dur /\ (channel[1].units - 1) * frame_dur \in Nat
      BY <3>2, Params, LessTimes
    <3>4. MediaEnd = Past + cushion + MaxUnits * frame_dur + Drift /\ Drift \in Nat
      BY <1>0, EndsTyped
    <3>5. MaxUnits * frame_dur \in Nat
      BY Products
    <3> QED BY <3>1, <3>3, <3>4, <3>5, <1>5, Windows, Params
  <2> HIDE DEF m, lo, x, first, moved
  <2>7. Filling(now, lo, MediaEnd, moved, x, first, Output)
    <3>1. moved \in BOOLEAN
      BY DEF moved
    <3> QED BY <1>3, <1>6, <2>2, <2>3, <2>4, <2>5, <2>6, <3>1, DecodedKeeps
  <2>8. /\ Output.buffer \in Seq(Unit) /\ Output.pos \in 0 .. Len(Output.buffer)
        /\ Within(now, Output.buffer, lo, MediaEnd) /\ SortedAt(now, Output.buffer)
        /\ MixedTo(Output.buffer, Output.pos)
        /\ (Output.pos # 0) = moved
        /\ moved => Output.buffer[Output.pos].playout = x
        /\ ~moved /\ Output.buffer # <<>> => Since(now, Output.buffer[1].playout) <= first
    BY <2>7 DEF Filling
  <2>9. Tail(channel) \in Seq(Packet) /\ Within(now, Tail(channel), Due - Reach, ChannelEnd)
        /\ SortedAt(now, Tail(channel))
    BY <1>3, <1>4, <1>6, <1>9, TailKeeps
  <2>10. Typed'
    BY <1>0, <1>1, <2>1, <2>8, <2>9 DEF Typed, timing
  <2>11. Channelled'
    BY <1>1, <1>2, <2>1, <2>9 DEF Channelled
  <2>12. Kept'
    <3>1. Within(now, media', lo, MediaEnd) /\ SortedAt(now, media') /\ media' \in Seq(Unit)
      BY <2>1, <2>8
    <3>2. Within(now, media', Due - Hist, MediaEnd)
      BY <1>3, <1>6, <2>3, <3>1, Wider
    <3>3. media_pos' = 0 => Within(now, media', Due - Reach, MediaEnd)
      <4>1. media_pos' = 0 => lo = Due - Reach
        BY <2>1, <2>8 DEF lo, moved
      <4> QED BY <3>1, <4>1
    <3> QED BY <1>1, <1>2, <2>1, <3>1, <3>2, <3>3 DEF Kept
  <2>13. Pointed'
    <3>1. media_pos' # 0 => Since(now, media'[media_pos'].playout) + frame_dur = Due
      BY <1>0, <2>1, <2>8 DEF moved, x, Pointed
    <3>2. media_pos' = 0 /\ media' # <<>> => Since(now, media'[1].playout) <= Past + cushion
      BY <2>1, <2>8 DEF first
    <3> QED BY <1>1, <1>2, <3>1, <3>2 DEF Pointed
  <2>14. MixedTo(media, media_pos)' /\ Done' /\ Mixes'
    BY <1>0, <1>1, <1>2, <2>1, <2>8 DEF Done, Mixes
  <2> QED BY <1>8, <2>1, <2>10, <2>11, <2>12, <2>13, <2>14 DEF IInv
<1>10. CASE ~(channel # <<>> /\ ~ts_gt(channel[1].playout, end_ts))
  <2>1. at' = "play" /\ UNCHANGED <<channel, media, media_pos>>
    BY <1>1, <1>10 DEF Decode
  <2>2. Typed' /\ Mixes'
    BY <1>0, <1>1, <1>2, <2>1 DEF Typed, timing, Mixes
  <2>3. /\ Within(now, channel, Past + cushion + 1, ChannelEnd)
        /\ Within(now, channel, Past + cushion - frame_dur + 2, ChannelEnd)
    <3>1. Within(now, channel, Past + cushion + 1, ChannelEnd)
      <4> SUFFICES ASSUME NEW i \in 1 .. Len(channel)
                   PROVE  /\ channel[i].playout \in Ticks
                          /\ Past + cushion + 1 <= Since(now, channel[i].playout)
                          /\ Since(now, channel[i].playout) <= ChannelEnd
        BY DEF Within
      <4>1. channel # <<>> /\ 1 \in 1 .. Len(channel)
        BY <1>3
      <4>2. channel[i].playout \in Ticks /\ Since(now, channel[i].playout) <= ChannelEnd
        BY <1>4 DEF Within
      <4>3. Since(now, channel[i].playout) \in Int
        BY <1>3, <4>2, SinceTyped, HalfRange
      <4>4. Since(now, channel[1].playout) > Past + cushion /\ Since(now, channel[1].playout) \in Int
        BY <1>7, <1>10, <4>1
      <4>5. i = 1 \/ Since(now, channel[1].playout) < Since(now, channel[i].playout)
        BY <1>3, <1>4, <4>1 DEF SortedAt
      <4>6. Past + cushion + 1 <= Since(now, channel[i].playout)
        BY <1>5, <4>3, <4>4, <4>5
      <4> QED BY <4>2, <4>6
    <3>2. /\ Past + cushion + 1 \in Int /\ Past + cushion - frame_dur + 2 \in Int
          /\ Past + cushion - frame_dur + 2 <= Past + cushion + 1 /\ ChannelEnd <= ChannelEnd
      <4>1. frame_dur \in Nat /\ frame_dur >= 1 /\ cushion \in Nat /\ Past \in Nat
        BY Params, Windows
      <4> QED BY <1>6, <4>1
    <3> QED BY <1>3, <1>6, <3>1, <3>2, Wider
  <2>4. Channelled'
    BY <1>1, <1>2, <1>4, <2>1, <2>3 DEF Channelled
  <2>5. Kept'
    <3>1. /\ Past - Stall - Hist - frame_dur \in Int /\ Past - Stall - Hist \in Int
          /\ Past - Stall - Hist <= Due - Hist /\ Past - Stall - Hist - frame_dur <= Due - Hist
          /\ MediaEnd <= MediaEnd
      BY <1>6, Numbers, Params, Windows
    <3>2. Within(now, media, Past - Stall - Hist - frame_dur, MediaEnd)
      BY <1>3, <1>4, <1>6, <3>1, Wider
    <3>3. Within(now, media, Past - Stall - Hist, MediaEnd)
      BY <1>3, <1>4, <1>6, <3>1, Wider
    <3> QED BY <1>1, <1>2, <1>4, <2>1, <3>2, <3>3 DEF Kept
  <2>6. Pointed' /\ MixedTo(media, media_pos)' /\ Done'
    BY <1>0, <1>1, <1>2, <2>1 DEF Pointed, Done
  <2> QED BY <1>8, <2>1, <2>2, <2>4, <2>5, <2>6 DEF IInv
<1> QED BY <1>9, <1>10

-----------------------------------------------------------------------------
(***************************************************************************)
(* What a packet is given for a playout time.                              *)
(***************************************************************************)

\* A sum that does not wrap.
LEMMA SmallSum == ASSUME NEW a \in Nat, NEW b \in Nat, a + b < Wrap PROVE ts_add(a, b) = a + b
  BY HalfRange DEF ts_add

\* Transit times that do not jump are close to each other.
LEMMA CloseBy ==
  ASSUME NEW a \in Ticks, NEW t \in Ticks, NEW d \in Nat, d >= 1, d < half_range,
         ~ts_gt(ts_abs_diff(a, t), d)
  PROVE  \E e \in Int : /\ -d <= e /\ e <= d
                        /\ t = a + e \/ t = a + e + Wrap \/ t = a + e - Wrap
<1>1. /\ half_range \in Nat /\ Wrap = 2 * half_range /\ half_range >= 2
      /\ a \in Nat /\ t \in Nat /\ a < Wrap /\ t < Wrap
  BY HalfRange DEF Ticks
<1> DEFINE f == ts_abs_diff(a, t)
<1>2. f = IF ts_gt(a, t) THEN ts_sub(a, t) ELSE ts_sub(t, a)
  BY DEF ts_abs_diff
<1>3. f \in Nat /\ f <= half_range
  BY <1>1, <1>2 DEF ts_gt, ts_sub
<1>4. f <= d
  <2> HIDE DEF f
  <2>1. ~ts_gt(f, d)
    BY DEF f
  <2> QED BY <1>1, <1>3, <2>1 DEF ts_gt
<1>5. CASE ts_gt(a, t)
  <2>1. f = IF a < t THEN a + Wrap - t ELSE a - t
    BY <1>2, <1>5 DEF ts_sub
  <2> HIDE DEF f
  <2>2. -f \in Int /\ -d <= -f /\ -f <= d
    BY <1>3, <1>4
  <2>3. t = a + (-f) \/ t = a + (-f) + Wrap \/ t = a + (-f) - Wrap
    BY <1>1, <1>3, <2>1
  <2> QED BY <2>2, <2>3
<1>6. CASE ~ts_gt(a, t)
  <2>1. f = IF t < a THEN t + Wrap - a ELSE t - a
    BY <1>2, <1>6 DEF ts_sub
  <2> HIDE DEF f
  <2>2. f \in Int /\ -d <= f /\ f <= d
    BY <1>3, <1>4
  <2>3. t = a + f \/ t = a + f + Wrap \/ t = a + f - Wrap
    BY <1>1, <1>3, <2>1
  <2> QED BY <2>2, <2>3
<1> QED BY <1>5, <1>6

\* A packet that was sent a ago is to be played delay from now, give or take what its
\* transit time is off.
LEMMA DesiredTime ==
  ASSUME NEW n \in Ticks, NEW s \in Ticks, NEW a \in Nat, Since(n, s) + a = Past,
         NEW t \in Ticks, NEW e \in Int, t = a + e \/ t = a + e + Wrap \/ t = a + e - Wrap,
         NEW delay \in Nat, delay < Wrap, 0 <= Past + e + delay, Past + e + delay <= Past + Future
  PROVE  /\ ts_add(s, ts_add(t, delay)) \in Ticks
         /\ Since(n, ts_add(s, ts_add(t, delay))) = Past + e + delay
<1> DEFINE o == ts_sub(n, Past)
           y == ts_add(t, delay)
           z == ts_add(s, y)
<1>1. /\ half_range \in Nat /\ Wrap = 2 * half_range /\ Past \in Nat /\ Future \in Nat
      /\ Past + Future < half_range
  BY HalfRange, Windows
<1>2. /\ n \in Nat /\ n < Wrap /\ s \in Nat /\ s < Wrap /\ t \in Nat /\ t < Wrap
  BY <1>1 DEF Ticks
<1>3. y = IF t + delay < Wrap THEN t + delay ELSE t + delay - Wrap
  BY <1>1, <1>2 DEF ts_add
<1>4. y \in Nat /\ y < Wrap
  <2> HIDE DEF y
  <2> QED BY <1>1, <1>2, <1>3
<1>5. z = IF s + y < Wrap THEN s + y ELSE s + y - Wrap
  <2> HIDE DEF y
  <2> QED BY <1>1, <1>2, <1>4 DEF ts_add
<1>6. z \in Nat /\ z < Wrap
  <2> HIDE DEF y, z
  <2> QED BY <1>1, <1>2, <1>4, <1>5
<1>7. o = IF n < Past THEN n + Wrap - Past ELSE n - Past
  BY DEF ts_sub
<1>8. Since(n, s) = IF s < o THEN s + Wrap - o ELSE s - o
  BY DEF Since, ts_sub
<1>9. Since(n, z) = IF z < o THEN z + Wrap - o ELSE z - o
  BY DEF Since, ts_sub
<1> HIDE DEF o, y, z
<1>10. o \in Nat /\ o < Wrap /\ (n = o + Past \/ n = o + Past - Wrap)
  BY <1>1, <1>2, <1>7
<1>11. s + a = o + Past \/ s + a = o + Past - Wrap
  BY <1>1, <1>2, <1>8, <1>10
<1>12. Since(n, z) = Past + e + delay
  <2>1. y = a + e + delay \/ y = a + e + delay + Wrap \/ y = a + e + delay - Wrap \/ y = a + e + delay - Wrap - Wrap
    BY <1>1, <1>2, <1>3
  <2> DEFINE w == Past + e + delay
             v == o + w
             q == s + y
  <2>2. w \in Nat /\ w < Wrap
    BY <1>1
  <2>3. v \in Int /\ q \in Int
    BY <2>2, <1>2, <1>4, <1>10
  <2>4. \/ q = v \/ q = v + Wrap \/ q = v - Wrap \/ q = v - Wrap - Wrap
        \/ q = v - Wrap - Wrap - Wrap
    <3>1. s + a = o + Past \/ s + a = o + Past - Wrap
      BY <1>11
    <3>2. /\ s \in Int /\ a \in Int /\ o \in Int /\ Past \in Int /\ e \in Int /\ delay \in Int
          /\ Wrap \in Int /\ y \in Int
      BY <1>1, <1>2, <1>4, <1>10
    <3> QED BY <3>1, <3>2, <2>1
  <2>5. z = q \/ z = q - Wrap
    <3>1. z = s + y \/ z = s + y - Wrap
      BY <1>5
    <3>2. s \in Int /\ y \in Int /\ Wrap \in Int
      BY <1>1, <1>2, <1>4
    <3> QED BY <3>1, <3>2
  <2>6. z \in Int /\ Wrap \in Int
    BY <1>1, <1>6
  <2> HIDE DEF q, v
  <2>7. \/ z = v \/ z = v + Wrap \/ z = v - Wrap \/ z = v - Wrap - Wrap
        \/ z = v - Wrap - Wrap - Wrap \/ z = v - Wrap - Wrap - Wrap - Wrap
    BY <2>3, <2>4, <2>5, <2>6
  <2> HIDE DEF w
  <2>8. Since(n, z) = w
    BY <1>1, <1>6, <1>9, <1>10, <2>2, <2>7 DEF v
  <2> QED BY <2>8 DEF w
<1>13. z \in Ticks
  BY <1>1, <1>6 DEF Ticks
<1> QED BY <1>12, <1>13 DEF z, y

\* Times not further away than Lead are sane.
LEMMA IsSane ==
  ASSUME NEW n \in Ticks, NEW t \in Ticks, Past - Lead <= Since(n, t), Since(n, t) <= Past + Lead
  PROVE  ~(ts_abs_diff(n, t) >= Sane)
<1>1. /\ Since(n, n) = Past
  BY Origin
<1>2. Since(n, t) \in Int
  BY SinceTyped, HalfRange
<1>3. /\ Past \in Nat /\ Future \in Nat /\ Lead \in Nat /\ Lead <= Future /\ Lead < Sane /\ Sane \in Nat
  BY Windows, Params, Products
<1>4. ts_gt(n, t) <=> Past > Since(n, t)
  <2>1. Since(n, t) <= Past + Future /\ Since(n, n) <= Past + Future
    BY <1>1, <1>2, <1>3
  <2>2. ts_gt(n, t) <=> Since(n, n) > Since(n, t)
    BY <2>1, Later
  <2> QED BY <1>1, <2>2
<1>5. CASE ts_gt(n, t)
  <2>1. ts_abs_diff(n, t) = ts_sub(n, t)
    BY <1>5 DEF ts_abs_diff
  <2>2. Since(n, t) <= Since(n, n)
    BY <1>1, <1>2, <1>3, <1>4, <1>5
  <2>3. ts_sub(n, t) = Since(n, n) - Since(n, t)
    BY <2>2, Between
  <2> QED BY <1>1, <1>2, <1>3, <2>1, <2>3
<1>6. CASE ~ts_gt(n, t)
  <2>1. ts_abs_diff(n, t) = ts_sub(t, n)
    BY <1>6 DEF ts_abs_diff
  <2>2. Since(n, n) <= Since(n, t)
    BY <1>1, <1>2, <1>3, <1>4, <1>6
  <2>3. ts_sub(t, n) = Since(n, t) - Since(n, n)
    BY <2>2, Between
  <2> QED BY <1>1, <1>2, <1>3, <2>1, <2>3
<1> QED BY <1>5, <1>6

\* A packet that starts a talkspurt is played after now, and after what was played.
LEMMA Adjusted ==
  ASSUME now \in Ticks, NEW d \in Ticks, Past - Lead <= Since(now, d), Since(now, d) <= Past + Lead
  PROVE  /\ PushedBack(d) \in Nat
         /\ ts_add(d, PushedBack(d)) \in Ticks
         /\ Since(now, ts_add(d, PushedBack(d))) = Since(now, d) + PushedBack(d)
         /\ Since(now, d) + PushedBack(d) = IF Since(now, d) > Past THEN Since(now, d) ELSE Past + frame_dur
<1>1. Since(now, now) = Past
  BY Origin
<1>2. Since(now, d) \in Int
  BY SinceTyped, HalfRange
<1>3. /\ Past \in Nat /\ Future \in Nat /\ Lead \in Nat /\ Lead <= Future /\ frame_dur \in Nat
      /\ frame_dur <= Future /\ Past + Future < half_range /\ half_range \in Nat /\ Wrap = 2 * half_range
      /\ frame_dur + Lead <= Future
  BY Windows, Params, Products, MixedIs, HalfRange
<1>4. ts_gt(d, now) <=> Since(now, d) > Past
  <2>1. Since(now, d) <= Past + Future /\ Since(now, now) <= Past + Future
    BY <1>1, <1>2, <1>3
  <2>2. ts_gt(d, now) <=> Since(now, d) > Since(now, now)
    BY <2>1, Later
  <2> QED BY <1>1, <2>2
<1>5. PushedBack(d) \in Nat /\ Since(now, d) + PushedBack(d)
                                 = IF Since(now, d) > Past THEN Since(now, d) ELSE Past + frame_dur
  <2>1. CASE Since(now, d) > Past
    <3>1. PushedBack(d) = 0
      BY <1>4, <2>1 DEF PushedBack
    <3> QED BY <1>2, <2>1, <3>1
  <2>2. CASE ~(Since(now, d) > Past)
    <3>1. PushedBack(d) = ts_add(ts_sub(now, d), frame_dur)
      BY <1>4, <2>2 DEF PushedBack
    <3>2. ts_sub(now, d) = Past - Since(now, d)
      <4>1. Since(now, d) <= Since(now, now)
        BY <1>1, <1>2, <1>3, <2>2
      <4> QED BY <4>1, <1>1, Between
    <3>3. ts_sub(now, d) \in Nat /\ ts_sub(now, d) + frame_dur < Wrap
      BY <3>2, <1>2, <1>3, <2>2
    <3>4. PushedBack(d) = Past - Since(now, d) + frame_dur
      BY <3>1, <3>2, <3>3, <1>3, SmallSum
    <3> QED BY <3>4, <1>2, <1>3, <2>2
  <2> QED BY <2>1, <2>2
<1>6. Since(now, d) + PushedBack(d) <= Past + Future
  BY <1>2, <1>3, <1>5
<1>7. ts_add(d, PushedBack(d)) \in Ticks
  BY <1>5, <1>6, Added
<1>8. Since(now, ts_add(d, PushedBack(d))) = Since(now, d) + PushedBack(d)
  BY <1>5, <1>6, Added
<1> QED BY <1>5, <1>7, <1>8

\* The names of ProcessPacket for what it works out.
Taken == IF begun THEN Head(pktbuf) ELSE pktbuf[Len(pktbuf)]
Reconfigures == ~begun \/ Taken.units # units_per_packet
Took == ts_sub(now, Taken.playout)
Resets == ~begun \/ ts_gt(ts_abs_diff(Took, transit), transit_jump)
Adjusts(newSpurt) == Reconfigures \/ Resets \/ newSpurt
Estimate(newSpurt, averaged) == IF Resets \/ (Adjusts(newSpurt) /\ averaged) THEN Took ELSE transit
DelayOf(newSpurt, delay) == IF Adjusts(newSpurt) THEN delay ELSE playout
Desired(newSpurt, averaged, delay) ==
  ts_add(Taken.playout, ts_add(Estimate(newSpurt, averaged), DelayOf(newSpurt, delay)))
Shortfall(adjust, desired) == IF adjust THEN PushedBack(desired) ELSE 0
Pushed(adjust, desired) == ts_add(desired, Shortfall(adjust, desired))
Overlap(adjust, desired) ==
  IF adjust /\ begun /\ ts_gt(next_played, Pushed(adjust, desired))
    THEN ts_sub(next_played, Pushed(adjust, desired)) ELSE 0
TimeFor(adjust, desired) == ts_add(Pushed(adjust, desired), Overlap(adjust, desired))
KeptPackets == IF Reconfigures THEN <<>> ELSE channel

\* The effect of one packet, given the adjustment, when it should be played, when it
\* will be, and the delay.
Packeted(newSpurt, averaged, delay, adjust, estimate, desired, time, delay_) ==
  /\ ~adjust => ~averaged /\ delay = playout
  /\ IF newSpurt THEN Trouble ELSE UNCHANGED troubles
  /\ pktbuf' = IF begun THEN Tail(pktbuf) ELSE <<>>
  /\ begun' = TRUE
  /\ units_per_packet' = Taken.units
  /\ transit' = estimate
  /\ playout' = ts_add(delay_, ts_add(Shortfall(adjust, desired), Overlap(adjust, desired)))
  /\ talkstart' = (IF adjust THEN time ELSE talkstart)
  /\ post_talkstart_units' = (IF adjust THEN 0 ELSE UpTo(post_talkstart_units + 1, RepairAfter + 1))
  /\ next_played' = (IF begun THEN next_played ELSE time)
  /\ media' = (IF Reconfigures THEN <<>> ELSE media)
  /\ media_pos' = (IF Reconfigures THEN 0 ELSE media_pos)
  /\ channel' = (IF ts_gt(now, time) THEN KeptPackets
                 ELSE pb_add(KeptPackets, [playout |-> time, units |-> Taken.units]))
  /\ age' = LET a == IF Reconfigures THEN 0 ELSE age IN
            IF ts_gt(now, time) THEN a ELSE UpTo(a + 1, Fresh)
  /\ failed' = \/ failed
               \/ ts_abs_diff(now, desired) >= Sane
               \/ ts_abs_diff(now, time) >= Sane
               \/ (adjust /\ ~ts_gt(Pushed(adjust, desired), now))

\* What ProcessPacket does, in these names.
LEMMA PacketStep ==
  ASSUME ProcessPacket
  PROVE  /\ at = "packets" /\ pktbuf # <<>> /\ UNCHANGED <<at, now, hold_repair, skew>>
         /\ \E newSpurt \in BOOLEAN, averaged \in BOOLEAN, delay \in Delays \cup {playout} :
              Packeted(newSpurt, averaged, delay, Adjusts(newSpurt), Estimate(newSpurt, averaged),
                       Desired(newSpurt, averaged, delay),
                       TimeFor(Adjusts(newSpurt), Desired(newSpurt, averaged, delay)),
                       DelayOf(newSpurt, delay))
<1>1. at = "packets" /\ pktbuf # <<>> /\ UNCHANGED <<at, now, hold_repair, skew>>
  BY DEF ProcessPacket
<1>2. \E newSpurt \in BOOLEAN, averaged \in BOOLEAN, delay \in Delays \cup {playout} :
              Packeted(newSpurt, averaged, delay, Adjusts(newSpurt), Estimate(newSpurt, averaged),
                       Desired(newSpurt, averaged, delay),
                       TimeFor(Adjusts(newSpurt), Desired(newSpurt, averaged, delay)),
                       DelayOf(newSpurt, delay))
  BY Zenon DEF ProcessPacket, Packeted, Adjusts, Estimate, Desired, TimeFor, DelayOf, Taken, Reconfigures, Took,
         Resets, Shortfall, Pushed, Overlap, KeptPackets, Trouble
<1> QED BY <1>1, <1>2

\* The packet that is taken was received not long ago.
LEMMA TakenIs ==
  ASSUME IInv, at = "packets", pktbuf # <<>>
  PROVE  /\ Taken \in Packet /\ Taken.playout \in Ticks
         /\ Took \in Nat /\ Took \in Ticks /\ Since(now, Taken.playout) + Took = Past
<1>1. /\ pktbuf \in Seq(Packet) /\ now \in Ticks /\ Len(pktbuf) \in Nat /\ Len(pktbuf) # 0
      /\ Within(now, pktbuf, Past - Max(Ages) - Max(Elapsed), Past)
  BY DEF IInv, Typed, Queued
<1>2. \E i \in 1 .. Len(pktbuf) : Taken = pktbuf[i]
  <2>1. 1 \in 1 .. Len(pktbuf) /\ Len(pktbuf) \in 1 .. Len(pktbuf) /\ Head(pktbuf) = pktbuf[1]
    BY <1>1
  <2> QED BY <2>1 DEF Taken
<1>3. Taken \in Packet /\ Taken.playout \in Ticks
  <2>1. PICK i \in 1 .. Len(pktbuf) : Taken = pktbuf[i]
    BY <1>2
  <2>2. pktbuf[i] \in Packet
    BY <1>1
  <2> QED BY <2>1, <2>2 DEF Packet
<1>4. Since(now, Taken.playout) <= Past
  BY <1>1, <1>2 DEF Within
<1>5. Since(now, Taken.playout) \in Nat /\ Past \in Nat /\ Since(now, now) = Past
  <2>1. Since(now, Taken.playout) \in 0 .. Wrap - 1
    BY <1>1, <1>3, SinceTyped
  <2>2. Since(now, now) = Past
    BY <1>1, Origin
  <2> QED BY <2>1, <2>2, Windows, HalfRange
<1>6. Took = Past - Since(now, Taken.playout)
  <2>1. Since(now, Taken.playout) <= Since(now, now)
    BY <1>4, <1>5
  <2> QED BY <1>1, <1>3, <1>5, <2>1, Between DEF Took
<1>7. Took \in Nat /\ Took <= Past
  BY <1>4, <1>5, <1>6
<1>8. Took \in Ticks
  BY <1>7, <1>5, Windows, HalfRange DEF Ticks
<1> QED BY <1>3, <1>5, <1>6, <1>7, <1>8

\* When the packet should be played: not before Lead is over.
LEMMA DesiredIs ==
  ASSUME IInv, at = "packets", pktbuf # <<>>,
         NEW newSpurt \in BOOLEAN, NEW averaged \in BOOLEAN, NEW delay \in Delays \cup {playout}
  PROVE  /\ Estimate(newSpurt, averaged) \in Ticks
         /\ DelayOf(newSpurt, delay) \in 0 .. Mixed + transit_jump
         /\ ~begun => DelayOf(newSpurt, delay) <= Mixed
         /\ Desired(newSpurt, averaged, delay) \in Ticks
         /\ \E e \in Int : /\ -transit_jump <= e /\ e <= transit_jump /\ (~begun => e = 0)
                           /\ Since(now, Desired(newSpurt, averaged, delay))
                                = Past + e + DelayOf(newSpurt, delay)
<1> DEFINE estimate == Estimate(newSpurt, averaged)
           wait == DelayOf(newSpurt, delay)
<1>1. /\ Taken.playout \in Ticks /\ Took \in Nat /\ Took \in Ticks
      /\ Since(now, Taken.playout) + Took = Past
  BY TakenIs
<1>2. transit \in Ticks /\ now \in Ticks
  BY DEF IInv, Typed
<1>3. estimate \in Ticks
  BY <1>1, <1>2 DEF Estimate
<1>4. /\ Mixed \in Nat /\ transit_jump \in Nat /\ transit_jump >= 1 /\ transit_jump < half_range
      /\ Past \in Nat /\ Future \in Nat /\ Mixed + 2 * transit_jump <= Future /\ transit_jump <= Past + Future
      /\ Past + Future < half_range /\ half_range \in Nat /\ Wrap = 2 * half_range
  BY MixedIs, Params, Windows, HalfRange, Products
<1>5. wait \in 0 .. Mixed + transit_jump /\ (~begun => wait <= Mixed)
  <2>1. delay \in Nat /\ (delay \in Delays => delay <= Mixed)
    <3>1. playout \in Nat
      BY <1>4 DEF IInv, Typed
    <3>2. \A x \in Delays : x \in Nat /\ x <= Max(Delays)
      BY Sets
    <3>3. Max(Delays) <= Mixed /\ Max(Delays) \in Nat
      BY MixedIs, Sets
    <3> QED BY <3>1, <3>2, <3>3, <1>4
  <2>2. playout \in 0 .. Mixed + transit_jump /\ (~begun => playout = 0)
    BY DEF IInv, Typed, Begins
  <2>3. wait = delay \/ wait = playout
    BY DEF DelayOf
  <2>4. delay \in Delays \/ delay = playout
    OBVIOUS
  <2> HIDE DEF wait
  <2> QED BY <1>4, <2>1, <2>2, <2>3, <2>4
<1>6. PICK e \in Int : /\ -transit_jump <= e /\ e <= transit_jump /\ (~begun => e = 0)
                       /\ estimate = Took + e \/ estimate = Took + e + Wrap \/ estimate = Took + e - Wrap
  <2>1. CASE estimate = Took
    <3>1. 0 \in Int /\ Took = Took + 0 /\ -transit_jump <= 0 /\ 0 <= transit_jump
      BY <1>1, <1>4
    <3> QED BY <2>1, <3>1
  <2>2. CASE estimate # Took
    <3>1. estimate = transit /\ ~Resets
      BY <2>2 DEF Estimate
    <3>2. begun /\ ~ts_gt(ts_abs_diff(Took, transit), transit_jump)
      BY <3>1 DEF Resets
    <3>3. \E e \in Int : /\ -transit_jump <= e /\ e <= transit_jump
                         /\ transit = Took + e \/ transit = Took + e + Wrap \/ transit = Took + e - Wrap
      BY <1>1, <1>2, <1>4, <3>2, CloseBy
    <3> QED BY <3>1, <3>2, <3>3
  <2> QED BY <2>1, <2>2
<1> HIDE DEF estimate, wait
<1>7. 0 <= Past + e + wait /\ Past + e + wait <= Past + Future /\ wait \in Nat /\ wait < Wrap
  <2>1. wait \in Nat /\ wait <= Mixed + transit_jump
    BY <1>4, <1>5
  <2>2. transit_jump <= Past
    BY Distances
  <2> QED BY <1>4, <1>6, <2>1, <2>2
<1> DEFINE d == ts_add(Taken.playout, ts_add(estimate, wait))
<1>a. /\ now \in Ticks /\ Taken.playout \in Ticks /\ Took \in Nat /\ estimate \in Ticks /\ e \in Int
      /\ wait \in Nat /\ wait < Wrap /\ 0 <= Past + e + wait /\ Past + e + wait <= Past + Future
      /\ Since(now, Taken.playout) + Took = Past
  BY <1>1, <1>2, <1>3, <1>7
<1>b. estimate = Took + e \/ estimate = Took + e + Wrap \/ estimate = Took + e - Wrap
  BY <1>6
<1>8. d \in Ticks
  BY <1>a, <1>b, DesiredTime
<1>9. Since(now, d) = Past + e + wait
  BY <1>a, <1>b, DesiredTime
<1>10. d = Desired(newSpurt, averaged, delay)
  BY DEF Desired, estimate, wait
<1> HIDE DEF d
<1> QED BY <1>3, <1>5, <1>6, <1>8, <1>9, <1>10 DEF estimate, wait

\* When it will be: not before now and what was played if the packet adjusts the
\* source, and sanely.
LEMMA PlayoutIs ==
  ASSUME IInv, at = "packets", NEW adjust \in BOOLEAN, ~begun => adjust,
         NEW d \in Ticks, NEW e \in Int, -transit_jump <= e, e <= transit_jump, ~begun => e = 0,
         NEW wait \in 0 .. Mixed + transit_jump, ~begun => wait <= Mixed,
         Since(now, d) = Past + e + wait
  PROVE  /\ ~(ts_abs_diff(now, d) >= Sane)
         /\ TimeFor(adjust, d) \in Ticks
         /\ Since(now, TimeFor(adjust, d)) <= Past + Lead
         /\ ~(ts_abs_diff(now, TimeFor(adjust, d)) >= Sane)
         /\ adjust => ts_gt(Pushed(adjust, d), now) /\ Since(now, TimeFor(adjust, d)) > Past
         /\ adjust /\ begun => Since(now, TimeFor(adjust, d)) >= Due
         /\ ~begun => Since(now, TimeFor(adjust, d)) <= Past + Mixed
         /\ ts_gt(now, TimeFor(adjust, d)) <=> Past > Since(now, TimeFor(adjust, d))
         /\ ts_add(wait, ts_add(Shortfall(adjust, d), Overlap(adjust, d))) \in 0 .. Mixed + transit_jump
<1>1. /\ now \in Ticks /\ next_played \in Ticks /\ begun \in BOOLEAN
  BY DEF IInv, Typed
<1>2. /\ Mixed \in Nat /\ transit_jump \in Nat /\ Past \in Nat /\ Future \in Nat /\ Lead \in Nat
      /\ Lead = Mixed + 2 * transit_jump /\ frame_dur \in Nat /\ frame_dur <= Mixed /\ frame_dur >= 1
      /\ Past + Future < half_range /\ half_range \in Nat /\ Wrap = 2 * half_range
      /\ Lead <= Future
  BY MixedIs, Params, Windows, HalfRange, Products
<1>3. /\ wait \in Nat /\ wait <= Mixed + transit_jump
      /\ Since(now, d) \in Int /\ Past - Lead <= Since(now, d) /\ Since(now, d) <= Past + Lead
  BY <1>2
<1>4. Since(now, now) = Past
  BY <1>1, Origin
<1>5. ~(ts_abs_diff(now, d) >= Sane)
  BY <1>1, <1>3, IsSane
<1>6. Due \in Int /\ (begun => Due <= Past + Mixed) /\ Due = Since(now, next_played)
  <2>1. Due \in Int
    BY DueTyped DEF IInv
  <2> QED BY <2>1 DEF IInv, Mixes, Due
<1> DEFINE s == Shortfall(adjust, d)  u == Pushed(adjust, d)  o == Overlap(adjust, d)  t == TimeFor(adjust, d)
<1>7. /\ s \in Nat /\ u \in Ticks /\ Since(now, u) = Since(now, d) + s
      /\ Since(now, u) = IF ~adjust \/ Since(now, d) > Past THEN Since(now, d) ELSE Past + frame_dur
  <2>1. CASE adjust
    <3>1. s = PushedBack(d) /\ u = ts_add(d, PushedBack(d))
      BY <2>1 DEF Shortfall, Pushed
    <3>2. PushedBack(d) \in Nat /\ ts_add(d, PushedBack(d)) \in Ticks
      BY <1>1, <1>3, Adjusted
    <3>3. Since(now, ts_add(d, PushedBack(d))) = Since(now, d) + PushedBack(d)
      BY <1>1, <1>3, Adjusted
    <3>4. Since(now, d) + PushedBack(d) = IF Since(now, d) > Past THEN Since(now, d) ELSE Past + frame_dur
      BY <1>1, <1>3, Adjusted
    <3> HIDE DEF s, u
    <3> QED BY <2>1, <3>1, <3>2, <3>3, <3>4
  <2>2. CASE ~adjust
    <3>1. s = 0 /\ u = ts_add(d, 0)
      BY <2>2 DEF Shortfall, Pushed
    <3>2. ts_add(d, 0) = d
      BY <1>2 DEF ts_add, Ticks
    <3> HIDE DEF s, u
    <3> QED BY <1>3, <2>2, <3>1, <3>2
  <2> QED BY <2>1, <2>2
<1>8. Since(now, u) \in Int /\ Since(now, u) <= Past + Lead /\ (adjust => Since(now, u) > Past)
  <2> HIDE DEF u, s
  <2> QED BY <1>2, <1>3, <1>7
<1>9. ASSUME adjust PROVE ts_gt(u, now)
  <2> HIDE DEF u, s
  <2>1. Since(now, u) > Since(now, now) /\ Since(now, u) <= Past + Future /\ Since(now, now) <= Past + Future
    BY <1>2, <1>4, <1>8, <1>9
  <2> QED BY <1>1, <1>7, <2>1, Later
<1>10. /\ o \in Nat
       /\ Since(now, u) + o = IF adjust /\ begun /\ Due > Since(now, u) THEN Due ELSE Since(now, u)
  <2>1. begun => (ts_gt(next_played, u) <=> Due > Since(now, u))
    <3> HIDE DEF u
    <3> SUFFICES ASSUME begun PROVE ts_gt(next_played, u) <=> Due > Since(now, u)
      OBVIOUS
    <3>1. Since(now, u) <= Past + Future /\ Since(now, next_played) <= Past + Future
      BY <1>2, <1>6, <1>8
    <3>2. ts_gt(next_played, u) <=> Since(now, next_played) > Since(now, u)
      BY <1>1, <1>7, <3>1, Later
    <3> QED BY <1>6, <3>2
  <2>2. CASE adjust /\ begun /\ Due > Since(now, u)
    <3>1. o = ts_sub(next_played, u)
      BY <2>1, <2>2 DEF Overlap
    <3> HIDE DEF u, o
    <3>2. Since(now, u) <= Since(now, next_played)
      BY <1>6, <1>8, <2>2
    <3>3. o = Since(now, next_played) - Since(now, u)
      BY <1>1, <1>7, <3>1, <3>2, Between
    <3> QED BY <1>6, <1>8, <2>2, <3>3
  <2>3. CASE ~(adjust /\ begun /\ Due > Since(now, u))
    <3>1. o = 0
      BY <2>1, <2>3 DEF Overlap
    <3> HIDE DEF u, o
    <3> QED BY <1>8, <2>3, <3>1
  <2> QED BY <2>2, <2>3
<1>11. t = ts_add(u, o)
  BY DEF TimeFor
<1> HIDE DEF s, u, o, t
<1>12. Since(now, u) + o <= Past + Future /\ Since(now, u) + o <= Past + Lead
       /\ Since(now, u) + o >= Since(now, u)
  BY <1>2, <1>6, <1>8, <1>10
<1>13. t \in Ticks
  BY <1>1, <1>7, <1>10, <1>11, <1>12, Added
<1>14. Since(now, t) = Since(now, u) + o
  BY <1>1, <1>7, <1>10, <1>11, <1>12, Added
<1>15. Since(now, t) \in Int /\ Since(now, t) <= Past + Lead /\ (adjust => Since(now, t) > Past)
  BY <1>2, <1>8, <1>10, <1>12, <1>14
<1>16. ~(ts_abs_diff(now, t) >= Sane)
  <2>1. Past - Lead <= Since(now, t)
    <3>1. Since(now, d) <= Since(now, u)
      BY <1>3, <1>7
    <3>2. Since(now, u) <= Since(now, t)
      BY <1>8, <1>12, <1>14, <1>15
    <3>3. Past - Lead \in Int
      BY <1>2
    <3> QED BY <1>3, <1>8, <1>15, <3>1, <3>2, <3>3
  <2> QED BY <1>1, <1>13, <1>15, <2>1, IsSane
<1>17. adjust /\ begun => Since(now, t) >= Due
  BY <1>6, <1>8, <1>10, <1>14
<1>18. ~begun => Since(now, t) <= Past + Mixed
  BY <1>2, <1>3, <1>7, <1>10, <1>14
<1>19. ts_gt(now, t) <=> Past > Since(now, t)
  <2>1. Since(now, t) <= Past + Future /\ Since(now, now) <= Past + Future
    BY <1>2, <1>4, <1>15
  <2>2. ts_gt(now, t) <=> Since(now, now) > Since(now, t)
    BY <1>1, <1>13, <2>1, Later
  <2> QED BY <1>4, <2>2
<1>20. ts_add(wait, ts_add(s, o)) \in 0 .. Mixed + transit_jump
  <2>1. s + o = Since(now, t) - Since(now, d) /\ s + o \in Nat
    BY <1>3, <1>7, <1>10, <1>14
  <2>2. wait + (s + o) = Since(now, t) - Past - e
    BY <1>2, <1>3, <1>15, <2>1
  <2>3. Since(now, t) = Since(now, d) \/ Since(now, t) = Past + frame_dur \/ Since(now, t) <= Past + Mixed
    BY <1>6, <1>7, <1>10, <1>14
  <2>4. wait + (s + o) <= Mixed + transit_jump
    BY <1>2, <1>3, <1>15, <2>2, <2>3
  <2>5. ts_add(s, o) = s + o
    <3>1. s + o < Wrap
      BY <1>2, <1>3, <2>1, <2>4
    <3> QED BY <1>7, <1>10, <3>1, SmallSum
  <2>6. ts_add(wait, s + o) = wait + (s + o)
    <3>1. wait + (s + o) < Wrap
      BY <1>2, <1>3, <2>1, <2>4
    <3> QED BY <1>3, <2>1, <3>1, SmallSum
  <2> QED BY <1>2, <1>3, <2>1, <2>4, <2>5, <2>6
<1> QED BY <1>5, <1>9, <1>13, <1>15, <1>16, <1>17, <1>18, <1>19, <1>20 DEF s, o, t, u

\* A packet is taken and given its time.
LEMMA ProcessPacketKeeps == ASSUME IInv, ProcessPacket PROVE IInv'
<1>0. Typed /\ Begins /\ Queued /\ Mixes /\ Channelled /\ Kept /\ Pointed /\ MixedTo(media, media_pos) /\ Done
  BY DEF IInv
<1>1. at = "packets" /\ pktbuf # <<>> /\ UNCHANGED <<at, now, hold_repair, skew>>
  BY PacketStep
<1>2. PICK newSpurt \in BOOLEAN, averaged \in BOOLEAN, delay \in Delays \cup {playout} :
              Packeted(newSpurt, averaged, delay, Adjusts(newSpurt), Estimate(newSpurt, averaged),
                       Desired(newSpurt, averaged, delay),
                       TimeFor(Adjusts(newSpurt), Desired(newSpurt, averaged, delay)),
                       DelayOf(newSpurt, delay))
  BY PacketStep
<1> DEFINE adjust == Adjusts(newSpurt)
           estimate == Estimate(newSpurt, averaged)
           d == Desired(newSpurt, averaged, delay)
           wait == DelayOf(newSpurt, delay)
           t == TimeFor(adjust, d)
<1>3. Packeted(newSpurt, averaged, delay, adjust, estimate, d, t, wait)
  BY <1>2
<1>4. adjust \in BOOLEAN /\ (Reconfigures => adjust) /\ (~begun => Reconfigures) /\ begun \in BOOLEAN
  BY <1>0 DEF Adjusts, Resets, Reconfigures, Typed
<1>5. /\ estimate \in Ticks /\ d \in Ticks /\ wait \in 0 .. Mixed + transit_jump
      /\ ~begun => wait <= Mixed
  BY <1>1, DesiredIs
<1>6. PICK e \in Int : /\ -transit_jump <= e /\ e <= transit_jump /\ (~begun => e = 0)
                       /\ Since(now, d) = Past + e + wait
  BY <1>1, DesiredIs
<1> HIDE DEF adjust, estimate, d, wait
<1>7. /\ ~(ts_abs_diff(now, d) >= Sane)
      /\ t \in Ticks
      /\ Since(now, t) <= Past + Lead
      /\ ~(ts_abs_diff(now, t) >= Sane)
      /\ adjust => ts_gt(Pushed(adjust, d), now) /\ Since(now, t) > Past
      /\ adjust /\ begun => Since(now, t) >= Due
      /\ ~begun => Since(now, t) <= Past + Mixed
      /\ ts_gt(now, t) <=> Past > Since(now, t)
      /\ ts_add(wait, ts_add(Shortfall(adjust, d), Overlap(adjust, d))) \in 0 .. Mixed + transit_jump
  BY <1>1, <1>4, <1>5, <1>6, PlayoutIs
<1> HIDE DEF t
<1>8. /\ pktbuf' = IF begun THEN Tail(pktbuf) ELSE <<>>
      /\ begun' = TRUE
      /\ units_per_packet' = Taken.units
      /\ transit' = estimate
      /\ playout' = ts_add(wait, ts_add(Shortfall(adjust, d), Overlap(adjust, d)))
      /\ talkstart' = (IF adjust THEN t ELSE talkstart)
      /\ post_talkstart_units' = (IF adjust THEN 0 ELSE UpTo(post_talkstart_units + 1, RepairAfter + 1))
      /\ next_played' = (IF begun THEN next_played ELSE t)
      /\ media' = (IF Reconfigures THEN <<>> ELSE media)
      /\ media_pos' = (IF Reconfigures THEN 0 ELSE media_pos)
      /\ channel' = (IF ts_gt(now, t) THEN KeptPackets
                     ELSE pb_add(KeptPackets, [playout |-> t, units |-> Taken.units]))
      /\ age' = (IF ts_gt(now, t) THEN (IF Reconfigures THEN 0 ELSE age)
                 ELSE UpTo((IF Reconfigures THEN 0 ELSE age) + 1, Fresh))
      /\ failed' = \/ failed
                   \/ ts_abs_diff(now, d) >= Sane
                   \/ ts_abs_diff(now, t) >= Sane
                   \/ (adjust /\ ~ts_gt(Pushed(adjust, d), now))
      /\ (troubles < MaxTroubles /\ troubles' = troubles + 1) \/ UNCHANGED troubles
  BY <1>3 DEF Packeted, Trouble
<1>9. /\ now \in Ticks /\ now' = now /\ skew' = skew /\ pktbuf \in Seq(Packet) /\ channel \in Seq(Packet)
      /\ media \in Seq(Unit) /\ next_played \in Ticks /\ next_played' \in Ticks
      /\ Taken \in Packet /\ Taken.units \in 1 .. MaxUnits
  <2>1. Taken \in Packet
    BY <1>1, TakenIs
  <2>2. Taken.units \in 1 .. MaxUnits
    BY <2>1 DEF Packet
  <2> QED BY <1>0, <1>1, <1>7, <1>8, <2>1, <2>2 DEF Typed
<1>10. failed' = FALSE
  BY <1>0, <1>7, <1>8 DEF Typed
<1>11. Queued' /\ pktbuf' \in Seq(Packet) /\ Len(pktbuf') <= max_packets
  <2>1. /\ Within(now, pktbuf, Past - Max(Ages) - Max(Elapsed), Past) /\ SortedAt(now, pktbuf)
        /\ Len(pktbuf) <= max_packets
    BY <1>0, <1>1 DEF Queued, Typed
  <2>2. /\ Tail(pktbuf) \in Seq(Packet) /\ Len(Tail(pktbuf)) = Len(pktbuf) - 1
        /\ Within(now, Tail(pktbuf), Past - Max(Ages) - Max(Elapsed), Past)
        /\ SortedAt(now, Tail(pktbuf))
    BY <1>1, <1>9, <2>1, TailKeeps
  <2>3. /\ pktbuf' \in Seq(Packet) /\ Len(pktbuf') <= max_packets
        /\ Within(now, pktbuf', Past - Max(Ages) - Max(Elapsed), Past) /\ SortedAt(now, pktbuf')
    <3>1. CASE begun
      <4>1. Len(pktbuf) - 1 <= max_packets
        BY <1>9, <2>1, Params
      <4> QED BY <1>8, <2>2, <3>1, <4>1
    <3>2. CASE ~begun
      <4>1. <<>> \in Seq(Packet) /\ Len(<<>>) <= max_packets
        BY Params
      <4> QED BY <1>8, <3>2, <4>1, NoneKept
    <3> QED BY <3>1, <3>2
  <2> QED BY <1>1, <2>3 DEF Queued
<1>12. ASSUME ts_gt(now, t) PROVE begun /\ ~Reconfigures /\ ~adjust
  <2>1. Since(now, t) \in Int /\ Past \in Int
    BY <1>7, <1>9, SinceTyped, HalfRange, Windows
  <2> QED BY <1>4, <1>7, <1>12, <2>1
<1>13. Begins'
  <2>1. age' # 0
    <3>1. CASE ts_gt(now, t)
      BY <1>0, <1>8, <1>12, <3>1 DEF Begins
    <3>2. CASE ~ts_gt(now, t)
      <4> DEFINE a == (IF Reconfigures THEN 0 ELSE age) + 1
      <4>1. a \in Nat /\ a >= 1
        BY <1>0, Params DEF Typed
      <4>2. age' = UpTo(a, Fresh)
        BY <1>8, <3>2
      <4> HIDE DEF a
      <4>3. UpTo(a, Fresh) >= 1
        BY <4>1, Capped, Params
      <4> QED BY <4>2, <4>3
    <3> QED BY <3>1, <3>2
  <2> QED BY <1>8, <2>1 DEF Begins
<1>14. KeptPackets \in Seq(Packet) /\ SortedAt(now, KeptPackets)
       /\ Within(now, KeptPackets, Due - Reach, ChannelEnd)
       /\ (~begun => KeptPackets = <<>>)
  <2>1. <<>> \in Seq(Packet)
    OBVIOUS
  <2> QED BY <1>0, <1>4, <1>9, <2>1, NoneKept DEF KeptPackets, Channelled
<1>15. age' \in 0 .. Fresh
  <2>1. age \in Nat /\ age <= Fresh /\ Fresh \in Nat
    BY <1>0, Params DEF Typed
  <2>2. CASE ts_gt(now, t)
    BY <1>8, <2>1, <2>2
  <2>3. CASE ~ts_gt(now, t)
    <3> DEFINE a == (IF Reconfigures THEN 0 ELSE age) + 1
    <3>1. a \in Nat
      BY <2>1
    <3>2. age' = UpTo(a, Fresh)
      BY <1>8, <2>3
    <3> HIDE DEF a
    <3> QED BY <2>1, <3>1, <3>2, Capped
  <2> QED BY <2>2, <2>3
<1>16. post_talkstart_units' \in 0 .. RepairAfter + 1
  <2>1. post_talkstart_units + 1 \in Nat /\ RepairAfter + 1 \in Nat
    BY <1>0, Params DEF Typed
  <2>2. UpTo(post_talkstart_units + 1, RepairAfter + 1) \in 0 .. RepairAfter + 1
    BY <2>1, Capped
  <2>3. 0 \in 0 .. RepairAfter + 1
    BY <2>1
  <2> QED BY <1>8, <2>2, <2>3
<1>17. troubles' \in 0 .. MaxTroubles /\ (skew' # "NONE" => troubles' # 0)
       /\ (UNCHANGED <<skew, troubles>> \/ troubles' = troubles + 1)
  <2>1. /\ troubles \in 0 .. MaxTroubles /\ MaxTroubles \in Nat
        /\ skew # "NONE" => troubles # 0
    BY <1>0, Params DEF Typed
  <2>2. troubles' = troubles \/ (troubles < MaxTroubles /\ troubles' = troubles + 1)
    BY <1>8
  <2>3. skew' = skew
    BY <1>9
  <2> QED BY <2>1, <2>2, <2>3
\* The channel with the packet.
<1> DEFINE packet == [playout |-> t, units |-> Taken.units]
<1>18. packet \in Packet /\ packet.playout = t
  BY <1>7, <1>9 DEF Packet
<1>19. begun => Due' = Due
  BY <1>8, <1>9 DEF Due
<1>20. ~begun => Due' = Since(now, t)
  BY <1>8, <1>9 DEF Due
<1>21. /\ Since(now, t) \in Int /\ Due \in Int /\ Reach \in Nat /\ Past \in Int /\ Mixed \in Nat
       /\ ChannelEnd \in Int /\ ChannelEnd <= Past + Future /\ Past + Lead <= ChannelEnd
       /\ Due' - Reach \in Int /\ Due' \in Int
  <2>1. Since(now, t) \in Int
    BY <1>7, <1>9, SinceTyped, HalfRange
  <2>2. Due \in Int
    BY <1>0, DueTyped
  <2>3. Due' \in Int
    BY <1>4, <1>19, <1>20, <2>1, <2>2
  <2>4. ChannelEnd \in Int /\ ChannelEnd = Past + Lead + Drift /\ Drift \in Nat
    BY <1>0, EndsTyped
  <2>5. ChannelEnd <= Past + Future
    BY <1>0, EndsTyped
  <2>6. Past \in Int /\ Lead \in Int /\ Reach \in Nat /\ Mixed \in Nat
    BY Windows, Numbers, MixedIs
  <2>7. Past + Lead <= ChannelEnd
    BY <2>4, <2>6
  <2> QED BY <2>1, <2>2, <2>3, <2>4, <2>5, <2>6, <2>7
<1>22. ~ts_gt(now, t) => Due' - Reach <= Since(now, t)
  <2> SUFFICES ASSUME ~ts_gt(now, t) PROVE Due' - Reach <= Since(now, t)
    OBVIOUS
  <2>1. ~(Past > Since(now, t))
    BY <1>7
  <2>2. CASE begun
    <3>1. Due <= Past + Mixed /\ Mixed <= Reach
      BY <1>0, <1>1, <2>2, Numbers, Params, MixedIs DEF Mixes
    <3> QED BY <1>19, <1>21, <2>1, <2>2, <3>1
  <2>3. CASE ~begun
    BY <1>20, <1>21, <2>3
  <2> QED BY <2>2, <2>3
<1> HIDE DEF packet
<1>23. /\ channel' \in Seq(Packet) /\ SortedAt(now, channel')
       /\ Within(now, channel', Due' - Reach, ChannelEnd)
  <2>1. Within(now, KeptPackets, Due' - Reach, ChannelEnd)
    <3>1. CASE begun
      BY <1>14, <1>19, <3>1
    <3>2. CASE ~begun
      BY <1>14, <3>2, NoneKept
    <3> QED BY <3>1, <3>2
  <2>2. CASE ts_gt(now, t)
    BY <1>8, <1>14, <2>1, <2>2
  <2>3. CASE ~ts_gt(now, t)
    <3>1. channel' = pb_add(KeptPackets, packet)
      BY <1>8, <2>3 DEF packet
    <3>2. /\ packet.playout \in Ticks /\ Due' - Reach <= Since(now, packet.playout)
          /\ Since(now, packet.playout) <= ChannelEnd
      <4>1. Past + Lead \in Int
        BY Windows
      <4>2. Since(now, t) <= ChannelEnd
        BY <1>7, <1>21, <4>1
      <4> QED BY <1>7, <1>18, <1>22, <2>3, <4>2
    <3>3. pb_add(KeptPackets, packet) \in Seq(Packet)
      BY <1>9, <1>14, <1>18, <1>21, <2>1, <3>2, AddKeeps
    <3>4. Within(now, pb_add(KeptPackets, packet), Due' - Reach, ChannelEnd)
      BY <1>9, <1>14, <1>18, <1>21, <2>1, <3>2, AddKeeps
    <3>5. SortedAt(now, pb_add(KeptPackets, packet))
      BY <1>9, <1>14, <1>18, <1>21, <2>1, <3>2, AddKeeps
    <3> QED BY <3>1, <3>3, <3>4, <3>5
  <2> QED BY <2>2, <2>3
<1>24. media' \in Seq(Unit) /\ media_pos' \in 0 .. Len(media')
  <2>1. <<>> \in Seq(Unit) /\ 0 \in 0 .. Len(<<>>)
    OBVIOUS
  <2> QED BY <1>0, <1>8, <1>9, <2>1 DEF Typed
<1>25. Typed'
  <2>1. playout' \in 0 .. Mixed + transit_jump /\ transit' \in Ticks
    BY <1>5, <1>7, <1>8
  <2>2. talkstart' \in Ticks
    BY <1>0, <1>7, <1>8 DEF Typed
  <2>3. units_per_packet' \in 0 .. MaxUnits
    BY <1>8, <1>9, Params
  <2>4. skew' \in {"NONE", "FAST", "SLOW"} /\ hold_repair' = 0
    BY <1>0, <1>1 DEF Typed
  <2>5. begun' \in BOOLEAN /\ at' = "packets" /\ now' \in Ticks
    BY <1>1, <1>8, <1>9
  <2> QED BY <1>9, <1>10, <1>11, <1>15, <1>16, <1>17, <1>23, <1>24, <2>1, <2>2, <2>3, <2>4, <2>5 DEF Typed
<1>26. ChannelEnd <= ChannelEnd' /\ MediaEnd <= MediaEnd' /\ ChannelEnd' \in Int /\ MediaEnd' \in Int
       /\ MediaEnd \in Int
  <2>1. ChannelEnd <= ChannelEnd' /\ MediaEnd <= MediaEnd'
    BY <1>0, <1>17, <1>25, DriftGrows
  <2>2. (Typed => ChannelEnd \in Int /\ MediaEnd \in Int)'
    BY EndsTyped, PTL
  <2>3. MediaEnd \in Int
    BY <1>0, EndsTyped
  <2> QED BY <1>25, <2>1, <2>2, <2>3
<1>27. Channelled'
  <2>1. Due' - Reach <= Due' - Reach
    <3>1. \A x \in Int : x <= x
      OBVIOUS
    <3> QED BY <3>1, <1>21
  <2>2. Within(now, channel', Due' - Reach, ChannelEnd')
    BY <1>9, <1>21, <1>23, <1>26, <2>1, Wider
  <2> QED BY <1>1, <1>9, <1>23, <2>2 DEF Channelled
<1>28. Mixes'
  <2>1. CASE begun
    BY <1>0, <1>1, <1>9, <1>19, <2>1 DEF Mixes
  <2>2. CASE ~begun
    <3>1. Since(now, t) > Past /\ Since(now, t) <= Past + Mixed
      BY <1>4, <1>7, <2>2
    <3>2. Stall \in Nat /\ frame_dur \in Nat /\ frame_dur <= Reach
      BY Params, Numbers, MixedIs
    <3>3. /\ Due' <= Past + Mixed + 1 /\ Past - Stall - Reach <= Due' /\ Past - Stall - Reach <= Due' - frame_dur
          /\ Past - Stall <= Due' /\ Due' <= Past + Mixed
      BY <1>20, <1>21, <2>2, <3>1, <3>2
    <3> QED BY <1>1, <3>3 DEF Mixes
  <2> QED BY <2>1, <2>2
<1>29. CASE Reconfigures
  <2>1. media' = <<>> /\ media_pos' = 0
    BY <1>8, <1>29
  <2>2. Kept'
    BY <2>1, NoneKept DEF Kept
  <2>3. Pointed' /\ MixedTo(media, media_pos)'
    BY <2>1, NoneKept DEF Pointed
  <2>4. Done'
    BY <1>1 DEF Done
  <2> QED BY <1>11, <1>13, <1>25, <1>27, <1>28, <2>2, <2>3, <2>4 DEF IInv
<1>30. CASE ~Reconfigures
  <2>1. begun /\ Due' = Due /\ UNCHANGED <<media, media_pos>>
    BY <1>4, <1>8, <1>19, <1>30
  <2>2. Kept'
    <3>1. Within(now, media, Due - Hist, MediaEnd) /\ SortedAt(now, media)
      BY <1>0, <1>1 DEF Kept
    <3>2. Due - Hist \in Int /\ Due - Hist <= Due - Hist /\ Due - Reach \in Int /\ Due - Reach <= Due - Reach
      BY <1>21, Numbers
    <3>3. Within(now, media, Due - Hist, MediaEnd')
      BY <1>9, <1>26, <3>1, <3>2, Wider
    <3>4. ASSUME media_pos = 0 PROVE Within(now, media, Due - Reach, MediaEnd')
      <4>1. Within(now, media, Due - Reach, MediaEnd)
        BY <1>0, <3>4 DEF Kept
      <4> QED BY <1>9, <1>26, <3>2, <4>1, Wider
    <3> QED BY <1>1, <1>9, <2>1, <3>1, <3>3, <3>4 DEF Kept
  <2>3. Pointed' /\ MixedTo(media, media_pos)' /\ Done'
    BY <1>0, <1>1, <1>9, <2>1 DEF Pointed, Done
  <2> QED BY <1>11, <1>13, <1>25, <1>27, <1>28, <2>2, <2>3 DEF IInv
<1> QED BY <1>29, <1>30

-----------------------------------------------------------------------------
(***************************************************************************)
(* Shifts of a buffer, and the mark of a mixed unit.                       *)
(***************************************************************************)

\* Nodes that can be given another time.
Timed(S) == \A x \in S, t \in Ticks : [x EXCEPT !.playout = t] \in S /\ [x EXCEPT !.playout = t].playout = t

\* Packets and units can.
LEMMA BothTimed == Timed(Packet) /\ Timed(Unit)
                   /\ \A x \in Unit, t \in Ticks : [x EXCEPT !.playout = t].is = x.is
  BY DEF Timed, Packet, Unit

\* A function on 1 .. k is a sequence.
LEMMA SeqOf == ASSUME NEW S, NEW k \in Nat, NEW f, f = [i \in 1 .. k |-> f[i]], \A i \in 1 .. k : f[i] \in S
               PROVE  f \in Seq(S) /\ Len(f) = k
  BY SMT

\* A buffer brought forward keeps its order.
LEMMA ShiftedForward ==
  ASSUME NEW n \in Ticks, NEW S, Timed(S), NEW b \in Seq(S), NEW a \in Nat,
         NEW lo \in Int, NEW hi \in Int, a <= lo, Within(n, b, lo, hi), SortedAt(n, b)
  PROVE  /\ pb_shift_forward(b, a) \in Seq(S) /\ Len(pb_shift_forward(b, a)) = Len(b)
         /\ \A i \in 1 .. Len(b) :
              /\ pb_shift_forward(b, a)[i] = [b[i] EXCEPT !.playout = ts_sub(@, a)]
              /\ Since(n, pb_shift_forward(b, a)[i].playout) = Since(n, b[i].playout) - a
         /\ Within(n, pb_shift_forward(b, a), lo - a, hi - a)
         /\ SortedAt(n, pb_shift_forward(b, a))
<1> DEFINE c == pb_shift_forward(b, a)
<1>1. Len(b) \in Nat /\ DOMAIN b = 1 .. Len(b)
  OBVIOUS
<1>2. c = [i \in 1 .. Len(b) |-> [b[i] EXCEPT !.playout = ts_sub(@, a)]]
  BY <1>1 DEF pb_shift_forward
<1>3. \A i \in 1 .. Len(b) : c[i] = [b[i] EXCEPT !.playout = ts_sub(b[i].playout, a)]
  BY <1>2
<1>4. c = [i \in 1 .. Len(b) |-> c[i]]
  BY <1>2
<1> HIDE DEF c
<1>5. ASSUME NEW i \in 1 .. Len(b)
      PROVE  /\ c[i] \in S /\ c[i].playout \in Ticks
             /\ Since(n, c[i].playout) = Since(n, b[i].playout) - a
             /\ Since(n, b[i].playout) \in Int
             /\ lo <= Since(n, b[i].playout) /\ Since(n, b[i].playout) <= hi
  <2>1. /\ b[i] \in S /\ b[i].playout \in Ticks
        /\ lo <= Since(n, b[i].playout) /\ Since(n, b[i].playout) <= hi
    BY DEF Within
  <2>2. Since(n, b[i].playout) \in Int
    BY <2>1, SinceTyped, HalfRange
  <2>3. a <= Since(n, b[i].playout)
    BY <2>1, <2>2
  <2>4. ts_sub(b[i].playout, a) \in Ticks
    BY <2>1, <2>3, Subtracted
  <2>5. Since(n, ts_sub(b[i].playout, a)) = Since(n, b[i].playout) - a
    BY <2>1, <2>3, Subtracted
  <2>6. c[i] = [b[i] EXCEPT !.playout = ts_sub(b[i].playout, a)]
    BY <1>3
  <2>7. c[i] \in S /\ c[i].playout = ts_sub(b[i].playout, a)
    BY <2>1, <2>4, <2>6 DEF Timed
  <2> QED BY <2>1, <2>2, <2>4, <2>5, <2>7
<1>6. c \in Seq(S) /\ Len(c) = Len(b)
  BY <1>1, <1>4, <1>5, SeqOf
<1>7. Within(n, c, lo - a, hi - a)
  BY <1>5, <1>6 DEF Within
<1>8. SortedAt(n, c)
  <2> SUFFICES ASSUME NEW i \in 1 .. Len(b), NEW j \in 1 .. Len(b), i < j
               PROVE Since(n, c[i].playout) < Since(n, c[j].playout)
    BY <1>6 DEF SortedAt
  <2>1. Since(n, b[i].playout) < Since(n, b[j].playout)
    BY DEF SortedAt
  <2>2. Since(n, c[i].playout) = Since(n, b[i].playout) - a /\ Since(n, b[i].playout) \in Int
    BY <1>5
  <2>3. Since(n, c[j].playout) = Since(n, b[j].playout) - a /\ Since(n, b[j].playout) \in Int
    BY <1>5
  <2> QED BY <2>1, <2>2, <2>3
<1> QED BY <1>3, <1>5, <1>6, <1>7, <1>8 DEF c

\* A buffer of which what is later than ref is pushed back keeps its order.
LEMMA ShiftedBack ==
  ASSUME NEW n \in Ticks, NEW S, Timed(S), NEW b \in Seq(S), NEW a \in Nat,
         NEW lo \in Int, NEW hi \in Int, hi + a <= Past + Future,
         Within(n, b, lo, hi), SortedAt(n, b),
         NEW ref \in Ticks, Since(n, ref) <= Past + Future
  PROVE  /\ pb_shift_units_back_after(b, ref, a) \in Seq(S)
         /\ Len(pb_shift_units_back_after(b, ref, a)) = Len(b)
         /\ \A i \in 1 .. Len(b) :
              IF Since(n, b[i].playout) > Since(n, ref)
                THEN /\ pb_shift_units_back_after(b, ref, a)[i]
                          = [b[i] EXCEPT !.playout = ts_add(b[i].playout, a)]
                     /\ ts_add(b[i].playout, a) \in Ticks
                     /\ Since(n, pb_shift_units_back_after(b, ref, a)[i].playout) = Since(n, b[i].playout) + a
                ELSE pb_shift_units_back_after(b, ref, a)[i] = b[i]
         /\ Within(n, pb_shift_units_back_after(b, ref, a), lo, hi + a)
         /\ SortedAt(n, pb_shift_units_back_after(b, ref, a))
<1> DEFINE c == pb_shift_units_back_after(b, ref, a)
<1>1. Len(b) \in Nat /\ DOMAIN b = 1 .. Len(b) /\ Past + Future \in Int
  BY Windows
<1>2. c = [i \in 1 .. Len(b) |-> IF \A j \in i .. Len(b) : ts_gt(b[j].playout, ref)
                                   THEN [b[i] EXCEPT !.playout = ts_add(b[i].playout, a)] ELSE b[i]]
  BY <1>1 DEF pb_shift_units_back_after
<1>3. c = [i \in 1 .. Len(b) |-> c[i]]
  BY <1>2
<1>4. \A i \in 1 .. Len(b) : c[i] = IF \A j \in i .. Len(b) : ts_gt(b[j].playout, ref)
                                      THEN [b[i] EXCEPT !.playout = ts_add(b[i].playout, a)] ELSE b[i]
  BY <1>2
<1> HIDE DEF c
<1>5. \A i \in 1 .. Len(b) :
        /\ b[i] \in S /\ b[i].playout \in Ticks /\ Since(n, b[i].playout) \in Int
        /\ lo <= Since(n, b[i].playout) /\ Since(n, b[i].playout) <= hi
        /\ Since(n, b[i].playout) <= Past + Future
        /\ Since(n, b[i].playout) + a <= Past + Future
  <2> SUFFICES ASSUME NEW i \in 1 .. Len(b)
               PROVE  /\ b[i] \in S /\ b[i].playout \in Ticks /\ Since(n, b[i].playout) \in Int
                      /\ lo <= Since(n, b[i].playout) /\ Since(n, b[i].playout) <= hi
                      /\ Since(n, b[i].playout) <= Past + Future
                      /\ Since(n, b[i].playout) + a <= Past + Future
    OBVIOUS
  <2>1. /\ b[i] \in S /\ b[i].playout \in Ticks
        /\ lo <= Since(n, b[i].playout) /\ Since(n, b[i].playout) <= hi
    BY DEF Within
  <2>2. Since(n, b[i].playout) \in Int
    BY <2>1, SinceTyped, HalfRange
  <2> QED BY <1>1, <2>1, <2>2
<1>6. Since(n, ref) \in Int
  BY SinceTyped, HalfRange
<1>7. \A i \in 1 .. Len(b) : ts_gt(b[i].playout, ref) <=> Since(n, b[i].playout) > Since(n, ref)
  BY <1>5, Later
<1>8. ASSUME NEW i \in 1 .. Len(b)
      PROVE (\A j \in i .. Len(b) : ts_gt(b[j].playout, ref)) <=> Since(n, b[i].playout) > Since(n, ref)
  <2>1. (\A j \in i .. Len(b) : ts_gt(b[j].playout, ref)) => Since(n, b[i].playout) > Since(n, ref)
    <3>1. i \in i .. Len(b)
      BY <1>1
    <3> QED BY <3>1, <1>7
  <2>2. ASSUME Since(n, b[i].playout) > Since(n, ref), NEW j \in i .. Len(b) PROVE ts_gt(b[j].playout, ref)
    <3>1. j \in 1 .. Len(b) /\ (j = i \/ i < j)
      BY <1>1
    <3>2. i < j => Since(n, b[i].playout) < Since(n, b[j].playout)
      BY <3>1 DEF SortedAt
    <3>3. Since(n, b[j].playout) > Since(n, ref)
      BY <1>5, <1>6, <2>2, <3>1, <3>2
    <3> QED BY <1>7, <3>1, <3>3
  <2> QED BY <2>1, <2>2
<1>9. \A i \in 1 .. Len(b) : c[i] = IF Since(n, b[i].playout) > Since(n, ref)
                                      THEN [b[i] EXCEPT !.playout = ts_add(b[i].playout, a)] ELSE b[i]
  BY <1>4, <1>8
<1>10. ASSUME NEW i \in 1 .. Len(b), Since(n, b[i].playout) > Since(n, ref)
       PROVE  /\ c[i] = [b[i] EXCEPT !.playout = ts_add(b[i].playout, a)]
              /\ ts_add(b[i].playout, a) \in Ticks /\ c[i] \in S /\ c[i].playout \in Ticks
              /\ Since(n, c[i].playout) = Since(n, b[i].playout) + a
  <2>1. b[i].playout \in Ticks /\ Since(n, b[i].playout) + a <= Past + Future
    BY <1>5
  <2>2. ts_add(b[i].playout, a) \in Ticks
    BY <2>1, Added
  <2>3. Since(n, ts_add(b[i].playout, a)) = Since(n, b[i].playout) + a
    BY <2>1, Added
  <2>4. c[i] = [b[i] EXCEPT !.playout = ts_add(b[i].playout, a)]
    BY <1>9, <1>10
  <2>5. c[i] \in S /\ c[i].playout = ts_add(b[i].playout, a)
    BY <1>5, <2>2, <2>4 DEF Timed
  <2> QED BY <2>2, <2>3, <2>4, <2>5
<1>11. ASSUME NEW i \in 1 .. Len(b), ~(Since(n, b[i].playout) > Since(n, ref)) PROVE c[i] = b[i]
  BY <1>9, <1>11
<1>12. \A i \in 1 .. Len(b) : c[i] \in S /\ c[i].playout \in Ticks /\ Since(n, c[i].playout) \in Int
         /\ lo <= Since(n, c[i].playout) /\ Since(n, c[i].playout) <= hi + a
  <2> SUFFICES ASSUME NEW i \in 1 .. Len(b)
               PROVE c[i] \in S /\ c[i].playout \in Ticks /\ Since(n, c[i].playout) \in Int
                     /\ lo <= Since(n, c[i].playout) /\ Since(n, c[i].playout) <= hi + a
    OBVIOUS
  <2>0. /\ b[i] \in S /\ b[i].playout \in Ticks /\ Since(n, b[i].playout) \in Int
        /\ lo <= Since(n, b[i].playout) /\ Since(n, b[i].playout) <= hi
    BY <1>5
  <2>1. CASE Since(n, b[i].playout) > Since(n, ref)
    <3>1. c[i] \in S /\ c[i].playout \in Ticks /\ Since(n, c[i].playout) = Since(n, b[i].playout) + a
      BY <1>10, <2>1
    <3> QED BY <2>0, <3>1
  <2>2. CASE ~(Since(n, b[i].playout) > Since(n, ref))
    <3>1. c[i] = b[i]
      BY <1>11, <2>2
    <3> QED BY <2>0, <3>1
  <2> QED BY <2>1, <2>2
<1>13. c \in Seq(S) /\ Len(c) = Len(b)
  BY <1>1, <1>3, <1>12, SeqOf
<1>14. Within(n, c, lo, hi + a)
  BY <1>12, <1>13 DEF Within
<1>15. SortedAt(n, c)
  <2> SUFFICES ASSUME NEW i \in 1 .. Len(b), NEW j \in 1 .. Len(b), i < j
               PROVE Since(n, c[i].playout) < Since(n, c[j].playout)
    BY <1>13 DEF SortedAt
  <2>1. Since(n, b[i].playout) < Since(n, b[j].playout)
    BY DEF SortedAt
  <2>2. Since(n, b[i].playout) \in Int /\ Since(n, b[j].playout) \in Int
    BY <1>5
  <2>3. CASE Since(n, b[i].playout) > Since(n, ref)
    <3>1. Since(n, b[j].playout) > Since(n, ref)
      BY <1>6, <2>1, <2>2, <2>3
    <3>2. Since(n, c[i].playout) = Since(n, b[i].playout) + a
      BY <1>10, <2>3
    <3>3. Since(n, c[j].playout) = Since(n, b[j].playout) + a
      BY <1>10, <3>1
    <3> QED BY <2>1, <2>2, <3>2, <3>3
  <2>4. CASE ~(Since(n, b[i].playout) > Since(n, ref))
    <3>1. c[i] = b[i]
      BY <1>11, <2>4
    <3>2. Since(n, b[j].playout) <= Since(n, c[j].playout)
      <4>1. CASE Since(n, b[j].playout) > Since(n, ref)
        <5>1. Since(n, c[j].playout) = Since(n, b[j].playout) + a
          BY <1>10, <4>1
        <5> QED BY <2>2, <5>1
      <4>2. CASE ~(Since(n, b[j].playout) > Since(n, ref))
        <5>1. c[j] = b[j]
          BY <1>11, <4>2
        <5> QED BY <2>2, <5>1
      <4> QED BY <4>1, <4>2
    <3>3. Since(n, c[j].playout) \in Int
      BY <1>12
    <3> QED BY <2>1, <2>2, <3>1, <3>2, <3>3
  <2> QED BY <2>3, <2>4
<1>16. \A i \in 1 .. Len(b) :
              IF Since(n, b[i].playout) > Since(n, ref)
                THEN /\ c[i] = [b[i] EXCEPT !.playout = ts_add(b[i].playout, a)]
                     /\ ts_add(b[i].playout, a) \in Ticks
                     /\ Since(n, c[i].playout) = Since(n, b[i].playout) + a
                ELSE c[i] = b[i]
  BY <1>10, <1>11
<1> QED BY <1>13, <1>14, <1>15, <1>16 DEF c

\* The mark changes no time, and moves what was mixed one unit on.
LEMMA MarkedKeeps ==
  ASSUME NEW n \in Ticks, NEW b \in Seq(Unit), NEW u \in 1 .. Len(b), NEW lo, NEW hi,
         Within(n, b, lo, hi), SortedAt(n, b), MixedTo(b, u - 1)
  PROVE  /\ Marked(b, u) \in Seq(Unit) /\ Len(Marked(b, u)) = Len(b)
         /\ \A i \in 1 .. Len(b) : Marked(b, u)[i].playout = b[i].playout
         /\ Within(n, Marked(b, u), lo, hi) /\ SortedAt(n, Marked(b, u)) /\ MixedTo(Marked(b, u), u)
<1> DEFINE c == Marked(b, u)
<1>1. Len(b) \in Nat /\ DOMAIN b = 1 .. Len(b) /\ u \in Nat
  OBVIOUS
<1>2. c = [i \in 1 .. Len(b) |->
             IF i = u THEN [b[i] EXCEPT !.is = IF b[i].is = "waiting" THEN "mixed" ELSE "again"]
             ELSE b[i]]
  BY <1>1 DEF Marked
<1>3. c = [i \in 1 .. Len(b) |-> c[i]]
  BY <1>1, <1>2
<1>4. \A i \in 1 .. Len(b) : b[i] \in Unit
  BY <1>1
<1>5. b[u].is = "waiting"
  <2>1. ~(u <= u - 1)
    BY <1>1
  <2> QED BY <2>1 DEF MixedTo
<1>6. ASSUME NEW i \in 1 .. Len(b), i # u PROVE c[i] = b[i]
  BY <1>1, <1>2, <1>6
<1>7. c[u] = [b[u] EXCEPT !.is = "mixed"]
  BY <1>1, <1>2, <1>5
<1> HIDE DEF c
<1>8. c[u] \in Unit /\ c[u].playout = b[u].playout /\ c[u].is = "mixed"
  BY <1>4, <1>7 DEF Unit
<1>9. \A i \in 1 .. Len(b) : c[i] \in Unit /\ c[i].playout = b[i].playout
  BY <1>4, <1>6, <1>8
<1>10. c \in Seq(Unit) /\ Len(c) = Len(b)
  BY <1>1, <1>3, <1>9, SeqOf
<1>11. Within(n, c, lo, hi) /\ SortedAt(n, c)
  <2>1. Len(c) = Len(b) /\ \A i \in 1 .. Len(b) : c[i].playout = b[i].playout
    BY <1>9, <1>10
  <2>2. Within(n, c, lo, hi)
    BY <2>1 DEF Within
  <2>3. SortedAt(n, c)
    BY <2>1 DEF SortedAt
  <2> QED BY <2>2, <2>3
<1>12. MixedTo(c, u)
  <2> SUFFICES ASSUME NEW i \in 1 .. Len(b)
               PROVE c[i].is \in IF i <= u THEN {"mixed", "late"} ELSE {"waiting"}
    BY <1>10 DEF MixedTo
  <2>1. CASE i = u
    BY <1>1, <1>8, <2>1
  <2>2. CASE i # u
    <3>1. i <= u <=> i <= u - 1
      BY <1>1, <2>2
    <3>2. c[i] = b[i]
      BY <1>6, <2>2
    <3> QED BY <3>1, <3>2 DEF MixedTo
  <2> QED BY <2>1, <2>2
<1> QED BY <1>9, <1>10, <1>11, <1>12 DEF c

-----------------------------------------------------------------------------
(***************************************************************************)
(* One turn of the loop that mixes.                                        *)
(***************************************************************************)

\* What is due ends within the window.
LEMMA CushionFits ==
  /\ Past + cushion + frame_dur <= Past + Future /\ Past + cushion <= Past + Future
  /\ Past + Mixed + 1 <= Past + Future /\ Past \in Nat /\ cushion \in Nat /\ frame_dur \in Nat
  /\ Past + Future \in Nat
<1>1. /\ Past \in Nat /\ cushion \in Nat /\ frame_dur \in Nat /\ Mixed \in Nat
      /\ frame_dur >= 1 /\ cushion + frame_dur - 1 <= Mixed /\ transit_jump \in Nat /\ transit_jump >= 1
  BY Windows, Params, MixedIs
<1>2. MaxUnits * frame_dur \in Nat /\ MaxTroubles * frame_dur \in Nat
  BY Products
<1>3. frame_dur <= MaxUnits * frame_dur
  <2>1. 1 * frame_dur <= MaxUnits * frame_dur
    BY Params, LessTimes
  <2>2. 1 * frame_dur = frame_dur
    BY <1>1
  <2> QED BY <2>1, <2>2
<1>4. Future = Lead + cushion + MaxUnits * frame_dur + MaxTroubles * frame_dur /\ Lead = Mixed + 2 * transit_jump
  BY Windows, Products, <1>1, <1>2
<1> DEFINE a == MaxUnits * frame_dur  b == MaxTroubles * frame_dur
<1> HIDE DEF a, b
<1>5. a \in Nat /\ b \in Nat /\ frame_dur <= a /\ Future = Lead + cushion + a + b
  BY <1>2, <1>3, <1>4 DEF a, b
<1> QED BY <1>1, <1>4, <1>5

\* How far back the units go while they are mixed.
PlayLow == IF skew = "NONE" THEN Past - Stall - Hist - frame_dur ELSE Past - Stall - Hist

\* A unit is mixed, and all stays as it should.
LEMMA MixKeeps ==
  ASSUME IInv, at = "play", at' = "play", hold_repair' = 0, failed' = FALSE, transit' \in Ticks,
         UNCHANGED <<now, pktbuf, begun, age, units_per_packet, playout, talkstart,
                     post_talkstart_units>>,
         skew' \in {skew, "NONE"},
         NEW c \in Seq(Unit), NEW u \in 1 .. Len(c), NEW packets \in Seq(Packet),
         Mix(c, u, u, packets),
         UNCHANGED troubles => Within(now, c, PlayLow', MediaEnd'),
         SortedAt(now, c), MixedTo(c, u - 1),
         UNCHANGED troubles => Within(now, packets, Past + cushion - frame_dur + 2, ChannelEnd'),
         UNCHANGED troubles /\ skew' # "NONE" => Within(now, packets, Past + cushion + 1, ChannelEnd'),
         SortedAt(now, packets),
         c[u].playout \in Ticks, Since(now, c[u].playout) <= Past + cushion,
         Past - Stall - Reach <= (IF skew' = "NONE" THEN Since(now, c[u].playout) + frame_dur
                                  ELSE Since(now, c[u].playout))
  PROVE  IInv'
<1>0. Typed /\ Begins /\ Queued /\ Mixes /\ Channelled /\ Kept /\ Pointed /\ MixedTo(media, media_pos) /\ Done
  BY DEF IInv
<1>1. /\ now \in Ticks /\ now' = now /\ begun /\ begun' = begun /\ skew \in {"NONE", "FAST", "SLOW"}
      /\ troubles \in 0 .. MaxTroubles /\ MaxTroubles \in Nat
  BY <1>0, Params DEF Typed, Begins
<1>2. /\ Past \in Nat /\ cushion \in Nat /\ frame_dur \in Nat /\ Mixed \in Nat /\ Stall \in Nat /\ frame_dur >= 1
      /\ cushion + frame_dur - 1 <= Mixed /\ Reach = Mixed + 2 * frame_dur /\ Reach \in Nat
      /\ Past + cushion + frame_dur <= Past + Future
  <2>1. Past + cushion + frame_dur <= Past + Future
    BY CushionFits
  <2> QED BY <2>1, Params, MixedIs, Windows, Numbers
<1> DEFINE w == Since(now, c[u].playout)
<1>3. w \in Int
  BY <1>1, SinceTyped, HalfRange
<1>4. next_played' = ts_add(c[u].playout, frame_dur)
  BY DEF Mix
<1>5. next_played' \in Ticks /\ Due' = w + frame_dur
  <2>0. w <= Past + cushion
    OBVIOUS
  <2>1. w + frame_dur <= Past + Future
    <3>1. w \in Int /\ Past \in Nat /\ cushion \in Nat /\ frame_dur \in Nat /\ Future \in Nat
      BY <1>2, <1>3, Windows
    <3>2. Past + cushion + frame_dur <= Past + Future
      BY <1>2
    <3> HIDE DEF w
    <3> QED BY <2>0, <3>1, <3>2
  <2>2. ts_add(c[u].playout, frame_dur) \in Ticks
    BY <1>1, <1>2, <2>1, Added
  <2>3. Since(now, ts_add(c[u].playout, frame_dur)) = w + frame_dur
    BY <1>1, <1>2, <2>1, Added
  <2> QED BY <1>1, <1>4, <2>2, <2>3 DEF Due
<1>6. w <= Past + cushion
      /\ Past - Stall - Reach <= (IF skew' = "NONE" THEN w + frame_dur ELSE w)
  OBVIOUS
<1> HIDE DEF w
<1>7. \/ /\ media' = Marked(c, u) /\ media_pos' = u /\ channel' = packets /\ troubles' = troubles
      \/ /\ media' = <<>> /\ media_pos' = 0 /\ channel' = <<>>
         /\ troubles < MaxTroubles /\ troubles' = troubles + 1
  BY DEF Mix, Trouble
<1>8. Begins'
  BY <1>0, <1>1 DEF Begins
<1>9. Queued'
  BY <1>0, <1>1, NoneKept DEF Queued
<1>10. Due' <= Past + Mixed + 1 /\ Due' - Reach <= Past + cushion - frame_dur + 2 /\ Due' \in Int
  BY <1>2, <1>3, <1>5, <1>6
<1>11. Past - Stall - Reach <= (IF skew' = "NONE" THEN Due' ELSE Due' - frame_dur)
  BY <1>2, <1>3, <1>5, <1>6
<1>12. skew' \in {"NONE", "FAST", "SLOW"} /\ troubles' \in 0 .. MaxTroubles
       /\ (skew' # "NONE" => troubles' # 0)
  <2>1. skew' # "NONE" => troubles # 0
    BY <1>0 DEF Typed
  <2> QED BY <1>1, <1>7, <2>1
<1>13. CASE /\ media' = Marked(c, u) /\ media_pos' = u /\ channel' = packets /\ troubles' = troubles
  <2>1. /\ Marked(c, u) \in Seq(Unit) /\ Len(Marked(c, u)) = Len(c)
        /\ \A i \in 1 .. Len(c) : Marked(c, u)[i].playout = c[i].playout
        /\ SortedAt(now, Marked(c, u)) /\ MixedTo(Marked(c, u), u)
        /\ Within(now, Marked(c, u), PlayLow', MediaEnd')
    <3>1. Within(now, c, PlayLow', MediaEnd')
      BY <1>13
    <3> DEFINE lo == PlayLow'  hi == MediaEnd'
    <3>2. Within(now, c, lo, hi)
      BY <3>1
    <3> HIDE DEF lo, hi
    <3>3. /\ Marked(c, u) \in Seq(Unit) /\ Len(Marked(c, u)) = Len(c)
          /\ \A i \in 1 .. Len(c) : Marked(c, u)[i].playout = c[i].playout
      BY <1>1, <3>2, MarkedKeeps
    <3>4. SortedAt(now, Marked(c, u)) /\ MixedTo(Marked(c, u), u)
      BY <1>1, <3>2, MarkedKeeps
    <3>5. Within(now, Marked(c, u), lo, hi)
      BY <1>1, <3>2, MarkedKeeps
    <3> QED BY <3>3, <3>4, <3>5 DEF lo, hi
  <2>2. u \in 0 .. Len(Marked(c, u)) /\ u # 0 /\ u \in 1 .. Len(c)
    BY <2>1
  <2>3. Typed'
    BY <1>0, <1>1, <1>5, <1>12, <1>13, <2>1, <2>2 DEF Typed
  <2>4. Mixes'
    BY <1>10, <1>11, <1>13, <2>2 DEF Mixes
  <2>5. Channelled'
    <3>1. Within(now, packets, Past + cushion - frame_dur + 2, ChannelEnd')
      BY <1>13
    <3>2. skew' # "NONE" => Within(now, packets, Past + cushion + 1, ChannelEnd')
      BY <1>13
    <3>3. Within(now, packets, Due' - Reach, ChannelEnd')
      <4>1. (Typed => ChannelEnd \in Int)'
        BY EndsTyped, PTL
      <4>2. /\ Past + cushion - frame_dur + 2 \in Int /\ Due' - Reach \in Int /\ ChannelEnd' \in Int
            /\ ChannelEnd' <= ChannelEnd'
        BY <1>2, <1>10, <2>3, <4>1
      <4> QED BY <1>1, <1>10, <3>1, <4>2, Wider
    <3> QED BY <1>1, <1>13, <3>1, <3>2, <3>3 DEF Channelled
  <2>6. Kept'
    BY <1>1, <1>13, <2>1, <2>2 DEF Kept, PlayLow
  <2>7. Pointed'
    BY <1>1, <1>5, <1>13, <2>1, <2>2 DEF Pointed, w
  <2>8. MixedTo(media, media_pos)' /\ Done'
    BY <1>13, <2>1 DEF Done
  <2> QED BY <1>8, <1>9, <2>3, <2>4, <2>5, <2>6, <2>7, <2>8 DEF IInv
<1>14. CASE /\ media' = <<>> /\ media_pos' = 0 /\ channel' = <<>>
            /\ troubles < MaxTroubles /\ troubles' = troubles + 1
  <2>1. <<>> \in Seq(Unit) /\ <<>> \in Seq(Packet) /\ 0 \in 0 .. Len(<<>>)
    OBVIOUS
  <2>2. Typed'
    BY <1>0, <1>1, <1>5, <1>12, <1>14, <2>1 DEF Typed
  <2>3. Mixes'
    BY <1>10, <1>11, <1>14 DEF Mixes
  <2>4. Channelled' /\ Kept'
    BY <1>14, NoneKept DEF Channelled, Kept
  <2>5. Pointed' /\ MixedTo(media, media_pos)' /\ Done'
    BY <1>14, NoneKept DEF Pointed, Done
  <2> QED BY <1>8, <1>9, <2>2, <2>3, <2>4, <2>5 DEF IInv
<1> QED BY <1>7, <1>13, <1>14

-----------------------------------------------------------------------------
\* Before a unit is taken: when it is due, and where the one before is.
LEMMA BeforePlay ==
  ASSUME IInv, at = "play", ts_gt(end_ts, next_played), media_pos < Len(media)
  PROVE  /\ begun /\ Due < Past + cushion
         /\ Within(now, media, PlayLow, MediaEnd) /\ SortedAt(now, media)
         /\ PlayLow \in Int /\ PlayLow <= Past - Stall - Reach - frame_dur
         /\ MediaEnd \in Int /\ MediaEnd <= Past + Future /\ Past + cushion + frame_dur <= MediaEnd
         /\ media_pos + 1 \in 1 .. Len(media)
         /\ media_pos # 0 => media_pos \in 1 .. Len(media)
<1>0. Typed /\ Begins /\ Queued /\ Mixes /\ Channelled /\ Kept /\ Pointed /\ MixedTo(media, media_pos) /\ Done
  BY DEF IInv
<1>1. begun
  BY <1>0 DEF Begins, Typed
<1>2. /\ end_ts \in Ticks /\ Since(now, end_ts) = Past + cushion
      /\ Past + cushion <= Past + Future /\ Past + Future \in Nat /\ Past + cushion \in Nat
  BY <1>0, EndTime
<1>3. Due \in Int
  BY <1>0, DueTyped
<1>4. now \in Ticks /\ next_played \in Ticks
  BY <1>0 DEF Typed
<1>5. Due < Past + cushion
  <2>1. Due <= Past + Future
    <3>1. Due <= Past + Mixed + 1
      BY <1>0, <1>1 DEF Mixes
    <3>2. Past + Mixed + 1 <= Past + Future /\ Past + Mixed + 1 \in Int
      BY Windows, Params, MixedIs, Products
    <3> QED BY <1>2, <1>3, <3>1, <3>2
  <2>2. Since(now, end_ts) > Due
    BY <1>2, <1>4, <2>1, Later DEF Due
  <2> QED BY <1>2, <1>3, <2>2
<1>6. Within(now, media, PlayLow, MediaEnd) /\ SortedAt(now, media)
  BY <1>0 DEF Kept, PlayLow
<1>7. PlayLow \in Int /\ PlayLow <= Past - Stall - Reach - frame_dur
  <2>1. Past \in Nat /\ Stall \in Nat /\ frame_dur \in Nat /\ history_ts \in Nat /\ Reach \in Nat
    BY Windows, Params, Numbers
  <2>2. Hist = history_ts + Reach + frame_dur
    BY DEF Hist
  <2> QED BY <2>1, <2>2 DEF PlayLow
<1>8. MediaEnd \in Int /\ Past + cushion + frame_dur <= MediaEnd
  <2>1. MediaEnd \in Int /\ Drift \in Nat /\ MediaEnd = Past + cushion + MaxUnits * frame_dur + Drift
    BY <1>0, EndsTyped
  <2>2. frame_dur <= MaxUnits * frame_dur /\ frame_dur \in Nat
    <3>1. 1 * frame_dur <= MaxUnits * frame_dur
      BY Params, LessTimes
    <3>2. 1 * frame_dur = frame_dur /\ frame_dur \in Nat
      BY Params
    <3> QED BY <3>1, <3>2
  <2>3. MaxUnits * frame_dur \in Nat
    BY Products
  <2> QED BY <1>2, <2>1, <2>2, <2>3
<1>9. MediaEnd <= Past + Future
  BY <1>0, EndsTyped
<1>10. media_pos + 1 \in 1 .. Len(media) /\ (media_pos # 0 => media_pos \in 1 .. Len(media))
  BY <1>0 DEF Typed
<1> QED BY <1>1, <1>5, <1>6, <1>7, <1>8, <1>9, <1>10

\* Without a repair the unit behind the one mixed last is taken.
LEMMA UnrepairedIs ==
  /\ Unrepaired(0).pos = media_pos + 1 /\ Unrepaired(0).unit = media_pos + 1
  /\ Unrepaired(0).hold = 0 /\ Unrepaired(0).repaired = FALSE /\ Unrepaired(0).buffer = media
  BY DEF Unrepaired

\* The unit that is fetched stands behind the one mixed last, made up or not.
LEMMA FetchedIs ==
  ASSUME IInv, at = "play", ts_gt(end_ts, next_played), media_pos < Len(media)
  PROVE  /\ Fetched.pos = media_pos + 1 /\ Fetched.unit = media_pos + 1 /\ Fetched.hold = 0
         /\ Fetched.buffer \in Seq(Unit) /\ media_pos + 1 \in 1 .. Len(Fetched.buffer)
         /\ Within(now, Fetched.buffer, PlayLow, MediaEnd) /\ SortedAt(now, Fetched.buffer)
         /\ MixedTo(Fetched.buffer, media_pos)
         /\ media_pos # 0 => Fetched.buffer[media_pos].playout = media[media_pos].playout
         /\ \/ Fetched.repaired = FALSE /\ Fetched.buffer = media
            \/ /\ Fetched.repaired = TRUE /\ media_pos # 0
               /\ Fetched.buffer[media_pos + 1].playout = next_played
               /\ Len(Fetched.buffer) = Len(media) + 1
<1>0. Typed /\ Begins /\ Queued /\ Mixes /\ Channelled /\ Kept /\ Pointed /\ MixedTo(media, media_pos) /\ Done
  BY DEF IInv
<1>1. /\ begun /\ Due < Past + cushion
      /\ Within(now, media, PlayLow, MediaEnd) /\ SortedAt(now, media)
      /\ PlayLow \in Int /\ MediaEnd \in Int /\ MediaEnd <= Past + Future
      /\ Past + cushion + frame_dur <= MediaEnd
      /\ media_pos + 1 \in 1 .. Len(media)
      /\ media_pos # 0 => media_pos \in 1 .. Len(media)
  BY BeforePlay
<1>2. /\ now \in Ticks /\ next_played \in Ticks /\ hold_repair = 0 /\ media \in Seq(Unit)
      /\ media_pos \in Nat /\ Len(media) \in Nat
  BY <1>0 DEF Typed
<1>3. Due \in Int /\ Past + Future \in Int /\ Past \in Nat /\ cushion \in Nat /\ frame_dur \in Nat /\ frame_dur >= 1
  BY <1>0, DueTyped, Windows, Params
<1> DEFINE time == media[media_pos + 1].playout
<1>4. time \in Ticks /\ Since(now, time) \in Int /\ Since(now, time) <= Past + Future
  BY <1>1, MediaTimes
<1>5. CASE ~source_repair_required(time) \/ media_pos = 0
  <2>1. Fetched = Unrepaired(0)
    BY <1>2, <1>5 DEF Fetched, source_repair
  <2> HIDE DEF IInv
  <2>2. /\ Fetched.pos = media_pos + 1 /\ Fetched.unit = media_pos + 1 /\ Fetched.hold = 0
        /\ Fetched.buffer = media /\ Fetched.repaired = FALSE
    BY <2>1, UnrepairedIs
  <2> QED BY <1>0, <1>1, <1>2, <2>2
<1>6. CASE source_repair_required(time) /\ media_pos # 0
  <2>1. Since(now, time) > Due
    <3>1. ts_gt(ts_sub(time, next_played), 0)
      BY <1>6 DEF source_repair_required
    <3>2. ts_sub(time, next_played) = IF Due <= Since(now, time) THEN Since(now, time) - Due
                                      ELSE Since(now, time) - Due + Wrap
      BY <1>2, <1>4, Between DEF Due
    <3> DEFINE gap == ts_sub(time, next_played)
    <3> HIDE DEF gap
    <3>3. /\ half_range \in Nat /\ Wrap = 2 * half_range /\ Past + Future < half_range
          /\ Due <= Past + Future /\ Since(now, time) >= 0 /\ Due >= 0
      <4>1. half_range \in Nat /\ Wrap = 2 * half_range /\ Past + Future < half_range
        BY HalfRange, Windows
      <4>2. Due <= Past + Future
        BY <1>1, <1>3, CushionFits
      <4>3. Since(now, time) \in 0 .. Wrap - 1 /\ Due \in 0 .. Wrap - 1
        BY <1>2, <1>4, <1>0, SinceTyped, DueTyped
      <4> QED BY <4>1, <4>2, <4>3
    <3>4. gap = IF Due <= Since(now, time) THEN Since(now, time) - Due
                                      ELSE Since(now, time) - Due + Wrap
      BY <3>2 DEF gap
    <3>5. gap \in Int /\ gap # 0 /\ gap <= half_range
      <4>1. gap \in Int /\ gap >= 0
        BY <1>3, <1>4, <3>3, <3>4
      <4>2. ts_gt(gap, 0)
        BY <3>1 DEF gap
      <4> QED BY <3>3, <4>1, <4>2 DEF ts_gt
    <3> QED BY <1>3, <1>4, <3>3, <3>4, <3>5
  <2>2. Since(now, media[media_pos].playout) + frame_dur = Due
        /\ Since(now, media[media_pos].playout) \in Int
    BY <1>0, <1>1, <1>6, MediaTimes DEF Pointed
  <2>3. InWindow(now, media) /\ Since(now, next_played) <= Past + Future
    <3>1. InWindow(now, media)
      BY <1>1, <1>2, InsideWindow
    <3>2. Due <= Past + Future
      BY <1>1, <1>3, CushionFits
    <3> QED BY <3>1, <3>2 DEF Due
  <2> DEFINE q == Place(media, next_played)
  <2>4. /\ q \in 0 .. Len(media)
        /\ \A i \in 1 .. Len(media) : i <= q => Since(now, media[i].playout) <= Due
        /\ \A i \in 1 .. Len(media) : i > q => Since(now, media[i].playout) > Due
        /\ Exists(media, next_played) <=> \E i \in 1 .. Len(media) : media[i].playout = next_played
    BY <1>1, <1>2, <2>3, PlaceIs DEF Due
  <2> HIDE DEF q
  <2>5. q = media_pos
    <3>1. ~(media_pos > q)
      <4> SUFFICES ASSUME media_pos > q PROVE FALSE
        OBVIOUS
      <4>1. Since(now, media[media_pos].playout) > Due
        BY <1>1, <1>6, <2>4
      <4> QED BY <1>3, <2>2, <4>1
    <3>2. ~(media_pos + 1 <= q)
      <4> SUFFICES ASSUME media_pos + 1 <= q PROVE FALSE
        OBVIOUS
      <4>1. Since(now, time) <= Due
        BY <1>1, <2>4
      <4> QED BY <1>3, <1>4, <2>1, <4>1
    <3> QED BY <1>2, <2>4, <3>1, <3>2
  <2>6. ~Exists(media, next_played)
    <3> SUFFICES ASSUME NEW i \in 1 .. Len(media), media[i].playout = next_played PROVE FALSE
      BY <2>4
    <3>1. Since(now, media[i].playout) = Due
      BY DEF Due
    <3>2. i = media_pos \/ i < media_pos \/ i > media_pos
      BY <1>2
    <3>3. ~(i > media_pos)
      BY <1>3, <2>4, <2>5, <3>1
    <3>4. i # media_pos
      BY <1>3, <2>2, <3>1
    <3>5. i < media_pos => Since(now, media[i].playout) < Since(now, media[media_pos].playout)
      BY <1>1, <1>6 DEF SortedAt
    <3> QED BY <1>3, <2>2, <3>1, <3>2, <3>3, <3>4, <3>5
  <2> DEFINE node == [playout |-> next_played, is |-> "waiting"]
             c == pb_add(media, node)
  <2>7. Moved(media, next_played, media_pos) = media_pos
    BY <1>2, <2>5 DEF Moved, q
  <2>8. Fetched = RepairedAt(media_pos + 1)
    BY <1>6, <2>6, <2>7 DEF Fetched, source_repair
  <2>9. /\ Fetched.pos = media_pos + 1 /\ Fetched.unit = media_pos + 1 /\ Fetched.hold = 0
        /\ Fetched.buffer = c /\ Fetched.repaired = TRUE
    BY <1>2, <2>8 DEF RepairedAt
  <2>10. node \in Unit /\ node.playout = next_played /\ node.is = "waiting"
    BY <1>2 DEF Unit
  <2> HIDE DEF node
  <2>11. /\ c \in Seq(Unit) /\ Len(c) = Len(media) + 1
         /\ \A i \in 1 .. Len(media) + 1 : c[i] = IF i <= media_pos THEN media[i]
                                                  ELSE IF i = media_pos + 1 THEN node ELSE media[i - 1]
    <3>0. node.playout \in Ticks /\ Since(now, node.playout) <= Past + Future /\ ~Exists(media, node.playout)
      BY <1>2, <2>3, <2>6, <2>10
    <3>1. c \in Seq(Unit) /\ Len(c) = Len(media) + 1
      BY <1>1, <1>2, <2>3, <2>10, <3>0, PbAdd
    <3>2. \A i \in 1 .. Len(media) + 1 :
              pb_add(media, node)[i] = IF i <= Place(media, node.playout) THEN media[i]
                                       ELSE IF i = Place(media, node.playout) + 1 THEN node ELSE media[i - 1]
      BY <1>1, <1>2, <2>3, <2>10, <3>0, PbAdd
    <3>3. Place(media, node.playout) = media_pos
      BY <2>5, <2>10 DEF q
    <3> QED BY <3>1, <3>2, <3>3
  <2>12. Within(now, c, PlayLow, MediaEnd) /\ SortedAt(now, c)
    <3>1. /\ node.playout \in Ticks /\ PlayLow <= Since(now, node.playout)
          /\ Since(now, node.playout) <= MediaEnd
      <4>1. PlayLow <= Since(now, media[media_pos].playout)
        BY <1>1, <1>6 DEF Within
      <4>2. PlayLow <= Due /\ Due <= MediaEnd
        BY <1>1, <1>3, <2>2, <4>1
      <4> QED BY <1>2, <2>10, <4>2 DEF Due
    <3>2. Within(now, c, PlayLow, MediaEnd)
      BY <1>1, <1>2, <2>10, <3>1, AddKeeps
    <3>3. SortedAt(now, c)
      BY <1>1, <1>2, <2>10, <3>1, AddKeeps
    <3> QED BY <3>2, <3>3
  <2> HIDE DEF c
  <2>13. c[media_pos] = media[media_pos] /\ c[media_pos + 1] = node /\ media_pos + 1 \in 1 .. Len(c)
    BY <1>1, <1>2, <1>6, <2>11
  <2>14. MixedTo(c, media_pos)
    <3> SUFFICES ASSUME NEW i \in 1 .. Len(c)
                 PROVE c[i].is \in IF i <= media_pos THEN {"mixed", "late"} ELSE {"waiting"}
      BY DEF MixedTo
    <3>1. CASE i <= media_pos
      <4>1. i \in 1 .. Len(media) /\ c[i] = media[i]
        BY <1>1, <1>2, <1>6, <2>11, <3>1
      <4> QED BY <1>0, <3>1, <4>1 DEF MixedTo
    <3>2. CASE i = media_pos + 1
      <4>1. c[i] = node /\ ~(i <= media_pos)
        BY <1>2, <2>13, <3>2
      <4> QED BY <2>10, <4>1
    <3>3. CASE i > media_pos + 1
      <4>1. i - 1 \in 1 .. Len(media) /\ c[i] = media[i - 1] /\ ~(i - 1 <= media_pos) /\ ~(i <= media_pos)
        BY <1>2, <2>11, <3>3
      <4> QED BY <1>0, <4>1 DEF MixedTo
    <3> QED BY <1>2, <3>1, <3>2, <3>3
  <2> QED BY <1>6, <2>9, <2>10, <2>11, <2>12, <2>13, <2>14
<1> QED BY <1>5, <1>6

\* What every turn of the loop does.
LEMMA PlayTurn ==
  ASSUME IInv, Play
  PROVE  /\ at = "play" /\ ts_gt(end_ts, next_played) /\ media_pos < Len(media) /\ begun
         /\ hold_repair' = 0 /\ failed' = FALSE
         /\ UNCHANGED <<now, pktbuf, begun, age, units_per_packet, playout, talkstart,
                        post_talkstart_units>>
         /\ \/ /\ ts_gt(Fetched.buffer[media_pos + 1].playout, end_ts)
               /\ at' = "audit" /\ media' = Fetched.buffer
               /\ media_pos' = pb_iterator_retreat(media_pos + 1)
               /\ UNCHANGED <<channel, transit, next_played, skew, troubles>>
            \/ /\ ~ts_gt(Fetched.buffer[media_pos + 1].playout, end_ts)
               /\ NoAdjustment(Fetched) \/ BringForward(Fetched) \/ PushBack(Fetched)
               /\ at' = "play"
<1>1. /\ at = "play" /\ ts_gt(end_ts, next_played) /\ media_pos < Len(media)
      /\ hold_repair' = Fetched.hold
      /\ failed' = (failed \/ (Fetched.repaired /\ Fetched.buffer[Fetched.unit].playout # next_played))
      /\ UNCHANGED <<now, pktbuf, begun, age, units_per_packet, playout, talkstart,
                     post_talkstart_units>>
      /\ IF ts_gt(Fetched.buffer[Fetched.unit].playout, end_ts)
           THEN /\ at' = "audit"
                /\ media' = Fetched.buffer
                /\ media_pos' = pb_iterator_retreat(Fetched.pos)
                /\ UNCHANGED <<channel, transit, next_played, skew, troubles>>
           ELSE (NoAdjustment(Fetched) \/ BringForward(Fetched) \/ PushBack(Fetched)) /\ UNCHANGED at
  BY DEF Play
<1>2. begun
  BY <1>1, BeforePlay
<1>3. Fetched.pos = media_pos + 1 /\ Fetched.unit = media_pos + 1 /\ Fetched.hold = 0
  BY <1>1, FetchedIs
<1>4. Fetched.repaired = FALSE
      \/ (Fetched.repaired = TRUE /\ Fetched.buffer[media_pos + 1].playout = next_played)
  BY <1>1, FetchedIs
<1>5. failed = FALSE
  BY DEF IInv, Typed
<1> QED BY <1>1, <1>2, <1>3, <1>4, <1>5

\* The unit that is mixed is due, and does not go back far.
LEMMA UnitPlayed ==
  ASSUME IInv, at = "play", ts_gt(end_ts, next_played), media_pos < Len(media),
         ~ts_gt(Fetched.buffer[media_pos + 1].playout, end_ts)
  PROVE  LET U == Since(now, Fetched.buffer[media_pos + 1].playout) IN
         /\ Fetched.buffer[media_pos + 1].playout \in Ticks /\ U \in Int
         /\ PlayLow <= U /\ U <= Past + cushion
         /\ Past - Stall - Reach <= IF skew = "NONE" THEN U + frame_dur ELSE U
<1>0. Typed /\ Mixes /\ Kept /\ Pointed
  BY DEF IInv
<1>1. /\ begun /\ now \in Ticks /\ media_pos \in Nat /\ Len(media) \in Nat
      /\ Past + Future \in Int /\ frame_dur \in Nat /\ MediaEnd \in Int /\ MediaEnd <= Past + Future
  <2>1. begun /\ MediaEnd \in Int /\ MediaEnd <= Past + Future
    BY BeforePlay
  <2> QED BY <1>0, <2>1, CushionFits DEF Typed
<1> DEFINE f == Fetched  t == f.buffer[media_pos + 1].playout  U == Since(now, t)
<1>2. /\ media_pos + 1 \in 1 .. Len(f.buffer) /\ Within(now, f.buffer, PlayLow, MediaEnd)
      /\ SortedAt(now, f.buffer)
  BY FetchedIs
<1>3. t \in Ticks /\ PlayLow <= U /\ U <= MediaEnd
  BY <1>2 DEF Within
<1>4. U \in Int
  BY <1>1, <1>3, SinceTyped, HalfRange
<1>5. /\ end_ts \in Ticks /\ Since(now, end_ts) = Past + cushion
      /\ Past + cushion <= Past + Future /\ Past + cushion \in Nat
  BY <1>0, EndTime
<1>6. U <= Past + cushion
  <2>1. U <= Past + Future
    <3> HIDE DEF U
    <3> QED BY <1>1, <1>3, <1>4
  <2>2. ~(U > Since(now, end_ts))
    BY <1>1, <1>3, <1>5, <2>1, Later
  <2> HIDE DEF U
  <2> QED BY <1>4, <1>5, <2>2
<1>7. /\ Due \in Int /\ Past - Stall - Reach \in Int /\ Reach \in Nat
      /\ Past - Stall - Reach <= IF skew = "NONE" THEN Due ELSE Due - frame_dur
  BY <1>0, <1>1, DueTyped, Distances, Numbers DEF Mixes
<1>8. CASE media_pos # 0
  <2>1. f.buffer[media_pos].playout = media[media_pos].playout
    BY <1>8, FetchedIs
  <2>2. media_pos \in 1 .. Len(f.buffer) /\ media_pos < media_pos + 1
    BY <1>1, <1>2, <1>8
  <2>3. Since(now, media[media_pos].playout) < U
    BY <1>2, <2>1, <2>2 DEF SortedAt
  <2>4. Since(now, media[media_pos].playout) + frame_dur = Due
    BY <1>0, <1>8 DEF Pointed
  <2>5. Since(now, media[media_pos].playout) \in Int
    <3>1. media[media_pos].playout \in Ticks
      BY <1>0, <1>1, <1>8, MediaTimes
    <3> QED BY <1>1, <3>1, SinceTyped, HalfRange
  <2> HIDE DEF U, f
  <2>6. Past - Stall - Reach <= IF skew = "NONE" THEN U + frame_dur ELSE U
    BY <1>1, <1>4, <1>7, <2>3, <2>4, <2>5
  <2> QED BY <1>3, <1>4, <1>6, <2>6 DEF U, f
<1>9. CASE media_pos = 0
  <2>1. f.buffer = media
    BY <1>9, FetchedIs
  <2>2. Within(now, media, Due - Reach, MediaEnd)
    BY <1>0, <1>9 DEF Kept
  <2>3. Due - Reach <= U
    BY <1>2, <2>1, <2>2 DEF Within
  <2>4. Past - Stall <= Due
    <3>1. media # <<>>
      BY <1>1, <1>9
    <3> QED BY <1>0, <1>1, <1>9, <3>1 DEF Mixes
  <2>5. Past \in Nat /\ Stall \in Nat
    BY Windows, Params
  <2> HIDE DEF U, f
  <2>6. Past - Stall - Reach <= IF skew = "NONE" THEN U + frame_dur ELSE U
    BY <1>1, <1>4, <1>7, <2>3, <2>4, <2>5
  <2> QED BY <1>3, <1>4, <1>6, <2>6 DEF U, f
<1> QED BY <1>8, <1>9

\* The unit that is not due yet is left for another round.
LEMMA LeaveKeeps ==
  ASSUME IInv, Play, ts_gt(Fetched.buffer[media_pos + 1].playout, end_ts)
  PROVE  IInv'
<1>0. Typed /\ Begins /\ Queued /\ Mixes /\ Channelled /\ Kept /\ Pointed /\ MixedTo(media, media_pos) /\ Done
  BY DEF IInv
<1>1. /\ at = "play" /\ ts_gt(end_ts, next_played) /\ media_pos < Len(media) /\ begun
      /\ hold_repair' = 0 /\ failed' = FALSE
      /\ at' = "audit" /\ media' = Fetched.buffer
      /\ media_pos' = pb_iterator_retreat(media_pos + 1)
      /\ UNCHANGED <<now, pktbuf, begun, age, units_per_packet, playout, talkstart,
                     post_talkstart_units, channel, transit, next_played, skew, troubles>>
  BY PlayTurn
<1> DEFINE b == Fetched.buffer
<1>2. /\ b \in Seq(Unit) /\ media_pos + 1 \in 1 .. Len(b)
      /\ Within(now, b, PlayLow, MediaEnd) /\ SortedAt(now, b) /\ MixedTo(b, media_pos)
      /\ media_pos # 0 => b[media_pos].playout = media[media_pos].playout
  BY <1>1, FetchedIs
<1>3. media_pos = 0 => b = media
  BY <1>1, FetchedIs
<1>4. /\ PlayLow \in Int /\ MediaEnd \in Int /\ MediaEnd <= Past + Future
      /\ now \in Ticks /\ media_pos \in Nat /\ Past + Future \in Int
  <2>1. PlayLow \in Int /\ MediaEnd \in Int /\ MediaEnd <= Past + Future
    BY <1>1, BeforePlay
  <2> QED BY <1>0, <2>1, CushionFits DEF Typed
<1>5. /\ end_ts \in Ticks /\ Since(now, end_ts) = Past + cushion
      /\ Past + cushion <= Past + Future /\ Past + cushion \in Nat
  BY <1>0, EndTime
<1> DEFINE U == Since(now, b[media_pos + 1].playout)
<1>6. b[media_pos + 1].playout \in Ticks /\ U <= MediaEnd
  BY <1>2 DEF Within
<1>7. U \in Int
  BY <1>4, <1>6, SinceTyped, HalfRange
<1>8. U > Past + cushion
  <2>1. U <= Past + Future
    <3> HIDE DEF U
    <3> QED BY <1>4, <1>6, <1>7
  <2> QED BY <1>4, <1>5, <1>6, <2>1, Later
<1>9. media_pos # 0
  <2> SUFFICES ASSUME media_pos = 0 PROVE FALSE
    OBVIOUS
  <2>1. media # <<>> /\ b = media /\ media_pos + 1 = 1
    BY <1>2, <1>3
  <2>2. U <= Past + cushion
    BY <1>0, <2>1 DEF Pointed
  <2> HIDE DEF U
  <2> QED BY <1>5, <1>7, <1>8, <2>2
<1>10. media_pos' = media_pos
  BY <1>1, <1>4, <1>9 DEF pb_iterator_retreat
<1>11. /\ Due' = Due /\ ChannelEnd' = ChannelEnd /\ MediaEnd' = MediaEnd /\ PlayLow' = PlayLow
       /\ now' = now /\ channel' = channel /\ media' = b /\ begun' = begun
  BY <1>1 DEF Due, ChannelEnd, MediaEnd, Drift, PlayLow
<1>12. Typed'
  <2>1. media_pos \in 0 .. Len(b)
    BY <1>2, <1>4
  <2> QED BY <1>0, <1>1, <1>2, <1>10, <2>1 DEF Typed
<1>13. Begins' /\ Queued' /\ Mixes'
  <2>1. Begins'
    BY <1>0, <1>1 DEF Begins
  <2>2. Queued'
    BY <1>0, <1>1 DEF Queued
  <2>3. Mixes'
    BY <1>0, <1>1, <1>11 DEF Mixes
  <2> QED BY <2>1, <2>2, <2>3
<1>14. Channelled'
  BY <1>0, <1>1, <1>11 DEF Channelled
<1>15. Kept'
  BY <1>1, <1>2, <1>9, <1>10, <1>11 DEF Kept, PlayLow
<1>16. Pointed' /\ MixedTo(media, media_pos)'
  BY <1>0, <1>2, <1>9, <1>10, <1>11 DEF Pointed
<1>17. Done'
  <2> SUFFICES ASSUME NEW i \in 1 .. Len(b), i > media_pos
               PROVE Past + cushion <= Since(now, b[i].playout)
    BY <1>10, <1>11 DEF Done
  <2>1. Since(now, b[i].playout) \in Int
    <3>1. b[i].playout \in Ticks
      BY <1>2 DEF Within
    <3> QED BY <1>4, <3>1, SinceTyped, HalfRange
  <2>2. i = media_pos + 1 \/ media_pos + 1 < i
    BY <1>4
  <2>3. i = media_pos + 1 => Since(now, b[i].playout) = U
    OBVIOUS
  <2>4. media_pos + 1 < i => U < Since(now, b[i].playout)
    BY <1>2 DEF SortedAt
  <2> HIDE DEF U, b
  <2> QED BY <1>5, <1>7, <1>8, <2>1, <2>2, <2>3, <2>4
<1> HIDE DEF b
<1> QED BY <1>12, <1>13, <1>14, <1>15, <1>16, <1>17 DEF IInv

\* The adaptation that is due has its room in the window.
LEMMA DriftRoom ==
  ASSUME Typed, skew # "NONE", skew' = "NONE"
  PROVE  /\ MediaEnd + frame_dur <= Past + Future /\ ChannelEnd + frame_dur <= Past + Future
         /\ UNCHANGED troubles => MediaEnd' = MediaEnd + frame_dur /\ ChannelEnd' = ChannelEnd + frame_dur
<1>1. /\ troubles \in Nat /\ troubles # 0 /\ troubles <= MaxTroubles /\ frame_dur \in Nat
      /\ MaxTroubles \in Nat
  BY Params DEF Typed
<1> DEFINE d == troubles * frame_dur  e == MaxTroubles * frame_dur
<1>2. d \in Nat /\ e \in Nat /\ d <= e
  BY <1>1, LessTimes
<1>3. Drift = d - frame_dur
  <2>1. (troubles - 1) * frame_dur = d - frame_dur
    BY <1>1
  <2> QED BY <2>1 DEF Drift
<1>4. UNCHANGED troubles => Drift' = d
  BY DEF Drift
<1> HIDE DEF d, e
<1>5. MediaEnd = Past + cushion + MaxUnits * frame_dur + Drift /\ ChannelEnd = Past + Lead + Drift
  BY DEF MediaEnd, ChannelEnd
<1>6. MediaEnd' = Past + cushion + MaxUnits * frame_dur + Drift' /\ ChannelEnd' = Past + Lead + Drift'
  BY DEF MediaEnd, ChannelEnd
<1>7. Future = Lead + cushion + MaxUnits * frame_dur + e
  BY Windows DEF e
<1>8. Past \in Nat /\ Lead \in Nat /\ cushion \in Nat /\ MaxUnits * frame_dur \in Nat
  BY Params, Windows, Products
<1> DEFINE g == MaxUnits * frame_dur
<1> HIDE DEF g
<1>9. /\ MediaEnd = Past + cushion + g + Drift /\ MediaEnd' = Past + cushion + g + Drift'
      /\ Future = Lead + cushion + g + e /\ g \in Nat
  BY <1>5, <1>6, <1>7, <1>8 DEF g
<1>10. MediaEnd + frame_dur <= Past + Future
  BY <1>1, <1>2, <1>3, <1>8, <1>9
<1>11. ChannelEnd + frame_dur <= Past + Future
  BY <1>1, <1>2, <1>3, <1>5, <1>8, <1>9
<1>12. UNCHANGED troubles => MediaEnd' = MediaEnd + frame_dur
  BY <1>1, <1>2, <1>3, <1>4, <1>8, <1>9
<1>13. UNCHANGED troubles => ChannelEnd' = ChannelEnd + frame_dur
  BY <1>1, <1>2, <1>3, <1>4, <1>5, <1>6, <1>8
<1> QED BY <1>10, <1>11, <1>12, <1>13

\* A tick less than a unit is a small one.
LEMMA FrameIsSmall == frame_dur < Wrap
<1>1. /\ Past + cushion + frame_dur <= Past + Future /\ Past \in Nat /\ cushion \in Nat
      /\ frame_dur \in Nat /\ Past + Future \in Nat
  BY CushionFits
<1>2. half_range \in Nat /\ Wrap = 2 * half_range /\ Past + Future < half_range
  BY HalfRange, Windows
<1> QED BY <1>1, <1>2

\* Without an adaptation.
LEMMA NoAdjustmentKeeps ==
  ASSUME IInv, Play, ~ts_gt(Fetched.buffer[media_pos + 1].playout, end_ts), NoAdjustment(Fetched),
         at' = "play"
  PROVE  IInv'
<1>0. Typed /\ Channelled
  BY DEF IInv
<1>1. /\ at = "play" /\ ts_gt(end_ts, next_played) /\ media_pos < Len(media)
      /\ hold_repair' = 0 /\ failed' = FALSE
      /\ UNCHANGED <<now, pktbuf, begun, age, units_per_packet, playout, talkstart,
                     post_talkstart_units>>
  BY PlayTurn
<1> DEFINE c == Fetched.buffer  u == media_pos + 1
<1>2. /\ Fetched.pos = u /\ Fetched.unit = u /\ c \in Seq(Unit) /\ u \in 1 .. Len(c)
      /\ Within(now, c, PlayLow, MediaEnd) /\ SortedAt(now, c) /\ MixedTo(c, media_pos)
  BY <1>1, FetchedIs
<1>3. Mix(c, u, u, channel) /\ transit' = transit /\ skew' = skew
  BY <1>2 DEF NoAdjustment
<1>4. u - 1 = media_pos
  BY <1>0 DEF Typed
<1>5. /\ c[u].playout \in Ticks /\ Since(now, c[u].playout) <= Past + cushion
      /\ Past - Stall - Reach <= IF skew = "NONE" THEN Since(now, c[u].playout) + frame_dur
                                 ELSE Since(now, c[u].playout)
  BY <1>1, UnitPlayed
<1>6. PlayLow' = PlayLow /\ (UNCHANGED troubles => MediaEnd' = MediaEnd /\ ChannelEnd' = ChannelEnd)
  BY <1>3 DEF PlayLow, MediaEnd, ChannelEnd, Drift
<1>7. UNCHANGED troubles => Within(now, c, PlayLow', MediaEnd')
  BY <1>2, <1>6
<1>8. /\ UNCHANGED troubles => Within(now, channel, Past + cushion - frame_dur + 2, ChannelEnd')
      /\ UNCHANGED troubles /\ skew' # "NONE" => Within(now, channel, Past + cushion + 1, ChannelEnd')
      /\ SortedAt(now, channel) /\ channel \in Seq(Packet) /\ transit \in Ticks
  BY <1>0, <1>1, <1>3, <1>6 DEF Channelled, Typed
<1> HIDE DEF c, u
<1>9. MixedTo(c, u - 1)
  BY <1>2, <1>4
<1> QED BY <1>1, <1>2, <1>3, <1>5, <1>7, <1>8, <1>9, MixKeeps

\* The times of a buffer brought forward.
LEMMA TimesForward ==
  ASSUME NEW n \in Ticks, NEW S, Timed(S), NEW b \in Seq(S), NEW a \in Nat,
         NEW lo \in Int, NEW hi \in Int, a <= lo, Within(n, b, lo, hi), SortedAt(n, b),
         NEW i \in 1 .. Len(b)
  PROVE  Since(n, pb_shift_forward(b, a)[i].playout) = Since(n, b[i].playout) - a
<1>1. \A j \in 1 .. Len(b) :
              /\ pb_shift_forward(b, a)[j] = [b[j] EXCEPT !.playout = ts_sub(@, a)]
              /\ Since(n, pb_shift_forward(b, a)[j].playout) = Since(n, b[j].playout) - a
  BY ShiftedForward
<1> QED BY <1>1

\* All is brought forward by less than a unit.
LEMMA BringForwardKeeps ==
  ASSUME IInv, Play, ~ts_gt(Fetched.buffer[media_pos + 1].playout, end_ts), BringForward(Fetched),
         at' = "play"
  PROVE  IInv'
<1>0. Typed /\ Channelled
  BY DEF IInv
<1>1. /\ at = "play" /\ ts_gt(end_ts, next_played) /\ media_pos < Len(media)
      /\ hold_repair' = 0 /\ failed' = FALSE
      /\ UNCHANGED <<now, pktbuf, begun, age, units_per_packet, playout, talkstart,
                     post_talkstart_units>>
  BY PlayTurn
<1>2. skew = "FAST" /\ skew' = "NONE"
  BY DEF BringForward
<1> DEFINE b == Fetched.buffer  u == media_pos + 1
<1>3. /\ Fetched.pos = u /\ Fetched.unit = u /\ b \in Seq(Unit) /\ u \in 1 .. Len(b)
      /\ Within(now, b, PlayLow, MediaEnd) /\ SortedAt(now, b) /\ MixedTo(b, media_pos)
  BY <1>1, FetchedIs
<1>4. PICK a \in 1 .. frame_dur - 1 :
        /\ transit' = ts_sub(transit, a)
        /\ Mix(pb_shift_forward(b, a), u, u, pb_shift_forward(channel, a))
  BY <1>3 DEF BringForward
<1>5. /\ a \in Nat /\ a < frame_dur /\ a >= 1 /\ frame_dur \in Nat /\ now \in Ticks /\ media_pos \in Nat
      /\ Past \in Nat /\ cushion \in Nat
  BY <1>0, CushionFits DEF Typed
<1>6. /\ PlayLow = Past - Stall - Hist /\ PlayLow' = Past - Stall - Hist - frame_dur
      /\ PlayLow \in Int /\ frame_dur <= PlayLow
  <2>1. /\ Past = Max(Ages) + Max(Elapsed) + Stall + history_ts + 2 * Mixed + 5 * frame_dur + transit_jump
        /\ Max(Ages) \in Nat /\ Max(Elapsed) \in Nat /\ Stall \in Nat /\ history_ts \in Nat
        /\ Mixed \in Nat /\ transit_jump \in Nat
    BY Windows, Sets, Params, MixedIs
  <2>2. Hist = history_ts + Mixed + 3 * frame_dur
    BY Numbers
  <2>3. Past - Stall - Hist \in Int /\ frame_dur <= Past - Stall - Hist
    BY <1>5, <2>1, <2>2
  <2>4. PlayLow = Past - Stall - Hist /\ PlayLow' = Past - Stall - Hist - frame_dur
    BY <1>2 DEF PlayLow
  <2> QED BY <2>3, <2>4
<1>7. MediaEnd \in Int /\ ChannelEnd \in Int
  BY <1>0, EndsTyped
<1>8. UNCHANGED troubles => MediaEnd' = MediaEnd + frame_dur /\ ChannelEnd' = ChannelEnd + frame_dur
  BY <1>0, <1>2, DriftRoom
<1> DEFINE c == pb_shift_forward(b, a)  packets == pb_shift_forward(channel, a)
<1>9. a <= PlayLow
  BY <1>5, <1>6
<1> HIDE DEF b, u, c
<1>10. /\ c \in Seq(Unit) /\ Len(c) = Len(b)
       /\ Within(now, c, PlayLow - a, MediaEnd - a) /\ SortedAt(now, c)
  BY <1>3, <1>5, <1>6, <1>7, <1>9, BothTimed, ShiftedForward DEF c
<1>11. \A i \in 1 .. Len(b) : /\ c[i] = [b[i] EXCEPT !.playout = ts_sub(b[i].playout, a)]
                              /\ Since(now, c[i].playout) = Since(now, b[i].playout) - a
  <2>1. \A i \in 1 .. Len(b) : Since(now, c[i].playout) = Since(now, b[i].playout) - a
    <3>1. Timed(Unit)
      BY BothTimed
    <3>2. \A i \in 1 .. Len(b) : Since(now, pb_shift_forward(b, a)[i].playout) = Since(now, b[i].playout) - a
      BY <1>3, <1>5, <1>6, <1>7, <1>9, <3>1, TimesForward
    <3> QED BY <3>2 DEF c
  <2>2. Len(b) \in Nat /\ DOMAIN b = 1 .. Len(b)
    BY <1>3
  <2>3. \A i \in 1 .. Len(b) : c[i] = [b[i] EXCEPT !.playout = ts_sub(b[i].playout, a)]
    BY <2>2 DEF c, pb_shift_forward
  <2> QED BY <2>1, <2>3
<1>12. MixedTo(c, media_pos)
  <2>1. \A i \in 1 .. Len(b) : c[i].is = b[i].is
    <3> SUFFICES ASSUME NEW i \in 1 .. Len(b) PROVE c[i].is = b[i].is
      OBVIOUS
    <3>1. c[i] = [b[i] EXCEPT !.playout = ts_sub(b[i].playout, a)]
      BY <1>11
    <3>2. b[i] \in Unit
      BY <1>3
    <3> QED BY <3>1, <3>2 DEF Unit
  <2> QED BY <1>3, <1>10, <2>1 DEF MixedTo
<1>13. UNCHANGED troubles => Within(now, c, PlayLow', MediaEnd')
  <2> SUFFICES ASSUME UNCHANGED troubles PROVE Within(now, c, PlayLow', MediaEnd')
    OBVIOUS
  <2>1. /\ PlayLow' \in Int /\ PlayLow - a \in Int /\ PlayLow' <= PlayLow - a
    BY <1>5, <1>6
  <2>2. MediaEnd' \in Int /\ MediaEnd - a \in Int /\ MediaEnd - a <= MediaEnd'
    BY <1>5, <1>7, <1>8
  <2> QED BY <1>5, <1>10, <2>1, <2>2, Wider
<1>14. /\ Within(now, channel, Past + cushion + 1, ChannelEnd) /\ SortedAt(now, channel)
       /\ channel \in Seq(Packet) /\ transit \in Ticks
  BY <1>0, <1>1, <1>2 DEF Channelled, Typed
<1> HIDE DEF packets
<1>15. /\ packets \in Seq(Packet) /\ SortedAt(now, packets)
       /\ Within(now, packets, Past + cushion + 1 - a, ChannelEnd - a)
  <2>1. a <= Past + cushion + 1 /\ Past + cushion + 1 \in Int
    <3>1. Past + cushion + frame_dur - frame_dur >= 0
      BY <1>5
    <3>2. frame_dur <= Past
      <4>1. frame_dur <= PlayLow /\ PlayLow = Past - Stall - Hist
        BY <1>6
      <4>2. Stall \in Nat /\ Hist \in Nat
        BY Params, Numbers
      <4> QED BY <1>5, <4>1, <4>2
    <3> QED BY <1>5, <3>2
  <2> QED BY <1>5, <1>7, <1>14, <2>1, BothTimed, ShiftedForward DEF packets
<1>16. UNCHANGED troubles => Within(now, packets, Past + cushion - frame_dur + 2, ChannelEnd')
  <2> SUFFICES ASSUME UNCHANGED troubles
               PROVE Within(now, packets, Past + cushion - frame_dur + 2, ChannelEnd')
    OBVIOUS
  <2>1. /\ Past + cushion - frame_dur + 2 \in Int /\ Past + cushion + 1 - a \in Int
        /\ Past + cushion - frame_dur + 2 <= Past + cushion + 1 - a
    BY <1>5
  <2>2. ChannelEnd' \in Int /\ ChannelEnd - a \in Int /\ ChannelEnd - a <= ChannelEnd'
    BY <1>5, <1>7, <1>8
  <2> QED BY <1>5, <1>15, <2>1, <2>2, Wider
<1> DEFINE U == Since(now, b[u].playout)
<1>17. U \in Int /\ U <= Past + cushion /\ Past - Stall - Reach <= U
  BY <1>1, <1>2, UnitPlayed DEF b, u
<1>18. c[u].playout \in Ticks /\ Since(now, c[u].playout) = U - a /\ u \in 1 .. Len(c)
  <2>1. u \in 1 .. Len(c)
    BY <1>3, <1>10
  <2> QED BY <1>3, <1>10, <1>11, <2>1 DEF Within
<1> HIDE DEF U
<1>19. Since(now, c[u].playout) <= Past + cushion
  BY <1>5, <1>17, <1>18
<1>20. Past - Stall - Reach <= Since(now, c[u].playout) + frame_dur
  <2>1. Past - Stall - Reach \in Int
    BY Distances
  <2> QED BY <1>5, <1>17, <1>18, <2>1
<1>21. transit' \in Ticks
  <2>1. a < Wrap
    BY <1>5, FrameIsSmall, HalfRange
  <2> QED BY <1>4, <1>5, <1>14, <2>1, SubTyped
<1>22. MixedTo(c, u - 1)
  BY <1>5, <1>12 DEF u
<1>23. Mix(c, u, u, packets)
  BY <1>4 DEF c, packets
<1> QED BY <1>1, <1>2, <1>10, <1>13, <1>15, <1>16, <1>18, <1>19, <1>20, <1>21, <1>22, <1>23, MixKeeps

\* The units of a buffer of which a part is pushed back.
LEMMA TimesBack ==
  ASSUME NEW n \in Ticks, NEW b \in Seq(Unit), NEW a \in Nat,
         NEW lo \in Int, NEW hi \in Int, hi + a <= Past + Future,
         Within(n, b, lo, hi), SortedAt(n, b),
         NEW ref \in Ticks, Since(n, ref) <= Past + Future, NEW i \in 1 .. Len(b)
  PROVE  LET c == pb_shift_units_back_after(b, ref, a) IN
         /\ Since(n, b[i].playout) > Since(n, ref) =>
              Since(n, c[i].playout) = Since(n, b[i].playout) + a
         /\ ~(Since(n, b[i].playout) > Since(n, ref)) => c[i] = b[i]
         /\ c[i].is = b[i].is
<1> DEFINE c == pb_shift_units_back_after(b, ref, a)
<1>0. Timed(Unit)
  BY BothTimed
<1>1. \A j \in 1 .. Len(b) :
              IF Since(n, b[j].playout) > Since(n, ref)
                THEN /\ pb_shift_units_back_after(b, ref, a)[j]
                          = [b[j] EXCEPT !.playout = ts_add(b[j].playout, a)]
                     /\ ts_add(b[j].playout, a) \in Ticks
                     /\ Since(n, pb_shift_units_back_after(b, ref, a)[j].playout) = Since(n, b[j].playout) + a
                ELSE pb_shift_units_back_after(b, ref, a)[j] = b[j]
  BY <1>0, ShiftedBack
<1>2. IF Since(n, b[i].playout) > Since(n, ref)
        THEN /\ c[i] = [b[i] EXCEPT !.playout = ts_add(b[i].playout, a)]
             /\ ts_add(b[i].playout, a) \in Ticks
             /\ Since(n, c[i].playout) = Since(n, b[i].playout) + a
        ELSE c[i] = b[i]
  BY <1>1
<1> HIDE DEF c
<1>3. b[i] \in Unit
  OBVIOUS
<1>4. c[i].is = b[i].is
  <2>1. CASE Since(n, b[i].playout) > Since(n, ref)
    <3>1. c[i] = [b[i] EXCEPT !.playout = ts_add(b[i].playout, a)]
      BY <1>2, <2>1
    <3> QED BY <3>1, <1>3 DEF Unit
  <2> QED BY <2>1, <1>2
<1> QED BY <1>2, <1>4 DEF c

\* All that is later is pushed back, and a unit made up put into the gap, behind the one
\* that is mixed.
LEMMA PushedBackIs ==
  ASSUME NEW n \in Ticks, NEW b \in Seq(Unit), NEW u \in 1 .. Len(b), NEW a \in Nat, a >= 1,
         NEW lo \in Int, NEW hi \in Int, hi + a <= Past + Future,
         Within(n, b, lo, hi), SortedAt(n, b), MixedTo(b, u - 1)
  PROVE  LET t == b[u].playout
             shifted == pb_shift_units_back_after(b, t, a)
             node == [playout |-> ts_add(t, a), is |-> "waiting"]
             c == pb_add(shifted, node)
         IN  /\ Moved(shifted, ts_add(t, a), u) = u
             /\ c \in Seq(Unit) /\ Len(c) = Len(b) + 1 /\ c[u].playout = t
             /\ Within(n, c, lo, hi + a) /\ SortedAt(n, c) /\ MixedTo(c, u - 1)
<1> DEFINE t == b[u].playout
           shifted == pb_shift_units_back_after(b, t, a)
           insert == ts_add(t, a)
           node == [playout |-> insert, is |-> "waiting"]
           c == pb_add(shifted, node)
           U == Since(n, t)
<1>1. Len(b) \in Nat /\ u \in Nat /\ Past + Future \in Nat /\ u \in 1 .. Len(b)
  BY CushionFits
<1>2. t \in Ticks /\ lo <= U /\ U <= hi
  BY DEF Within
<1>3. U \in Int
  BY <1>2, SinceTyped, HalfRange
<1>4. U <= Past + Future /\ U + a <= Past + Future
  <2> HIDE DEF U
  <2> QED BY <1>1, <1>2, <1>3
<1>5. insert \in Ticks /\ Since(n, insert) = U + a
  BY <1>2, <1>4, Added
<1>6. shifted \in Seq(Unit) /\ Len(shifted) = Len(b) /\ Within(n, shifted, lo, hi + a) /\ SortedAt(n, shifted)
  <2>1. Timed(Unit)
    BY BothTimed
  <2>2. shifted \in Seq(Unit) /\ Len(shifted) = Len(b)
    BY <2>1, <1>2, <1>4, ShiftedBack
  <2>3. Within(n, shifted, lo, hi + a)
    BY <2>1, <1>2, <1>4, ShiftedBack
  <2>4. SortedAt(n, shifted)
    BY <2>1, <1>2, <1>4, ShiftedBack
  <2> QED BY <2>2, <2>3, <2>4
<1>7. \A i \in 1 .. Len(b) :
        /\ Since(n, b[i].playout) > U => Since(n, shifted[i].playout) = Since(n, b[i].playout) + a
        /\ ~(Since(n, b[i].playout) > U) => shifted[i] = b[i]
        /\ shifted[i].is = b[i].is
  BY <1>2, <1>4, TimesBack
<1>8. \A i \in 1 .. Len(b) : Since(n, b[i].playout) \in Int
  BY SinceTyped, HalfRange DEF Within
<1> HIDE DEF U, insert, shifted
<1>9. \A i \in 1 .. Len(b) : i <= u => shifted[i] = b[i] /\ Since(n, shifted[i].playout) <= U
  <2> SUFFICES ASSUME NEW i \in 1 .. Len(b), i <= u
               PROVE shifted[i] = b[i] /\ Since(n, shifted[i].playout) <= U
    OBVIOUS
  <2>1. i = u => Since(n, b[i].playout) = U
    BY DEF U
  <2>2. i < u => Since(n, b[i].playout) < U
    BY <1>1 DEF SortedAt, U
  <2>3. Since(n, b[i].playout) \in Int /\ i \in Nat
    BY <1>8
  <2>4. Since(n, b[i].playout) <= U
    BY <1>1, <1>3, <2>1, <2>2, <2>3
  <2>5. shifted[i] = b[i]
    BY <1>3, <1>7, <2>3, <2>4
  <2> QED BY <2>4, <2>5
<1>10. \A i \in 1 .. Len(b) : i > u => Since(n, shifted[i].playout) > U + a
  <2> SUFFICES ASSUME NEW i \in 1 .. Len(b), i > u PROVE Since(n, shifted[i].playout) > U + a
    OBVIOUS
  <2>1. U < Since(n, b[i].playout)
    BY <1>1 DEF SortedAt, U
  <2>2. Since(n, b[i].playout) \in Int
    BY <1>8
  <2>3. Since(n, shifted[i].playout) = Since(n, b[i].playout) + a
    BY <1>3, <1>7, <2>1, <2>2
  <2> QED BY <1>3, <2>1, <2>2, <2>3
<1>11. InWindow(n, shifted)
  BY <1>6, InsideWindow
<1> DEFINE p == Place(shifted, insert)
<1>12. /\ p \in 0 .. Len(shifted)
       /\ \A i \in 1 .. Len(shifted) : i <= p => Since(n, shifted[i].playout) <= Since(n, insert)
       /\ \A i \in 1 .. Len(shifted) : i > p => Since(n, shifted[i].playout) > Since(n, insert)
       /\ Exists(shifted, insert) <=> \E i \in 1 .. Len(shifted) : shifted[i].playout = insert
  BY <1>4, <1>5, <1>6, <1>11, PlaceIs
<1> HIDE DEF p
<1>13. ~Exists(shifted, insert)
  <2> SUFFICES ASSUME NEW i \in 1 .. Len(b), shifted[i].playout = insert PROVE FALSE
    BY <1>6, <1>12
  <2>1. Since(n, shifted[i].playout) = U + a
    BY <1>5
  <2>2. i <= u => U + a <= U
    BY <1>9, <2>1
  <2>3. i > u => U + a > U + a
    BY <1>10, <2>1
  <2> QED BY <1>1, <1>3, <2>2, <2>3
<1>14. p = u
  <2>1. ~(p < u)
    <3> SUFFICES ASSUME p < u PROVE FALSE
      OBVIOUS
    <3>1. Since(n, shifted[u].playout) > U + a
      BY <1>1, <1>5, <1>6, <1>12
    <3>2. Since(n, shifted[u].playout) = U
      BY <1>1, <1>9 DEF U
    <3> QED BY <1>3, <3>1, <3>2
  <2>2. ~(p > u)
    <3> SUFFICES ASSUME p > u PROVE FALSE
      OBVIOUS
    <3>1. p \in 1 .. Len(b) /\ p <= p
      BY <1>1, <1>6, <1>12
    <3>2. Since(n, shifted[p].playout) <= U + a
      BY <1>5, <1>6, <1>12, <3>1
    <3>3. Since(n, shifted[p].playout) > U + a
      BY <1>10, <3>1
    <3>4. Since(n, shifted[p].playout) \in Int
      <4>1. shifted[p].playout \in Ticks
        BY <1>6, <3>1 DEF Within
      <4> QED BY <4>1, SinceTyped, HalfRange
    <3> QED BY <1>3, <3>2, <3>3, <3>4
  <2> QED BY <1>1, <1>6, <1>12, <2>1, <2>2
<1>15. Moved(shifted, insert, u) = u
  BY <1>1, <1>14 DEF Moved, p
<1>16. node \in Unit /\ node.playout = insert /\ node.is = "waiting"
  BY <1>5 DEF Unit
<1> HIDE DEF node
<1>17. /\ c \in Seq(Unit) /\ Len(c) = Len(b) + 1
  BY <1>4, <1>5, <1>6, <1>11, <1>13, <1>16, PbAdd
<1>18. \A i \in 1 .. Len(b) + 1 : c[i] = IF i <= u THEN shifted[i]
                                         ELSE IF i = u + 1 THEN node ELSE shifted[i - 1]
  <2>1. \A i \in 1 .. Len(shifted) + 1 :
           pb_add(shifted, node)[i] = IF i <= Place(shifted, insert) THEN shifted[i]
                                      ELSE IF i = Place(shifted, insert) + 1 THEN node ELSE shifted[i - 1]
    BY <1>4, <1>5, <1>6, <1>11, <1>13, <1>16, PbAdd
  <2>2. Place(shifted, insert) = u
    BY <1>14 DEF p
  <2> QED BY <1>6, <2>1, <2>2
<1>19. Within(n, c, lo, hi + a) /\ SortedAt(n, c)
  <2>1. lo <= Since(n, insert) /\ Since(n, insert) <= hi + a /\ hi + a \in Int
    BY <1>2, <1>3, <1>5 DEF U
  <2>2. Within(n, c, lo, hi + a)
    BY <1>5, <1>6, <1>16, <2>1, AddKeeps
  <2>3. SortedAt(n, c)
    BY <1>5, <1>6, <1>16, <2>1, AddKeeps
  <2> QED BY <2>2, <2>3
<1> HIDE DEF c
<1>20. c[u].playout = t
  <2>1. c[u] = shifted[u]
    BY <1>1, <1>18
  <2>2. shifted[u] = b[u]
    BY <1>1, <1>9
  <2> QED BY <2>1, <2>2
<1>21. MixedTo(c, u - 1)
  <2> SUFFICES ASSUME NEW i \in 1 .. Len(b) + 1
               PROVE c[i].is \in IF i <= u - 1 THEN {"mixed", "late"} ELSE {"waiting"}
    BY <1>17 DEF MixedTo
  <2>1. CASE i <= u
    <3>1. c[i] = shifted[i] /\ i \in 1 .. Len(b)
      BY <1>1, <1>18, <2>1
    <3>2. c[i].is = b[i].is
      BY <1>7, <3>1
    <3> QED BY <3>1, <3>2 DEF MixedTo
  <2>2. CASE i = u + 1
    <3>1. c[i] = node /\ ~(i <= u - 1)
      BY <1>1, <1>18, <2>2
    <3> QED BY <1>16, <3>1
  <2>3. CASE i > u + 1
    <3>1. c[i] = shifted[i - 1] /\ i - 1 \in 1 .. Len(b) /\ ~(i <= u - 1) /\ ~(i - 1 <= u - 1)
      BY <1>1, <1>18, <2>3
    <3>2. c[i].is = b[i - 1].is
      BY <1>7, <3>1
    <3> QED BY <3>1, <3>2 DEF MixedTo
  <2> QED BY <1>1, <2>1, <2>2, <2>3
<1> QED BY <1>15, <1>17, <1>19, <1>20, <1>21 DEF c, node, insert, shifted

\* What is later is pushed back by less than a unit.
LEMMA PushBackKeeps ==
  ASSUME IInv, Play, ~ts_gt(Fetched.buffer[media_pos + 1].playout, end_ts), PushBack(Fetched),
         at' = "play"
  PROVE  IInv'
<1>0. Typed /\ Channelled
  BY DEF IInv
<1>1. /\ at = "play" /\ ts_gt(end_ts, next_played) /\ media_pos < Len(media)
      /\ hold_repair' = 0 /\ failed' = FALSE
      /\ UNCHANGED <<now, pktbuf, begun, age, units_per_packet, playout, talkstart,
                     post_talkstart_units>>
  BY PlayTurn
<1>2. skew = "SLOW" /\ skew' = "NONE"
  BY DEF PushBack
<1> DEFINE b == Fetched.buffer  u == media_pos + 1  t == b[u].playout
<1>3. /\ Fetched.pos = u /\ Fetched.unit = u /\ b \in Seq(Unit) /\ u \in 1 .. Len(b)
      /\ Within(now, b, PlayLow, MediaEnd) /\ SortedAt(now, b) /\ MixedTo(b, media_pos)
  BY <1>1, FetchedIs
<1>4. PICK a \in 1 .. frame_dur - 1 :
        LET shifted == pb_shift_units_back_after(b, t, a)
            insert == ts_add(t, a)
            pos == Moved(shifted, insert, u) IN
        /\ transit' = ts_add(transit, a)
        /\ Mix(pb_add(shifted, [playout |-> insert, is |-> "waiting"]), pos, pos,
               pb_shift_units_back_after(channel, t, a))
  BY <1>3 DEF PushBack
<1>5. /\ a \in Nat /\ a < frame_dur /\ a >= 1 /\ frame_dur \in Nat /\ now \in Ticks /\ media_pos \in Nat
      /\ Past \in Nat /\ cushion \in Nat /\ Past + Future \in Nat
  BY <1>0, CushionFits DEF Typed
<1>6. PlayLow \in Int /\ PlayLow' \in Int /\ PlayLow' <= PlayLow
  <2>1. PlayLow \in Int
    BY <1>1, BeforePlay
  <2>2. PlayLow = Past - Stall - Hist /\ PlayLow' = Past - Stall - Hist - frame_dur
    BY <1>2 DEF PlayLow
  <2>3. Past - Stall - Hist \in Int
    BY <2>1, <2>2
  <2> QED BY <1>5, <2>1, <2>2, <2>3
<1>7. MediaEnd \in Int /\ ChannelEnd \in Int
  BY <1>0, EndsTyped
<1>8. /\ MediaEnd + frame_dur <= Past + Future /\ ChannelEnd + frame_dur <= Past + Future
      /\ UNCHANGED troubles => MediaEnd' = MediaEnd + frame_dur /\ ChannelEnd' = ChannelEnd + frame_dur
  BY <1>0, <1>2, DriftRoom
<1>9. MediaEnd + a <= Past + Future /\ ChannelEnd + a <= Past + Future
  BY <1>5, <1>7, <1>8
<1> DEFINE shifted == pb_shift_units_back_after(b, t, a)
           node == [playout |-> ts_add(t, a), is |-> "waiting"]
           c == pb_add(shifted, node)
           packets == pb_shift_units_back_after(channel, t, a)
<1>10. MixedTo(b, u - 1) /\ u - 1 = media_pos
  BY <1>3, <1>5
<1> HIDE DEF b, u
<1>11. /\ Moved(shifted, ts_add(t, a), u) = u
       /\ c \in Seq(Unit) /\ Len(c) = Len(b) + 1 /\ c[u].playout = t
       /\ Within(now, c, PlayLow, MediaEnd + a) /\ SortedAt(now, c) /\ MixedTo(c, u - 1)
  BY <1>3, <1>5, <1>6, <1>7, <1>9, <1>10, PushedBackIs
<1>12. /\ t \in Ticks /\ Since(now, t) \in Int /\ Since(now, t) <= Past + cushion
       /\ Past - Stall - Reach <= Since(now, t)
  BY <1>1, <1>2, UnitPlayed DEF b, u
<1>13. /\ Within(now, channel, Past + cushion + 1, ChannelEnd) /\ SortedAt(now, channel)
       /\ channel \in Seq(Packet) /\ transit \in Ticks
  BY <1>0, <1>1, <1>2 DEF Channelled, Typed
<1>14. /\ packets \in Seq(Packet) /\ SortedAt(now, packets)
       /\ Within(now, packets, Past + cushion + 1, ChannelEnd + a)
  <2>1. Timed(Packet) /\ Past + cushion + 1 \in Int /\ Since(now, t) <= Past + Future
    <3>1. Past + cushion <= Past + Future
      BY CushionFits
    <3> QED BY <1>5, <1>12, <3>1, BothTimed
  <2>2. packets \in Seq(Packet)
    BY <1>5, <1>7, <1>9, <1>12, <1>13, <2>1, ShiftedBack
  <2>3. SortedAt(now, packets)
    BY <1>5, <1>7, <1>9, <1>12, <1>13, <2>1, ShiftedBack
  <2>4. Within(now, packets, Past + cushion + 1, ChannelEnd + a)
    BY <1>5, <1>7, <1>9, <1>12, <1>13, <2>1, ShiftedBack
  <2> QED BY <2>2, <2>3, <2>4
<1>15. Mix(c, u, u, packets) /\ transit' = ts_add(transit, a)
  BY <1>4, <1>11
<1>16. transit' \in Ticks
  <2>1. a < Wrap
    BY <1>5, FrameIsSmall, HalfRange
  <2> QED BY <1>5, <1>13, <1>15, <2>1, AddTyped
<1> HIDE DEF c, packets, t
<1>17. UNCHANGED troubles => Within(now, c, PlayLow', MediaEnd')
  <2> SUFFICES ASSUME UNCHANGED troubles PROVE Within(now, c, PlayLow', MediaEnd')
    OBVIOUS
  <2>1. MediaEnd' \in Int /\ MediaEnd + a \in Int /\ MediaEnd + a <= MediaEnd'
    BY <1>5, <1>7, <1>8
  <2> QED BY <1>5, <1>6, <1>11, <2>1, Wider
<1>18. UNCHANGED troubles => Within(now, packets, Past + cushion - frame_dur + 2, ChannelEnd')
  <2> SUFFICES ASSUME UNCHANGED troubles
               PROVE Within(now, packets, Past + cushion - frame_dur + 2, ChannelEnd')
    OBVIOUS
  <2>1. /\ Past + cushion - frame_dur + 2 \in Int /\ Past + cushion + 1 \in Int
        /\ Past + cushion - frame_dur + 2 <= Past + cushion + 1
    BY <1>5
  <2>2. ChannelEnd' \in Int /\ ChannelEnd + a \in Int /\ ChannelEnd + a <= ChannelEnd'
    BY <1>5, <1>7, <1>8
  <2> QED BY <1>5, <1>14, <2>1, <2>2, Wider
<1>19. /\ u \in 1 .. Len(c) /\ c[u].playout \in Ticks /\ Since(now, c[u].playout) <= Past + cushion
       /\ Past - Stall - Reach <= Since(now, c[u].playout) + frame_dur
  <2>1. u \in 1 .. Len(c)
    BY <1>3, <1>11
  <2>2. Past - Stall - Reach \in Int
    BY Distances
  <2> QED BY <1>5, <1>11, <1>12, <2>1, <2>2
<1> QED BY <1>1, <1>2, <1>11, <1>14, <1>15, <1>16, <1>17, <1>18, <1>19, MixKeeps

\* A turn of the loop that mixes: a unit is left, mixed, or adapted to a skew.
LEMMA PlayKeeps == ASSUME IInv, Play PROVE IInv'
  BY PlayTurn, LeaveKeeps, NoAdjustmentKeeps, BringForwardKeeps, PushBackKeeps

\* The invariant is inductive.
LEMMA Inductive == ASSUME IInv, [Next]_vars PROVE IInv'
<1>1. CASE UNCHANGED vars
  BY <1>1, Stutters
<1> QED BY <1>1, ReceivePacketKeeps, RoundKeeps, RemovedKeeps, ProcessPacketKeeps, PacketsProcessedKeeps,
           DecodeKeeps, PlayKeeps, PlayedKeeps, AuditKeeps DEF Next

\* So it always holds.
LEMMA InductiveInvariant == Spec => []IInv
<1>1. Init => IInv
  BY Initially
<1>2. IInv /\ [Next]_vars => IInv'
  BY Inductive
<1> QED BY <1>1, <1>2, PTL DEF Spec

-----------------------------------------------------------------------------
(***************************************************************************)
(* The theorems.                                                           *)
(***************************************************************************)

\* The invariant gives the types; playout is less than half of the range.
LEMMA TypesFollow == ASSUME IInv PROVE TypeOK
<1>0. Typed
  BY DEF IInv
<1>1. playout \in Ticks
  <2>1. /\ Mixed + transit_jump <= Future /\ Future < half_range /\ Mixed + transit_jump \in Nat /\ Future \in Nat
    <3>1. /\ Mixed \in Nat /\ transit_jump \in Nat /\ Lead = Mixed + 2 * transit_jump /\ Past \in Nat
          /\ Past + Future < half_range /\ Future \in Nat /\ cushion \in Nat
      BY MixedIs, Params, Windows
    <3>2. Past + Lead <= Past + Future
      <4>1. ChannelEnd <= Past + Future /\ ChannelEnd = Past + Lead + Drift /\ Drift \in Nat
        BY <1>0, EndsTyped
      <4> QED BY <3>1, <4>1
    <3>3. half_range \in Nat
      BY HalfRange
    <3> QED BY <3>1, <3>2, <3>3
  <2> QED BY <1>0, <2>1, HalfRange DEF Typed, Ticks
<1>2. \A i \in DOMAIN pktbuf : pktbuf[i] \in [playout : Ticks, units : 1 .. MaxUnits]
  <2>1. pktbuf \in Seq(Packet)
    BY <1>0 DEF Typed
  <2>2. \A i \in DOMAIN pktbuf : pktbuf[i] \in Packet
    BY <2>1
  <2> QED BY <2>2 DEF Packet
<1>3. \A i \in DOMAIN channel : channel[i] \in [playout : Ticks, units : 1 .. MaxUnits]
  <2>1. channel \in Seq(Packet)
    BY <1>0 DEF Typed
  <2>2. \A i \in DOMAIN channel : channel[i] \in Packet
    BY <2>1
  <2> QED BY <2>2 DEF Packet
<1>4. \A i \in DOMAIN media : media[i] \in [playout : Ticks, is : {"waiting", "late", "mixed", "again"}]
  <2>1. media \in Seq(Unit)
    BY <1>0 DEF Typed
  <2>2. \A i \in DOMAIN media : media[i] \in Unit
    BY <2>1
  <2> QED BY <2>2 DEF Unit
<1> QED BY <1>0, <1>1, <1>2, <1>3, <1>4 DEF Typed, TypeOK

\* The variables have their types: no time leaves its range, no iterator its buffer, no
\* counter its bound, for any packets (source.c, playout.c).
THEOREM TypeCorrect == Spec => []TypeOK
  BY TypesFollow, InductiveInvariant, PTL

\* The invariant gives the order: sorted in the window is sorted as the code compares.
LEMMA OrderFollows == ASSUME IInv PROVE BuffersInOrder
<1>0. Typed /\ Queued /\ Channelled /\ Kept
  BY DEF IInv
<1>1. /\ now \in Ticks /\ pktbuf \in Seq(Packet) /\ channel \in Seq(Packet) /\ media \in Seq(Unit)
      /\ MediaEnd \in Int /\ ChannelEnd \in Int /\ Past \in Int /\ Past + Future \in Int
      /\ MediaEnd <= Past + Future /\ ChannelEnd <= Past + Future /\ Past <= Past + Future
  <2>1. /\ MediaEnd \in Int /\ ChannelEnd \in Int
        /\ MediaEnd <= Past + Future /\ ChannelEnd <= Past + Future
    BY <1>0, EndsTyped
  <2>2. Past \in Int /\ Past + Future \in Int /\ Past <= Past + Future
    BY Windows
  <2> QED BY <1>0, <2>1, <2>2 DEF Typed
<1>2. Ordered(pktbuf)
  <2>1. InWindow(now, pktbuf)
    <3> SUFFICES ASSUME NEW i \in 1 .. Len(pktbuf)
                 PROVE  pktbuf[i].playout \in Ticks /\ Since(now, pktbuf[i].playout) <= Past + Future
      BY DEF InWindow
    <3>1. pktbuf[i].playout \in Ticks /\ Since(now, pktbuf[i].playout) <= Past
      BY <1>0 DEF Queued, Within
    <3>2. Since(now, pktbuf[i].playout) \in Int
      BY <1>1, <3>1, SinceTyped, HalfRange
    <3> QED BY <1>1, <3>1, <3>2
  <2> QED BY <1>0, <1>1, <2>1, InOrder DEF Queued
<1>3. Ordered(channel)
  <2>1. InWindow(now, channel)
    <3> SUFFICES ASSUME NEW i \in 1 .. Len(channel)
                 PROVE  channel[i].playout \in Ticks /\ Since(now, channel[i].playout) <= Past + Future
      BY DEF InWindow
    <3>1. channel[i].playout \in Ticks /\ Since(now, channel[i].playout) <= ChannelEnd
      BY <1>0 DEF Channelled, Within
    <3>2. Since(now, channel[i].playout) \in Int
      BY <1>1, <3>1, SinceTyped, HalfRange
    <3> QED BY <1>1, <3>1, <3>2
  <2> QED BY <1>0, <1>1, <2>1, InOrder DEF Channelled
<1>4. Ordered(media)
  <2>1. InWindow(now, media)
    <3> SUFFICES ASSUME NEW i \in 1 .. Len(media)
                 PROVE  media[i].playout \in Ticks /\ Since(now, media[i].playout) <= Past + Future
      BY DEF InWindow
    <3>1. media[i].playout \in Ticks /\ Since(now, media[i].playout) <= MediaEnd
      BY <1>0 DEF Kept, Within, Typed
    <3>2. Since(now, media[i].playout) \in Int
      BY <1>1, <3>1, SinceTyped, HalfRange
    <3> QED BY <1>1, <3>1, <3>2
  <2> QED BY <1>0, <1>1, <2>1, InOrder DEF Kept
<1> QED BY <1>2, <1>3, <1>4 DEF BuffersInOrder

\* pb_validate never fails: the buffers stay in the order of their times through every
\* insertion, shift and removal, and when time wraps (playout.c:59).
THEOREM StaysInOrder == Spec => []BuffersInOrder
  BY OrderFollows, InductiveInvariant, PTL

\* The assertions about playout times and repairs never fail, and no repair is held
\* back for want of a place (source.c:683, 893, 1427, 1534).
THEOREM AssertionsHold == Spec => []NoAssertionFails
<1>1. IInv => NoAssertionFails
  BY DEF IInv, Typed, NoAssertionFails
<1> QED BY <1>1, InductiveInvariant, PTL

\* No unit is mixed twice, and the iterator passes none that was in time without mixing
\* it (source.c:1544).
THEOREM MixedOnce == Spec => []EachMixedOnce
<1>1. IInv => EachMixedOnce
  BY DEF IInv, Typed, MixedTo, EachMixedOnce
<1> QED BY <1>1, InductiveInvariant, PTL

\* What is due is mixed, since Done says where the rest is.
LEMMA DueFollows == ASSUME IInv PROVE DueIsMixed
<1> SUFFICES ASSUME at = "receive", ts_gt(end_ts, next_played)
             PROVE  /\ \A i \in media_pos + 1 .. Len(media) : ~ts_gt(end_ts, media[i].playout)
                    /\ \A i \in DOMAIN channel : ~ts_gt(end_ts, ts_add(channel[i].playout, frame_dur - 1))
  BY DEF DueIsMixed
<1>0. Typed /\ Begins /\ Mixes /\ Channelled /\ Done
  BY DEF IInv
<1>1. CASE ~begun
  <2>1. channel = <<>> /\ media = <<>> /\ media_pos \in Nat
    BY <1>0, <1>1 DEF Begins, Typed
  <2> QED BY <2>1
<1>2. CASE begun
  <2>1. /\ now \in Ticks /\ next_played \in Ticks /\ media_pos \in Nat /\ Len(media) \in Nat
        /\ channel \in Seq(Packet)
    BY <1>0 DEF Typed
  <2>2. /\ end_ts \in Ticks /\ Since(now, end_ts) = Past + cushion
        /\ Past + cushion <= Past + Future /\ Past + Future \in Nat /\ Past + cushion \in Nat
    BY <1>0, EndTime
  <2>3. Due < Past + cushion
    <3>1. Due <= Past + Future
      <4>1. Due <= Past + Mixed + 1
        BY <1>0, <1>2 DEF Mixes
      <4>2. Past + Mixed + 1 <= Past + Future /\ Past + Mixed + 1 \in Int /\ Due \in Int
        BY <1>0, CushionFits, MixedIs, DueTyped
      <4> QED BY <2>2, <4>1, <4>2
    <3>2. Since(now, end_ts) > Due
      BY <2>1, <2>2, <3>1, Later DEF Due
    <3> QED BY <2>2, <3>2
  <2>4. ASSUME NEW i \in media_pos + 1 .. Len(media) PROVE ~ts_gt(end_ts, media[i].playout)
    <3>1. i \in 1 .. Len(media) /\ i > media_pos
      BY <2>1
    <3>2. Past + cushion <= Since(now, media[i].playout)
      BY <1>0, <2>3, <3>1 DEF Done
    <3>3. /\ media[i].playout \in Ticks /\ Since(now, media[i].playout) \in Int
          /\ Since(now, media[i].playout) <= Past + Future
      BY <1>2, <3>1, MediaTimes
    <3>4. ~(Since(now, end_ts) > Since(now, media[i].playout))
      BY <2>2, <3>2, <3>3
    <3> QED BY <2>1, <2>2, <3>3, <3>4, Later
  <2>5. ASSUME NEW i \in DOMAIN channel
        PROVE  ~ts_gt(end_ts, ts_add(channel[i].playout, frame_dur - 1))
    <3>1. i \in 1 .. Len(channel)
      BY <2>1
    <3> DEFINE s == Since(now, channel[i].playout)
    <3>2. /\ channel[i].playout \in Ticks /\ Past + cushion - frame_dur + 2 <= s /\ s <= ChannelEnd
      BY <1>0, <3>1 DEF Channelled, Within
    <3>3. s \in Int
      BY <2>1, <3>2, SinceTyped, HalfRange
    <3>4. ChannelEnd + frame_dur - 1 <= Past + Future /\ ChannelEnd \in Int
      <4>1. ChannelEnd \in Int /\ ChannelEnd = Past + Lead + Drift
        BY <1>0, EndsTyped
      <4>2. MediaEnd = Past + cushion + MaxUnits * frame_dur + Drift
        BY <1>0, EndsTyped
      <4>3. Drift \in Nat /\ Drift <= MaxTroubles * frame_dur
        BY <1>0, Drifts DEF Typed, Drift
      <4>4. frame_dur <= MaxUnits * frame_dur
        <5>1. 1 * frame_dur <= MaxUnits * frame_dur
          BY Params, LessTimes
        <5>2. 1 * frame_dur = frame_dur
          BY Params
        <5> QED BY <5>1, <5>2
      <4>5. /\ Future = Lead + cushion + MaxUnits * frame_dur + MaxTroubles * frame_dur
            /\ MaxUnits * frame_dur \in Nat /\ MaxTroubles * frame_dur \in Nat /\ Lead \in Nat
            /\ cushion \in Nat /\ Past \in Nat /\ frame_dur \in Nat
        BY Windows, Products, Params
      <4> DEFINE g == MaxUnits * frame_dur  e == MaxTroubles * frame_dur
      <4>6. /\ Future = Lead + cushion + g + e /\ g \in Nat /\ e \in Nat /\ frame_dur <= g /\ Drift <= e
        BY <4>3, <4>4, <4>5
      <4> HIDE DEF g, e
      <4> QED BY <4>1, <4>3, <4>5, <4>6
    <3>5. frame_dur \in Nat /\ frame_dur >= 1 /\ Past \in Nat /\ cushion \in Nat
      BY Params, Windows
    <3> DEFINE t == ts_add(channel[i].playout, frame_dur - 1)
    <3>6. t \in Ticks /\ Since(now, t) = s + (frame_dur - 1) /\ s + (frame_dur - 1) <= Past + Future
      <4>1. s + (frame_dur - 1) <= Past + Future
        <5> HIDE DEF s
        <5> QED BY <2>2, <3>2, <3>3, <3>4, <3>5
      <4>2. frame_dur - 1 \in Nat
        BY <3>5
      <4>3. t \in Ticks /\ Since(now, t) = s + (frame_dur - 1)
        BY <2>1, <3>2, <4>1, <4>2, Added
      <4> QED BY <4>1, <4>3
    <3> HIDE DEF s, t
    <3>7. Since(now, t) <= Past + Future /\ ~(Since(now, end_ts) > Since(now, t))
      BY <2>2, <3>2, <3>3, <3>5, <3>6
    <3>8. ~ts_gt(end_ts, t)
      BY <2>1, <2>2, <3>6, <3>7, Later
    <3> QED BY <3>8 DEF t
  <2> QED BY <2>4, <2>5
<1> QED BY <1>1, <1>2

\* A round leaves nothing behind that was due in it (source.c:1512, cc_vanilla.c:245).
THEOREM NothingDueWaits == Spec => []DueIsMixed
  BY DueFollows, InductiveInvariant, PTL

\* A turn that goes on adapts, mixes a unit that was there or fills the gap before it.
LEMMA TurnAdvances ==
  ASSUME IInv, Play, at' = "play"
  PROVE  \/ skew # "NONE" /\ skew' = "NONE"
         \/ Ahead' < Ahead
         \/ Ahead' = Ahead /\ next_played' = ts_add(next_played, frame_dur)
<1>1. /\ at = "play" /\ ts_gt(end_ts, next_played) /\ media_pos < Len(media)
      /\ NoAdjustment(Fetched) \/ BringForward(Fetched) \/ PushBack(Fetched)
  BY PlayTurn
<1>2. CASE BringForward(Fetched) \/ PushBack(Fetched)
  BY <1>2 DEF BringForward, PushBack
<1>3. CASE NoAdjustment(Fetched)
  <2>0. Typed
    BY DEF IInv
  <2> DEFINE c == Fetched.buffer  u == media_pos + 1
  <2>1. /\ Fetched.pos = u /\ Fetched.unit = u /\ c \in Seq(Unit) /\ u \in 1 .. Len(c)
        /\ Within(now, c, PlayLow, MediaEnd) /\ SortedAt(now, c) /\ MixedTo(c, media_pos)
        /\ \/ Fetched.repaired = FALSE /\ c = media
           \/ /\ Fetched.repaired = TRUE
              /\ c[u].playout = next_played
              /\ Len(c) = Len(media) + 1
    BY <1>1, FetchedIs
  <2>2. Mix(c, u, u, channel)
    BY <1>3, <2>1 DEF NoAdjustment
  <2>3. media_pos \in Nat /\ Len(media) \in Nat /\ now \in Ticks
    BY <2>0 DEF Typed
  <2>4. Len(Marked(c, u)) = Len(c)
    <3>1. MixedTo(c, u - 1)
      BY <2>1, <2>3
    <3> HIDE DEF c, u
    <3> QED BY <2>1, <2>3, <3>1, MarkedKeeps
  <2>5. CASE media' = <<>> /\ media_pos' = 0
    BY <1>1, <2>3, <2>5 DEF Ahead
  <2>6. CASE media' = Marked(c, u) /\ media_pos' = u
    <3>1. Len(media') = Len(c) /\ Ahead' = Len(c) - (media_pos + 1)
      BY <2>4, <2>6 DEF Ahead
    <3>2. next_played' = ts_add(c[u].playout, frame_dur)
      BY <2>2 DEF Mix
    <3>3. CASE c = media
      BY <1>1, <2>3, <3>1, <3>3 DEF Ahead
    <3>4. CASE c[u].playout = next_played /\ Len(c) = Len(media) + 1
      BY <2>3, <3>1, <3>2, <3>4 DEF Ahead
    <3> QED BY <2>1, <3>3, <3>4
  <2> QED BY <2>2, <2>5, <2>6 DEF Mix
<1> QED BY <1>1, <1>2, <1>3

\* Every turn of the loop that mixes gets on: it adapts to the skew, leaves fewer units
\* ahead or fills the gap before the next one from its beginning (source.c:1517-1663).
THEOREM MixingAdvances == Spec => PlayAdvances
<1>1. ASSUME IInv, [Next]_vars, at = "play", at' = "play", ~UNCHANGED vars
      PROVE  \/ skew # "NONE" /\ skew' = "NONE"
             \/ Ahead' < Ahead
             \/ Ahead' = Ahead /\ next_played' = ts_add(next_played, frame_dur)
  <2>1. Play
    BY <1>1 DEF Next, ReceivePacket, Round, Removed, ProcessPacket, PacketsProcessed, Decode, Played,
                source_audit
  <2> QED BY <1>1, <2>1, TurnAdvances
<1>2. IInv /\ [Next]_vars =>
        [at = "play" /\ at' = "play" =>
           \/ skew # "NONE" /\ skew' = "NONE"
           \/ Ahead' < Ahead
           \/ Ahead' = Ahead /\ next_played' = ts_add(next_played, frame_dur)]_vars
  BY <1>1
<1> QED BY <1>2, InductiveInvariant, PTL DEF Spec, PlayAdvances
=============================================================================
