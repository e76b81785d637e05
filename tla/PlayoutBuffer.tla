--------------------------- MODULE PlayoutBuffer ---------------------------
(***************************************************************************)
(* RAT's playout buffer (rat/playout.c): a list of nodes in the order of   *)
(* their playout times, and iterators that point to a node.  A buffer is a *)
(* sequence of records with a field playout, and an iterator the index of  *)
(* its node: 0 for the sentinel, which links the head and the tail.        *)
(***************************************************************************)
EXTENDS Timestamp, Sequences

\* pb_validate: each node is later than the one before.
Ordered(buffer) == \A i \in 1 .. Len(buffer) - 1 : ts_gt(buffer[i + 1].playout, buffer[i].playout)

\* pb_add walks from the tail past the nodes that are later than playout; p is
\* the node it stops at.
StopsAt(buffer, playout, p) == /\ \A i \in p + 1 .. Len(buffer) : ts_gt(buffer[i].playout, playout)
                               /\ p # 0 => ~ts_gt(buffer[p].playout, playout)

Place(buffer, playout) == CHOOSE p \in 0 .. Len(buffer) : StopsAt(buffer, playout, p)

Exists(buffer, playout) == LET p == Place(buffer, playout) IN
                           p # 0 /\ buffer[p].playout = playout

\* Mutant: a unit that is there already is added again.
pb_add_Twice(buffer, node) ==
  LET p == Place(buffer, node.playout) IN
    SubSeq(buffer, 1, p) \o <<node>> \o SubSeq(buffer, p + 1, Len(buffer))

pb_add(buffer, node) ==
  LET p == Place(buffer, node.playout) IN
  IF Exists(buffer, node.playout) THEN buffer
  ELSE SubSeq(buffer, 1, p) \o <<node>> \o SubSeq(buffer, p + 1, Len(buffer))

\* Where an iterator's node is after pb_add.
Moved(buffer, playout, pi) ==
  IF ~Exists(buffer, playout) /\ Place(buffer, playout) < pi THEN pi + 1 ELSE pi

pb_iterator_advance(buffer, pi) == IF pi < Len(buffer) THEN pi + 1 ELSE pi

pb_iterator_retreat(pi) == IF pi > 1 THEN pi - 1 ELSE pi

pb_shift_forward(buffer, delta) ==
  [i \in DOMAIN buffer |-> [buffer[i] EXCEPT !.playout = ts_sub(@, delta)]]

\* From the tail, while the nodes are later than ref_ts.
pb_shift_units_back_after(buffer, ref_ts, delta) ==
  [i \in DOMAIN buffer |->
     IF \A j \in i .. Len(buffer) : ts_gt(buffer[j].playout, ref_ts)
       THEN [buffer[i] EXCEPT !.playout = ts_add(@, delta)] ELSE buffer[i]]

\* pb_iterator_audit removes n nodes from the head: those before the node of the
\* iterator by more than the history.
Audited(buffer, pi, history_len, n) ==
  IF pi = 0 THEN n = 0
  ELSE LET cutoff == ts_sub(buffer[pi].playout, history_len) IN
       /\ \A i \in 1 .. n : ts_gt(cutoff, buffer[i].playout)
       /\ ~ts_gt(cutoff, buffer[n + 1].playout)

\* The tail is not over yet.
pb_relevant(buffer, now) == buffer # <<>> /\ ~ts_gt(now, buffer[Len(buffer)].playout)
=============================================================================
