----------------------------- MODULE Timestamp -----------------------------
(* RAT's timestamps (rat/ts.c) in one timebase: ticks modulo Wrap. *)
EXTENDS Naturals

CONSTANT Wrap  \* tickers[].wrap

ASSUME TickerParameters == Wrap \in Nat /\ Wrap >= 4 /\ Wrap % 2 = 0

Ticks == 0 .. Wrap - 1

half_range == Wrap \div 2

\* t1 is later than t2, by less than half of the range.
ts_gt(t1, t2) == IF t1 > t2 THEN t1 - t2 < half_range ELSE t2 - t1 > half_range

ts_add(t1, t2) == (t1 + t2) % Wrap

ts_sub(t1, t2) == IF t1 < t2 THEN t1 + Wrap - t2 ELSE t1 - t2

ts_abs_diff(t1, t2) == IF ts_gt(t1, t2) THEN ts_sub(t1, t2) ELSE ts_sub(t2, t1)
=============================================================================
