------------------------------- MODULE Source -------------------------------
(***************************************************************************)
(* A source of audio in RAT (rat/source.c with pktbuf.c, playout.c, ts.c   *)
(* and the plain channel coder): packets queue up in pktbuf; each round of *)
(* the main loop gives them a playout time, puts them into channel, splits *)
(* them into units in media, and mixes the units that are due, repairing   *)
(* gaps and adapting to clock skew, while time wraps round.                *)
(*                                                                         *)
(* The engine is one thread; an action is one turn of one of its loops.    *)
(***************************************************************************)
EXTENDS PlayoutBuffer, FiniteSetsExt

CONSTANTS frame_dur,      \* duration of a unit
          MaxUnits,       \* bound: units in a packet
          Ages,           \* bound: transit times of packets
          Elapsed,        \* bound: times between two rounds
          Start,          \* the time the model begins
          Ends,           \* bound: times at which it ends; {}: at none
          Stall,          \* bound: how long a source is kept that nothing is played of
          MaxTroubles,    \* bound: talkspurts, skews, refusals and removals
          Delays,         \* what playout_calc answers at the start of a talkspurt
          cushion,        \* audio mixed ahead of time
          max_packets, history_ts, keep_source_ts, repair_max_gap, transit_jump,
          Sane,           \* sanity_check_playout_time: 10 s
          Fresh,          \* rounds a source is kept whatever it does (20)
          SkewAfter,      \* packets after which skew is looked at (20)
          RepairAfter     \* packets after which a talkspurt is a long one (100)

ASSUME SourceParameters ==
  /\ {frame_dur, MaxUnits, cushion, max_packets, history_ts, keep_source_ts,
      repair_max_gap, transit_jump, Sane, Fresh} \subseteq Nat \ {0}
  /\ {MaxTroubles, SkewAfter, RepairAfter, Stall} \subseteq Nat /\ SkewAfter <= RepairAfter
  /\ \A S \in {Ages, Elapsed, Delays} : S # {} /\ S \subseteq 0 .. half_range
  /\ 0 \notin Elapsed /\ Start \in Ticks

\* A packet gets a playout time ahead of now by at most Lead.  At that time what was
\* mixed ends in less than Mixed; packets jump by transit_jump before they are given
\* another transit time.
Mixed == Max({cushion + frame_dur - 1, Max(Delays)})
Lead == Mixed + 2 * transit_jump

\* How far from now the times kept lie: what was played and what is to be played.
Past == Max(Ages) + Max(Elapsed) + Stall + history_ts + 2 * Mixed + 5 * frame_dur + transit_jump
Future == Lead + cushion + (MaxUnits + MaxTroubles) * frame_dur

\* Playout times pass the test of sanity, and no two times that are compared lie half
\* of the range apart, which ts.c takes to be ample (ts.c:36).
ASSUME WindowParameters == Lead < Sane /\ Past + Future < half_range

VARIABLES at,          \* where the main loop is
          now,         \* cur_ts
          pktbuf,      \* packets received, by their timestamps
          channel,     \* packets with their playout times
          media,       \* units; is: whether a unit waits, came too late, is mixed
          media_pos,   \* iterator of media: the unit mixed last
          begun,       \* packets_done > 0
          age, units_per_packet, transit, playout, talkstart, post_talkstart_units,
          next_played, hold_repair, skew,
          failed,      \* an assertion of the code failed
          troubles

timing == <<units_per_packet, transit, playout, talkstart, post_talkstart_units>>
vars == <<at, now, pktbuf, channel, media, media_pos, begun, age, timing, next_played,
          hold_repair, skew, failed, troubles>>

Init ==
  /\ at = "receive" /\ now = Start /\ failed = FALSE /\ troubles = 0
  /\ pktbuf = <<>> /\ channel = <<>> /\ media = <<>> /\ media_pos = 0
  /\ begun = FALSE /\ age = 0 /\ units_per_packet = 0
  /\ transit = 0 /\ playout = 0 /\ talkstart = 0 /\ post_talkstart_units = 0
  /\ next_played = 0 /\ hold_repair = 0 /\ skew = "NONE"

end_ts == ts_add(now, cushion)

Trouble == troubles < MaxTroubles /\ troubles' = troubles + 1

UpTo(n, bound) == IF n < bound THEN n ELSE bound
-----------------------------------------------------------------------------
\* Mutant: the buffer has no limit.
pktbuf_enqueue_NoLimit(queue, packet) == pb_add(queue, packet)

\* A packet whose timestamp is there already is not queued; of too many packets the
\* oldest goes.
pktbuf_enqueue(queue, packet) ==
  LET longer == pb_add(queue, packet) IN
  IF Len(longer) > max_packets THEN Tail(longer) ELSE longer

\* process_rtp_data, source_add_packet
ReceivePacket ==
  /\ at = "receive"
  /\ \E t \in Ages, units \in 1 .. MaxUnits :
       pktbuf' = pktbuf_enqueue(pktbuf, [playout |-> ts_sub(now, t), units |-> units])
  /\ UNCHANGED <<at, now, channel, media, media_pos, begun, age, timing, next_played,
                 hold_repair, skew, failed, troubles>>

source_relevant(time) ==
  \/ pb_relevant(media, time) \/ pb_relevant(channel, time) \/ age + 1 < Fresh
  \/ begun /\ ts_gt(keep_source_ts, ts_sub(time, next_played))

Stalled(time) == begun /\ ts_gt(time, next_played) /\ ts_sub(time, next_played) > Stall

\* The main loop comes to its sources: time has passed.
Round ==
  /\ at = "receive" /\ now \notin Ends
  /\ \E elapsed \in Elapsed :
       now' = ts_add(now, elapsed) /\ source_relevant(now') /\ ~Stalled(now')
  /\ at' = "packets"
  /\ age' = UpTo(age + 1, Fresh)
  \* source_check_buffering compares running averages: any outcome
  /\ \/ skew' = (IF post_talkstart_units < SkewAfter THEN skew ELSE "NONE")
        /\ UNCHANGED troubles
     \/ post_talkstart_units >= SkewAfter /\ skew' \in {"FAST", "SLOW"} /\ Trouble
  /\ UNCHANGED <<pktbuf, channel, media, media_pos, begun, timing, next_played, hold_repair,
                 failed>>

\* source_remove: the source is not relevant any more, it said goodbye, or the
\* output is muted or unmuted.
Removed ==
  /\ at = "receive" /\ now \notin Ends
  /\ \E elapsed \in Elapsed \cup {0} :
       /\ now' = ts_add(now, elapsed)
       /\ elapsed # 0 => ~source_relevant(now')
  /\ pktbuf' = <<>> /\ channel' = <<>> /\ media' = <<>> /\ media_pos' = 0
  /\ begun' = FALSE /\ age' = 0 /\ units_per_packet' = 0
  /\ transit' = 0 /\ playout' = 0 /\ talkstart' = 0 /\ post_talkstart_units' = 0
  /\ next_played' = 0 /\ hold_repair' = 0 /\ skew' = "NONE"
  /\ Trouble
  /\ UNCHANGED <<at, failed>>
-----------------------------------------------------------------------------
\* Mutant: without the little more.
PushedBack_ToNow(time) == IF ts_gt(time, now) THEN 0 ELSE ts_sub(now, time)

\* How far a packet that starts a talkspurt too late is pushed back: to now, and then
\* a little more.
PushedBack(time) == IF ts_gt(time, now) THEN 0 ELSE ts_add(ts_sub(now, time), frame_dur)

\* source_process_packets, one packet: its playout time.
ProcessPacket ==
  /\ at = "packets" /\ pktbuf # <<>>
  /\ \E newSpurt \in BOOLEAN, averaged \in BOOLEAN, delay \in Delays \cup {playout} :
       LET p == IF begun THEN Head(pktbuf) ELSE pktbuf[Len(pktbuf)]
           reconfigure == ~begun \/ p.units # units_per_packet
           transit_ == ts_sub(now, p.playout)
           reset == ~begun \/ ts_gt(ts_abs_diff(transit_, transit), transit_jump)
           adjust == reconfigure \/ reset \/ newSpurt
           estimate == IF reset \/ (adjust /\ averaged) THEN transit_ ELSE transit
           delay_ == IF adjust THEN delay ELSE playout
           desired == ts_add(p.playout, ts_add(estimate, delay_))
           shortfall == IF adjust THEN PushedBack(desired) ELSE 0
           pushed == ts_add(desired, shortfall)
           overlap == IF adjust /\ begun /\ ts_gt(next_played, pushed)
                        THEN ts_sub(next_played, pushed) ELSE 0
           time == ts_add(pushed, overlap)
           late == ts_gt(now, time)
           kept == IF reconfigure THEN <<>> ELSE channel IN
       /\ ~adjust => ~averaged /\ delay = playout
       /\ IF newSpurt THEN Trouble ELSE UNCHANGED troubles
       /\ pktbuf' = IF begun THEN Tail(pktbuf) ELSE <<>>
       /\ begun' = TRUE
       /\ units_per_packet' = p.units
       /\ transit' = estimate
       /\ playout' = ts_add(delay_, ts_add(shortfall, overlap))
       /\ talkstart' = IF adjust THEN time ELSE talkstart
       /\ post_talkstart_units' = IF adjust THEN 0
                                  ELSE UpTo(post_talkstart_units + 1, RepairAfter + 1)
       /\ next_played' = IF begun THEN next_played ELSE time
       /\ media' = IF reconfigure THEN <<>> ELSE media
       /\ media_pos' = IF reconfigure THEN 0 ELSE media_pos
       /\ channel' = IF late THEN kept
                     ELSE pb_add(kept, [playout |-> time, units |-> p.units])
       /\ age' = LET a == IF reconfigure THEN 0 ELSE age IN
                 IF late THEN a ELSE UpTo(a + 1, Fresh)
       /\ failed' = \/ failed
                    \/ ts_abs_diff(now, desired) >= Sane
                    \/ ts_abs_diff(now, time) >= Sane
                    \/ (adjust /\ ~ts_gt(pushed, now))
  /\ UNCHANGED <<at, now, hold_repair, skew>>

PacketsProcessed ==
  /\ at = "packets" /\ pktbuf = <<>>
  /\ at' = IF begun THEN "decode" ELSE "audit"
  /\ UNCHANGED <<now, pktbuf, channel, media, media_pos, begun, age, timing, next_played,
                 hold_repair, skew, failed, troubles>>
-----------------------------------------------------------------------------
\* The units of a packet go to media one by one; at a unit that is there already
\* vanilla_decoder_output drops the rest of the packet.
AddUnit(m, unit) ==
  IF m.full \/ Exists(m.buffer, unit) THEN [m EXCEPT !.full = TRUE]
  ELSE [m EXCEPT
          !.buffer = pb_add(@, [playout |-> unit,
                                is |-> IF Place(@, unit) < m.pos THEN "late" ELSE "waiting"]),
          !.pos = Moved(m.buffer, unit, @)]

vanilla_decoder_output(m, packet) ==
  LET output[n \in 0 .. packet.units] ==
        IF n = 0 THEN m
        ELSE AddUnit(output[n - 1], ts_add(packet.playout, (n - 1) * frame_dur))
  IN output[packet.units]

Output == vanilla_decoder_output([buffer |-> media, pos |-> media_pos, full |-> FALSE], channel[1])

\* Mutant: one packet in a round.
Decode_One ==
  /\ at = "decode" /\ at' = "play"
  /\ IF channel # <<>> /\ ~ts_gt(channel[1].playout, end_ts)
       THEN channel' = Tail(channel) /\ media' = Output.buffer /\ media_pos' = Output.pos
       ELSE UNCHANGED <<channel, media, media_pos>>
  /\ UNCHANGED <<now, pktbuf, begun, age, timing, next_played, hold_repair, skew, failed,
                 troubles>>

\* vanilla_decoder_decode, one packet.
Decode ==
  /\ at = "decode"
  /\ IF channel # <<>> /\ ~ts_gt(channel[1].playout, end_ts)
       THEN /\ channel' = Tail(channel) /\ media' = Output.buffer /\ media_pos' = Output.pos
            /\ UNCHANGED at
       ELSE at' = "play" /\ UNCHANGED <<channel, media, media_pos>>
  /\ UNCHANGED <<now, pktbuf, begun, age, timing, next_played, hold_repair, skew, failed,
                 troubles>>
-----------------------------------------------------------------------------
source_repair_required(time) ==
  LET gap == ts_sub(time, next_played) IN
  /\ ts_gt(gap, 0) /\ ts_gt(repair_max_gap, gap)
  /\ \/ ts_gt(next_played, talkstart) /\ ts_gt(time, talkstart)
     \/ post_talkstart_units > RepairAfter
  /\ hold_repair = 0

\* What the loop gets: the buffer, the iterator, the unit to mix and hold_repair.  Here
\* the unit the iterator advances to, without a repair.
Unrepaired(hold) ==
  [buffer |-> media, pos |-> media_pos + 1, unit |-> media_pos + 1, hold |-> hold,
   repaired |-> FALSE]

RepairedAt(pos) ==
  [buffer |-> pb_add(media, [playout |-> next_played, is |-> "waiting"]),
   pos |-> pos, unit |-> pos, hold |-> hold_repair, repaired |-> TRUE]

\* Mutant: the iterator does not step back before the repair.
source_repair_NoRetreat ==
  IF media_pos = 0 \/ Exists(media, next_played) THEN Unrepaired(hold_repair)
  ELSE RepairedAt(UpTo(media_pos + 3, Len(media) + 1))

\* The iterator steps back, a made up unit is put at next_played, and the iterator
\* advances to it.  Without a unit before, or with one there, the loop goes on with the
\* unit it had; in the second case the iterator stays back.
source_repair ==
  IF media_pos = 0 THEN Unrepaired(hold_repair)
  ELSE IF Exists(media, next_played)
    THEN [Unrepaired(hold_repair + 2) EXCEPT !.pos = media_pos]
  ELSE RepairedAt(Moved(media, next_played, media_pos) + 1)

Fetched ==
  IF source_repair_required(media[media_pos + 1].playout) THEN source_repair
  ELSE Unrepaired(IF hold_repair > 0 THEN hold_repair - 1 ELSE 0)

Marked(buffer, unit) ==
  [i \in DOMAIN buffer |->
     IF i = unit THEN [buffer[i] EXCEPT !.is = IF @ = "waiting" THEN "mixed" ELSE "again"]
     ELSE buffer[i]]

\* mix_put_audio takes the unit, or refuses it and all is flushed.
Mix(buffer, unit, pos, packets) ==
  /\ next_played' = ts_add(buffer[unit].playout, frame_dur)
  /\ \/ /\ media' = Marked(buffer, unit)
        /\ media_pos' = pos
        /\ channel' = packets
        /\ UNCHANGED troubles
     \/ media' = <<>> /\ media_pos' = 0 /\ channel' = <<>> /\ Trouble

\* source_skew_adapt: after an attempt, the unit is read again from the iterator.
NoAdjustment(f) ==
  /\ \E unit \in IF skew = "NONE" THEN {f.unit} ELSE {f.unit, f.pos} :
       Mix(f.buffer, unit, f.pos, channel)
  /\ UNCHANGED <<transit, skew>>

\* skew_cnt is 0 after an adaptation, so a skew is adapted to once until it is found
\* again.
BringForward(f) ==
  /\ skew = "FAST" /\ skew' = "NONE"
  /\ \E adjustment \in 1 .. frame_dur - 1 :
       /\ transit' = ts_sub(transit, adjustment)
       /\ Mix(pb_shift_forward(f.buffer, adjustment), f.pos, f.pos,
              pb_shift_forward(channel, adjustment))

\* Mutant: the skew found stays.
PushBack_StaysSlow(f) ==
  /\ skew = "SLOW" /\ UNCHANGED skew
  /\ \E adjustment \in 1 .. frame_dur - 1 :
       LET time == f.buffer[f.unit].playout
           shifted == pb_shift_units_back_after(f.buffer, time, adjustment)
           insert == ts_add(time, adjustment)
           pos == Moved(shifted, insert, f.pos) IN
       /\ transit' = ts_add(transit, adjustment)
       /\ Mix(pb_add(shifted, [playout |-> insert, is |-> "waiting"]), pos, pos,
              pb_shift_units_back_after(channel, time, adjustment))

PushBack(f) ==
  /\ skew = "SLOW" /\ skew' = "NONE"
  /\ \E adjustment \in 1 .. frame_dur - 1 :
       LET time == f.buffer[f.unit].playout
           shifted == pb_shift_units_back_after(f.buffer, time, adjustment)
           insert == ts_add(time, adjustment)
           pos == Moved(shifted, insert, f.pos) IN
       /\ transit' = ts_add(transit, adjustment)
       /\ Mix(pb_add(shifted, [playout |-> insert, is |-> "waiting"]), pos, pos,
              pb_shift_units_back_after(channel, time, adjustment))

\* source_process, one turn of its loop.
Play ==
  /\ at = "play" /\ ts_gt(end_ts, next_played) /\ media_pos < Len(media)
  /\ LET f == Fetched IN
     /\ hold_repair' = f.hold
     /\ failed' = (failed \/ (f.repaired /\ f.buffer[f.unit].playout # next_played))
     /\ IF ts_gt(f.buffer[f.unit].playout, end_ts)
          THEN /\ at' = "audit"
               /\ media' = f.buffer
               /\ media_pos' = pb_iterator_retreat(f.pos)
               /\ UNCHANGED <<channel, transit, next_played, skew, troubles>>
          ELSE (NoAdjustment(f) \/ BringForward(f) \/ PushBack(f)) /\ UNCHANGED at
  /\ UNCHANGED <<now, pktbuf, begun, age, units_per_packet, playout, talkstart,
                 post_talkstart_units>>

Played ==
  /\ at = "play" /\ ~(ts_gt(end_ts, next_played) /\ media_pos < Len(media))
  /\ at' = "audit"
  /\ UNCHANGED <<now, pktbuf, channel, media, media_pos, begun, age, timing, next_played,
                 hold_repair, skew, failed, troubles>>

source_audit ==
  /\ at = "audit" /\ at' = "receive"
  /\ \E n \in 0 .. Len(media) :
       /\ IF age = 0 THEN n = 0 ELSE Audited(media, media_pos, history_ts, n)
       /\ media' = SubSeq(media, n + 1, Len(media))
       /\ media_pos' = media_pos - n
  /\ UNCHANGED <<now, pktbuf, channel, begun, age, timing, next_played, hold_repair, skew,
                 failed, troubles>>
-----------------------------------------------------------------------------
Next == \/ ReceivePacket \/ Round \/ Removed
        \/ ProcessPacket \/ PacketsProcessed \/ Decode \/ Play \/ Played \/ source_audit

Spec == Init /\ [][Next]_vars
-----------------------------------------------------------------------------
TypeOK ==
  /\ at \in {"receive", "packets", "decode", "play", "audit"}
  /\ {now, transit, playout, talkstart, next_played} \subseteq Ticks
  /\ \A i \in DOMAIN pktbuf : pktbuf[i] \in [playout : Ticks, units : 1 .. MaxUnits]
  /\ \A i \in DOMAIN channel : channel[i] \in [playout : Ticks, units : 1 .. MaxUnits]
  /\ \A i \in DOMAIN media : media[i] \in [playout : Ticks, is : {"waiting", "late", "mixed", "again"}]
  /\ media_pos \in 0 .. Len(media)
  /\ Len(pktbuf) <= max_packets
  /\ {begun, failed} \subseteq BOOLEAN
  /\ age \in 0 .. Fresh /\ units_per_packet \in 0 .. MaxUnits
  /\ post_talkstart_units \in 0 .. RepairAfter + 1
  /\ hold_repair \in Nat /\ skew \in {"NONE", "FAST", "SLOW"}

\* The buffers stay in the order pb_validate asserts, for all the shifts, late units
\* and the wrap of time (playout.c:59).
BuffersInOrder == Ordered(pktbuf) /\ Ordered(channel) /\ Ordered(media)

\* No playout time is absurd, a packet that is pushed back lands in the future
\* (source.c:683, 893), and a repair finds its place free and stands where the unit
\* is missing (source.c:1427, 1534).
NoAssertionFails == ~failed /\ hold_repair = 0

\* Every unit the iterator has passed was mixed, once, unless it came too late; none
\* ahead of it was (source.c:1544).
EachMixedOnce ==
  \A i \in DOMAIN media :
    media[i].is \in IF i <= media_pos THEN {"mixed", "late"} ELSE {"waiting"}

\* After a round nothing waits that was due in it, neither a unit nor a packet (but
\* for one that skew adaptation brought forward after decoding), unless the source is
\* ahead of the cushion (source.c:1512, cc_vanilla.c:245).
DueIsMixed ==
  at = "receive" /\ ts_gt(end_ts, next_played) =>
    /\ \A i \in media_pos + 1 .. Len(media) : ~ts_gt(end_ts, media[i].playout)
    /\ \A i \in DOMAIN channel : ~ts_gt(end_ts, ts_add(channel[i].playout, frame_dur - 1))

Ahead == Len(media) - media_pos

\* Mixing gets on whatever repair and skew adaptation put in its way, so that the loop
\* ends: a turn adapts to the skew found in this round, or leaves fewer units ahead, or
\* fills the gap before the next one from its beginning (source.c:1517-1663).
PlayAdvances ==
  [][at = "play" /\ at' = "play" =>
       \/ skew # "NONE" /\ skew' = "NONE"
       \/ Ahead' < Ahead
       \/ Ahead' = Ahead /\ next_played' = ts_add(next_played, frame_dur)]_vars
=============================================================================
