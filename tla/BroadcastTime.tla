--------------------------- MODULE BroadcastTime ----------------------------
(***************************************************************************)
(* Times of the broadcast decoders, in whole GPST seconds.  A navigation   *)
(* message carries a week number modulo some power of two, or only the     *)
(* second of the week; the decoder completes it from the time of reception.*)
(***************************************************************************)
EXTENDS Integers

CONSTANT None       \* an absent time

WeekSeconds == 604800
BdtOffset == 14     \* BDT = GPST - 14 s
Week(t) == t \div WeekSeconds

\* Mutant: the truncated week is taken in the present cycle of weeks.
ReferenceWeekSameCycle(now, week, modulo) == now + week - (now % modulo)

\* The full week nearest to week `now` that the truncated week can stand for.
ReferenceWeek(now, week, modulo) ==
    LET full == now + week - (now % modulo)
    IN  IF full - now > modulo \div 2 THEN full - modulo
        ELSE IF now - full > modulo \div 2 THEN full + modulo
        ELSE full

Reference(now, week, modulo, tow) ==
    ReferenceWeek(Week(now), week, modulo) * WeekSeconds + tow

\* The time with that second of the week nearest to `now`.
Nearest(now, tow) ==
    LET t == Week(now) * WeekSeconds + tow
        u == IF t - now > WeekSeconds \div 2 THEN t - WeekSeconds ELSE t
    IN  IF now - u > WeekSeconds \div 2 THEN u + WeekSeconds ELSE u

Resolvable(now, tow) == now # None /\ tow >= 0 /\ tow < WeekSeconds

\* week_time, gst_reference and bdt: GPST, Galileo and BeiDou weeks.
WeekTime(now, week, tow, modulo) ==
    IF Resolvable(now, tow) THEN Reference(now, week, modulo, tow) ELSE None

GstTime(now, week, tow, modulo) ==
    IF Resolvable(now, tow) THEN Reference(now, (week + 1024) % modulo, modulo, tow) ELSE None

BdtTime(now, week, tow, modulo) ==
    IF Resolvable(now, tow)
      THEN Reference(now - BdtOffset, (week + 1356) % modulo, modulo, tow) + BdtOffset
      ELSE None

\* near_time, nearest_week and bdt_nearest.
NearTime(now, tow) == IF Resolvable(now, tow) THEN Nearest(now, tow) ELSE None

BdtNearest(now, tow) ==
    IF Resolvable(now, tow) THEN Nearest(now - BdtOffset, tow) + BdtOffset ELSE None

\* A time within a window around a reference that is known.
Within(ref, t, before, after) == ref # None /\ t >= ref - before /\ t <= ref + after
=============================================================================
