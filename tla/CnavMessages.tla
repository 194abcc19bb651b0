---------------------------- MODULE CnavMessages ----------------------------
(***************************************************************************)
(* QZSS CNAV messages (QzsCnavDecoder): types 10, 11 and any of the clock  *)
(* types are put together to an ephemeris; the rest are models of their    *)
(* own.                                                                    *)
(***************************************************************************)
EXTENDS BroadcastAssembly

ClockTypes == {30, 31, 32, 33, 35, 37, 61}
CnavTypes == {0, 10, 11, 12, 15, 60} \cup ClockTypes
CnavParts == {10, 11, 30}
\* Three maximum broadcast intervals.
CnavTimeout(m) == IF m.l2 THEN 144 ELSE 72
PartId(m) == IF m.type \in ClockTypes THEN 30 ELSE m.type

\* What a message contributes to an ephemeris; None where it has no such field.
CnavPart(m) ==
    [up |-> m.up, good |-> m.good,
     toe |-> IF m.type \in {10, 11} THEN m.toe ELSE None,
     toc |-> IF m.type \in ClockTypes THEN m.toc ELSE None,
     top |-> IF m.type = 11 THEN None ELSE m.top,
     week |-> IF m.type = 10 THEN m.week ELSE None]

CnavDiffers(m, i, old) ==
    \/ i = PartId(m) /\ old # CnavPart(m)
    \/ BothSay(old.toe, CnavPart(m).toe)
    \/ BothSay(old.top, CnavPart(m).top)
CnavFits(a, m) == \A i \in DOMAIN a.parts : ~CnavDiffers(m, i, a.parts[i])

\* The models a message holds besides its part.
CnavClock(m) ==
    IF m.type \notin ClockTypes THEN <<>>
    ELSE Kept("cnav_clock", 0, m,
              [Single(m) EXCEPT !.body = {<<30, m.up>>}, !.toc = NearTime(m.t, m.toc), !.top = NearTime(m.t, m.top)])
CnavDelays(m) ==
    IF m.type \notin {30, 61} THEN <<>>
    ELSE Kept("cnav_group_delay", 0, m, Single(m))
         \o Kept("cnav_ionosphere", m.type, m, Single(m))
         \o (IF m.type = 30 THEN Said("cnav_prediction_week", m) ELSE <<>>)
CnavAlmanacs(m) ==
    IF m.type \notin {12, 31, 37} \/ m.id \notin 1..10 THEN <<>>
    ELSE Kept(IF m.type = 37 THEN "cnav_midi_almanac" ELSE "cnav_reduced_almanac", m.id, m,
              [Single(m) EXCEPT !.ref = WeekTime(m.t, m.week, m.ref, 8192)])
CnavModels(m) ==
    CASE m.type = 32 -> Kept("cnav_eop", 0, m, [Single(m) EXCEPT !.tow = m.ref, !.top = m.top])
      [] m.type = 33 -> Kept("cnav_utc", 0, m,
                [Single(m) EXCEPT !.tow = m.ref, !.top = m.top, !.ref = WeekTime(m.t, m.week, m.ref, 8192)])
      [] m.type = 35 -> <<Output("cnav_time_offset", ~m.alert /\ m.id \in 1..3, m.id,
                [Single(m) EXCEPT !.ref = WeekTime(m.t, m.week, m.ref, 8192)])>>
      [] OTHER -> Said("cnav_other", m)

\* The clock reference of the assembled ephemeris: the week of type 10 with
\* the time of week of the message that completed it.
Transmitted(parts, m) == Reference(m.t, parts[10].week, 8192, m.tow)

CnavEphemeris(parts, m) ==
    LET toe == NearTime(Transmitted(parts, m), parts[10].toe) IN
      IF toe = None \/ parts[30].toc >= WeekSeconds \/ parts[30].top >= WeekSeconds \/ ~parts[10].good
        THEN <<>>
        ELSE Kept("cnav_ephemeris", 0, m,
               [Blank EXCEPT !.body = Body(parts), !.week = parts[10].week, !.toe = toe,
                             !.toc = NearTime(toe, parts[30].toc), !.top = NearTime(toe, parts[30].top)])

CnavDecode(a, m) ==
    LET said == CnavClock(m) \o CnavDelays(m) \o CnavAlmanacs(m) \o CnavModels(m)
        b == Gather(a, m.t, CnavTimeout(m), PartId(m), CnavPart(m), CnavFits(a, m))
    IN  IF ~m.head \/ m.type \notin CnavTypes \/ (m.type = 60 /\ m.l2) THEN [asm |-> a, out |-> <<>>]
        ELSE IF PartId(m) \notin CnavParts \/ m.t = None \/ m.alert THEN [asm |-> a, out |-> said]
        ELSE IF DOMAIN b.parts = CnavParts
               THEN [asm |-> Empty, out |-> said \o CnavEphemeris(b.parts, m)]
               ELSE [asm |-> b, out |-> said]

----------------------------------------------------------------------------
(* cnav_snapshot, cnav_expired                                             *)

Almanacs72h == {"cnav_reduced_almanac", "cnav_midi_almanac", "cnav_utc", "cnav_time_offset"}

CnavKinds == Almanacs72h \cup {"cnav_ephemeris", "cnav_clock", "cnav_eop", "cnav_group_delay", "cnav_ionosphere"}

CnavSnapshot(r, kind, t) ==
    /\ kind = "cnav_ephemeris" => Within(r.toe, t, 3600, 3600) /\ Within(r.toc, t, 3600, 3600)
    /\ kind = "cnav_clock" => Within(r.toc, t, 3600, 3600)
    /\ kind = "cnav_eop" => Within(r.ref, t, 21600, 21600)
    /\ kind \in Almanacs72h => Within(r.ref, t, 259200, 259200)

CnavExpired(r, kind, t) ==
    LET past(ref, half) == ref # None /\ t > ref + half IN
      CASE kind = "cnav_clock" -> past(r.toc, 3600)
        [] kind = "cnav_ephemeris" -> past(r.toe, 3600)
        [] kind = "cnav_eop" -> FALSE
        [] OTHER -> past(r.ref, 259200)
=============================================================================
