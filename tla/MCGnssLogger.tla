---------------------------- MODULE MCGnssLogger ----------------------------
(* Small recordings for GnssLogger.  Payloads are shortened to one byte (SBF: *)
(* four) that tells the time; days have 10 units and weeks 70.                *)
EXTENDS GnssLogger

Ubx(id, x) == LET a == 1 + id + 1 + x IN <<181, 98, 1, id, 1, 0, x, a % 256, (1 + (1 + id) + 2 * (2 + id) + a) % 256>>
TimeGps(t) == Ubx(32, t)
Eoe(t) == Ubx(97, t)
Sat(x) == Ubx(53, x)
Damaged(t) == [TimeGps(t) EXCEPT ![9] = 0]

Sbf(id, x) == <<36, 64, x, id, id, 0, 12, 0, x, 0, 0, 0>>
EndOfPvt(t) == Sbf(7, t)
Meas(x) == Sbf(27, x)

\* $A*41 with its end of line, and RTCM frames of no payload and of one byte.
Nmea == <<36, 65, 42, 52, 49, 13, 10>>
Empty == <<211, 0, 0, 1, 2, 3>>
Short == <<211, 0, 1, 9, 1, 2, 3>>

Times == {8, 9, 12, 75, 82}
MCSealed == {TimeGps(t) : t \in Times} \cup {Eoe(t) : t \in Times} \cup {Sat(98), TimeGps(5)}
            \cup {EndOfPvt(t) : t \in Times} \cup {Meas(1), Meas(36), Nmea, Empty, Short}

MCMeaning ==
    LET kind(f) == IF f = TimeGps(5) THEN "time"
                   ELSE IF \E t \in Times : f = TimeGps(t) THEN "time"
                   ELSE IF \E t \in Times : f \in {Eoe(t), EndOfPvt(t)} THEN "end" ELSE "other"
        time(f) == IF IsUbx(f) THEN f[7] ELSE IF IsSbf(f) THEN f[9] ELSE 0
    IN  [f \in MCSealed |-> [kind |-> kind(f), time |-> time(f), ok |-> f # TimeGps(5) /\ f # EndOfPvt(75)]]

Recording(protocol, source, existing, parts) ==
    [protocol |-> protocol, source |-> source, existing |-> existing, bytes |-> FlattenSeq(parts)]

MCInputs == {
    \* noise, a damaged frame with a frame begun inside it, foreign frames, a new day
    Recording("ubx", "file", {}, <<<<7>>, TimeGps(8), Eoe(8), <<181, 98, 1>>, Nmea, Empty, Short,
                                   TimeGps(12), Sat(98), Eoe(12)>>),
    Recording("ubx", "file", {}, <<<<36, 65>>, TimeGps(8), Damaged(9), Eoe(8), <<181>>, TimeGps(82), Eoe(82)>>),
    \* the file of the second day exists
    Recording("ubx", "file", {12}, <<TimeGps(8), Eoe(8), TimeGps(12), Eoe(12)>>),
    \* time repeats; the end does not match; two times; an invalid time; cut short
    Recording("ubx", "file", {}, <<TimeGps(8), Eoe(8), TimeGps(8), Eoe(8)>>),
    Recording("ubx", "file", {}, <<TimeGps(8), Eoe(9)>>),
    Recording("ubx", "file", {}, <<TimeGps(8), TimeGps(9), Eoe(9)>>),
    Recording("ubx", "file", {}, <<TimeGps(5), Eoe(8)>>),
    Recording("ubx", "file", {}, <<TimeGps(8), Eoe(8), Sat(98)>>),
    Recording("ubx", "file", {}, <<TimeGps(8), Eoe(8), SubSeq(TimeGps(9), 1, 5)>>),
    \* an interval that never ends
    Recording("sbf", "file", {}, <<Meas(1), Meas(1), Meas(36), Meas(1), EndOfPvt(8)>>),
    Recording("sbf", "tcp", {}, <<Meas(36), EndOfPvt(8), EndOfPvt(12)>>),
    Recording("sbf", "tcp", {}, <<EndOfPvt(8), Nmea, EndOfPvt(75)>>),
    Recording("ubx", "tcp", {}, <<TimeGps(75), Eoe(75), TimeGps(82), Eoe(82)>>)}
=============================================================================
