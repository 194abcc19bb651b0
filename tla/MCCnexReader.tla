--------------------------- MODULE MCCnexReader ---------------------------
(* Streams for TLC: each family is what a stream may consist of.           *)
EXTENDS CnexReader

F(kind, times, values) == [kind : {kind}, t : times, v : values]
Bare(kind) == F(kind, {None}, {None})

\* NAV-TIMEGPS, measurement and MON-SYS evidence around RawBits and NAV-EOE;
\* 14 is beyond the timeout of 1 and 2 and, with a week of 12, has the time
\* of week of 2.
UbxTime ==
    F("TIMEGPS", {None, 1, 2, 14}, {None}) \cup F("RAWX", {14}, {None})
      \cup F("EOE", {2}, {None}) \cup F("MONSYS", {None}, {1, 2}) \cup Bare("SFRBX")

UbxTelemetry ==
    F("NAVPVT", {1, 2}, {None}) \cup F("TIMEGPS", {1, 2}, {None})
      \cup F("MONSYS", {None}, {1, 2}) \cup F("NAVCLOCK", {None}, {1})
      \cup F("TIMTP", {2}, {None})

SbfMeasurements ==
    F("MEAS", {None, 1, 2}, {1}) \cup F("MEAS", {2}, {2}) \cup F("EXTRA", {2}, {None})
      \cup F("END", {1, 2}, {None}) \cup F("NAVTIME", {1}, {None})

SbfTelemetry ==
    F("PVT", {None, 1, 2}, {1}) \cup F("STATUS", {1}, {1}) \cup F("STATUS", {2}, {1, 2})
      \cup F("STATUS", {None}, {2}) \cup F("PPS", {2}, {None}) \cup F("MEAS", {1}, {1})
      \cup F("STATUS", {14}, {2}) \cup Bare("NAVBITS")

Cadences == F("RAWX", {1, 2, 3, 4, 6}, {None})

Stream(frames, length, most) == [frames |-> frames, length |-> length, ends |-> most]
AllFamilies ==
    {Stream(UbxTime, 5, 0), Stream(UbxTelemetry, 5, 0), Stream(UbxTelemetry, 4, 1),
     Stream(SbfMeasurements, 5, 0), Stream(SbfMeasurements, 4, 1),
     Stream(SbfTelemetry, 4, 1), Stream(Cadences, 6, 0)}
UbxFamilies == {Stream(UbxTelemetry, 5, 0)}
=============================================================================
