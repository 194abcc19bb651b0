------------------------ MODULE BroadcastNavigation ------------------------
(***************************************************************************)
(* BroadcastNavigation: the same frames, decoded for satellite positions.  *)
(* It keeps the last ephemerides of every satellite by family and answers  *)
(* for a time with the last one that was available before it, unless the   *)
(* last report of any family says that the satellite is unhealthy.         *)
(***************************************************************************)
EXTENDS BroadcastDecoder, FiniteSetsExt

CONSTANT Retained       \* ephemerides kept per satellite and family

VARIABLES
    pending,    \* LNAV subframes by satellite and family
    navAsm,     \* the Galileo and BeiDou decoders of its own
    entries     \* by satellite: the published ephemerides, in order

navVars == <<pending, navAsm, entries>>

NavInit == pending = <<>> /\ navAsm = <<>> /\ entries = <<>>

NavFamilies == {"GPS_LNAV", "QZS_LNAV", "GAL_INAV", "GAL_FNAV", "BDS_D1", "BDS_D2"}
NavKinds == {"gal_inav_ephemeris", "gal_fnav_ephemeris", "bds_ephemeris"}
AbsDiff(x, y) == IF x < y THEN y - x ELSE x - y
EntriesOf(sat) == IF sat \in DOMAIN entries THEN entries[sat] ELSE <<>>
OfFamily(s, fam) == {i \in DOMAIN s : s[i].fam = fam}

\* Mutant: a report that differs in health only is a repetition.
SameReportNoHealth(p, q) == [p EXCEPT !.available = 0, !.healthy = TRUE] = [q EXCEPT !.available = 0, !.healthy = TRUE]

SameReport(p, q) == [p EXCEPT !.available = 0] = [q EXCEPT !.available = 0]

\* publish(): not what the last entry of the family says already; the oldest
\* of the family makes room.
Publish(s, e, tx) ==
    LET mine == OfFamily(s, e.fam)
        longer == Append(s, e)
        oldest == CHOOSE i \in OfFamily(longer, e.fam) : \A j \in OfFamily(longer, e.fam) : i =< j
    IN  IF AbsDiff(e.available, tx) > 120 \/ (mine # {} /\ SameReport(s[Max(mine)], e)) THEN s
        ELSE IF Cardinality(OfFamily(longer, e.fam)) > Retained THEN RemoveAt(longer, oldest)
        ELSE longer

Entry(m, row, t) == [fam |-> m.fam, issue |-> row.issue, toe |-> row.toe, toc |-> row.toc, fit |-> row.fit,
                     healthy |-> row.healthy, available |-> t]

\* RTKLIB's decode_frame takes three subframes of one issue.
LnavFrame(parts, now) ==
    LET week == ReferenceWeek(Week(now), parts[1].week, 1024)
        toe == parts[2].toe
        w == IF toe < parts[1].tow - 302400 THEN week + 1
             ELSE IF toe > parts[1].tow + 302400 THEN week - 1 ELSE week
    IN  [Blank EXCEPT !.toe = w * WeekSeconds + toe, !.toc = w * WeekSeconds + parts[1].toc,
                      !.tx = week * WeekSeconds + parts[1].tow, !.issue = parts[1].iss,
                      !.fit = parts[2].fit, !.healthy = parts[1].healthy]

\* Subframes of all signals of a satellite are kept, one of each, until a later
\* one replaces them.
Satellite(m) == <<m.sv, m.fam>>
LnavStored(m) ==
    LET p == IF Satellite(m) \in DOMAIN pending THEN pending[Satellite(m)] ELSE <<>> IN
      IF m.type \in DOMAIN p /\ p[m.type].t > m.t THEN p
      ELSE With(p, m.type, [t |-> m.t, tow |-> m.tow] @@ SubframeFields(m))

LnavReports(m) ==
    LET p == LnavStored(m)
        times == {p[i].t : i \in DOMAIN p}
        whole == /\ DOMAIN p = EphemerisParts /\ Max(times) - Min(times) =< 120
                 /\ \A i \in DOMAIN p : p[i].iss % 256 = p[1].iss % 256
        row == LnavFrame(p, Max(times))
    IN  IF whole /\ p[m.type].t = m.t THEN <<[e |-> Entry(m, row, Max(times)), tx |-> row.tx]>> ELSE <<>>

NavDecode(m) == Decode(IF Slot(m) \in DOMAIN navAsm THEN navAsm[Slot(m)] ELSE Fresh0(m), m)

DecodedReports(m, outs) ==
    LET rows == SelectSeq(outs, LAMBDA o :
                  o.kind \in NavKinds /\ o.row.toe # None /\ o.row.toc # None /\ o.row.tx # None)
    IN  [i \in DOMAIN rows |-> [e |-> Entry(m, rows[i].row, m.t), tx |-> rows[i].row.tx]]

NavTaken(m) == m.fam \in NavFamilies /\ m.t # None /\ m.pass
IsLnav(m) == m.fam \in {"GPS_LNAV", "QZS_LNAV"}
LnavTaken(m) == m.head /\ m.type \in EphemerisParts

\* What a frame reports of its satellite, and the assembly it leaves.
Reading(m) ==
    IF ~NavTaken(m) \/ (IsLnav(m) /\ ~LnavTaken(m)) THEN [kept |-> "nothing", reports |-> <<>>]
    ELSE IF IsLnav(m) THEN [kept |-> "subframe", reports |-> LnavReports(m)]
    ELSE LET d == NavDecode(m) IN [kept |-> "assembly", asm |-> d.asm, reports |-> DecodedReports(m, d.out)]

\* feed() of one frame, which gave the reading r.
NavFeed(m, r) ==
    /\ pending' = IF r.kept = "subframe" THEN With(pending, Satellite(m), LnavStored(m)) ELSE pending
    /\ navAsm' = IF r.kept = "assembly" THEN With(navAsm, Slot(m), r.asm) ELSE navAsm
    /\ entries' = IF r.reports = <<>> THEN entries
                  ELSE With(entries, m.sv, FoldLeft(LAMBDA s, p : Publish(s, p.e, p.tx), EntriesOf(m.sv), r.reports))

----------------------------------------------------------------------------
(* position(): the ephemeris that answers for time n, or None.             *)

\* A fit interval below four hours is a QZSS one.
AgeLimit(e) == IF e.fam = "QZS_LNAV" /\ ~e.fit THEN 3600 ELSE 7200
InAge(e, n) == AbsDiff(n, e.toe) =< AgeLimit(e)

\* Mutant: what is received at a later time answers too.
UsableAny(s, n) == {i \in DOMAIN s : InAge(s[i], n)}

Usable(s, n) == {i \in DOMAIN s : s[i].available < n /\ InAge(s[i], n)}

\* The first of those that were available last.
Latest(s, I) == Min({i \in I : \A j \in I : s[j].available =< s[i].available})

Position(s, n) ==
    LET usable == Usable(s, n)
        last == {Latest(s, usable \cap OfFamily(s, f)) : f \in {s[i].fam : i \in usable}}
    IN  IF usable = {} \/ \E i \in last : ~s[i].healthy THEN None
        ELSE s[Latest(s, usable)]
=============================================================================
