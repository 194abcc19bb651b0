---------------------------- MODULE LnavMessages ----------------------------
(***************************************************************************)
(* GPS and QZSS LNAV subframes in BroadcastMessageDecoder: subframes 1-3   *)
(* are put together to an ephemeris, subframes 4 and 5 hold pages.         *)
(***************************************************************************)
EXTENDS BroadcastAssembly

LnavTimeout == 90
EphemerisParts == 1..3

\* `iss` is the IODC in subframe 1, the IODE in 2 and 3.
SubframeFields(m) ==
    [up |-> m.up, iss |-> m.iss, good |-> m.good, healthy |-> m.healthy, fit |-> m.fit,
     toe |-> IF m.type = 2 THEN m.toe ELSE None,
     toc |-> IF m.type = 1 THEN m.toc ELSE None,
     week |-> IF m.type = 1 THEN m.week ELSE None]

IssueDiffers(m, i, old) == old.iss % 256 # m.iss % 256 \/ (i = m.type /\ old # SubframeFields(m))
Fits(a, m) == \A i \in DOMAIN a.parts : ~IssueDiffers(m, i, a.parts[i])

\* The time of the week of an ephemeris, in the week nearest to reception.
Resolve(now, week, sec) ==
    LET x == Reference(now, week, 1024, sec)
        y == IF x - now > WeekSeconds \div 2 THEN x - WeekSeconds ELSE x
    IN  IF now - y > WeekSeconds \div 2 THEN y + WeekSeconds ELSE y

LnavEphemeris(parts, t) ==
    LET toe == parts[2].toe  toc == parts[1].toc IN
      IF toe >= WeekSeconds \/ toc >= WeekSeconds \/ ~parts[2].good THEN <<>>
      ELSE <<Output("ephemeris", TRUE, 0,
               [Blank EXCEPT !.body = Body(parts), !.week = parts[1].week,
                             !.issue = parts[1].iss, !.fit = parts[2].fit,
                             !.toe = Resolve(t, parts[1].week, toe),
                             !.toc = Resolve(t, parts[1].week, toc)])>>

Subframe(a, m) ==
    LET said == Said("lnav_sf", m)
        b == Gather(a, m.t, LnavTimeout, m.type, SubframeFields(m), Fits(a, m))
    IN  IF m.t = None \/ m.alert THEN [asm |-> a, out |-> said]
        ELSE IF DOMAIN b.parts = EphemerisParts
               THEN [asm |-> Empty, out |-> said \o LnavEphemeris(b.parts, m.t)]
               ELSE [asm |-> b, out |-> said]

\* The pages of subframes 4 and 5 by their SV identity.
PageKind(q, sf, id) ==
    IF (q /\ id =< 10) \/ (~q /\ ((sf = 5 /\ id =< 24) \/ (sf = 4 /\ id \in 25..32))) THEN "almanac_entry"
    ELSE IF id = 51 /\ (q \/ sf = 5) THEN "almanac_epoch"
    ELSE IF id = 63 /\ ~q /\ sf = 4 THEN "configuration_health"
    ELSE IF id = 55 /\ (q \/ sf = 4) THEN "special_message"
    ELSE IF id = 52 /\ ~q /\ sf = 4 THEN "nmct"
    ELSE IF id = 60 /\ q THEN "qznma_payload"
    ELSE IF (id = 56 /\ (q \/ sf = 4)) \/ (q /\ id = 61) THEN "ionosphere_utc"
    ELSE "unsupported"
NotRemembered == {"special_message", "nmct", "qznma_payload"}

\* Page 51 dates the almanac: an 8-bit week and the second toa.
PageRow(kind, m) ==
    IF kind = "almanac_epoch"
      THEN [Single(m) EXCEPT !.tow = m.toe,
                             !.ref = IF m.t = None THEN None ELSE Reference(m.t, m.week, 256, m.toe)]
      ELSE IF kind = "almanac_entry" THEN [Single(m) EXCEPT !.tow = m.toe]
      ELSE Single(m)

Page(m) ==
    LET kind == PageKind(m.q, m.type, m.id) IN
      IF ~m.own \/ m.id = 0 \/ kind = "unsupported" THEN <<>>    \* `own`: the data id is right
      ELSE IF kind \in NotRemembered THEN Said(kind, m)
      ELSE Kept(kind, m.id, m, PageRow(kind, m))

\* decode(): the new assembly of the source and the rows that come out.
LnavDecode(a, m) ==
    IF ~m.head THEN [asm |-> a, out |-> <<>>]
    ELSE IF m.type \in EphemerisParts THEN Subframe(a, m)
    ELSE [asm |-> a, out |-> Page(m)]
=============================================================================
