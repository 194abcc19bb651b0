-------------------------- MODULE GalileoMessages --------------------------
(***************************************************************************)
(* Galileo I/NAV words and F/NAV pages (GalileoDecoder): an ephemeris of   *)
(* I/NAV words 1-5 or F/NAV pages 1-4, almanacs of two words or pages that *)
(* must be close in time, the search-and-rescue return links that ride on  *)
(* the I/NAV words, and models that one word holds.                        *)
(***************************************************************************)
EXTENDS BroadcastAssembly

IsFnav(m) == m.fam = "GAL_FNAV"
GalParts(m) == IF IsFnav(m) THEN 1..4 ELSE 1..5
GalAlmanacTypes(m) == IF IsFnav(m) THEN 5..6 ELSE 7..10
GalTypes(m) == IF IsFnav(m) THEN 1..6 ELSE 0..10 \cup {16, 17, 18, 19, 20, 22}
GalTimeout(m) == IF IsFnav(m) THEN 150 ELSE 90

NoSar == [ups |-> {}, count |-> 0, long |-> FALSE, first |-> None, last |-> None]
NoAlmanac == [parts |-> <<>>, start |-> None, emitted |-> {}]
NoGalileo == [eph |-> Empty, alm |-> NoAlmanac, sar |-> NoSar]

----------------------------------------------------------------------------
(* Return link messages: 4 fragments of a short one, 8 of a long one.      *)

SarRow(s) == [Blank EXCEPT !.body = s.ups, !.ref = s.first]

\* `s` after the fragment of the word `m`.
SarStep(s, m) ==
    LET f == m.sar
        lost == s.first = None \/ s.long # f.long \/ s.last = None \/ m.t - s.last > 3
        base == IF f.start THEN [NoSar EXCEPT !.first = m.t, !.long = f.long]
                ELSE IF lost THEN NoSar ELSE s
    IN  IF base.first = None THEN NoSar
        ELSE [base EXCEPT !.ups = @ \cup {<<base.count, f.up>>}, !.count = @ + 1, !.last = m.t]

SarFull(s) == s.count = (IF s.long THEN 8 ELSE 4)

\* Only the words of E1-B carry fragments.
Sar(s, m) ==
    IF m.sar = None \/ IsFnav(m) \/ m.type = 63 THEN [s |-> s, out |-> <<>>]
    ELSE LET said == Said("gal_osnma_fragment", m) \o Said("gal_sar_fragment", m)
             n == SarStep(s, m)
         IN  IF m.t = None THEN [s |-> s, out |-> said]
             ELSE IF SarFull(n)
                    THEN [s |-> NoSar, out |-> Append(said, Output("gal_sar_rlm", FALSE, 0, SarRow(n)))]
                    ELSE [s |-> n, out |-> said]

----------------------------------------------------------------------------
(* Models that one word or page holds.                                     *)

GalUtc(m) == <<Output("gal_utc", TRUE, 0, [Single(m) EXCEPT !.ref = GstTime(m.t, m.week, m.ref, 256)])>>

\* All ones say that the offset to GPS time is not available.
GalGgto(m) ==
    <<Output("gal_ggto", TRUE, 0,
             [Single(m) EXCEPT !.good = m.good,
                               !.ref = IF m.good THEN GstTime(m.t, m.week, m.ref, 64) ELSE None])>>

\* ISM for service level 3: kept if its own CRC holds.
GalIsm(m) ==
    LET ref == GstTime(m.t, m.week, m.ref, 4096) IN
      <<Output("gal_ism_sl3", m.good, 0,
               [Single(m) EXCEPT !.good = m.good, !.ref = ref,
                                 !.until = IF ref = None THEN None ELSE ref + m.fit])>>

GalModels(m) ==
    LET iono == <<Output("gal_ionosphere", TRUE, 0, Single(m))>> IN
      IF IsFnav(m)
        THEN CASE m.type = 1 -> iono
               [] m.type = 4 -> GalUtc(m) \o GalGgto(m)
               [] OTHER -> <<>>
        ELSE CASE m.type = 5 -> iono
               [] m.type = 6 -> GalUtc(m)
               [] m.type = 10 -> GalGgto(m)
               [] m.type = 22 /\ m.q -> GalIsm(m)
               [] OTHER -> <<>>

----------------------------------------------------------------------------
(* Ephemerides.  `iss` is the IODnav; word 5 of I/NAV has none.            *)

GalTimed(m) == IF IsFnav(m) THEN m.type \in 1..3 ELSE m.type = 5
GalPart(m) ==
    [up |-> m.up, good |-> m.good, healthy |-> m.healthy,
     iss |-> IF ~IsFnav(m) /\ m.type = 5 THEN None ELSE m.iss,
     toe |-> IF m.type = (IF IsFnav(m) THEN 3 ELSE 1) THEN m.toe ELSE None,
     toc |-> IF m.type = (IF IsFnav(m) THEN 1 ELSE 4) THEN m.toc ELSE None,
     week |-> IF GalTimed(m) THEN m.week ELSE None,
     tow |-> IF GalTimed(m) THEN m.tow ELSE None]

GalContent(p) == [p EXCEPT !.tow = None]        \* the time of week is no content

GalDiffers(m, i, old) ==
    \/ old.iss # None /\ GalPart(m).iss # None /\ old.iss # GalPart(m).iss
    \/ i = m.type /\ GalContent(old) # GalContent(GalPart(m))
GalFits(a, m) == \A i \in DOMAIN a.parts : ~GalDiffers(m, i, a.parts[i])

GalPartTime(m, p) == GstTime(m.t, p.week, p.tow, 4096)

GalEphemeris(parts, m) ==
    LET f == IsFnav(m)
        clock == parts[IF f THEN 1 ELSE 5]
        tx == GalPartTime(m, clock)
        agrees(x) == x # None /\ x - tx =< GalTimeout(m) /\ tx - x =< GalTimeout(m)
        toe == NearTime(tx, parts[IF f THEN 3 ELSE 1].toe)
        toc == NearTime(tx, parts[IF f THEN 1 ELSE 4].toc)
        valid == /\ tx # None
                 /\ f => \A i \in {2, 3} : agrees(GalPartTime(m, parts[i]))
                 /\ toe # None /\ toc # None /\ \A i \in DOMAIN parts : parts[i].good
    IN  IF ~valid THEN <<>>
        ELSE <<Output(IF f THEN "gal_fnav_ephemeris" ELSE "gal_inav_ephemeris", TRUE, 0,
                      [Blank EXCEPT !.body = Body(parts), !.toe = toe, !.toc = toc, !.week = clock.week, !.tx = tx,
                                    !.issue = parts[1].iss, !.healthy = Healthy(parts)])>>

GalEphemerisStep(a, m) ==
    LET b == Gather(a, m.t, GalTimeout(m), m.type, GalPart(m), GalFits(a, m)) IN
      IF m.type \notin GalParts(m) THEN [eph |-> a, out |-> <<>>]
      ELSE IF DOMAIN b.parts = GalParts(m) THEN [eph |-> Empty, out |-> GalEphemeris(b.parts, m)]
      ELSE [eph |-> b, out |-> <<>>]

----------------------------------------------------------------------------
(* Almanacs of three satellites (slots) in words 7-10 or pages 5-6.  The   *)
(* IODa labels the batch, not the group of three.                          *)

GalAlmanacPart(m) ==
    [up |-> m.up, iss |-> m.iss, ids |-> m.ids, t |-> m.t,
     week |-> IF m.type \in {5, 7, 9} THEN m.week ELSE None,
     ref |-> IF m.type \in {5, 7, 9} THEN m.ref ELSE None]
SameAlmanacPart(p, q) == [p EXCEPT !.t = 0] = [q EXCEPT !.t = 0]

GalAlmanacBase(a, m) ==
    LET late == a.start # None /\ m.t - a.start > (IF IsFnav(m) THEN 300 ELSE 180)
        first == m.type = (IF IsFnav(m) THEN 5 ELSE 7)
        p == GalAlmanacPart(m)
        clash(i) == \/ a.parts[i].iss # p.iss
                    \/ i = m.type /\ ~SameAlmanacPart(a.parts[i], p)
                    \/ BothSay(a.parts[i].week, p.week) \/ BothSay(a.parts[i].ref, p.ref)
    IN  IF late \/ first \/ \E i \in DOMAIN a.parts : clash(i) THEN NoAlmanac ELSE a

SlotFirst(m, slot) == IF IsFnav(m) THEN 5 ELSE slot + 6
SlotLast(m, slot) == IF IsFnav(m) THEN (IF slot = 1 THEN 5 ELSE 6) ELSE slot + 7
SlotRef(m, slot) == IF IsFnav(m) THEN 5 ELSE IF slot = 1 THEN 7 ELSE 9
SlotGap(m, slot) == IF IsFnav(m) THEN 100 ELSE IF slot = 2 THEN 60 ELSE 30

\* Mutant: any head goes with any tail.
SlotReadyAnyGap(a, m, slot) ==
    /\ slot \notin a.emitted
    /\ {SlotFirst(m, slot), SlotLast(m, slot), SlotRef(m, slot)} \subseteq DOMAIN a.parts

SlotReady(a, m, slot) ==
    /\ slot \notin a.emitted
    /\ {SlotFirst(m, slot), SlotLast(m, slot), SlotRef(m, slot)} \subseteq DOMAIN a.parts
    /\ LET gap == a.parts[SlotLast(m, slot)].t - a.parts[SlotFirst(m, slot)].t
       IN  gap >= 0 /\ gap < SlotGap(m, slot)

SlotAlmanac(a, m, slot) ==
    LET id == a.parts[IF IsFnav(m) /\ slot = 3 THEN 6 ELSE SlotFirst(m, slot)].ids[slot]
        ref == a.parts[SlotRef(m, slot)]
    IN  IF id \notin 1..36 THEN <<>>
        ELSE <<Output(IF IsFnav(m) THEN "gal_fnav_almanac" ELSE "gal_inav_almanac", TRUE, id,
                 [Blank EXCEPT !.body = {<<i, a.parts[i].up>> : i \in {SlotFirst(m, slot), SlotLast(m, slot)}},
                               !.issue = ref.iss, !.ref = GstTime(m.t, ref.week, ref.ref, 4)])>>

GalAlmanacStep(a, m) ==
    LET base == GalAlmanacBase(a, m)
        b == [base EXCEPT !.parts = With(@, m.type, GalAlmanacPart(m)),
                          !.start = IF @ = None THEN m.t ELSE @]
        ready == {slot \in 1..3 : SlotReady(b, m, slot)}
        row(slot) == IF slot \in ready THEN SlotAlmanac(b, m, slot) ELSE <<>>
    IN  IF m.type \notin GalAlmanacTypes(m) THEN [alm |-> a, out |-> <<>>]
        ELSE [alm |-> [b EXCEPT !.emitted = @ \cup ready], out |-> row(1) \o row(2) \o row(3)]

----------------------------------------------------------------------------
\* decode() for I/NAV and F/NAV.  `own` says that the satellite number in the
\* word, if it has one, is the broadcasting satellite's.
GalileoDecode(a, m) ==
    LET s == Sar(a.sar, m)
        heard == [a EXCEPT !.sar = s.s]
        said == s.out \o GalModels(m)
                \o Said(IF ~IsFnav(m) /\ m.type = 16 THEN "gal_reduced_ced" ELSE "gal_word", m)
        e == GalEphemerisStep(a.eph, m)
        l == GalAlmanacStep(a.alm, m)
    IN  IF ~m.sat \/ ~m.head THEN [asm |-> a, out |-> <<>>]
        ELSE IF m.type = 63 THEN [asm |-> a, out |-> Said("gal_dummy", m)]
        ELSE IF m.type \notin GalTypes(m) THEN [asm |-> heard, out |-> s.out]
        ELSE IF ~m.own THEN [asm |-> heard, out |-> <<>>]
        ELSE IF m.t = None THEN [asm |-> heard, out |-> said]
        ELSE [asm |-> [sar |-> s.s, eph |-> e.eph, alm |-> l.alm], out |-> said \o e.out \o l.out]

----------------------------------------------------------------------------
(* galileo_snapshot, galileo_expired                                       *)

GalEphemerides == {"gal_inav_ephemeris", "gal_fnav_ephemeris"}
HasKinds == {"gal_has_orbit", "gal_has_clock_full", "gal_has_clock_subset",
             "gal_has_code_bias", "gal_has_phase_bias"}

GalileoSnapshot(r, kind, t) ==
    /\ kind \in HasKinds \cup {"gal_ism_sl3"} => r.until # None /\ r.ref =< t /\ t < r.until
    /\ kind \in GalEphemerides => Within(r.toe, t, 0, 14400) /\ Within(r.toc, t, 0, 14400)
    /\ kind = "gal_ggto" => r.good

GalileoExpired(r, kind, t) ==
    \/ kind \in HasKinds \cup {"gal_ism_sl3"} /\ r.until # None /\ t >= r.until
    \/ kind \in GalEphemerides /\ r.toe # None /\ t > r.toe + 14400
=============================================================================
