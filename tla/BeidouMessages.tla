--------------------------- MODULE BeidouMessages ---------------------------
(***************************************************************************)
(* BeiDou D1/D2 subframes and B-CNAV1/2/3 messages (BeidouDecoder).  The   *)
(* parts of an ephemeris have no common issue: D1 and D2 require one frame *)
(* without a gap, B-CNAV2 neighbouring messages and a matching IODC,       *)
(* B-CNAV3 only that orbit and clock have one reference time.              *)
(***************************************************************************)
EXTENDS PppB2bMessages

PartLifetime == 90
AlmanacFresh == 2250
SowModulo(x) == x % WeekSeconds

NoAlmanacContext == [week |-> 0, toa |-> 0, reference |-> None, expanded |-> FALSE, seen |-> None]
NoBeidou == [parts |-> <<>>, alm |-> NoAlmanacContext]

IsD2(m) == m.fam = "BDS_D2"
IsLegacy(m) == m.fam \in {"BDS_D1", "BDS_D2"}
BdsPart(m) == [up |-> m.up, sow |-> m.sow, t |-> m.t, toe |-> m.toe, toc |-> m.toc,
               week |-> m.week, iss |-> m.iss, healthy |-> m.healthy]

\* Parts expire one by one.
Unexpired(parts, t) ==
    [i \in {j \in DOMAIN parts : t >= parts[j].t /\ t - parts[j].t =< PartLifetime} |-> parts[i]]
Put(parts, i, m) == With(parts, i, BdsPart(m))
Repeats(parts, i, m) == i \in DOMAIN parts /\ parts[i].sow = m.sow /\ parts[i].up = m.up

\* toe and toc in the weeks nearest to the transmission of part `from`; only the
\* rows of D1 and D2 hold that transmission and the health.
BdsEphemeris(parts, m, from, toe, toc) ==
    LET sent == BdtTime(m.t, parts[from].week, parts[from].sow, 8192)
        row == [Blank EXCEPT !.body = Body(parts), !.week = parts[from].week,
                             !.toe = BdtNearest(sent, toe), !.toc = BdtNearest(sent, toc)]
    IN  <<Output("bds_ephemeris", TRUE, 0,
               IF IsLegacy(m) THEN [row EXCEPT !.tx = sent, !.healthy = Healthy(parts)] ELSE row)>>

----------------------------------------------------------------------------
(* D1 and D2.  Subframe m.type, page m.id.                                 *)

LegacyParts(m) == IF IsD2(m) THEN {1} \cup 3..10 ELSE 1..3
LegacyId(m) == IF IsD2(m) THEN m.id ELSE m.type
HasLegacyPart(m) == IF IsD2(m) THEN m.type = 1 /\ m.id \in LegacyParts(m) ELSE m.type =< 3

\* All parts there and sent one after the other.
Contiguous(parts, m) ==
    /\ DOMAIN parts = LegacyParts(m)
    /\ \A i \in DOMAIN parts :
          SowModulo(parts[i].sow - parts[1].sow) = (i - 1) * (IF IsD2(m) THEN 3 ELSE 6)

\* A new first part starts a frame; so does a part that contradicts its twin.
LegacyGather(parts, m) ==
    LET id == LegacyId(m)
        old == Unexpired(parts, m.t)
        restart == id = 1 \/ (id \in DOMAIN old /\ old[id].sow = m.sow)
    IN  IF Repeats(old, id, m) THEN old ELSE Put(IF restart THEN <<>> ELSE old, id, m)

LegacyEphemeris(parts, m) ==
    LET b == LegacyGather(parts, m)
        toe == b[IF IsD2(m) THEN 7 ELSE 3].toe
    IN  IF ~Contiguous(b, m) \/ toe # b[1].toc THEN [parts |-> b, out |-> <<>>]
        ELSE [parts |-> <<>>, out |-> BdsEphemeris(b, m, 1, toe, b[1].toc)]

\* The pages of subframe 5 (and 4 in D1) that say something of the almanac.
UpperHealth(m) == m.type = 5 /\ m.id = (IF IsD2(m) THEN 36 ELSE 8)
BaseSubject(m) ==
    IF IsD2(m)
      THEN IF m.type = 5 /\ m.id \in 37..60 THEN m.id - 36
           ELSE IF m.type = 5 /\ m.id \in 95..100 THEN m.id - 70 ELSE 0
      ELSE IF m.type = 4 /\ m.id \in 1..24 THEN m.id
           ELSE IF m.type = 5 /\ m.id \in 1..6 THEN m.id + 24 ELSE 0
SeenLately(t, seen) == t # None /\ seen # None /\ t >= seen /\ t - seen =< AlmanacFresh

\* Pages that hold the almanac of satellites 31-63 while the almanac says so;
\* m.iss is AmID.
ExpandedSubject(ac, m) ==
    LET n == m.id - (IF IsD2(m) THEN 103 ELSE 11)  subject == 31 + 13 * (m.iss - 1) + n IN
      IF m.type = 5 /\ n \in 0..12 /\ SeenLately(m.t, ac.seen) /\ ac.expanded /\ m.iss \in 1..3 /\ subject =< 63
        THEN subject ELSE 0

AlmanacContext(ac, m) ==
    LET dated == IF UpperHealth(m) /\ m.t # None
                   THEN [ac EXCEPT !.week = m.week, !.toa = m.ref, !.reference = m.t] ELSE ac
    IN  IF BaseSubject(m) > 0 /\ m.t # None
          THEN [dated EXCEPT !.expanded = (m.iss = 3), !.seen = m.t] ELSE dated

\* An almanac is kept only when its toa is the one the health page dates.
LegacyAlmanac(ac, m) ==
    LET subject == IF BaseSubject(m) > 0 THEN BaseSubject(m) ELSE ExpandedSubject(ac, m)
        ref == IF SeenLately(m.t, ac.reference) /\ m.ref = ac.toa
                 THEN BdtTime(m.t, ac.week, ac.toa, 256) ELSE None
    IN  IF subject = 0 \/ ~m.good THEN <<>>
        ELSE <<Output("bds_almanac", ref # None, 0,
                      [Single(m) EXCEPT !.body = {<<subject, m.up>>}, !.ref = ref])>>

LegacyModels(m) ==
    LET kept(kind, on) == IF on THEN <<Output(kind, TRUE, 0, Single(m))>> ELSE <<>> IN
      Said("bds_header", m)
        \o kept("bds_klobuchar", m.type = 1 /\ (IsD2(m) => m.id = 2))
        \o kept("bds_utc", m.type = 5 /\ m.id = (IF IsD2(m) THEN 102 ELSE 10))
        \o kept("bds_bgto", m.type = 5 /\ m.id = (IF IsD2(m) THEN 101 ELSE 9))

LegacyDecode(a, m) ==
    LET ac == AlmanacContext(a.alm, m)
        said == LegacyModels(m) \o LegacyAlmanac(ac, m)
        e == LegacyEphemeris(a.parts, m)
    IN  IF m.type \notin 1..5 \/ ~m.head THEN [asm |-> a, out |-> <<>>]
        ELSE IF ~HasLegacyPart(m) \/ m.t = None THEN [asm |-> [a EXCEPT !.alm = ac], out |-> said]
        ELSE [asm |-> [alm |-> ac, parts |-> e.parts], out |-> said \o e.out]

----------------------------------------------------------------------------
(* B-CNAV1, 2 and 3: the models by message (or page) type.                 *)

\* Satellite 0 is a dummy almanac.
BcnavModels(m) ==
    LET almanac(kind) == IF m.id # 0 THEN <<kind>> ELSE <<>> IN
    CASE m.fam = "BDS_BCNAV1" /\ m.type = 1 -> <<"bdgim", "utc">>
      [] m.fam = "BDS_BCNAV1" /\ m.type = 2 -> almanac("reduced_almanac")
      [] m.fam = "BDS_BCNAV1" /\ m.type = 3 -> <<"eop", "bgto">>
      [] m.fam = "BDS_BCNAV2" /\ m.type = 30 -> <<"bdgim">>
      [] m.fam = "BDS_BCNAV2" /\ m.type = 31 -> almanac("reduced_almanac")
      [] m.fam = "BDS_BCNAV2" /\ m.type = 32 -> <<"eop">>
      [] m.fam = "BDS_BCNAV2" /\ m.type = 33 -> <<"bgto">> \o almanac("reduced_almanac")
      [] m.fam = "BDS_BCNAV2" /\ m.type = 34 -> <<"utc">>
      [] m.fam = "BDS_BCNAV3" /\ m.type = 30 -> <<"bdgim", "utc", "eop">>
      [] m.fam = "BDS_BCNAV3" /\ m.type = 40 -> <<"bgto">> \o almanac("midi_almanac") \o almanac("reduced_almanac")
      [] (m.fam = "BDS_BCNAV1" /\ m.type = 4) \/ (m.fam = "BDS_BCNAV2" /\ m.type = 40) -> almanac("midi_almanac")
      [] OTHER -> <<>>

ById == {"reduced_almanac", "midi_almanac", "bgto"}

BcnavKept(m) ==
    LET kinds == BcnavModels(m)
    IN  [i \in DOMAIN kinds |->
            Output(kinds[i], TRUE, IF kinds[i] \in ById THEN m.id ELSE 0,
                   [Single(m) EXCEPT !.good = m.good,
                                 !.ref = BdtTime(m.t, m.week, m.ref, 8192)])]

\* B-CNAV1 holds a whole ephemeris, with the hour of the week it is sent in, as
\* m.top; it counts if its issues agree.
Bcnav1Decode(a, m) ==
    LET hour == BdtTime(m.t, m.week, m.top, 8192)
        eph == <<Output("bds_ephemeris", TRUE, 0,
                   [Single(m) EXCEPT !.week = m.week, !.top = m.top,
                                     !.toe = BdtNearest(hour, m.toe), !.toc = BdtNearest(hour, m.toc)])>>
    IN  [asm |-> a, out |-> (IF m.iss = m.iode THEN eph ELSE <<>>) \o BcnavKept(m)]

Orbit1(m) == m.type = 10
Orbit2(m) == m.fam = "BDS_BCNAV2" /\ m.type = 11
ClockPart(m) == IF m.fam = "BDS_BCNAV2" THEN m.type \in 30..34 ELSE m.type = 30
BcnavTypes(m) == IF m.fam = "BDS_BCNAV2" THEN {10, 11, 40} \cup 30..34 ELSE {10, 30, 40}
BcnavParts(m) == IF m.fam = "BDS_BCNAV2" THEN 1..3 ELSE {1, 3}

\* A new first orbit part starts a cycle.
BcnavGather(parts, m) ==
    LET old == Unexpired(parts, m.t)
        id == IF Orbit1(m) THEN 1 ELSE IF Orbit2(m) THEN 2 ELSE 3
    IN  IF ~(Orbit1(m) \/ Orbit2(m) \/ ClockPart(m)) \/ Repeats(old, id, m) THEN old
        ELSE Put(IF id = 1 THEN <<>> ELSE old, id, m)

Belongs(parts, m) ==
    /\ m.fam = "BDS_BCNAV2" =>
          SowModulo(parts[2].sow - parts[1].sow) = 3 /\ parts[3].iss = parts[1].iss
    /\ parts[1].toe = parts[3].toc

BcnavEphemeris(parts, m) ==
    LET b == BcnavGather(parts, m) IN
      IF DOMAIN b # BcnavParts(m) \/ ~Belongs(b, m) THEN [parts |-> b, out |-> <<>>]
      ELSE [parts |-> <<>>,
            out |-> BdsEphemeris(b, m, IF m.fam = "BDS_BCNAV2" THEN 1 ELSE 3, b[1].toe, b[3].toc)]

Bcnav23Decode(a, m) ==
    LET said == BcnavKept(m)  e == BcnavEphemeris(a.parts, m) IN
      IF ~m.own \/ ~m.head \/ m.type \notin BcnavTypes(m) THEN [asm |-> a, out |-> <<>>]
      ELSE IF m.t = None THEN [asm |-> a, out |-> said]
      ELSE [asm |-> [a EXCEPT !.parts = e.parts], out |-> said \o e.out]

\* decode(): by family.
BeidouDecode(a, m) ==
    IF ~m.sat THEN [asm |-> a, out |-> <<>>]
    ELSE IF m.fam = "BDS_PPP_B2B" THEN [asm |-> a, out |-> PppDecode(m)]
    ELSE IF IsLegacy(m) THEN LegacyDecode(a, m)
    ELSE IF m.fam = "BDS_BCNAV1" THEN Bcnav1Decode(a, m)
    ELSE Bcnav23Decode(a, m)

----------------------------------------------------------------------------
(* beidou_snapshot, beidou_expired                                         *)

PppTimed == {"orbit", "code_bias", "clock_mask", "clock_direct", "ura"}

BeidouSnapshot(r, kind, t) ==
    /\ kind \in PppTimed => r.ref # None /\ r.until # None /\ t >= r.ref /\ t < r.until
    /\ kind = "bgto" => r.good
    /\ kind = "bds_ephemeris" => Within(r.toe, t, 3600, 3600) /\ Within(r.toc, t, 3600, 3600)

BeidouExpired(r, kind, t) ==
    \/ kind \in PppTimed /\ (r.until = None \/ t >= r.until)
    \/ kind = "bds_ephemeris" /\ (r.toe = None \/ t > r.toe + 3600)
=============================================================================
