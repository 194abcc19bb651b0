------------------------- MODULE BroadcastDecoder --------------------------
(***************************************************************************)
(* BroadcastMessageDecoder: frames go in, in the order of their navigation *)
(* epochs; decoded messages come out, and at every multiple of the         *)
(* interval a snapshot of what is known: the parameter candidates in the   *)
(* cache that were received before it and that apply to its time.          *)
(*                                                                         *)
(* `log` is no part of the program: it lists what was remembered and       *)
(* withdrawn since the decoder began, for the properties to look back at.  *)
(***************************************************************************)
EXTENDS LnavMessages, CnavMessages, GalileoMessages, HasMessages, BeidouMessages, SequencesExt

CONSTANT Capacity       \* candidates the cache takes

VARIABLES
    interval,   \* seconds between snapshots
    asm,        \* what each <<source, family>> has under way
    cache,      \* the candidates, in the order they were first received
    progress,   \* the time of the last frame
    next,       \* the time of the next snapshot
    prunedAt,
    failed,
    out,        \* what the last call gave out: messages
    shown,      \* and the snapshots, as [at, rows]
    log

decoder == <<interval, asm, cache, progress, next, prunedAt, failed>>
decoderVars == <<decoder, out, shown, log>>

SevenDays == 604800
PruneEvery == 60

----------------------------------------------------------------------------
(* The candidates.                                                         *)

PppAll == PppTimed \cup {"mask"}

\* Mutant: the same, sent at another time, is another candidate.
ContentAsSent(kind, r) ==
    IF kind \in PppAll THEN [r EXCEPT !.ref = None, !.until = None] ELSE r

\* What a row says, without the marks of its transmission; PPP-B2b messages bear
\* their epoch as such a mark.
Content(kind, r) ==
    LET said == [r EXCEPT !.tx = None]
    IN  IF kind \in PppAll THEN [said EXCEPT !.ref = None, !.until = None] ELSE said

Remember(c, kind, key, row, t) ==
    LET same == {i \in DOMAIN c : /\ c[i].kind = kind /\ c[i].key = key
                                  /\ Content(kind, c[i].row) = Content(kind, row)}
    IN  IF t = None THEN c
        ELSE IF same # {}
          THEN [i \in DOMAIN c |-> IF i \in same THEN [c[i] EXCEPT !.row = row, !.received = t] ELSE c[i]]
        ELSE Append(c, [kind |-> kind, key |-> key, row |-> row, received |-> t, first |-> t])

FamilyExpired(kind, row, t) ==
    \/ kind \in CnavKinds /\ CnavExpired(row, kind, t)
    \/ GalileoExpired(row, kind, t)
    \/ BeidouExpired(row, kind, t)

Pruned(c, t) ==
    SelectSeq(c, LAMBDA x : ~(t - x.received > SevenDays \/ FamilyExpired(x.kind, x.row, t)))
PruneDue(t) == ~(prunedAt # None /\ t >= prunedAt /\ t - prunedAt < PruneEvery)

\* A service that says it is not to be used takes its candidates with it.
HasWithdrawn(o, m) == o.kind = "gal_has_status" /\ m.status = 3
PppWithdrawn(o) == o.kind = "bds_pppb2b_status" /\ ~o.row.good

Withdraw(c, o, m) ==
    SelectSeq(c, LAMBDA x :
        /\ ~(HasWithdrawn(o, m) /\ x.kind \in HasKinds)
        /\ ~(PppWithdrawn(o) /\ x.kind \in PppAll /\ x.key[1] = m.src /\ x.key[2] = m.fam))

----------------------------------------------------------------------------
(* Snapshots.                                                              *)

Known(c, kind, source) == {i \in DOMAIN c : c[i].kind = kind /\ c[i].key[1] = source /\ c[i].row.ref # None}

\* One reference that all agree on, or none.
Agreed(refs) == IF Cardinality(refs) = 1 THEN CHOOSE r \in refs : TRUE ELSE None

\* The week of the EOP comes from a UTC message with the same times of week.
EopReference(c, x, n) ==
    Agreed({c[i].row.ref : i \in {j \in Known(c, "cnav_utc", x.key[1]) :
        c[j].received < n /\ c[j].row.tow = x.row.tow /\ c[j].row.top = x.row.top}})

\* The week of an almanac entry comes from page 51 with the same toa.
AlmanacReference(c, x, n) ==
    Agreed({c[i].row.ref : i \in {j \in Known(c, "almanac_epoch", x.key[1]) :
        c[j].received =< n /\ c[j].row.tow = x.row.tow}})

Resolved(c, x, n) ==
    IF x.kind = "cnav_eop" THEN [x.row EXCEPT !.ref = EopReference(c, x, n)]
    ELSE IF x.kind = "almanac_entry" THEN [x.row EXCEPT !.ref = AlmanacReference(c, x, n)]
    ELSE x.row

\* Half the fit interval of an LNAV ephemeris; 0 where none is defined.
FitHalf(q, r) ==
    LET iodc == r.issue IN
    1800 * (IF ~r.fit THEN (IF q THEN 2 ELSE 4)
            ELSE IF q THEN 0
            ELSE IF iodc % 256 < 240 THEN 6
            ELSE IF iodc \in 240..247 THEN 8
            ELSE IF iodc \in 248..255 \cup {496} THEN 14
            ELSE IF iodc \in 497..503 \cup 1021..1023 THEN 26 ELSE 0)
ClockHalf(q, r) == IF q THEN 15 * 2^(r.issue \div 256) * 30 ELSE FitHalf(q, r)

EphemerisFits(q, r, n) ==
    /\ r.toe # None /\ FitHalf(q, r) > 0
    /\ Within(r.toe, n, FitHalf(q, r), FitHalf(q, r))
    /\ Within(r.toc, n, ClockHalf(q, r), ClockHalf(q, r))

Applies(x, row, n) ==
    /\ x.kind = "ephemeris" => EphemerisFits(x.key[2] = "QZS_LNAV", row, n)
    /\ x.kind \in CnavKinds => CnavSnapshot(row, x.kind, n)
    /\ GalileoSnapshot(row, x.kind, n)
    /\ BeidouSnapshot(row, x.kind, n)

InTime(x, n) == x.received < n /\ n - x.received =< SevenDays

Snapshot(c, n) ==
    LET rows == SelectSeq(c, LAMBDA x : InTime(x, n) /\ Applies(x, Resolved(c, x, n), n)) IN
      [at |-> n, rows |-> [i \in DOMAIN rows |-> [rows[i] EXCEPT !.row = Resolved(c, rows[i], n)]]]

First(t) == IF next = None THEN (t \div interval + 1) * interval ELSE next
Due(t) == IF t < First(t) THEN 0 ELSE (t - First(t)) \div interval + 1

----------------------------------------------------------------------------
(* The actions.                                                            *)

DecodersInit ==
    /\ asm = <<>> /\ cache = <<>>
    /\ progress = None /\ next = None /\ prunedAt = None
    /\ failed = FALSE
    /\ out = <<>> /\ shown = <<>> /\ log = <<>>

Slot(m) == <<m.src, m.fam>>
Fresh0(m) ==
    CASE m.fam \in {"GPS_LNAV", "QZS_LNAV", "QZS_CNAV"} -> Empty
      [] m.fam \in {"GAL_INAV", "GAL_FNAV"} -> NoGalileo
      [] m.fam = "GAL_CNAV" -> NoHas
      [] OTHER -> NoBeidou
Pending(m) == IF Slot(m) \in DOMAIN asm THEN asm[Slot(m)] ELSE Fresh0(m)

Decode(a, m) ==
    CASE m.fam \in {"GPS_LNAV", "QZS_LNAV"} -> LnavDecode(a, m)
      [] m.fam = "QZS_CNAV" -> CnavDecode(a, m)
      [] m.fam \in {"GAL_INAV", "GAL_FNAV"} -> GalileoDecode(a, m)
      [] m.fam = "GAL_CNAV" -> HasDecode(a, m)
      [] OTHER -> BeidouDecode(a, m)

Families == {"GPS_LNAV", "QZS_LNAV", "QZS_CNAV", "GAL_INAV", "GAL_FNAV", "GAL_CNAV",
             "BDS_D1", "BDS_D2", "BDS_PPP_B2B", "BDS_BCNAV1", "BDS_BCNAV2", "BDS_BCNAV3"}

\* One row at a time: what it withdraws, then what it adds.
Absorb(c, m, outs) ==
    FoldLeft(LAMBDA d, o :
                 LET w == Withdraw(d, o, m) IN
                   IF o.cand THEN Remember(w, o.kind, <<m.src, m.fam, o.disc>>, o.row, m.t) ELSE w,
             c, outs)

Logged(m, outs) ==
    [i \in DOMAIN outs |-> [t |-> m.t, src |-> m.src, fam |-> m.fam, out |-> outs[i],
                            has |-> HasWithdrawn(outs[i], m), ppp |-> PppWithdrawn(outs[i])]]

\* The call throws: no answer, and no later call is taken.
Fail == /\ failed' = TRUE /\ out' = <<>> /\ shown' = <<>>
        /\ UNCHANGED <<interval, asm, cache, progress, next, prunedAt, log>>

\* advance(): the snapshots up to the epoch of the frame, then the pruning.
Advance(t) ==
    /\ next' = First(t) + Due(t) * interval
    /\ progress' = t
    /\ shown' = [i \in 1..Due(t) |-> Snapshot(cache, First(t) + (i - 1) * interval)]
    /\ prunedAt' = IF PruneDue(t) THEN t ELSE prunedAt

\* What the frame's family made of it, d, and the candidates with it, c.
Answer(m, d, c) ==
    /\ out' = d.out /\ cache' = c
    /\ asm' = IF \E i \in DOMAIN d.out : HasWithdrawn(d.out[i], m)
                THEN [k \in DOMAIN asm |-> IF k[2] = m.fam THEN NoHas ELSE asm[k]]
                ELSE With(asm, Slot(m), d.asm)
    /\ log' = log \o Logged(m, d.out)

Remaining(m) == IF m.t # None /\ PruneDue(m.t) THEN Pruned(cache, m.t) ELSE cache
Ordered(m) == m.t = None \/ progress = None \/ m.t >= progress
Tick(m) ==
    IF m.t = None THEN shown' = <<>> /\ UNCHANGED <<next, progress, prunedAt>> ELSE Advance(m.t)

\* feed() of one frame; `pass` says that its checks passed.
Feed(m) ==
    /\ ~failed
    /\ IF ~Ordered(m) THEN Fail
       ELSE IF m.fam \in Families /\ m.pass
         THEN \E d \in {Decode(Pending(m), m)} : \E c \in {Absorb(Remaining(m), m, d.out)} :
                IF Len(c) > Capacity THEN Fail
                ELSE Tick(m) /\ Answer(m, d, c) /\ UNCHANGED <<interval, failed>>
         ELSE Tick(m) /\ out' = <<>> /\ cache' = Remaining(m) /\ UNCHANGED <<interval, failed, asm, log>>

\* discontinuity(): assemblies and the clock of the snapshots are given up,
\* the candidates are not.
Discontinuity ==
    /\ asm' = <<>> /\ progress' = None /\ next' = None
    /\ out' = <<>> /\ shown' = <<>>
    /\ UNCHANGED <<interval, cache, prunedAt, failed, log>>

=============================================================================
