--------------------------- MODULE BroadcastFeed ---------------------------
(***************************************************************************)
(* A receiver's frames, some of which are lost, fed to the message decoder *)
(* and to the navigation state.  Broadcasts[which] is what the satellites  *)
(* send; a frame's `up` is the upload it belongs to.                       *)
(***************************************************************************)
EXTENDS BroadcastNavigation

CONSTANTS
    Broadcasts,     \* what may be sent: the frames, the interval of the snapshots,
                    \* and after which frames a break may be declared
    MaxLost         \* frames lost in a behaviour

\* Times are seconds or absent, and an orbit block of a HAS message has a
\* validity index.
ASSUME FramesAssumption ==
    /\ None \notin Int
    /\ \A b \in DOMAIN Broadcasts :
          LET frames == Broadcasts[b].frames IN
            /\ frames \in Seq({frames[i] : i \in DOMAIN frames})
            /\ \A i \in DOMAIN frames :
                  /\ frames[i].t \in Int \cup {None}
                  /\ frames[i].fam = "GAL_CNAV" /\ frames[i].status # 3 =>
                        (frames[i].msg.orbit # None => frames[i].msg.until # None)

VARIABLES which, pos, lost, breaks,
          reports   \* every report that navigation decoded, for the properties

vars == <<decoderVars, navVars, which, pos, lost, breaks, reports>>

schedule == Broadcasts[which].frames

Init == /\ which \in DOMAIN Broadcasts
        /\ interval = Broadcasts[which].interval
        /\ DecodersInit /\ NavInit
        /\ pos = 0 /\ lost = {} /\ breaks = {} /\ reports = <<>>

Sent == schedule[pos + 1]

Deliver ==
    /\ pos < Len(schedule)
    /\ Feed(Sent)
    /\ \E r \in {Reading(Sent)} :
         /\ NavFeed(Sent, r)
         /\ reports' = reports \o [i \in DOMAIN r.reports |-> [sv |-> Sent.sv, e |-> r.reports[i].e]]
    /\ pos' = pos + 1
    /\ UNCHANGED <<which, lost, breaks>>

Lose ==
    /\ pos < Len(schedule) /\ Cardinality(lost) < MaxLost
    /\ pos' = pos + 1 /\ lost' = lost \cup {pos + 1}
    /\ out' = <<>> /\ shown' = <<>>
    /\ UNCHANGED <<decoder, log, navVars, which, breaks, reports>>

\* The caller knows of a break in the recording.
Break ==
    /\ breaks = {} /\ pos \in Broadcasts[which].breaks
    /\ Discontinuity
    /\ breaks' = {pos}
    /\ UNCHANGED <<navVars, which, pos, lost, reports>>

Next == Deliver \/ Lose \/ Break
Spec == Init /\ [][Next]_vars

----------------------------------------------------------------------------
(* What the decoder promises.                                              *)

Ephemerides == {"ephemeris", "cnav_ephemeris", "gal_inav_ephemeris", "gal_fnav_ephemeris", "bds_ephemeris"}
Assembled == Ephemerides \cup {"gal_inav_almanac", "gal_fnav_almanac", "gal_sar_rlm", "gal_has_message"}
Uploads(row) == {p[2] : p \in row.body}

\* Three signals have a part that no label ties to an upload: the clock's word of
\* I/NAV, the second orbit message of CNAV, which has the reference time of the
\* first, and the orbit of B-CNAV3, which has that of the clock.
LoosePart(fam) ==
    CASE fam = "GAL_INAV" -> [part |-> 5, type |-> 5]
      [] fam = "QZS_CNAV" -> [part |-> 11, type |-> 11]
      [] fam = "BDS_BCNAV3" -> [part |-> 1, type |-> 10]
      [] OTHER -> [part |-> None, type |-> None]
LooseAge(m) == IF m.fam = "QZS_CNAV" THEN (IF m.l2 THEN 144 ELSE 72) ELSE 90

\* That the frame at j gave the loose part of upload `up` to the row that the
\* frame m completed: it was taken, with no break since, not too long before.
Gave(j, m, up, row) ==
    LET f == schedule[j] IN
      /\ Slot(f) = Slot(m) /\ f.type = LoosePart(m.fam).type /\ f.up = up
      /\ j \notin lost /\ \A b \in breaks : b < j
      /\ m.t - f.t =< LooseAge(m)
      /\ m.fam = "QZS_CNAV" => NearTime(row.toe, f.toe) = row.toe
      /\ m.fam = "BDS_BCNAV3" => BdtNearest(row.toc, f.toe) = row.toc

\* Whatever is put together from several messages is of one upload, but for the
\* part that nothing ties to it: no loss, no change of upload and no break mixes
\* the rest, although most families label their parts with less than the upload.
\* The loose part may be of the upload before, but it is one that was received
\* within the age limit and since the last break, and that has the reference
\* time of the rest where it has one.
AssembledWhole ==
    LET m == schedule[pos]
        loose(x) == x.kind \in Ephemerides /\ LoosePart(m.fam).part # None
    IN  \A i \in DOMAIN out : out[i].kind \in Assembled =>
          LET body == out[i].row.body
              apart == {p \in body : loose(out[i]) /\ p[1] = LoosePart(m.fam).part}
          IN  /\ Cardinality({p[2] : p \in body \ apart}) = 1
              /\ \A p \in apart : \E j \in 1..pos : Gave(j, m, p[2], out[i].row)

\* The reference time of an ephemeris is within half a week of its reception,
\* also when its messages lie on both sides of the change of the week.
Nearby(kinds) ==
    \A i \in DOMAIN log : log[i].out.kind \in kinds /\ log[i].t # None =>
        \A ref \in {log[i].out.row.toe, log[i].out.row.toc} :
            ref # None => AbsDiff(ref, log[i].t) =< WeekSeconds \div 2
EphemerisTimes == Nearby(Ephemerides \ {"cnav_ephemeris"})

\* The same of QZSS CNAV, whose week comes from message type 10.
CnavEphemerisTimes == Nearby({"cnav_ephemeris"})

PartTypes(fam) ==
    CASE fam \in {"GPS_LNAV", "QZS_LNAV", "BDS_D1"} -> 1..3
      [] fam \in {"QZS_CNAV", "BDS_BCNAV2"} -> {10, 11, 30}
      [] fam = "BDS_BCNAV3" -> {10, 30}
      [] fam = "GAL_INAV" -> 1..5
      [] fam = "GAL_FNAV" -> 1..4
      [] fam = "BDS_D2" -> {1} \cup 3..10
      [] OTHER -> {}
PartType(m) == IF m.fam = "BDS_D2" THEN m.id ELSE m.type
PartFrames(slot) == {i \in 1..pos : Slot(schedule[i]) = slot /\ PartType(schedule[i]) \in PartTypes(slot[2])}

\* Two cycles of an upload that arrive whole yield its ephemeris, whatever was
\* under way before them: no assembly is stuck on what can no longer complete.
\* (One cycle need not: an assembly that becomes too old takes with it the
\* parts of the cycle that it had.)
TwoCyclesSuffice ==
    \A slot \in {Slot(schedule[i]) : i \in 1..pos} :
        LET n == 2 * Cardinality(PartTypes(slot[2]))
            frames == PartFrames(slot)
            recent == {i \in frames : Cardinality({j \in frames : j >= i}) =< n}
            from == Min(recent)
            whole == /\ n > 0 /\ Cardinality(recent) = n /\ ~failed
                     /\ lost \cap recent = {} /\ \A b \in breaks : b < from
                     /\ Cardinality({schedule[i].up : i \in recent}) = 1
                     /\ \A i \in recent : schedule[i].pass /\ schedule[i].t # None
        IN  whole => \E i \in DOMAIN log :
                        /\ log[i].src = slot[1] /\ log[i].fam = slot[2] /\ log[i].t >= schedule[from].t
                        /\ log[i].out.kind \in Ephemerides
                        /\ Uploads(log[i].out.row) = {schedule[from].up}

----------------------------------------------------------------------------
\* Two log entries that say the same of the same: what was broadcast, and the
\* times it is put to, whenever it was sent and received.  A repeated PPP-B2b
\* correction has another epoch and is the same.
SameCandidate(e, f) ==
    LET p == e.out.row  q == f.out.row IN
      /\ <<e.out.kind, e.src, e.fam, e.out.disc>> = <<f.out.kind, f.src, f.fam, f.out.disc>>
      /\ <<p.body, p.week, p.tow, p.top, p.issue>> = <<q.body, q.week, q.tow, q.top, q.issue>>
      /\ <<p.fit, p.good, p.healthy>> = <<q.fit, q.good, q.healthy>>
      /\ e.fam # "BDS_PPP_B2B" => <<p.toe, p.toc, p.ref, p.until>> = <<q.toe, q.toc, q.ref, q.until>>

\* Remembered, in the seven days before n, not said again since, and its service
\* not withdrawn since.
Stands(i, n) ==
    LET e == log[i] IN
      /\ e.out.cand /\ e.t # None /\ e.t < n /\ n - e.t =< SevenDays
      /\ \A j \in (i + 1)..Len(log) :
            /\ ~(log[j].out.cand /\ log[j].t # None /\ SameCandidate(e, log[j]))
            /\ ~(log[j].has /\ e.out.kind \in HasKinds)
            /\ ~(log[j].ppp /\ e.out.kind \in PppAll /\ log[j].src = e.src /\ log[j].fam = e.fam)

\* The references that the entries of a kind, with the same labels, give.
Dates(e, kind, n) ==
    {log[i].out.row.ref : i \in {j \in DOMAIN log :
        /\ Stands(j, n) /\ log[j].out.kind = kind /\ log[j].src = e.src
        /\ log[j].out.row.ref # None /\ log[j].out.row.tow = e.out.row.tow
        /\ (kind = "cnav_utc" => log[j].out.row.top = e.out.row.top)}}

Dated(e, n) ==
    CASE e.out.kind = "cnav_eop" -> [e.out.row EXCEPT !.ref = Agreed(Dates(e, "cnav_utc", n))]
      [] e.out.kind = "almanac_entry" -> [e.out.row EXCEPT !.ref = Agreed(Dates(e, "almanac_epoch", n))]
      [] OTHER -> e.out.row

Expected(n) ==
    {[kind |-> log[i].out.kind, key |-> <<log[i].src, log[i].fam, log[i].out.disc>>,
      row |-> Dated(log[i], n), received |-> log[i].t] :
        i \in {j \in DOMAIN log : Stands(j, n) /\ Applies([kind |-> log[j].out.kind,
                 key |-> <<log[j].src, log[j].fam>>], Dated(log[j], n), n)}}

\* A snapshot holds what had been said before its time, has not been withdrawn
\* and applies to it: no row from its future, none of a service that said it is
\* not to be used, none twice, and none is missing because the cache was pruned.
SnapshotExact ==
    [][\A i \in DOMAIN shown' :
         LET s == shown'[i] IN
           /\ {[kind |-> s.rows[j].kind, key |-> s.rows[j].key, row |-> s.rows[j].row,
                received |-> s.rows[j].received] : j \in DOMAIN s.rows} = Expected(s.at)
           /\ Len(s.rows) = Cardinality(Expected(s.at))]_vars

\* The correction at L[i] refers to the mask and to the orbit message that its
\* source last announced under the names it uses, within their lifetime and not
\* before the service was withdrawn.  The last of `given` is the mask that the
\* orbit message was given under, `later` are the masks announced after it.
Refers(L, i) ==
    LET e == L[i]
        about == e.out.row.issue
        since == Max({0} \cup {j \in 1..i : L[j].has})
        masks == {j \in (since + 1)..i : L[j].src = e.src /\ L[j].out.kind = "gal_has_mask"
                                            /\ L[j].out.disc[1] = e.out.disc[1]}
        orbits == {j \in (since + 1)..i : L[j].src = e.src /\ L[j].out.kind = "gal_has_orbit"
                                             /\ L[j].out.disc = e.out.disc}
        orbit == Max(orbits)
        given == {j \in masks : j < orbit}
        later == {j \in masks : j > orbit}
    IN  /\ masks # {} /\ L[Max(masks)].out.row.issue = about.mask
        /\ e.t - L[Max(masks)].t < HasLifetime
        /\ about.ref # None =>
              /\ orbits # {} /\ given # {} /\ L[orbit].out.row.issue.ref = about.ref
              /\ e.t - L[orbit].t < HasLifetime
              /\ \A j \in later :
                    /\ L[j].out.row.issue = about.mask
                    /\ \/ L[orbit].out.row.issue.mask = about.mask
                       \/ L[j].t - L[Max(given)].t >= HasLifetime

\* Every HAS correction does: a malformed message changes neither mask nor
\* orbits, and no orbit message outlives the change of its mask, unless that
\* mask was forgotten before.
CorrectionsRefer ==
    \A i \in DOMAIN log : log[i].out.kind \in HasKinds => Refers(log, i)

----------------------------------------------------------------------------
(* What the navigation state promises.                                     *)

Times == {schedule[i].t : i \in 1..pos} \ {None}

\* A frame does not change the answer for a time at or before it, unless it
\* pushes an older ephemeris out.
PastAnswers ==
    [][pos' # pos /\ Sent.t # None => \A sv \in DOMAIN entries : IsPrefix(entries[sv], entries'[sv]) =>
         \A n \in {t \in Times' : t =< Sent.t} : Position(entries'[sv], n) = Position(entries[sv], n)]_vars

\* There is an answer for the time after the last frame just when something in
\* age was reported and the last such report of every family is healthy: a
\* satellite that one signal calls unhealthy is not masked by the other's.
HealthVeto ==
    LET now == Max(Times \cup {0}) + 1 IN
      \A sv \in DOMAIN entries :
        LET mine == {i \in DOMAIN reports : reports[i].sv = sv /\ InAge(reports[i].e, now)
                                              /\ reports[i].e.available < now}
            last(fam) == Max({i \in mine : reports[i].e.fam = fam})
        IN  (Position(entries[sv], now) # None) =
            (mine # {} /\ \A fam \in {reports[i].e.fam : i \in mine} : reports[last(fam)].e.healthy)
=============================================================================
