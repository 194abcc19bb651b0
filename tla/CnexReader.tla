---------------------------- MODULE CnexReader ----------------------------
(***************************************************************************)
(* The native CommonNEX reader (libneognss-obs/src/cnex_engine.cpp, struct *)
(* Reader): validated frames of one receiver become observation epochs,    *)
(* RawBits, events and receiver-telemetry rows.  An import may stop after  *)
(* any frame and go on later from its checkpoint, reading the frames of    *)
(* the withheld measurement group again, frame by frame; "whole" is a      *)
(* reader that never stopped, "resumed" one that did.                      *)
(*                                                                         *)
(* A frame is [n, kind, t, v]: its number in the stream, which also stands *)
(* for its content, its time (None when invalid) and a value: the uptime   *)
(* of a status, the clock bias, or the clock counter of a MeasEpoch.       *)
(***************************************************************************)
EXTENDS TelemetryAssembler

CONSTANTS
    Week,          \* 604800 s
    Warmup,        \* intervals before a cadence is estimated (5)
    Capacity,      \* intervals it is estimated from (30)
    Families       \* [frames, length, ends]: what streams are made of, and the
                   \* bounds on their frames and declared ends

VARIABLES
    family,        \* what this stream is made of
    input,         \* the frames read so far
    whole,         \* the reader that never stopped
    resumed,       \* the reader that went through checkpoints
    upcoming,      \* the frame it reads next: an old one, or the next to come
    ends           \* declared ends so far

vars == <<family, input, whole, resumed, upcoming, ends>>

-----------------------------------------------------------------------------

Navigation == {"TIMEGPS", "PVT", "NAVTIME"}
Measurement == {"RAWX", "MEAS"}
Uptime == {"MONSYS", "STATUS"}
BitsKinds == {"SFRBX", "NAVBITS"}
Ubx == {"RAWX", "TIMEGPS", "EOE", "NAVPVT", "MONSYS", "SFRBX", "TIMTP", "NAVCLOCK"}

\* An absent value is none of the others; a receiver speaks one protocol.
Time == Int \cup {None}
PendingGroup == [t : Time, rows : SUBSET Nat, counter : Time]
ASSUME AbsentAssumption == None # "COMPLETE" /\ None \notin PendingGroup
ASSUME FamilyAssumption ==
    \A fam \in Families :
      /\ fam.frames \subseteq [kind : STRING, t : Time, v : Time]
      /\ \/ \A g \in fam.frames : g.kind \in Ubx
         \/ \A g \in fam.frames : g.kind \notin Ubx

Tow(t) == t % Week
\* The number a PVT block with do-not-use time and week reads as.
DoNotUse == 65536 * Week

Nothing == [events |-> <<>>, bits |-> <<>>, epochs |-> <<>>, rows |-> <<>>]

FreshReader ==
    [clock |-> FreshClock, tele |-> FreshAssembler,
     pos |-> [anchor |-> None, index |-> 0], next |-> 0,
     closure |-> None, navConflict |-> FALSE,
     last |-> [navigation |-> None, observation |-> None],
     cadence |-> [last |-> None, window |-> <<>>],
     pending |-> None, pendingStart |-> None, extras |-> {}, hasMeasurements |-> FALSE,
     reportedTail |-> None, failed |-> FALSE, out |-> Nothing]

Event(r, n, kind, scope, t, detail) ==
    [r EXCEPT !.out.events = Append(@,
        [n |-> n, kind |-> kind, scope |-> scope, t |-> t, detail |-> detail, at |-> r.pos,
         day |-> IF t = None THEN r.clock.archiveDay ELSE t \div DayLength])]

-----------------------------------------------------------------------------
(* Stages of consume(), in the order it calls them.                        *)

\* locate: frames are counted from the latest strictly later navigation time.
Locate(r, f) ==
    IF /\ f.kind \in Navigation /\ f.t # None
       /\ r.pos.anchor = None \/ f.t > r.pos.anchor
      THEN [r EXCEPT !.pos = [anchor |-> f.t, index |-> 0], !.next = 1]
      ELSE [r EXCEPT !.pos.index = r.next, !.next = @ + 1]

\* A navigation block; an invalid time disables the previous one.
NavigationBlock(r, f) ==
    LET reversed == f.t # None /\ r.last.navigation # None /\ f.t < r.last.navigation
        dated    == IF f.t = None THEN r ELSE [r EXCEPT !.last.navigation = f.t]
        marked   == IF f.kind = "TIMEGPS"
                      THEN [dated EXCEPT !.closure = f.t, !.navConflict = f.t = None]
                      ELSE dated
        told     == IF reversed
                      THEN [Event(marked, f.n, "TIME_REVERSAL", "NAVIGATION", f.t, None)
                              EXCEPT !.clock.progress = None]
                      ELSE marked
    IN  [told EXCEPT !.clock = SetNavigation(@, f.t)]

EmitBits(r, f) ==
    [r EXCEPT !.out.bits = Append(@,
        [n |-> f.n, t |-> Anchor(r.clock), uptime |-> AssociatedUptime(r.clock),
         at |-> r.pos, day |-> r.clock.archiveDay])]

EndOfEpoch(r, f) ==
    LET known == r.closure # None /\ ~r.navConflict /\ Tow(r.closure) = f.t
        told  == IF known
                   THEN Event(r, f.n, "EPOCH_COMPLETION", "NAVIGATION", r.closure, "COMPLETE")
                   ELSE Event(r, f.n, "EPOCH_COMPLETION", "NAVIGATION", None, "UNKNOWN")
    IN  [told EXCEPT !.closure = None, !.navConflict = FALSE]

Navigate(r, f) ==
    CASE f.kind \in Measurement /\ f.t # None -> [r EXCEPT !.clock = Advance(@, f.t)]
      [] f.kind \in Navigation -> NavigationBlock(r, f)
      [] f.kind \in BitsKinds -> EmitBits(r, f)
      [] f.kind = "EOE" -> EndOfEpoch(r, f)
      [] OTHER -> r

\* telemetry.frame: PVT blocks open windows, the time block dates them.
Assemble(r, f) ==
    LET ta   == [r.tele EXCEPT !.ubx = f.kind \in Ubx]
        next == CASE f.kind = "NAVPVT" -> f.t
                  [] f.kind = "PVT" -> IF f.t = None THEN DoNotUse ELSE f.t
                  [] OTHER -> ta.key
        opened == IF next = ta.key THEN ta
                  ELSE Open(ta, next, f.n, r.pos, r.clock.archiveDay)
    IN  [r EXCEPT !.tele =
            CASE f.t = None -> opened
              [] f.kind = "TIMEGPS" -> Stamp(opened, Tow(f.t), r.clock.navigation)
              [] f.kind = "PVT" -> Stamp(opened, f.t, r.clock.navigation)
              [] OTHER -> opened]

\* A restart is an event, and ends what was known of the navigation epoch.
Restart(r, n, reason, sample) ==
    IF reason = "none" THEN r
    ELSE Event([r EXCEPT !.closure = None], n, "RECEIVER_RESTART", "RECEIVER", sample, reason)

\* NAV-TIMEGPS is paired with the uptime the assembler holds for the window.
Pair(r, f) ==
    LET up     == r.tele.current.uptime
        sample == r.clock.navigation
        reason == RestartReason(r.clock, up, sample, TRUE)
        told   == Restart([r EXCEPT !.clock = ReportUptime(@, up, sample, TRUE)],
                          f.n, reason, sample)
    IN  IF f.kind # "TIMEGPS" \/ up = None \/ r.tele.current.gpst = None THEN r
        ELSE IF reason = "none" THEN told
        ELSE [told EXCEPT !.clock = SetNavigation(@, sample)]

\* MON-SYS carries no time; ReceiverStatus carries its own.
ReceiverStatus(r, f) ==
    LET sample == IF f.kind = "STATUS" THEN f.t ELSE None
        clock  == IF sample = None THEN r.clock ELSE Advance(r.clock, sample)
        direct == f.kind = "STATUS"
        told   == Restart([r EXCEPT !.clock = ReportUptime(clock, f.v, sample, direct)],
                          f.n, RestartReason(clock, f.v, sample, direct), sample)
    IN  IF f.kind \notin Uptime THEN r
        ELSE [told EXCEPT !.tele = StatusReport(@, sample, f.v, f.n, r.pos)]

\* estimates_frame and telemetry.measurement: pulse and clock reports.
Estimates(r, f) ==
    LET ta == r.tele
    IN  [r EXCEPT !.tele =
            CASE f.kind \in {"TIMTP", "PPS"} -> PulseReport(ta, f.t, f.n, r.pos)
              [] f.kind = "NAVCLOCK" -> ClockReport(ta, None, f.v, f.n, r.pos)
              [] f.kind = "PVT" -> ClockReport(ta, f.t, f.v, f.n, r.pos)
              [] f.kind \in Measurement -> MeasurementClock(ta, f.t, f.n, r.pos)
              [] OTHER -> ta]

-----------------------------------------------------------------------------
(* Observation epochs.                                                     *)

\* Lower median of the recent intervals, once there are enough of them.
Expected(window) ==
    IF Len(window) < Warmup THEN None
    ELSE SortSeq(window, <)[(Len(window) - 1) \div 2 + 1]

\* Inclusive tolerance of 0.8 to 1.2 expected periods.
CadenceKind(interval, expected) ==
    CASE interval < 0 -> "TIME_REVERSAL"
      [] interval = 0 -> "REPEATED_TIMESTAMP"
      [] expected # None /\ interval > 0 /\ interval * 5 > expected * 6 -> "OBSERVATION_GAP"
      [] expected # None /\ interval > 0 /\ interval * 5 < expected * 4 -> "EPOCH_INTERVAL_SHORT"
      [] OTHER -> "regular"

Classify(r, n, t) ==
    LET interval == t - r.cadence.last
        kind == CadenceKind(interval, Expected(r.cadence.window))
        told == IF kind = "regular" THEN r
                ELSE Event(r, n, kind, "OBSERVATION", t, None)
        window == Append(r.cadence.window, interval)
        kept == IF Len(window) > Capacity THEN Tail(window) ELSE window
    IN  IF r.cadence.last = None THEN r
        ELSE IF interval > 0 THEN [told EXCEPT !.cadence.window = kept]
        ELSE told

\* A closed epoch; one without a valid time is only counted.
Emit(r, n, t, rows, extras) ==
    LET told == Event([Classify(r, n, t) EXCEPT !.cadence.last = t],
                      n, "EPOCH_COMPLETION", "OBSERVATION", t, "COMPLETE")
    IN  IF t = None THEN r
        ELSE [told EXCEPT !.out.epochs = Append(@, [n |-> n, t |-> t, rows |-> rows,
                                                    extras |-> extras])]

Incomplete(r, n, basis) ==
    IF r.pending.t = None THEN r
    ELSE Event(r, n, "EPOCH_COMPLETION", "OBSERVATION", r.pending.t, basis)

\* A block of another time supersedes the withheld group.
Adopt(r, f) ==
    LET told == IF r.hasMeasurements THEN Incomplete(r, f.n, "SUPERSEDED") ELSE r
    IN  IF r.pending # None /\ r.pending.t = f.t THEN r
        ELSE [told EXCEPT !.pending = [t |-> f.t, rows |-> {}, counter |-> None],
                          !.pendingStart = f.n, !.extras = {}, !.hasMeasurements = FALSE]

\* The group has a clock counter, and the block has not the same.
Conflicts(counter, v) == counter # None /\ counter # v

AddMeasurements(r, f) ==
    IF Conflicts(r.pending.counter, f.v) THEN [r EXCEPT !.failed = TRUE]
    ELSE [r EXCEPT !.pending.rows = @ \cup {f.n}, !.pending.counter = f.v,
                   !.hasMeasurements = TRUE]

\* EndOfMeas of the withheld group; MeasExtra alone closes nothing.
CloseAny(r, f) ==
    LET emitted == IF r.hasMeasurements
                     THEN Emit(r, f.n, f.t, r.pending.rows, r.extras) ELSE r
    IN  IF r.pending = None THEN r
        ELSE [emitted EXCEPT !.pending = None, !.extras = {}, !.hasMeasurements = FALSE]

CloseGroup(r, f) ==
    LET emitted == IF r.hasMeasurements
                     THEN Emit(r, f.n, f.t, r.pending.rows, r.extras) ELSE r
    IN  IF r.pending = None \/ r.pending.t # f.t THEN r
        ELSE [emitted EXCEPT !.pending = None, !.extras = {}, !.hasMeasurements = FALSE]

Group(r, f) ==
    LET dated == IF f.kind \in Measurement /\ f.t # None
                   THEN [r EXCEPT !.last.observation = f.t] ELSE r
    IN  CASE f.kind = "EXTRA" -> [Adopt(r, f) EXCEPT !.extras = @ \cup {f.n}]
          [] f.kind = "RAWX" -> Emit(dated, f.n, f.t, {f.n}, {})
          [] f.kind = "MEAS" -> AddMeasurements(Adopt(dated, f), f)
          [] f.kind = "END" -> CloseGroup(r, f)
          [] OTHER -> r

-----------------------------------------------------------------------------
(* Reading, checkpoint and restore.                                        *)

Deliver(r) == [r EXCEPT !.out.rows = @ \o r.tele.ready, !.tele.ready = <<>>]

\* An exception leaves the import with nothing of this frame.
Settled(before, after) ==
    IF after.failed \/ Raised(after.tele) THEN [before EXCEPT !.failed = TRUE]
    ELSE Deliver(after)

Limit(r) == [r EXCEPT !.tele = Bound(@, r.pos)]

Consume(r, f) ==
    LET located == Locate(r, f)
        timed   == Pair(Assemble(Navigate(located, f), f), f)
        merged  == Limit(Estimates(ReceiverStatus(timed, f), f))
    IN  Settled(r, Group(merged, f))

\* Frames before nav_skip_before were imported already: only the withheld
\* group is rebuilt from them.
RereadLive(r, f) == Consume(r, f)

Reread(r, f) == Settled(r, Group(Limit(r), f))

CheckpointUnpaired(r) ==
    [clock |-> [r.clock EXCEPT !.pairedOffset = None],
     tele |-> [r.tele EXCEPT !.updates = 0], closure |-> r.closure,
     navConflict |-> r.navConflict, last |-> r.last, cadence |-> r.cadence,
     orderAnchor |-> r.pos.anchor, next |-> r.next]

Checkpoint(r) ==
    [clock |-> r.clock, tele |-> [r.tele EXCEPT !.updates = 0], closure |-> r.closure,
     navConflict |-> r.navConflict, last |-> r.last, cadence |-> r.cadence,
     orderAnchor |-> r.pos.anchor, next |-> r.next]

Restore(saved) ==
    [FreshReader EXCEPT !.clock = saved.clock, !.tele = saved.tele,
                        !.closure = saved.closure, !.navConflict = saved.navConflict,
                        !.last = saved.last, !.cadence = saved.cadence,
                        !.pos.anchor = saved.orderAnchor, !.next = saved.next]

\* resume_offset: the start of the withheld group, or what comes next.
ResumeOffset(r) == IF r.pending = None THEN upcoming ELSE r.pendingStart

\* finish: a declared end reports the withheld group once and the windows.
DeclaredEnd(r) ==
    LET untold == r.pending # None /\ r.hasMeasurements /\ r.reportedTail # r.pendingStart
        told   == IF untold
                    THEN [Incomplete(r, Len(input), "INCOMPLETE_TAIL")
                            EXCEPT !.reportedTail = r.pendingStart]
                    ELSE r
    IN  Deliver([told EXCEPT !.tele = FinishAll(@, r.pos)])

-----------------------------------------------------------------------------
(* The import.                                                             *)

Init ==
    /\ family \in Families
    /\ input = <<>> /\ whole = FreshReader /\ resumed = FreshReader
    /\ upcoming = 1 /\ ends = 0

CaughtUp == upcoming = Len(input) + 1

Feed ==
    /\ CaughtUp /\ ~whole.failed /\ ~resumed.failed /\ Len(input) < family.length
    /\ \E g \in family.frames :
         LET f == [n |-> Len(input) + 1, kind |-> g.kind, t |-> g.t, v |-> g.v]
         IN  /\ input' = Append(input, f)
             /\ whole' = Consume(whole, f)
             /\ resumed' = Consume(resumed, f)
    /\ upcoming' = upcoming + 1
    /\ UNCHANGED <<family, ends>>

\* An invocation ends, its parts are published; the next one goes on from the
\* checkpoint and reads the frames of the withheld group again.
Continue ==
    /\ CaughtUp /\ ~resumed.failed
    /\ resumed' = [Restore(Checkpoint(resumed)) EXCEPT !.out = resumed.out]
    /\ upcoming' = ResumeOffset(resumed)
    /\ UNCHANGED <<family, input, whole, ends>>

ReadAgain ==
    /\ ~CaughtUp
    /\ resumed' = Reread(resumed, input[upcoming])
    /\ upcoming' = upcoming + 1
    /\ UNCHANGED <<family, input, whole, ends>>

\* --finalize-telemetry or the end of a live session.  An invocation that
\* read no frame of its own has nothing to finalize.
FrameRead(r) == r.pos.index = r.next - 1
DeclareEnd ==
    /\ CaughtUp /\ ends < family.ends /\ ~resumed.failed /\ FrameRead(resumed)
    /\ ends' = ends + 1
    /\ whole' = DeclaredEnd(whole) /\ resumed' = DeclaredEnd(resumed)
    /\ UNCHANGED <<family, input, upcoming>>

Next == Feed \/ Continue \/ ReadAgain \/ DeclareEnd

Spec == Init /\ [][Next]_vars

-----------------------------------------------------------------------------
(* Properties.                                                             *)

Out == resumed.out
Occurrences(seq) == {seq[i] : i \in DOMAIN seq}

\* What a later frame can observe of a reader: not the position of the last
\* frame, which group a declared end reported, or where none is withheld.
Context(r) ==
    [r EXCEPT !.pos.index = 0, !.reportedTail = None, !.tele.updates = 0,
              !.pendingStart = IF r.pending = None THEN None ELSE @]

\* An import continued from its checkpoints publishes what one that never
\* stopped publishes, nothing twice and nothing less, and holds the same state.
ResumedSame == CaughtUp => Context(resumed) = Context(whole)

\* An epoch holds every measurement block of its group, a group closed by its
\* EndOfMeas becomes one epoch, and an epoch has one COMPLETE event.
Frames(kinds) == {n \in DOMAIN input : input[n].kind \in kinds}
LastOf(kinds, n) == Max({0} \cup {m \in Frames(kinds) : m < n})
ClosedAt(n) ==
    /\ n \in Frames({"END"}) /\ input[n].t # None
    /\ LET m == LastOf({"MEAS", "EXTRA", "END"}, n)
       IN  m > 0 /\ input[m].kind = "MEAS" /\ input[m].t = input[n].t
EpochsWhole ==
    LET epochs == Occurrences(Out.epochs)
        told   == {i \in DOMAIN Out.events : Out.events[i].scope = "OBSERVATION"
                                             /\ Out.events[i].detail = "COMPLETE"}
    IN  /\ \A e \in epochs :
             e.rows = {m \in Frames(Measurement) : m \in Min(e.rows)..e.n}
               /\ \A m \in e.rows : input[m].t = e.t
        /\ \A n \in Frames({"END"}) : ClosedAt(n) /\ ~resumed.failed =>
             \E e \in epochs : e.n = n
        /\ Cardinality(told) = Len(Out.epochs)
        /\ {Out.events[i].n : i \in told} = {e.n : e \in epochs}

\* A RawBits record carries the time of the latest navigation block only: not
\* over an invalid block, a restart, or more than the timeout of receiver time.
FreshAnchor ==
    \A b \in Occurrences(Out.bits) : b.t # None =>
      LET m == LastOf(Navigation, b.n)
      IN  /\ m > 0 /\ input[m].t = b.t
          /\ ~\E e \in Occurrences(Out.events) :
                e.kind = "RECEIVER_RESTART" /\ e.n \in (m + 1)..b.n
          /\ \A k \in Frames(Measurement \cup {"STATUS"}) :
                k \in m..b.n /\ input[k].t # None => input[k].t - b.t <= Timeout

\* A restart by uptime decrease is only told after an uptime that decreased:
\* the assembler pairs MON-SYS with the navigation cycle it belongs to.
RestartJustified ==
    \A e \in Occurrences(Out.events) : e.detail = "UPTIME_DECREASE" =>
      \E i, j \in Frames(Uptime) : i < j /\ j <= e.n /\ input[j].v < input[i].v

\* Every telemetry report is in one row, published or pending, over windows,
\* uptime conflicts, resource limits, declared ends and continuations.
PendingRows == {resumed.tele.current, resumed.tele.before}
                 \cup {resumed.tele.future[k] : k \in Keys(resumed.tele)}
ReportFrames ==
    Frames(Uptime \cup {"NAVCLOCK", "PVT", "TIMTP", "PPS"})
      \cup {n \in Frames(Measurement) : input[n].t # None}
Tellings(n) ==
    LET in(row) == Cardinality({i \in DOMAIN row.reports : row.reports[i] = n})
    IN  MapThenSumSet(in, PendingRows)
          + MapThenSumSet(LAMBDA i : in(Out.rows[i]), DOMAIN Out.rows)
TelemetryOnce == ~resumed.failed => \A n \in ReportFrames : Tellings(n) = 1
=============================================================================
