------------------------ MODULE TelemetryAssembler ------------------------
(***************************************************************************)
(* The assembly of receiver-telemetry rows                                 *)
(* (libneognss-obs/src/cnex_telemetry.hpp, struct TelemetryAssembler).     *)
(* A row is the collection window of one navigation epoch.  Its scalar     *)
(* fields are represented by the uptime and the clock bias, the lists by   *)
(* the numbers of the frames whose reports they hold: "reports" are the    *)
(* frames of all merged reports, "items" counts the list items.  "clash"   *)
(* stands for the exception a scalar conflict raises.                      *)
(***************************************************************************)
EXTENDS Integers, Sequences, Functions, SequencesExt, ReceiverTime

CONSTANTS
    BoundEvery,   \* updates between two looks at the pending size (128)
    MaxItems      \* pending windows and list items (65536)

ASSUME BoundAssumption == BoundEvery \in Nat \ {0}

EmptyRow ==
    [present |-> FALSE, located |-> FALSE, anchor |-> None, index |-> 0, opened |-> None,
     gpst |-> None, uptime |-> None, clock |-> None, reports |-> <<>>, items |-> 0,
     complete |-> FALSE, day |-> 0, clash |-> FALSE]

FreshAssembler ==
    [current |-> EmptyRow, before |-> EmptyRow, future |-> <<>>, ready |-> <<>>,
     key |-> None, day |-> 0, updates |-> 0, ubx |-> FALSE]

\* A null never overwrites; two different values raise.
Either(a, b) == IF b = None THEN a ELSE b
Differ(a, b) == a # None /\ b # None /\ a # b

\* telemetry_merge: the arrival coordinate of the destination wins.
Merge(row, values) ==
    [row EXCEPT !.gpst = Either(@, values.gpst),
                !.uptime = Either(@, values.uptime),
                !.clock = Either(@, values.clock),
                !.reports = @ \o values.reports,
                !.items = @ + values.items,
                !.present = @ \/ values.present,
                !.clash = \/ @ \/ values.clash
                          \/ Differ(row.gpst, values.gpst)
                          \/ Differ(row.uptime, values.uptime)
                          \/ Differ(row.clock, values.clock)]

\* A row keeps the arrival coordinate of the frame that first created it.
Touch(row, pos) ==
    IF row.located THEN [row EXCEPT !.present = TRUE]
    ELSE [row EXCEPT !.present = TRUE, !.located = TRUE,
                     !.anchor = pos.anchor, !.index = pos.index]

Closed(row, complete, day) == [row EXCEPT !.complete = complete, !.day = day]

Publish(ta, complete, pos) ==
    IF ~ta.current.present THEN ta
    ELSE [ta EXCEPT !.ready = Append(@, Closed(Touch(ta.current, pos), complete, ta.day)),
                    !.current = EmptyRow]

Keys(ta) == DOMAIN ta.future
Without(future, keys) == Restrict(future, DOMAIN future \ keys)
Ascending(keys) == SetToSortSeq(keys, <)
MergeAll(row, future, keys) ==
    FoldLeft(LAMBDA acc, k : Merge(acc, future[k]), row, Ascending(keys))

\* A navigation block of another epoch closes the window: earlier stamped
\* reports go into it, those of the same time into the one that opens.
Open(ta, next, n, pos, day) ==
    LET earlier == {k \in Keys(ta) : k < next}
        closing == Publish([ta EXCEPT !.current = MergeAll(@, ta.future, earlier)],
                           ta.key # None, pos)
        merged  == Merge(Merge(closing.current, ta.before),
                         IF next \in Keys(ta) THEN ta.future[next] ELSE EmptyRow)
    IN  [closing EXCEPT
           !.key = next, !.day = day, !.before = EmptyRow,
           !.future = Without(@, earlier \cup {next}),
           !.current = [merged EXCEPT !.present = TRUE, !.located = TRUE, !.gpst = None,
                                      !.anchor = pos.anchor, !.index = pos.index,
                                      !.opened = n]]

\* The window takes its time from the navigation block of its own epoch.
Stamp(ta, stamp, navigation) ==
    IF ta.key # None /\ navigation # None /\ stamp = ta.key
      THEN [ta EXCEPT !.current.gpst = navigation, !.day = navigation \div DayLength]
      ELSE ta

\* target(): stamped SBF reports of another epoch wait in a window of their own.
Waiting(ta, t) == ~ta.ubx /\ t # None /\ t # ta.key
UpdateTarget(ta, t, pos, values) ==
    IF Waiting(ta, t)
      THEN LET row == IF t \in Keys(ta) THEN ta.future[t] ELSE EmptyRow
           IN  [ta EXCEPT !.future = [k \in Keys(ta) \cup {t} |->
                                         IF k = t THEN Merge(Touch(row, pos), values)
                                         ELSE @[k]],
                          !.updates = @ + 1]
      ELSE [ta EXCEPT !.current = Merge(Touch(@, pos), values), !.updates = @ + 1]

\* u-blox reports precede the block that opens their window.
UpdateBefore(ta, pos, values) ==
    [ta EXCEPT !.before = Merge(Touch(@, pos), values), !.updates = @ + 1]

Report(n) == [EmptyRow EXCEPT !.reports = <<n>>]
ListItem(n) == [Report(n) EXCEPT !.items = 1]

\* A second, different uptime before any block publishes the first one alone.
StatusReport(ta, t, up, n, pos) ==
    LET values == [Report(n) EXCEPT !.uptime = up]
        split  == IF ~Differ(ta.before.uptime, up) THEN ta
                  ELSE [ta EXCEPT !.ready = Append(@, Closed(ta.before, FALSE, ta.day)),
                                  !.before = EmptyRow]
    IN  IF ta.ubx THEN UpdateBefore(split, pos, values)
        ELSE UpdateTarget(ta, t, pos, values)

MeasurementClock(ta, t, n, pos) ==
    IF t = None THEN ta
    ELSE IF ta.ubx THEN UpdateBefore(ta, pos, ListItem(n))
    ELSE UpdateTarget(ta, t, pos, ListItem(n))

PulseReport(ta, t, n, pos) == UpdateTarget(ta, t, pos, ListItem(n))

ClockReport(ta, t, bias, n, pos) ==
    UpdateTarget(ta, t, pos, [Report(n) EXCEPT !.clock = bias])

\* The partial windows a declared end leaves: current, before, future by time.
Shown(row) == IF row.present THEN <<row>> ELSE <<>>
ByTime(future, keys) == [i \in 1..Cardinality(keys) |-> future[Ascending(keys)[i]]]
Leftover(ta) ==
    Shown(ta.current) \o Shown(ta.before)
      \o ByTime(ta.future, {k \in Keys(ta) : ta.future[k].present})

FinishAll(ta, pos) ==
    LET rows == Leftover(ta)
    IN  [ta EXCEPT !.ready = @ \o [i \in DOMAIN rows |->
                                     Closed(Touch(rows[i], pos), FALSE, ta.day)],
                   !.current = EmptyRow, !.before = EmptyRow, !.future = <<>>,
                   !.key = None]

\* bound(): the resource limit emits what is pending.
ItemsOf(future) == MapThenSumSet(LAMBDA k : future[k].items, DOMAIN future)
Load(ta) ==
    Cardinality(Keys(ta)) + ta.current.items + ta.before.items + ItemsOf(ta.future)

Bound(ta, pos) ==
    LET looked == [ta EXCEPT !.updates = 0]
    IN  IF ta.updates < BoundEvery THEN ta
        ELSE IF Load(ta) > MaxItems THEN FinishAll(looked, pos)
        ELSE looked

\* A conflict of scalars anywhere raises out of the import.
Raised(ta) ==
    \/ ta.current.clash \/ ta.before.clash
    \/ \E k \in Keys(ta) : ta.future[k].clash
    \/ \E i \in DOMAIN ta.ready : ta.ready[i].clash
=============================================================================
