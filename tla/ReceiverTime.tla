--------------------------- MODULE ReceiverTime ---------------------------
(***************************************************************************)
(* The association of receiver records with time                           *)
(* (libneognss-obs/src/receiver_time.hpp).  A clock is the record of the   *)
(* evidence the receiver gave so far; the operators below are its methods. *)
(* Times and uptimes are numbers of one unit, None is an absent one.       *)
(***************************************************************************)
EXTENDS Integers, FiniteSetsExt

CONSTANTS
    None,       \* an absent std::optional
    Second,     \* one second in the unit of the times
    Period,     \* the setup's epoch_period_s
    DayLength   \* 86400 s

ASSUME TimeAssumption ==
    /\ Second \in Nat \ {0} /\ Period \in Nat \ {0} /\ DayLength \in Nat \ {0}
    /\ None \notin Int

Timeout == 10 * Period
RestartThreshold == Max({5 * Second, 2 * Period})

FreshClock ==
    [navigation |-> None, progress |-> None, uptime |-> None, anchorUptime |-> None,
     uptimeGpst |-> None, pairedOffset |-> None, archiveDay |-> 0]

\* Trusted GPST moves the high-water mark forward and dates the records.
Advance(c, t) ==
    [c EXCEPT !.progress = IF @ = None THEN t ELSE Max({@, t}),
              !.archiveDay = t \div DayLength]

\* More than the timeout between two evidences; an absent one proves no age.
Aged(now, then) == now # None /\ then # None /\ now - then > Timeout

\* The navigation time a record may borrow: not older than the timeout by
\* GPST progress, nor by uptime since the anchor.
Anchor(c) ==
    IF Aged(c.progress, c.navigation) \/ Aged(c.uptime, c.anchorUptime)
      THEN None ELSE c.navigation

AssociatedUptime(c) == IF Aged(c.progress, c.uptimeGpst) THEN None ELSE c.uptime

SetNavigationKept(c, t) ==
    IF t = None THEN c
    ELSE LET moved == Advance([c EXCEPT !.navigation = t], t)
         IN  [moved EXCEPT !.anchorUptime = AssociatedUptime(moved)]

SetNavigation(c, t) ==
    IF t = None
      THEN [c EXCEPT !.navigation = None, !.anchorUptime = None]
      ELSE LET moved == Advance([c EXCEPT !.navigation = t], t)
           IN  [moved EXCEPT !.anchorUptime = AssociatedUptime(moved)]

\* A pair of one report is fresh; a borrowed one must be within a period of
\* the anchor by GPST progress and by the new uptime.
FreshPair(c, up, sample, direct) ==
    /\ sample # None
    /\ \/ direct
       \/ /\ None \notin {c.navigation, c.progress, c.anchorUptime}
          /\ c.progress - c.navigation \in 0..Period
          /\ up - c.anchorUptime \in 0..Period

OffsetJump(c, offset) ==
    c.pairedOffset # None /\ offset - c.pairedOffset \notin -RestartThreshold..RestartThreshold

\* A decrease of the uptime counts whether the pair is fresh or not.
RestartReason(c, up, sample, direct) ==
    IF c.uptime # None /\ up < c.uptime THEN "UPTIME_DECREASE"
    ELSE IF FreshPair(c, up, sample, direct) /\ OffsetJump(c, sample - up)
      THEN "GPST_UPTIME_OFFSET_JUMP"
    ELSE "none"

\* report_uptime: a restart forgets the associations; the new uptime stays.
ReportUptime(c, up, sample, direct) ==
    LET fresh == FreshPair(c, up, sample, direct)
        restarted == RestartReason(c, up, sample, direct) # "none"
        kept == IF restarted
                  THEN [c EXCEPT !.navigation = None, !.anchorUptime = None,
                                 !.pairedOffset = None]
                  ELSE IF fresh THEN [c EXCEPT !.pairedOffset = sample - up] ELSE c
        near == /\ kept.anchorUptime = None /\ kept.navigation # None /\ fresh
                /\ sample - kept.navigation \in 0..Period
    IN  [kept EXCEPT !.uptime = up, !.uptimeGpst = c.progress,
                     !.anchorUptime = IF near THEN up ELSE @]
=============================================================================
