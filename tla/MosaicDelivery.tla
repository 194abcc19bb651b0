--------------------------- MODULE MosaicDelivery ---------------------------
(***************************************************************************)
(* What forwarding one daily file to one FTPS target promises: under its   *)
(* final name the target shows whole revisions in turn, the archive goes   *)
(* before its checksum, and a revision is acknowledged to the mirror (which*)
(* may then evict it) when both of its publications are there.  There is   *)
(* no partial upload, no retry and no crash here.                          *)
(*                                                                         *)
(* The promise has two limits.  Before its first acknowledgement the mirror*)
(* knows the target's file by its SIZE alone.  And once the local archive  *)
(* was harmed, a revision may be superseded undelivered, and a file be     *)
(* shown under a claim that is in doubt until the next one replaces it.    *)
(***************************************************************************)
EXTENDS Integers

CONSTANTS MaxRev, Size, StrangerSizes

VARIABLES
    want,    \* revision the mirror holds
    shown,   \* revision under the archive's final name, 0 for none or another file
    length,  \* the SIZE of the final name, -1 if absent
    sum,     \* revision whose checksum is under the sidecar's name, 0 for none
    acked,   \* revision the mirror believes delivered
    harmed,  \* the user has overwritten or removed the local archive
    doubt    \* what may not be the revision it is taken for: "temp", what is to be
             \* shown next, and "final", what is shown

deliveryVars == <<want, shown, length, sum, acked, harmed, doubt>>

Init ==
    /\ want = 1 /\ shown = 0 /\ length \in {-1} \cup StrangerSizes
    /\ sum = 0 /\ acked = 0 /\ harmed = FALSE /\ doubt = {}

Harm == harmed' = TRUE /\ UNCHANGED <<want, shown, length, sum, acked, doubt>>

\* The next revision waits for the delivery of this one, while that is intact.
NewRevision ==
    /\ acked = want \/ harmed
    /\ want < MaxRev /\ want' = want + 1
    /\ UNCHANGED <<shown, length, sum, acked, harmed, doubt>>

\* A claim becomes doubtful, or is given up.
Doubt ==
    /\ harmed /\ doubt' \in {doubt \cup {"temp"}, doubt \ {"temp"}}
    /\ UNCHANGED <<want, shown, length, sum, acked, harmed>>

ShowArchive ==
    /\ length' = Size[want]
    /\ \/ "temp" \notin doubt /\ shown' = want /\ doubt' = {}
       \/ "temp" \in doubt /\ shown' \in 0..MaxRev /\ doubt' = {"final"}
    /\ UNCHANGED <<want, sum, acked, harmed>>

\* What the target shows passes for the revision that is wanted.
Passes ==
    \/ shown = want
    \/ "final" \in doubt
    \/ acked = 0 /\ length = Size[want]

ShowSum == Passes /\ sum' = want /\ UNCHANGED <<want, shown, length, acked, harmed, doubt>>

Acknowledge ==
    /\ Passes /\ sum = want /\ acked' = want
    /\ UNCHANGED <<want, shown, length, sum, harmed, doubt>>

Next == Harm \/ NewRevision \/ Doubt \/ ShowArchive \/ ShowSum \/ Acknowledge

Spec == Init /\ [][Next]_deliveryVars
=============================================================================
