--------------------------- MODULE PppB2bMessages ---------------------------
(***************************************************************************)
(* BeiDou PPP-B2b messages (decode_pppb2b): each holds corrections of its  *)
(* own, valid from their epoch for a time fixed by their kind.  The        *)
(* service-available flag of any message withdraws all of the source's.    *)
(***************************************************************************)
EXTENDS BroadcastAssembly

\* The kinds in a message and how long they hold; a mask has no end.  `ids`
\* says which of the groups of a type 6 or 7 message are not empty.
PppKinds(m) ==
    LET group(kind) == IF kind \in m.ids THEN <<kind>> ELSE <<>> IN
      CASE m.type = 1 -> <<"mask">> [] m.type = 2 -> <<"orbit">> [] m.type = 3 -> <<"code_bias">>
        [] m.type = 4 -> <<"clock_mask">> [] m.type = 5 -> <<"ura">>
        [] m.type = 6 -> group("clock_mask") \o group("orbit")
        [] m.type = 7 -> group("clock_direct") \o group("orbit")
PppValidity == [mask |-> 0, orbit |-> 96, code_bias |-> 86400, clock_mask |-> 12,
                clock_direct |-> 12, ura |-> 96]

\* The time with that second of the BDT day nearest to reception.
PppEpoch(t, sod) ==
    LET x == ((t - BdtOffset) \div 86400) * 86400 + sod + BdtOffset
        y == IF x > t + 43200 THEN x - 86400 ELSE x
    IN  IF t = None \/ sod >= 86400 THEN None
        ELSE IF t > y + 43200 THEN y + 86400 ELSE y

PppRow(m, kind) ==
    LET epoch == PppEpoch(m.t, m.ref)  v == PppValidity[kind] IN
      [Blank EXCEPT !.body = {<<kind, m.up>>}, !.ref = epoch,
                    !.until = IF v = 0 \/ epoch = None THEN None ELSE epoch + v]

\* The status comes first; `good` is the flag.  A frame whose layout does not
\* hold (`bad`) keeps its status only.
PppDecode(m) ==
    LET kinds == PppKinds(m)
        status == Output("bds_pppb2b_status", FALSE, 0, [Single(m) EXCEPT !.good = m.good])
        rows == [i \in DOMAIN kinds |-> Output(kinds[i], m.good, 0, PppRow(m, kinds[i]))]
    IN  IF ~m.sat \/ ~m.own THEN <<>>
        ELSE IF m.type \notin 1..7 \/ m.bad THEN <<status>>
        ELSE <<status>> \o rows
=============================================================================
