--------------------------- MODULE MCCnexImport ---------------------------
(* Values for TLC: four chunks over three days, the second across midnight. *)
EXTENDS CnexImport

CatalogsDef == <<"observations", "events">>

O(d) == <<d, "observations">>
E(d) == <<d, "events">>

\* Only events close day 1, and the last chunk brings a late event of day 2.
RowsDef == << {O(1), E(1)}, {O(1), E(1), O(2), E(2)}, {O(2), E(2)}, {E(2), O(3)} >>
CursorDef == << 1, 2, 2, 3 >>
SafeDef == << 1, 2, 2, 3 >>
=============================================================================
