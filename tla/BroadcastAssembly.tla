------------------------- MODULE BroadcastAssembly --------------------------
(***************************************************************************)
(* What the decoders of the navigation families share.  A message is a     *)
(* record: its family, the source it came from, its type, the time it was  *)
(* received (None when the frame has no navigation epoch), what its header *)
(* and its labels say, and `up`, which stands for all its other bits: two  *)
(* messages of one type with the same labels and the same `up` are equal   *)
(* bit for bit.  A set of parts under way is an assembly.                  *)
(***************************************************************************)
EXTENDS BroadcastTime, Sequences

\* A decoded row, with the fields some rule looks at.  Its body says which
\* messages it was made of; `week` is the week number an ephemeris was sent with,
\* `tx` when.
Blank == [body |-> {}, toe |-> None, toc |-> None, ref |-> None, until |-> None,
          week |-> None, tow |-> None, top |-> None, tx |-> None, issue |-> None,
          fit |-> FALSE, good |-> TRUE, healthy |-> TRUE]

Output(kind, cand, disc, row) == [kind |-> kind, cand |-> cand, disc |-> disc, row |-> row]

\* A row made of one message.
Single(m) == [Blank EXCEPT !.body = {<<m.type, m.up>>}]
Said(kind, m) == <<Output(kind, FALSE, 0, Single(m))>>
Kept(kind, disc, m, row) == <<Output(kind, ~m.alert, disc, row)>>

\* Two fields that are both there and differ.
BothSay(x, y) == x # None /\ y # None /\ x # y

\* A function with one entry more, or another value there.
With(f, x, y) == [z \in DOMAIN f \cup {x} |-> IF z = x THEN y ELSE f[z]]

Empty == [parts |-> <<>>, start |-> None]

Young(a, t, limit) == a.start = None \/ t - a.start =< limit

\* Mutant: a part that contradicts the assembly is ignored.
GatherStuck(a, t, limit, id, part, fits) ==
    LET base == IF Young(a, t, limit) THEN a ELSE Empty
    IN  IF ~fits THEN base
        ELSE [parts |-> With(base.parts, id, part), start |-> IF base.start = None THEN t ELSE base.start]

\* A part joins the assembly; one that is too old, or that the part does not
\* fit, is given up and the part starts the next.
Gather(a, t, limit, id, part, fits) ==
    LET base == IF Young(a, t, limit) /\ fits THEN a ELSE Empty
    IN  [parts |-> With(base.parts, id, part),
         start |-> IF base.start = None THEN t ELSE base.start]

Healthy(parts) == \A i \in DOMAIN parts : parts[i].healthy
Body(parts) == {<<i, parts[i].up>> : i \in DOMAIN parts}
=============================================================================
