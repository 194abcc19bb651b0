---------------------------- MODULE HasMessages ----------------------------
(***************************************************************************)
(* Galileo HAS (HasDecoder).  A message is cut into `size` pages, any      *)
(* `size` of which rebuild it (Reed-Solomon).  A mask message says which   *)
(* satellites the corrections are about; an orbit message says which       *)
(* broadcast issue each correction is about; the other corrections refer   *)
(* to both by the mask and the set of issues they name.                    *)
(***************************************************************************)
EXTENDS BroadcastAssembly, FiniteSets

HasLifetime == 1800
HasTimeout == 150
NoLimit == 15           \* the validity index of a correction with no end
Validity == <<5, 10, 15, 20, 30, 60, 90, 120, 180, 240, 300, 600, 900, 1800, 3600>>

NoHas == [pages |-> <<>>, masks |-> <<>>, issues |-> <<>>]
At(f, x) == IF x \in DOMAIN f THEN f[x] ELSE None
Only(f, S) == [x \in DOMAIN f \cap S |-> f[x]]
Fresh(f, t) == Only(f, {x \in DOMAIN f : t - f[x].received < HasLifetime})

\* A page fits the assembly of its message number.
Continues(a, m) ==
    /\ a.size = m.size /\ a.status = m.status /\ m.t - a.first =< HasTimeout
    /\ At(a.ups, m.pid) \in {None, m.up}

HasPage(s, m) ==
    LET old == At(s.pages, m.mid)
        a == IF old # None /\ Continues(old, m) THEN old
             ELSE [size |-> m.size, status |-> m.status, first |-> m.t, ups |-> <<>>]
    IN  [a EXCEPT !.ups = With(@, m.pid, m.up)]

----------------------------------------------------------------------------
(* The message of a full assembly.  Its content h: toh and the mask and    *)
(* issue set it names; `mask`, `orbit` and the corrections it has, or None;*)
(* `bad` where the parser gives up: on the mask, or later.                 *)

HasEpoch(h, t) ==
    LET e == (t \div 3600) * 3600 + h.toh IN IF e > t THEN e - 3600 ELSE e

HasRow(a, h, t) ==
    [Blank EXCEPT !.body = {<<"page", a.ups[i]>> : i \in DOMAIN a.ups}, !.ref = HasEpoch(h, t)]

Correction(kind, a, h, t, v, issue) ==
    Output(kind, v < NoLimit, <<h.maskid, h.iod>>,
           [HasRow(a, h, t) EXCEPT !.issue = issue,
                !.until = IF v < NoLimit THEN HasEpoch(h, t) + Validity[v + 1] ELSE None])

\* A changed mask takes with it the issues that were given under it.
InstallMask(s, h, t) ==
    LET changed == h.maskid \in DOMAIN s.masks /\ s.masks[h.maskid].value # h.mask
        kept == {k \in DOMAIN s.issues : ~(changed /\ k[1] = h.maskid)}
    IN  [s EXCEPT !.masks = With(@, h.maskid, [value |-> h.mask, received |-> t]),
                  !.issues = Only(@, kept)]

InstallIssue(s, h, t) ==
    [s EXCEPT !.issues = With(@, <<h.maskid, h.iod>>, [ref |-> h.orbit, received |-> t])]

\* What every correction says it is about.
About(s, h) ==
    LET k == <<h.maskid, h.iod>> IN
      [mask |-> s.masks[h.maskid].value, ref |-> IF k \in DOMAIN s.issues THEN s.issues[k].ref ELSE None]

Corrections(s, a, h, t) ==
    LET row(kind, v) == IF v = None THEN <<>> ELSE <<Correction(kind, a, h, t, v, About(s, h))>>
    IN  row("gal_has_orbit", IF h.orbit = None THEN None ELSE h.until)
        \o row("gal_has_clock_full", h.clock) \o row("gal_has_clock_subset", h.subset)
        \o row("gal_has_code_bias", h.code) \o row("gal_has_phase_bias", h.phase)

\* Mutant: the parser installs the mask of a message before it has read the rest.
HasParseInPlace(s, a, h, t) ==
    LET s1 == IF h.mask = None THEN s ELSE InstallMask(s, h, t)
        s2 == IF h.orbit = None THEN s1 ELSE InstallIssue(s1, h, t)
        shown == IF h.mask = None THEN <<>>
                 ELSE <<Output("gal_has_mask", FALSE, <<h.maskid, 0>>, [HasRow(a, h, t) EXCEPT !.issue = h.mask])>>
    IN  IF h.toh >= 3600 \/ h.bad = "mask" THEN [asm |-> s, out |-> <<>>]
        ELSE IF h.maskid \notin DOMAIN s1.masks \/ h.bad = "entries" THEN [asm |-> s1, out |-> <<>>]
        ELSE [asm |-> s2, out |-> shown \o Corrections(s2, a, h, t)]

\* The parser works on copies; only a message that is whole is kept.
HasParse(s, a, h, t) ==
    LET head == <<Output("gal_has_message", FALSE, 0, HasRow(a, h, t))>>
        s1 == IF h.mask = None THEN s ELSE InstallMask(s, h, t)
        shown == IF h.mask = None THEN <<>>
                 ELSE <<Output("gal_has_mask", FALSE, <<h.maskid, 0>>, [HasRow(a, h, t) EXCEPT !.issue = h.mask])>>
        s2 == IF h.orbit = None THEN s1 ELSE InstallIssue(s1, h, t)
    IN  IF h.toh >= 3600 \/ h.bad = "mask" THEN [asm |-> s, out |-> <<>>]
        ELSE IF h.maskid \notin DOMAIN s1.masks THEN [asm |-> s, out |-> head \o shown]
        ELSE IF h.bad = "entries" THEN [asm |-> s, out |-> <<>>]
        ELSE [asm |-> s2, out |-> head \o shown \o Corrections(s2, a, h, t)]

----------------------------------------------------------------------------
\* decode() of a page.  Status 3 takes the service out of use: what every
\* source has collected is given up (BroadcastDecoder does so).
HasDecode(s, m) ==
    LET page == Said("gal_has_page", m)
        fresh == [s EXCEPT !.masks = Fresh(@, m.t), !.issues = Fresh(@, m.t)]
        a == HasPage(fresh, m)
    IN  IF ~m.head THEN [asm |-> s, out |-> <<>>]
        ELSE IF m.status = 3 THEN [asm |-> NoHas, out |-> Append(page, Output("gal_has_status", FALSE, 0, Single(m)))]
        ELSE IF m.status = 2 \/ ~m.q \/ m.pid = 0 \/ m.t = None \/ (m.pid > m.size /\ m.pid =< 32)
          THEN [asm |-> s, out |-> page]
        ELSE IF Cardinality(DOMAIN a.ups) < m.size
          THEN [asm |-> [fresh EXCEPT !.pages = With(@, m.mid, a)], out |-> page]
        ELSE LET p == HasParse([fresh EXCEPT !.pages = Only(@, DOMAIN @ \ {m.mid})], a, m.msg, m.t)
             IN  [asm |-> p.asm, out |-> page \o p.out]
=============================================================================
