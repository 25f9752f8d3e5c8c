--------------------------- MODULE MCRulesetOrder ---------------------------
(* Three rulesets (two exist at first), lists of at most two entries. *)
EXTENDS RulesetOrder, TLC

CONSTANTS r1, r2, r3

MCRulesets == {r1, r2, r3}
MCInitial == (r1 :> 1) @@ (r2 :> 2) @@ (r3 :> 0)

Cfg(a, b, c, repeats, override) ==
    [place |-> (r1 :> a) @@ (r2 :> b) @@ (r3 :> c),
     repeats |-> repeats, override |-> override]

\* <r2, r1> kept, <r2, r1> overriding, <r1> kept, <r1> overriding, <r3, r1>
\* both ways.
MCConfigs == {Cfg(2, 1, 0, 0, FALSE), Cfg(2, 1, 0, 0, TRUE),
              Cfg(0, 1, 0, 0, FALSE), Cfg(1, 0, 0, 0, TRUE),
              Cfg(2, 0, 1, 0, FALSE), Cfg(2, 0, 1, 0, TRUE)}
=============================================================================
