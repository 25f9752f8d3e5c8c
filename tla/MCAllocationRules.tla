-------------------------- MODULE MCAllocationRules --------------------------
(* Two rules and one that exists in the UI already. *)
EXTENDS AllocationRules

Cfg(list, override, val) == [list |-> list, override |-> override, val |-> val]

\* Both rules, the UI overridden; in the other order, with either content; one.
MCConfigs == {Cfg(<<"a", "b">>, TRUE, "v1"), Cfg(<<"b", "a">>, FALSE, "v1"),
              Cfg(<<"b", "a">>, FALSE, "v2"), Cfg(<<"b">>, FALSE, "v1")}
MCKeys == {"a", "b"}
MCVals == {"none", "v1", "v2"}
=============================================================================
