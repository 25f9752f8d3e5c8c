-------------------------- MODULE MCDeploymentGate --------------------------
(***************************************************************************)
(* Two names, two types and two values of the options of a rule; four      *)
(* configurations, one of them with a name twice.                          *)
(***************************************************************************)
EXTENDS DeploymentGate, TLC

Rule(name, type, options) == [name |-> name, type |-> type, options |-> options]
A == Rule("a", "monitor", "x")
B == Rule("b", "monitor", "x")

MCUiRules == {A, B, Rule("a", "monitor", "y")}
MCValues == {"dry", "wet"}
Configured(rs) == [val |-> "wet", rules |-> rs]
MCConfigs == {Configured({A, B}), Configured({B, Rule("a", "fdd", "x")}),
              Configured({A, Rule("a", "monitor", "y")}), Configured({})}

PipelineConfigs == {Configured({A, B}), Configured({A})}

RuleIdSymmetry == Permutations(RuleIds)
=============================================================================
