---------------------------- MODULE AllocationRules ----------------------------
(***************************************************************************)
(* datadog_custom_allocation_rule, one rule, composed with                 *)
(* datadog_custom_allocation_rules, the order of all rules.  A run of      *)
(* Terraform reads every rule and then the order, plans both, and applies  *)
(* the rules, in any order, before the order that names them.  Every API   *)
(* call is a step, and people edit the rules in the Datadog UI between     *)
(* any two.                                                                *)
(*                                                                         *)
(* Unlike the rulesets of RulesetOrder a rule keeps a number, order_id,    *)
(* that an update of the rule writes too: numbers have gaps, and two rules *)
(* may come to have the same one.                                          *)
(***************************************************************************)
EXTENDS Naturals, FiniteSets, Sequences, SequencesExt

CONSTANTS
    Keys,          \* the rules that a configuration can have, by resource name
    Configs,       \* the configurations: [list, override, val]
    Vals,          \* what a rule says, apart from its place
    UiRules,       \* the number of UI rules that exist at first
    MaxIds,        \* bound: ids that Datadog gives out
    MaxEdits,      \* bound: edits made in the Datadog UI
    MaxFaults,     \* bound: API calls that fail
    MaxRewrites    \* bound: changes of the configuration, imports, removals

VARIABLES
    orderId,       \* Datadog: the number of each rule, 0 when it is not there
    says,          \* Datadog: what each rule says
    used,          \* ids 1..used have been given out
    made,          \* history: ids of rules made by Terraform
    cfg,           \* the configuration
    rules,         \* the rules in the Terraform state
    st,            \* the order in the Terraform state
    pc,            \* where the run of Terraform is
    todo,          \* rules that are still to be read or applied
    plan,          \* the approved plan: the configuration, and the order's part;
                   \* history: the edits made before the run
    failed,        \* an operation on a rule failed in this apply
    desired,       \* the ids and the override the order is applied with
    listed,        \* the ids the apply listed, sorted
    doomed,        \* unmanaged rules the apply still has to delete
    outcome,       \* history: how the last run of Terraform ended
    edits, faults, rewrites

remoteVars == <<orderId, says, used, made>>
applyVars == <<plan, failed, desired, listed, doomed>>
budget == <<edits, faults, rewrites>>
vars == <<remoteVars, cfg, rules, st, pc, todo, applyVars, outcome, budget>>

Ids == 1..MaxIds
Live == {i \in Ids : orderId[i] > 0}
Highest == CHOOSE n \in {0} \cup {orderId[i] : i \in Ids} :
            \A i \in Ids : orderId[i] <= n

NoRule == [id |-> 0, at |-> 0, val |-> "none"]
NoOrder == [status |-> "none", ids |-> <<>>, override |-> FALSE]

NoPlan == [cfg |-> cfg, order |-> FALSE, known |-> {}, since |-> edits]
NothingDesired == [ids |-> <<>>, override |-> FALSE]

Config == [list : UNION {[1..n -> Keys] : n \in 0..Cardinality(Keys)},
           override : BOOLEAN, val : Vals]

ASSUME KeysAssumption == IsFiniteSet(Keys)
ASSUME ConfigsAssumption ==
    Configs \subseteq Config /\ \A c \in Configs : IsInjective(c.list)
ASSUME BoundsAssumption ==
    /\ {UiRules, MaxIds, MaxEdits, MaxFaults, MaxRewrites} \subseteq Nat
    /\ UiRules <= MaxIds

-----------------------------------------------------------------------------
(* What the handlers compute *)

\* sort.Slice is not stable: rules with one number come in any order.
Sortings(S) ==
    {s \in SetToSeqs(S) :
        \A m, n \in 1..Len(s) : m < n => orderId[s[m]] <= orderId[s[n]]}

\* findUnmanagedRules: the rules of a sorted list that are not managed are all
\* at its end.
AllAtEnd(s, managed) ==
    \A m, n \in 1..Len(s) : m < n /\ s[n] \in managed => s[m] \in managed

\* The ids of the configured rules that are in the state; those of the others
\* are still unknown in a plan.
KnownIds(c) == {rules[k].id : k \in {l \in Range(c.list) : rules[l] # NoRule}}

IdList(c) == [n \in 1..Len(c.list) |-> rules[c.list[n]].id]

\* Mutant: the ids of the state are all that a refresh looks for.
ListedAsKnown(s) == IF s.ids # <<>> THEN Range(s.ids) \cap Live ELSE Live

\* What Read lists: everything on import or when Terraform overrides the UI.
ListedByRead(s) ==
    IF ~s.override /\ s.ids # <<>> THEN Range(s.ids) \cap Live ELSE Live

\* Mutant: what is to go was settled when the plan was made.
UnmanagedAsPlanned == Live \ plan.known

\* What an apply that overrides the UI deletes.
Unmanaged == Live \ Range(desired.ids)

\* The place of every id in a sequence of ids, 0 of one that is not in it.
Place(s) ==
    [i \in Ids |-> IF i \in Range(s)
                   THEN CHOOSE n \in 1..Len(s) : s[n] = i ELSE 0]

\* What the body of the reorder call names: the desired rules and, unless the
\* UI is overridden, the other listed ones.
Rest == IF desired.override THEN {} ELSE Range(listed) \ Range(desired.ids)
Sent == Range(desired.ids) \cup Rest

\* Mutant: the rest as the API lists it, not sorted by number.
RestUnsorted(i) == Cardinality({j \in Rest : Place(listed)[j] >= Place(listed)[i]})

\* The rest keeps the order it was listed in.
RestPlace(i) == Cardinality({j \in Rest : Place(listed)[j] <= Place(listed)[i]})

\* Datadog numbers the named rules; others follow.
Renumbered ==
    [i \in Ids |->
        IF orderId[i] = 0 THEN 0
        ELSE IF i \in Range(desired.ids) THEN Place(desired.ids)[i]
        ELSE IF i \in Rest THEN Len(desired.ids) + RestPlace(i)
        ELSE Len(desired.ids) + Cardinality(Rest) + orderId[i]]

-----------------------------------------------------------------------------
Init ==
    /\ orderId = [i \in Ids |-> IF i <= UiRules THEN i ELSE 0]
    /\ says \in [Ids -> Vals] /\ \A i, j \in Ids : says[i] = says[j]
    /\ used = UiRules /\ made = {}
    /\ cfg \in Configs
    /\ edits = 0 /\ faults = 0 /\ rewrites = 0
    /\ rules = [k \in Keys |-> NoRule] /\ st = NoOrder
    /\ pc = "idle" /\ todo = {}
    /\ plan = NoPlan /\ failed = FALSE /\ desired = NothingDesired
    /\ listed = <<>> /\ doomed = {}
    /\ outcome = "none"

-----------------------------------------------------------------------------
(* The Datadog UI, and what a person does with Terraform *)

UiEdit ==
    /\ edits < MaxEdits
    /\ edits' = edits + 1
    /\ UNCHANGED <<says, made, cfg, rules, st, pc, todo, applyVars, outcome,
                   faults, rewrites>>

UiCreate ==
    /\ used < MaxIds
    /\ used' = used + 1
    /\ orderId' = [orderId EXCEPT ![used'] = Highest + 1]
    /\ UiEdit

UiDelete(i) ==
    /\ i \in Live
    /\ orderId' = [orderId EXCEPT ![i] = 0]
    /\ UNCHANGED used /\ UiEdit

UiSwap(i, j) ==
    /\ i < j /\ {i, j} \subseteq Live
    /\ orderId' = [orderId EXCEPT ![i] = orderId[j], ![j] = orderId[i]]
    /\ UNCHANGED used /\ UiEdit

UserChoice ==
    /\ pc = "idle" /\ rewrites < MaxRewrites
    /\ rewrites' = rewrites + 1
    /\ outcome' = "none"
    /\ UNCHANGED <<remoteVars, rules, pc, todo, applyVars, edits, faults>>

EditConfig(c) ==
    /\ UserChoice
    /\ c # cfg /\ cfg' = c
    /\ UNCHANGED st

\* ImportState passes the id through and the framework reads at once.
ImportState ==
    /\ UserChoice
    /\ st.status = "none"
    /\ \E s \in Sortings(Live) :
        st' = [status |-> "ok", ids |-> s, override |-> FALSE]
    /\ UNCHANGED cfg

\* Delete leaves the rules alone: only the state entry goes.
DestroyOrder ==
    /\ UserChoice
    /\ st.status # "none" /\ st' = NoOrder
    /\ UNCHANGED cfg

-----------------------------------------------------------------------------
(* Terraform: refresh and plan *)

Stop(how) == pc' = "idle" /\ todo' = {} /\ outcome' = how

Fault == faults < MaxFaults /\ faults' = faults + 1

TerraformOnly == UNCHANGED <<cfg, edits, rewrites>>

StartRun ==
    /\ pc = "idle"
    /\ pc' = "reading" /\ outcome' = "none"
    /\ todo' = {k \in Keys : rules[k] # NoRule}
    /\ plan' = NoPlan /\ failed' = FALSE /\ desired' = NothingDesired
    /\ listed' = <<>>
    /\ TerraformOnly
    /\ UNCHANGED <<remoteVars, rules, st, doomed, faults>>

\* Mutant: a rule that is gone stays in the state.
ReadRuleKeepsGone(k) ==
    /\ pc = "reading" /\ k \in todo
    /\ \/ /\ rules' = IF rules[k].id \in Live
                      THEN [rules EXCEPT ![k].at = orderId[rules[k].id],
                                         ![k].val = says[rules[k].id]]
                      ELSE rules
          /\ todo' = todo \ {k}
          /\ UNCHANGED <<pc, outcome, faults>>
       \/ Fault /\ Stop("error") /\ UNCHANGED rules
    /\ TerraformOnly
    /\ UNCHANGED <<remoteVars, st, applyVars>>

ReadRule(k) ==
    /\ pc = "reading" /\ k \in todo
    /\ \/ /\ rules' = IF rules[k].id \in Live
                      THEN [rules EXCEPT ![k].at = orderId[rules[k].id],
                                         ![k].val = says[rules[k].id]]
                      ELSE [rules EXCEPT ![k] = NoRule]
          /\ todo' = todo \ {k}
          /\ UNCHANGED <<pc, outcome, faults>>
       \/ Fault /\ Stop("error") /\ UNCHANGED rules
    /\ TerraformOnly
    /\ UNCHANGED <<remoteVars, st, applyVars>>

ReadOrder ==
    /\ pc = "reading" /\ todo = {}
    /\ \/ /\ st.status = "none"
          /\ pc' = "planning"
          /\ UNCHANGED <<st, todo, outcome, faults>>
       \/ /\ st.status # "none"
          /\ \E s \in Sortings(ListedByRead(st)) : st' = [st EXCEPT !.ids = s]
          /\ pc' = "planning"
          /\ UNCHANGED <<todo, outcome, faults>>
       \/ /\ st.status # "none"
          /\ Fault /\ Stop("error")
          /\ UNCHANGED st
    /\ TerraformOnly
    /\ UNCHANGED <<remoteVars, rules, applyVars>>

\* The rules that the plan creates, updates or destroys.
Changed ==
    {k \in Keys :
        \/ k \in Range(cfg.list) /\ (rules[k] = NoRule \/ rules[k].val # cfg.val)
        \/ k \notin Range(cfg.list) /\ rules[k] # NoRule}

OrderChanges ==
    \/ st.status # "ok"
    \/ NoRule \in {rules[k] : k \in Range(cfg.list)}
    \/ IdList(cfg) # st.ids
    \/ cfg.override # st.override

Planned ==
    /\ plan' = [cfg |-> cfg, order |-> OrderChanges, known |-> KnownIds(cfg),
                since |-> plan.since]
    /\ IF Changed = {} /\ ~OrderChanges
       THEN Stop("no changes")
       ELSE pc' = "applying" /\ todo' = Changed /\ UNCHANGED outcome

\* ModifyPlan lists nothing when there is no prior object.
ModifyPlan ==
    /\ pc = "planning"
    /\ \/ /\ st.status # "ok"
          /\ Planned /\ UNCHANGED faults
       \/ /\ st.status = "ok"
          /\ Fault /\ Stop("error") /\ UNCHANGED plan
       \/ /\ st.status = "ok"
          /\ \E s \in Sortings(Live) :
                IF cfg.override \/ AllAtEnd(s, KnownIds(cfg))
                THEN Planned
                ELSE Stop("refused") /\ UNCHANGED plan
          /\ UNCHANGED faults
    /\ TerraformOnly
    /\ UNCHANGED <<remoteVars, rules, st, failed, desired, listed, doomed>>

-----------------------------------------------------------------------------
(* Terraform: apply the rules *)

Due(k) == pc = "applying" /\ k \in todo /\ todo' = todo \ {k}

RuleStep ==
    /\ TerraformOnly
    /\ UNCHANGED <<st, pc, plan, desired, listed, doomed, outcome>>

\* A create whose answer is lost leaves a rule that no state names.
CreateRule(k) ==
    /\ Due(k) /\ k \in Range(plan.cfg.list) /\ rules[k] = NoRule
    /\ \/ /\ used < MaxIds
          /\ used' = used + 1 /\ made' = made \cup {used'}
          /\ orderId' = [orderId EXCEPT ![used'] = Highest + 1]
          /\ says' = [says EXCEPT ![used'] = plan.cfg.val]
          /\ \/ /\ rules' = [rules EXCEPT ![k] =
                    [id |-> used', at |-> Highest + 1, val |-> plan.cfg.val]]
                /\ UNCHANGED <<failed, faults>>
             \/ Fault /\ failed' = TRUE /\ UNCHANGED rules
       \/ /\ Fault /\ failed' = TRUE
          /\ UNCHANGED <<remoteVars, rules>>
    /\ RuleStep

\* An update writes the order_id that the state has.  The state keeps what it
\* had when the answer is lost.
UpdateRule(k) ==
    /\ Due(k) /\ k \in Range(plan.cfg.list) /\ rules[k] # NoRule
    /\ \/ /\ rules[k].id \in Live
          /\ orderId' = [orderId EXCEPT ![rules[k].id] = rules[k].at]
          /\ says' = [says EXCEPT ![rules[k].id] = plan.cfg.val]
          /\ \/ /\ rules' = [rules EXCEPT ![k].val = plan.cfg.val]
                /\ UNCHANGED <<failed, faults>>
             \/ Fault /\ failed' = TRUE /\ UNCHANGED rules
       \/ /\ rules[k].id \notin Live
          /\ failed' = TRUE
          /\ UNCHANGED <<orderId, says, rules, faults>>
       \/ /\ Fault /\ failed' = TRUE
          /\ UNCHANGED <<orderId, says, rules>>
    /\ UNCHANGED <<used, made>> /\ RuleStep

\* A rule that is gone already is no error.
DeleteRule(k) ==
    /\ Due(k) /\ k \notin Range(plan.cfg.list)
    /\ \/ /\ orderId' = [orderId EXCEPT ![rules[k].id] = 0]
          /\ rules' = [rules EXCEPT ![k] = NoRule]
          /\ UNCHANGED <<failed, faults>>
       \/ /\ Fault /\ failed' = TRUE
          /\ orderId' \in {orderId, [orderId EXCEPT ![rules[k].id] = 0]}
          /\ UNCHANGED rules
    /\ UNCHANGED <<says, used, made>> /\ RuleStep

\* Terraform skips the order when a rule it depends on failed.
RulesApplied ==
    /\ pc = "applying" /\ todo = {}
    /\ IF failed \/ ~plan.order
       THEN /\ Stop(IF failed THEN "error" ELSE "applied")
            /\ UNCHANGED desired
       ELSE /\ pc' = "ordering"
            /\ desired' = [ids |-> IdList(plan.cfg),
                           override |-> plan.cfg.override]
            /\ UNCHANGED <<todo, outcome>>
    /\ TerraformOnly
    /\ UNCHANGED <<remoteVars, rules, st, plan, failed, listed, doomed, faults>>

-----------------------------------------------------------------------------
(* Terraform: apply the order *)

\* Create and Update save the plan as the state even after an error.
Saved(status) ==
    [status |-> status, ids |-> desired.ids, override |-> desired.override]

OrderFails ==
    /\ st' = Saved(IF st.status = "ok" THEN "ok" ELSE "tainted")
    /\ doomed' = {}
    /\ Stop("error")

OrderStep ==
    /\ TerraformOnly
    /\ UNCHANGED <<used, made, says, rules, plan, failed, desired>>

UpdateOrderWithDeletion ==
    /\ pc = "ordering" /\ desired.override
    /\ \E s \in Sortings(Live) : listed' = s
    /\ \/ Fault /\ OrderFails
       \/ /\ ~(Range(desired.ids) \subseteq Live)
          /\ OrderFails /\ UNCHANGED faults
       \/ /\ Range(desired.ids) \subseteq Live
          /\ doomed' = Unmanaged
          /\ pc' = "deleting"
          /\ UNCHANGED <<st, todo, outcome, faults>>
    /\ UNCHANGED orderId /\ OrderStep

UpdateOrderWithAllRules ==
    /\ pc = "ordering" /\ ~desired.override
    /\ \E s \in Sortings(Live) :
        /\ listed' = s
        /\ \/ Fault /\ OrderFails
           \/ /\ \/ ~(Range(desired.ids) \subseteq Live)
                 \/ ~AllAtEnd(s, Range(desired.ids))
              /\ OrderFails /\ UNCHANGED faults
           \/ /\ Range(desired.ids) \subseteq Live
              /\ AllAtEnd(s, Range(desired.ids))
              /\ pc' = "reordering"
              /\ UNCHANGED <<st, doomed, todo, outcome, faults>>
    /\ UNCHANGED orderId /\ OrderStep

\* One turn of the delete loop; a failed call may have reached Datadog.
DeleteUnmanaged(i) ==
    /\ pc = "deleting" /\ i \in doomed
    /\ \/ /\ orderId' = [orderId EXCEPT ![i] = 0]
          /\ doomed' = doomed \ {i}
          /\ UNCHANGED <<st, pc, todo, outcome, faults>>
       \/ /\ Fault
          /\ orderId' \in {orderId, [orderId EXCEPT ![i] = 0]}
          /\ OrderFails
    /\ UNCHANGED listed /\ OrderStep

\* Datadog rejects a body that names a rule that is gone; it may reject one
\* that leaves a rule out.
Reorder ==
    /\ \/ pc = "deleting" /\ doomed = {}
       \/ pc = "reordering"
    /\ \/ /\ Sent \subseteq Live
          /\ orderId' = Renumbered
          /\ st' = Saved("ok")
          /\ Stop("applied")
          /\ UNCHANGED <<doomed, faults>>
       \/ /\ Sent # Live
          /\ OrderFails
          /\ UNCHANGED <<orderId, faults>>
       \/ /\ Fault
          /\ orderId' \in {orderId} \cup
                (IF Sent \subseteq Live
                 THEN {Renumbered} ELSE {})
          /\ OrderFails
    /\ UNCHANGED listed /\ OrderStep

-----------------------------------------------------------------------------
UiEdits ==
    \/ UiCreate
    \/ \E i \in Ids : UiDelete(i)
    \/ \E i, j \in Ids : UiSwap(i, j)

UserChoices == (\E c \in Configs : EditConfig(c)) \/ ImportState \/ DestroyOrder

TerraformRun ==
    \/ StartRun \/ ReadOrder \/ ModifyPlan
    \/ \E k \in Keys :
        ReadRule(k) \/ CreateRule(k) \/ UpdateRule(k) \/ DeleteRule(k)
    \/ RulesApplied
    \/ UpdateOrderWithDeletion \/ UpdateOrderWithAllRules
    \/ (\E i \in Ids : DeleteUnmanaged(i)) \/ Reorder

Next == UiEdits \/ UserChoices \/ TerraformRun

\* A pipeline that runs terraform apply again and again: a run once started
\* goes on, and the next one starts.
Spec == Init /\ [][Next]_vars /\ WF_vars(TerraformRun)

-----------------------------------------------------------------------------
(* Properties *)

\* An apply that deletes what the configuration does not name never deletes a
\* rule that the configuration has, not even one that it made a moment before.
KeepsConfiguredRules ==
    \A k \in Keys :
        k \in Range(plan.cfg.list) /\ pc = "deleting" =>
            rules[k].id \notin doomed

\* The two resources together keep what an owner of an order promises: rules
\* of others are removed only under the override and only when they were
\* listed, and keep their order otherwise.
Owned == INSTANCE OwnedOrder WITH
    Items <- Ids, order <- orderId, view <- Place(listed), mine <- made,
    claim <- [place |-> Place(desired.ids), exclusive |-> desired.override],
    hands <- edits
OwnsItsOrder == Owned!Spec

\* What no run of terraform can mend: without the override, a rule that it
\* does not manage, or no longer, before one that it does.
Blocked ==
    ~cfg.override /\ \E s \in Sortings(Live) : ~AllAtEnd(s, KnownIds(cfg))

\* The configured rules are there, in the configured order.
Ordered ==
    /\ \A k \in Range(cfg.list) : rules[k].id \in Live
    /\ \A m, n \in 1..Len(cfg.list) :
            m < n => orderId[rules[cfg.list[m]].id]
                        <= orderId[rules[cfg.list[n]].id]

Settled ==
    /\ st.status = "ok" /\ cfg.override = st.override
    /\ Ordered
    /\ \A k \in Range(cfg.list) : says[rules[k].id] = cfg.val
    /\ cfg.override => Live = KnownIds(cfg)

\* What a run gives: all of it when nobody edited the rules meanwhile, and the
\* order when it wrote the order.
Good == (edits = plan.since => Settled) /\ (plan.order => Ordered)

\* A run that ends well leaves what the configuration says: the rules with
\* their content, in the configured order and, under the override, no others;
\* whatever earlier runs left half done, saved as done or wrote with old
\* numbers.  The exception is a run during which somebody edits the rules: an
\* update of a rule may write the number it had before the edit.  Even then
\* the order is right when the order itself was planned to change.
AppliedMeansOrdered ==
    [][pc # "idle" /\ outcome' \in {"applied", "no changes"} => Good']_vars

\* Once people and faults leave it alone, repeated applies reach the
\* configured rules in the configured order and stay there.
Converges == <>[](Settled \/ Blocked)
=============================================================================
