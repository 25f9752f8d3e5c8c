----------------------------- MODULE RulesetOrder -----------------------------
(***************************************************************************)
(* datadog_tag_pipeline_rulesets: one resource that owns the ORDER of all  *)
(* tag pipeline rulesets of an organisation.  Terraform refreshes, plans   *)
(* and applies it in separate API calls while people edit the same         *)
(* rulesets in the Datadog UI.                                             *)
(*                                                                         *)
(* A list of distinct ruleset ids is modelled by the place of each id:     *)
(* place[r] is the 1-based index of r in the list, 0 when r is not in it.  *)
(* The remote order, the state and the configuration are all such lists.   *)
(***************************************************************************)
EXTENDS Naturals, FiniteSets

CONSTANTS
    Rulesets,      \* the ruleset ids that can ever exist
    Configs,       \* the configurations the user writes
    Initial,       \* the rulesets that exist before Terraform first runs
    MaxEdits,      \* bound: edits made in the Datadog UI
    MaxFaults,     \* bound: API calls that fail
    MaxRewrites    \* bound: changes of the configuration, and what a person
                   \* does with Terraform besides applying it

VARIABLES
    remote,        \* the order kept by Datadog
    born,          \* ids used so far: Datadog never reuses an id
    cfg,           \* the configuration
    st,            \* the resource in the Terraform state
    pc,            \* where the run of Terraform is
    plan,          \* the approved plan
    seen,          \* the order the last Read listed
    listed,        \* the order the apply listed before acting
    doomed,        \* unmanaged rulesets the apply still has to delete
    lost,          \* history: rulesets this apply asked Datadog to delete
    outcome,       \* history: how the last run of Terraform ended
    edits, faults, rewrites

vars == <<remote, born, cfg, st, pc, plan, seen, listed, doomed, lost,
          outcome, edits, faults, rewrites>>
budget == <<edits, faults, rewrites>>

-----------------------------------------------------------------------------
(* Lists of ids *)

Members(o) == {r \in Rulesets : o[r] > 0}

\* Sorting the rulesets of S by their position in o.
Sorted(o, S) ==
    [r \in Rulesets |->
        IF r \in S THEN Cardinality({q \in S : o[q] <= o[r]}) ELSE 0]

NoRulesets == [r \in Rulesets |-> 0]

\* The lists of distinct ids.
Lists == {o \in [Rulesets -> Nat] :
            /\ \A r \in Rulesets : o[r] <= Cardinality(Members(o))
            /\ \A r, q \in Members(o) : o[r] = o[q] => r = q}

\* A configuration; "repeats" counts entries of its list that name an id again.
Config == [place : Lists, repeats : Nat, override : BOOLEAN]

\* len(desiredOrder)
DesiredLen(c) == Cardinality(Members(c.place)) + c.repeats

ASSUME RulesetsAssumption == IsFiniteSet(Rulesets) /\ Initial \in Lists
ASSUME ConfigsAssumption == Configs \subseteq Config
ASSUME BoundsAssumption ==
    MaxEdits \in Nat /\ MaxFaults \in Nat /\ MaxRewrites \in Nat

-----------------------------------------------------------------------------
(* What the handlers compute *)

\* findUnmanagedRulesets: the rulesets of o that the list does not name.
Unmanaged(o, place) == Members(o) \ Members(place)

\* The index of the first unmanaged ruleset in the order (counted from 0).
FirstUnmanagedPos(o, place) ==
    Cardinality({q \in Members(o) :
                    \A u \in Unmanaged(o, place) : o[q] < o[u]})

\* Mutant: looks only at the last ruleset of the order.
AllAtEndLast(o, place) ==
    \A r \in Members(o) :
        o[r] = Cardinality(Members(o)) => r \in Unmanaged(o, place)

AllAtEnd(o, place) ==
    FirstUnmanagedPos(o, place) =
        Cardinality(Members(o)) - Cardinality(Unmanaged(o, place))

UnmanagedInMiddle(o, place) ==
    Unmanaged(o, place) # {} /\ ~AllAtEnd(o, place)

\* Mutant: the rest of the order starts one place too early.
FinalOrderOverlap(o, c) ==
    [r \in Rulesets |->
        IF r \in Members(c.place) THEN c.place[r]
        ELSE IF r \in Members(o)
        THEN DesiredLen(c) - 1 + Sorted(o, Unmanaged(o, c.place))[r]
        ELSE 0]

\* Mutant: the rest as the API lists it, not sorted by position.
FinalOrderUnsorted(o, c) ==
    LET rest == Unmanaged(o, c.place)
    IN  [r \in Rulesets |->
            IF r \in Members(c.place) THEN c.place[r]
            ELSE IF r \in rest
            THEN DesiredLen(c) + 1 + Cardinality(rest) - Sorted(o, rest)[r]
            ELSE 0]

\* The order sent when UI rulesets are kept: the desired ones, then the rest.
FinalOrder(o, c) ==
    [r \in Rulesets |->
        IF r \in Members(c.place) THEN c.place[r]
        ELSE IF r \in Members(o)
        THEN DesiredLen(c) + Sorted(o, Unmanaged(o, c.place))[r]
        ELSE 0]

\* The body of the reorder call.
Request == IF plan.override THEN plan.place ELSE FinalOrder(listed, plan)

\* Datadog puts the named rulesets first; others follow in their old order.
PutFirst(o, request) ==
    LET named == Members(request) \cap Members(o)
        rest  == Members(o) \ named
    IN  [r \in Rulesets |->
            IF r \in named THEN Sorted(request, named)[r]
            ELSE IF r \in rest
            THEN Cardinality(named) + Sorted(o, rest)[r]
            ELSE 0]

\* Mutant: Read lists the managed rulesets only, override or not.
ReadPlaceManagedOnly(s, o) ==
    LET managed == Members(s.place)
    IN  Sorted(o, IF managed # {} THEN managed \cap Members(o) ELSE Members(o))

\* Mutant: Read believes the state as long as the rulesets exist.
ReadPlaceBelieves(s, o) ==
    IF Members(s.place) \subseteq Members(o)
    THEN s.place ELSE Sorted(o, Members(s.place) \cap Members(o))

\* What Read lists: everything on import or when Terraform overrides the UI.
ReadPlace(s, o) ==
    LET managed == Members(s.place)
        managedOnly == ~s.override /\ managed # {}
    IN  Sorted(o, IF managedOnly THEN managed \cap Members(o) ELSE Members(o))

Differs(s, c) ==
    \/ s.place # c.place
    \/ s.repeats # c.repeats
    \/ s.override # c.override

States == [status : {"none", "ok", "tainted"}, place : Lists,
           repeats : Nat, override : BOOLEAN]

NoState == [status |-> "none", place |-> NoRulesets, repeats |-> 0,
            override |-> FALSE]

Saved(status, c) == [status |-> status, place |-> c.place,
                     repeats |-> c.repeats, override |-> c.override]

-----------------------------------------------------------------------------
Init ==
    /\ remote = Initial
    /\ born = Members(Initial)
    /\ cfg \in Configs
    /\ st = NoState
    /\ pc = "idle"
    /\ plan = cfg
    /\ seen = Initial /\ listed = Initial
    /\ doomed = {} /\ lost = {}
    /\ outcome = "none"
    /\ edits = 0 /\ faults = 0 /\ rewrites = 0

-----------------------------------------------------------------------------
(* The user and the Datadog UI *)

UiEdit(order) ==
    /\ edits < MaxEdits
    /\ edits' = edits + 1
    /\ remote' = order
    /\ UNCHANGED <<cfg, st, pc, plan, seen, listed, doomed, lost, outcome,
                   faults, rewrites>>

UiCreate(r) ==
    /\ r \notin born
    /\ born' = born \cup {r}
    /\ UiEdit([remote EXCEPT ![r] = Cardinality(Members(remote)) + 1])

UiDelete(r) ==
    /\ r \in Members(remote)
    /\ UiEdit(Sorted(remote, Members(remote) \ {r}))
    /\ UNCHANGED born

UiMove(r, q) ==
    /\ r # q /\ {r, q} \subseteq Members(remote)
    /\ UiEdit([remote EXCEPT ![r] = remote[q], ![q] = remote[r]])
    /\ UNCHANGED born

EditConfig(c) ==
    /\ pc = "idle" /\ c # cfg /\ rewrites < MaxRewrites
    /\ rewrites' = rewrites + 1
    /\ cfg' = c
    /\ outcome' = "none"
    /\ UNCHANGED <<remote, born, st, pc, plan, seen, listed, doomed, lost,
                   edits, faults>>

-----------------------------------------------------------------------------
(* Terraform *)

\* A run ends; "how" it ended is all a user sees.
Stop(how) == pc' = "idle" /\ outcome' = how

Fault == faults < MaxFaults /\ faults' = faults + 1

Read ==
    /\ pc = "idle" /\ st.status # "none"
    /\ \/ /\ st' = [st EXCEPT !.place = ReadPlace(st, remote), !.repeats = 0]
          /\ seen' = remote
          /\ pc' = "refreshed"
          /\ outcome' = "none"
          /\ UNCHANGED faults
       \/ /\ Fault
          /\ Stop("error")
          /\ UNCHANGED <<st, seen>>
    /\ UNCHANGED <<remote, born, cfg, plan, listed, doomed, lost, edits,
                   rewrites>>

Chosen == rewrites < MaxRewrites /\ rewrites' = rewrites + 1

\* ImportState passes the id through and the framework reads at once.
ImportState ==
    /\ pc = "idle" /\ st.status = "none"
    /\ st' = [NoState EXCEPT !.status = "ok",
                             !.place = ReadPlace(NoState, remote)]
    /\ seen' = remote
    /\ Stop("none")
    /\ Chosen
    /\ UNCHANGED <<remote, born, cfg, plan, listed, doomed, lost, edits, faults>>

\* With no prior object (a create, or the replacement of a tainted one)
\* ModifyPlan returns before it lists anything.
PlanCreate ==
    /\ \/ pc = "idle" /\ st.status = "none"
       \/ pc = "refreshed" /\ st.status = "tainted"
    /\ plan' = cfg /\ lost' = {}
    /\ pc' = "planned"
    /\ outcome' = "none"
    /\ UNCHANGED <<remote, born, cfg, st, seen, listed, doomed, budget>>

ModifyPlan ==
    /\ pc = "refreshed" /\ st.status = "ok"
    /\ \/ /\ Fault
          /\ Stop("error")
          /\ UNCHANGED <<plan, lost>>
       \/ /\ ~cfg.override /\ UnmanagedInMiddle(remote, cfg.place)
          /\ Stop("error")
          /\ UNCHANGED <<plan, lost, faults>>
       \/ /\ cfg.override \/ ~UnmanagedInMiddle(remote, cfg.place)
          /\ IF Differs(st, cfg)
             THEN /\ plan' = cfg /\ lost' = {}
                  /\ pc' = "planned" /\ outcome' = "none"
             ELSE Stop("no changes") /\ UNCHANGED <<plan, lost>>
          /\ UNCHANGED faults
    /\ UNCHANGED <<remote, born, cfg, st, seen, listed, doomed, edits,
                   rewrites>>

Abandon ==
    /\ pc = "planned"
    /\ Stop("none")
    /\ Chosen
    /\ UNCHANGED <<remote, born, cfg, st, plan, seen, listed, doomed, lost,
                   edits, faults>>

\* Create and Update save the plan as the state even after an error; a
\* create that reports an error leaves the object tainted.
ApplyFails ==
    /\ st' = Saved(IF st.status = "ok" THEN "ok" ELSE "tainted", plan)
    /\ doomed' = {}
    /\ Stop("error")

\* Mutant: unmanaged is judged by the old state, not by the plan.
UpdateOrderListOldState ==
    /\ pc = "planned"
    /\ listed' = remote
    /\ \/ Fault /\ ApplyFails
       \/ /\ ~(Members(plan.place) \subseteq Members(remote))
          /\ ApplyFails
          /\ UNCHANGED faults
       \/ /\ Members(plan.place) \subseteq Members(remote)
          /\ plan.override
          /\ doomed' = Unmanaged(remote, st.place)
          /\ pc' = "deleting"
          /\ UNCHANGED <<st, outcome, faults>>
       \/ /\ Members(plan.place) \subseteq Members(remote)
          /\ ~plan.override
          /\ IF /\ Cardinality(Members(remote)) > DesiredLen(plan)
                /\ UnmanagedInMiddle(remote, plan.place)
             THEN ApplyFails
             ELSE pc' = "reordering" /\ UNCHANGED <<st, doomed, outcome>>
          /\ UNCHANGED faults
    /\ UNCHANGED <<remote, born, cfg, plan, seen, lost, edits, rewrites>>

\* The list and the checks both variants of updateOrder start with.
UpdateOrderList ==
    /\ pc = "planned"
    /\ listed' = remote
    /\ \/ Fault /\ ApplyFails
       \/ /\ ~(Members(plan.place) \subseteq Members(remote))
          /\ ApplyFails
          /\ UNCHANGED faults
       \/ /\ Members(plan.place) \subseteq Members(remote)
          /\ plan.override
          /\ doomed' = Unmanaged(remote, plan.place)
          /\ pc' = "deleting"
          /\ UNCHANGED <<st, outcome, faults>>
       \/ /\ Members(plan.place) \subseteq Members(remote)
          /\ ~plan.override
          /\ IF /\ Cardinality(Members(remote)) > DesiredLen(plan)
                /\ UnmanagedInMiddle(remote, plan.place)
             THEN ApplyFails
             ELSE pc' = "reordering" /\ UNCHANGED <<st, doomed, outcome>>
          /\ UNCHANGED faults
    /\ UNCHANGED <<remote, born, cfg, plan, seen, lost, edits, rewrites>>

\* Mutant: an error of one delete does not end the loop.
DeleteUnmanagedGoesOn(r) ==
    /\ pc = "deleting" /\ r \in doomed
    /\ lost' = lost \cup {r}
    /\ doomed' = doomed \ {r}
    /\ \/ /\ remote' = Sorted(remote, Members(remote) \ {r})
          /\ UNCHANGED faults
       \/ Fault /\ UNCHANGED remote
    /\ UNCHANGED <<born, cfg, plan, seen, listed, st, pc, outcome, edits,
                   rewrites>>

\* One turn of the delete loop; Datadog answers 404 when r is already gone.
\* A failed call may or may not have reached Datadog.
DeleteUnmanaged(r) ==
    /\ pc = "deleting" /\ r \in doomed
    /\ lost' = lost \cup {r}
    /\ \/ /\ remote' = Sorted(remote, Members(remote) \ {r})
          /\ doomed' = doomed \ {r}
          /\ UNCHANGED <<st, pc, outcome, faults>>
       \/ /\ Fault
          /\ remote' \in {remote, Sorted(remote, Members(remote) \ {r})}
          /\ ApplyFails
    /\ UNCHANGED <<born, cfg, plan, seen, listed, edits, rewrites>>

\* Datadog rejects a body that repeats an id or names one that is gone; it
\* may reject one that leaves a ruleset out.
Reorder ==
    /\ \/ pc = "deleting" /\ doomed = {}
       \/ pc = "reordering"
    /\ \/ /\ Members(Request) \subseteq Members(remote) /\ plan.repeats = 0
          /\ remote' = PutFirst(remote, Request)
          /\ st' = Saved("ok", plan)
          /\ Stop("applied")
          /\ UNCHANGED <<doomed, faults>>
       \/ /\ Members(Request) # Members(remote) \/ plan.repeats > 0
          /\ ApplyFails
          /\ UNCHANGED <<remote, faults>>
       \/ /\ Fault
          /\ remote' \in {remote} \cup
                (IF Members(Request) \subseteq Members(remote)
                 THEN {PutFirst(remote, Request)} ELSE {})
          /\ ApplyFails
    /\ UNCHANGED <<born, cfg, plan, seen, listed, lost, edits, rewrites>>

\* Delete leaves the rulesets alone: only the state entry goes.
Destroy ==
    /\ pc = "idle" /\ st.status # "none"
    /\ st' = NoState
    /\ Stop("none")
    /\ Chosen
    /\ UNCHANGED <<remote, born, cfg, plan, seen, listed, doomed, lost, edits,
                   faults>>

-----------------------------------------------------------------------------
UiEdits ==
    \/ \E r \in Rulesets : UiCreate(r) \/ UiDelete(r)
    \/ \E r, q \in Rulesets : UiMove(r, q)

\* Choices of the person at the terminal.
UserChoice == ImportState \/ Destroy \/ Abandon

TerraformRun ==
    \/ Read \/ PlanCreate \/ ModifyPlan
    \/ UpdateOrderList
    \/ \E r \in Rulesets : DeleteUnmanaged(r)
    \/ Reorder

Next ==
    \/ UiEdits
    \/ \E c \in Configs : EditConfig(c)
    \/ UserChoice
    \/ TerraformRun

Spec == Init /\ [][Next]_vars

\* A pipeline that runs terraform apply -auto-approve again and again: a run
\* once started goes on, and the next one starts.
FairSpec == Spec /\ WF_vars(TerraformRun)

-----------------------------------------------------------------------------
(* Properties *)

WithinBounds ==
    /\ edits \in 0..MaxEdits
    /\ faults \in 0..MaxFaults
    /\ rewrites \in 0..MaxRewrites

\* The orders Datadog and the apply hold stay orders: no step leaves a gap or
\* gives two rulesets one place.
TypeOK ==
    /\ remote \in Lists /\ seen \in Lists /\ listed \in Lists
    /\ born \subseteq Rulesets /\ Members(remote) \subseteq born
    /\ cfg \in Config /\ plan \in Config
    /\ st \in States
    /\ pc \in {"idle", "refreshed", "planned", "deleting", "reordering"}
    /\ doomed \subseteq Rulesets /\ lost \subseteq Rulesets
    /\ outcome \in {"none", "error", "no changes", "applied"}
    /\ WithinBounds

\* What a configuration asks of the order: its rulesets in its order and, when
\* it overrides the UI, no others.
Conforms(o, c) ==
    /\ Sorted(o, Members(c.place) \cap Members(o)) = c.place
    /\ c.override => Unmanaged(o, c.place) = {}

\* The provider deletes a ruleset only under override_ui_defined_resources,
\* only one the configuration does not name, and only one its own list of
\* this apply returned: never one created in the UI while the apply runs.
DeletesOnlyListedUnmanaged ==
    lost # {} => /\ plan.override
                 /\ lost \subseteq Unmanaged(listed, plan.place)

\* Without the override a reorder only permutes the managed rulesets among
\* themselves: seen from an unmanaged ruleset, whatever was before it is
\* still before it and whatever was after it is still after it.
UnmanagedKeepsPlace ==
    pc = "reordering" =>
        \A u \in Unmanaged(listed, plan.place) :
            \A q \in Members(listed) \ {u} :
                listed[q] < listed[u] <=> Request[q] < Request[u]

\* The same for a configuration whose list repeats no id.
UnmanagedKeepsPlaceNoRepeats == plan.repeats = 0 => UnmanagedKeepsPlace

\* "No changes" is said only of an order that conforms: the state that an
\* earlier, failed apply left behind is never believed.
NoChangesMeansConforming == outcome = "no changes" => Conforms(seen, cfg)

\* A successful apply leaves the managed rulesets first and in the configured
\* order, every unmanaged ruleset it listed is gone under the override, and
\* without the override no ruleset disappears.
AppliedMeansOrdered ==
    [][Reorder /\ outcome' = "applied" =>
          /\ \A r \in Members(plan.place) : remote'[r] = plan.place[r]
          /\ plan.override =>
                Unmanaged(listed, plan.place) \cap Members(remote') = {}
          /\ ~plan.override => Members(remote') = Members(remote)]_vars

\* The resource keeps what an owner of an order promises: whatever an apply
\* does between edits of others, it moves and removes no more than it may.
Owned == INSTANCE OwnedOrder WITH
    Items <- Rulesets, order <- remote, view <- listed, mine <- {},
    claim <- [place |-> plan.place, exclusive |-> plan.override],
    hands <- edits
OwnsItsOrder == Owned!Spec

\* What no run of terraform can mend: a ruleset that is gone, or unmanaged
\* rulesets between managed ones that it may not delete.
Blocked ==
    \/ ~(Members(cfg.place) \subseteq Members(remote))
    \/ ~cfg.override /\ UnmanagedInMiddle(remote, cfg.place)

Settled == st.status = "ok" /\ ~Differs(st, cfg) /\ Conforms(remote, cfg)

\* Once people and faults leave it alone, repeated applies reach the
\* configured order and stay there, whatever a half-done apply left.
Converges == <>[](Settled \/ Blocked)

=============================================================================
