--------------------------- MODULE DeploymentGate ---------------------------
(***************************************************************************)
(* resource_datadog_deployment_gate.go: a deployment gate and its rules.   *)
(* Terraform knows them as one resource, Datadog as one gate and several   *)
(* rules with ids of their own, and every change of the resource is a      *)
(* series of calls: one action each, with the code up to the next call.    *)
(*                                                                         *)
(*   create   validate, make gate, make rules, look again, reconcile       *)
(*   read     get, reconcile                                               *)
(*   update   validate, write gate, look again, list, sync, delete others, *)
(*            reconcile                                                    *)
(*   delete   list, delete others, delete gate                             *)
(*                                                                         *)
(* The order of the rules is left out: every place that reads them looks   *)
(* them up by id or by name.                                               *)
(***************************************************************************)
EXTENDS Naturals, FiniteSets

CONSTANTS
    Names, Types, Options,  \* what a rule consists of
    Configs,      \* what the user can configure: [val, rules]
    Values,       \* the options of a gate
    GateIds, RuleIds,
    UiRules,      \* what people make of a rule in the UI
    None,
    MaxEdits,     \* bound: edits made in the Datadog UI
    MaxFaults     \* bound: calls that fail

Rules == [name : Names, type : Types, options : Options]

ASSUME ConfigsAssumption ==
    Configs \subseteq [val : Values, rules : SUBSET Rules]
ASSUME RulesAssumption == UiRules \subseteq Rules /\ None \notin Rules
ASSUME IdsAssumption == None \notin Values \cup GateIds \cup RuleIds
ASSUME BoundsAssumption == MaxEdits \in Nat /\ MaxFaults \in Nat

VARIABLES
    cfg,          \* the configuration of the resource
    gate,         \* Datadog: the gate of this service and environment
    rules,        \* Datadog: its rules, None for an id that is not in use
    st,           \* the resource in the Terraform state
    doing,        \* where Terraform is
    pc,           \* the next call of the running handler
    work,         \* the state the handler is building
    todo,         \* entries of the plan that are still to be created or updated
    listed,       \* ids in the last list of the rules, less those dealt with
    mine,         \* history: Terraform made the gate that is there
    lostAt,       \* history: the call at which a create with a gate failed
    outcome,      \* history: how the last run ended
    disturbed,    \* history: somebody used the UI since the run began
    edits, faults

remoteVars == <<gate, rules, mine>>
bounds == <<edits, faults>>
vars == <<cfg, gate, rules, st, doing, pc, work, todo, listed, mine,
          lostAt, outcome, disturbed, edits, faults>>

NoGate == [id |-> None, val |-> None]
Nothing == [gate |-> None, val |-> None, rules |-> {}]
NoState == [status |-> "none", gate |-> None, val |-> None, rules |-> {}]
InState(status, w) ==
    [status |-> status, gate |-> w.gate, val |-> w.val, rules |-> w.rules]

\* What Terraform keeps of a rule.
Entry(i, r) == [id |-> i, rule |-> r]
IdsOf(entries) == {e.id : e \in entries}

Live == {i \in RuleIds : rules[i] # None}
New(i) == i \notin Live \cup IdsOf(st.rules) \cup IdsOf(work.rules) \cup listed

-----------------------------------------------------------------------------
(* How a handler begins and ends *)

Start(op, call, w, entries) ==
    /\ doing' = op /\ pc' = call
    /\ work' = w /\ todo' = entries /\ listed' = {}

Finish(where, how) ==
    /\ doing' = where /\ pc' = "none"
    /\ work' = Nothing /\ todo' = {} /\ listed' = {}
    /\ outcome' = how

\* No handler saves anything before its last line, so an error leaves the state.
Fails ==
    /\ Finish("idle", "error")
    /\ lostAt' = IF doing = "create" /\ work.gate # None THEN pc ELSE lostAt
    /\ UNCHANGED st

\* Whether entries are just what the configuration says.
Conforms(val, entries) ==
    /\ val = cfg.val
    /\ {e.rule : e \in entries} = cfg.rules
    /\ Cardinality(entries) = Cardinality(cfg.rules)

\* Terraform refuses a result that is not what was planned, but saves it.
Succeeds(w) ==
    /\ UNCHANGED lostAt
    /\ \/ /\ doing = "read"
          /\ st' = InState(st.status, w)
          /\ Finish("refreshed", "none")
       \/ /\ doing = "import"
          /\ st' = InState("ok", w)
          /\ Finish("idle", "none")
       \/ /\ doing \in {"create", "update"} /\ Conforms(w.val, w.rules)
          /\ st' = InState("ok", w)
          /\ Finish("idle", "applied")
       \/ /\ doing \in {"create", "update"} /\ ~Conforms(w.val, w.rules)
          /\ st' = InState(IF doing = "create" THEN "tainted" ELSE st.status, w)
          /\ Finish("idle", "error")

Goes(call) == pc' = call /\ UNCHANGED <<doing, st, lostAt, outcome>>

Fault == faults < MaxFaults /\ faults' = faults + 1
NoFault == UNCHANGED faults
Same == UNCHANGED <<cfg, disturbed, edits>>

\* A call that never reaches Datadog.
Unreachable ==
    /\ pc \in {"get", "make gate", "write gate", "list", "reconcile",
               "delete others", "delete gate"}
    /\ Fault /\ Fails
    /\ Same /\ UNCHANGED remoteVars

-----------------------------------------------------------------------------
(* Read, and the end of Create and Update *)

GateFound == gate.id = work.gate

GetGate ==
    /\ pc = "get" /\ GateFound
    /\ Goes("reconcile")
    /\ work' = [work EXCEPT !.val = gate.val]
    /\ NoFault /\ Same /\ UNCHANGED <<remoteVars, todo, listed>>

\* Mutant: a gate that is gone is an error like any other.
GateGoneFails ==
    /\ pc = "get" /\ ~GateFound
    /\ Fails
    /\ NoFault /\ Same /\ UNCHANGED remoteVars

GateGone ==
    /\ pc = "get" /\ ~GateFound
    /\ \/ doing = "read" /\ Finish("refreshed", "none")
       \/ doing = "import" /\ Finish("idle", "error")
    /\ st' = NoState
    /\ NoFault /\ Same /\ UNCHANGED <<remoteVars, lostAt>>

\* Create and Update look at the gate once more; an error is ignored.
LookAgain ==
    /\ pc = "look again"
    /\ Goes(IF doing = "create" THEN "reconcile" ELSE "list")
    /\ \/ GateFound /\ work' = [work EXCEPT !.val = gate.val] /\ NoFault
       \/ ~GateFound /\ UNCHANGED work /\ NoFault
       \/ UNCHANGED work /\ Fault
    /\ Same /\ UNCHANGED <<remoteVars, todo, listed>>

\* readAndReconcileRules: the entries whose rule is still there, with what it
\* says now.  Rules that Terraform does not know are not looked at.
\* Mutant: what the rules say is not read.
ReconciledUnread(entries) == {e \in entries : e.id \in Live}
Reconciled(entries) == {Entry(i, rules[i]) : i \in IdsOf(entries) \cap Live}

Reconcile ==
    /\ pc = "reconcile" /\ GateFound
    /\ Succeeds([work EXCEPT !.rules = Reconciled(work.rules)])
    /\ NoFault /\ Same /\ UNCHANGED remoteVars

-----------------------------------------------------------------------------
(* Create *)

\* validateRules: names tell the rules apart.
\* Mutant: nobody looks at the names.
ValidAlways == TRUE
Valid == \A r, s \in cfg.rules : r.name = s.name => r = s

Validate ==
    /\ pc = "validate"
    /\ \/ /\ Valid /\ Goes(IF doing = "create" THEN "make gate" ELSE "write gate")
          /\ UNCHANGED <<work, todo, listed>>
       \/ ~Valid /\ Fails
    /\ NoFault /\ Same /\ UNCHANGED remoteVars

\* Datadog has one gate for a service, environment and identifier.
MakeGate(g) ==
    /\ pc = "make gate" /\ gate = NoGate /\ g \notin {st.gate, work.gate}
    /\ gate' = [id |-> g, val |-> cfg.val]
    /\ \/ /\ Goes("make rules") /\ NoFault
          /\ work' = [work EXCEPT !.gate = g, !.val = cfg.val]
          /\ mine' = TRUE /\ UNCHANGED <<todo, listed>>
       \/ Fault /\ Fails /\ mine' = FALSE
    /\ Same /\ UNCHANGED rules

\* createRules, and the first half of syncRules for an entry without a rule.
Unmade(e) == e.id \notin listed

\* Mutant: the rollback is missing.
RuleFailsNoRollback == Fails
RuleFails == IF pc = "make rules"
             THEN Goes("roll back") /\ UNCHANGED <<work, todo, listed>>
             ELSE Fails

MakeRule(e, i) ==
    /\ pc \in {"make rules", "sync"} /\ e \in todo /\ Unmade(e)
    /\ GateFound /\ New(i)
    /\ rules' = [rules EXCEPT ![i] = e.rule]
    /\ \/ /\ Goes(pc) /\ NoFault
          /\ work' = [work EXCEPT !.rules = @ \cup {Entry(i, e.rule)}]
          /\ todo' = todo \ {e}
          /\ UNCHANGED listed
       \/ Fault /\ RuleFails
    /\ Same /\ UNCHANGED <<gate, mine>>

MadeAll ==
    /\ pc = "make rules" /\ todo = {}
    /\ Goes("look again")
    /\ NoFault /\ Same /\ UNCHANGED <<remoteVars, work, todo, listed>>

\* Delete the gate; Datadog deletes its rules with it.
GateDeleted ==
    /\ gate' = NoGate /\ mine' = FALSE
    /\ rules' = [i \in RuleIds |-> None]

\* An error of the rollback is only added to the one that caused it.
RollBack ==
    /\ pc = "roll back" /\ Fails
    /\ \/ GateFound /\ GateDeleted /\ NoFault
       \/ ~GateFound /\ UNCHANGED remoteVars /\ NoFault
       \/ UNCHANGED remoteVars /\ Fault
    /\ Same

-----------------------------------------------------------------------------
(* Update *)

WriteGate ==
    /\ pc = "write gate" /\ GateFound
    /\ gate' = [gate EXCEPT !.val = cfg.val]
    /\ \/ /\ Goes("look again") /\ NoFault
          /\ work' = [work EXCEPT !.val = cfg.val] /\ UNCHANGED <<todo, listed>>
       \/ Fault /\ Fails
    /\ Same /\ UNCHANGED <<rules, mine>>

\* The list syncRules and deleteAllRules start from.
List ==
    /\ pc = "list" /\ GateFound
    /\ Goes(IF doing = "update" THEN "sync" ELSE "delete others")
    /\ listed' = Live
    /\ NoFault /\ Same /\ UNCHANGED <<remoteVars, work, todo>>

\* An update does not send the type.
Written(i, r) == [r EXCEPT !.type = rules[i].type]

UpdateRule(e) ==
    /\ pc = "sync" /\ e \in todo /\ ~Unmade(e) /\ e.id \in Live
    /\ rules' = [rules EXCEPT ![e.id] = Written(e.id, e.rule)]
    /\ \/ /\ Goes("sync") /\ NoFault
          /\ work' = [work EXCEPT !.rules = @ \cup {Entry(e.id, rules'[e.id])}]
          /\ todo' = todo \ {e} /\ UNCHANGED listed
       \/ Fault /\ Fails
    /\ Same /\ UNCHANGED <<gate, mine>>

\* The call fails before anything is written: the gate is gone, the rule is gone,
\* the gate has as many rules as it can, or Datadog is not reached.
NoRule(e) ==
    /\ pc \in {"make rules", "sync"} /\ e \in todo
    /\ \/ ~GateFound /\ NoFault
       \/ ~Unmade(e) /\ e.id \notin Live /\ NoFault
       \/ Unmade(e) /\ (\A i \in RuleIds : ~New(i)) /\ NoFault
       \/ Fault
    /\ RuleFails
    /\ Same /\ UNCHANGED remoteVars

Synced ==
    /\ pc = "sync" /\ todo = {}
    /\ Goes("delete others")
    /\ NoFault /\ Same /\ UNCHANGED <<remoteVars, work, todo, listed>>

\* The second half of syncRules, and deleteAllRules: whatever was listed and was
\* not written is deleted; a rule that is gone is as good as deleted.
\* Mutant: only rules of the state are deleted.
OthersKnown == (listed \cap IdsOf(st.rules)) \ IdsOf(work.rules)
Others == listed \ IdsOf(work.rules)

DeleteOther(i) ==
    /\ pc = "delete others" /\ i \in Others
    /\ rules' = [rules EXCEPT ![i] = None]
    /\ \/ /\ Goes(pc) /\ NoFault
          /\ listed' = listed \ {i} /\ UNCHANGED <<work, todo>>
       \/ Fault /\ Fails
    /\ Same /\ UNCHANGED <<gate, mine>>

DeletedAll ==
    /\ pc = "delete others" /\ Others = {}
    /\ Goes(IF doing = "update" THEN "reconcile" ELSE "delete gate")
    /\ NoFault /\ Same /\ UNCHANGED <<remoteVars, work, todo, listed>>

-----------------------------------------------------------------------------
(* Delete *)

\* A replaced gate is created anew at once.
Deleted ==
    \/ /\ doing = "delete"
       /\ Finish("idle", "destroyed")
    \/ /\ doing = "replace"
       /\ Start("create", "validate", Nothing, {Entry(None, r) : r \in cfg.rules})
       /\ UNCHANGED outcome

DeleteGate ==
    /\ pc = "delete gate"
    /\ \/ GateFound /\ GateDeleted
       \/ ~GateFound /\ UNCHANGED remoteVars
    /\ \/ Deleted /\ st' = NoState /\ NoFault /\ UNCHANGED lostAt
       \/ Fault /\ Fails
    /\ Same

\* Datadog answers 404 or 409.
Refused ==
    /\ \/ pc \in {"write gate", "list", "reconcile"} /\ ~GateFound
       \/ pc = "make gate" /\ gate # NoGate
    /\ Fails
    /\ NoFault /\ Same /\ UNCHANGED remoteVars

Handle ==
    \/ Unreachable \/ GetGate \/ GateGone \/ LookAgain \/ Reconcile \/ Validate
    \/ \E g \in GateIds : MakeGate(g)
    \/ \E e \in todo : UpdateRule(e) \/ NoRule(e) \/ \E i \in RuleIds : MakeRule(e, i)
    \/ MadeAll \/ RollBack \/ WriteGate \/ List \/ Synced
    \/ \E i \in listed : DeleteOther(i)
    \/ DeletedAll \/ DeleteGate \/ Refused

-----------------------------------------------------------------------------
(* Terraform *)

Refresh ==
    /\ doing = "idle" /\ st.gate # None
    /\ Start("read", "get",
             [gate |-> st.gate, val |-> st.val, rules |-> st.rules], {})
    /\ outcome' = "none" /\ disturbed' = FALSE
    /\ UNCHANGED <<cfg, remoteVars, st, lostAt, bounds>>

\* The id a planned rule takes over: that of a rule of its name in the state,
\* unless the type has changed.  Of two with one name the later one counts.
\* Mutant: planned rules have no id.
PriorIdsUnknown(r) == {None}
PriorIds(r) ==
    LET namesakes == {e \in st.rules : e.rule.name = r.name}
    IN IF namesakes = {} THEN {None}
       ELSE {IF e.rule.type = r.type THEN e.id ELSE None : e \in namesakes}

StartUpdate ==
    \E prior \in [cfg.rules -> RuleIds \cup {None}] :
        /\ \A r \in cfg.rules : prior[r] \in PriorIds(r)
        /\ Start("update", "validate", [gate |-> st.gate, val |-> cfg.val, rules |-> {}],
                 {Entry(prior[r], r) : r \in cfg.rules})

StartDelete(op) ==
    Start(op, "list", [gate |-> st.gate, val |-> st.val, rules |-> {}], {})

PlanAndApply ==
    /\ \/ doing = "refreshed" /\ UNCHANGED disturbed
       \/ doing = "idle" /\ st.gate = None /\ disturbed' = FALSE
    /\ \/ /\ st.status = "none"
          /\ Start("create", "validate", Nothing, {Entry(None, r) : r \in cfg.rules})
          /\ outcome' = "none"
       \/ /\ st.status = "tainted"
          /\ StartDelete("replace") /\ outcome' = "none"
       \/ /\ st.status = "ok" /\ ~Conforms(st.val, st.rules)
          /\ StartUpdate /\ outcome' = "none"
       \/ /\ st.status = "ok" /\ Conforms(st.val, st.rules)
          /\ Finish("idle", "no changes")
    /\ UNCHANGED <<cfg, remoteVars, st, lostAt, bounds>>

Destroy ==
    /\ doing = "refreshed" /\ st.gate # None
    /\ StartDelete("delete")
    /\ UNCHANGED <<cfg, remoteVars, st, lostAt, outcome, disturbed, bounds>>

\* Import knows the id alone; the rules of the gate stay unknown.
Import ==
    /\ doing = "idle" /\ st.gate = None /\ gate.id # None
    /\ Start("import", "get", [Nothing EXCEPT !.gate = gate.id], {})
    /\ outcome' = "none" /\ disturbed' = FALSE
    /\ UNCHANGED <<cfg, remoteVars, st, lostAt, bounds>>

-----------------------------------------------------------------------------
(* The user and the Datadog UI *)

EditConfig(c) ==
    /\ doing = "idle" /\ c # cfg
    /\ cfg' = c /\ outcome' = "none"
    /\ UNCHANGED <<remoteVars, st, doing, pc, work, todo, listed, lostAt,
                   disturbed, bounds>>

Edit ==
    /\ edits < MaxEdits /\ edits' = edits + 1
    /\ disturbed' = TRUE
    /\ UNCHANGED <<cfg, st, doing, pc, work, todo, listed, lostAt, outcome, faults>>

UiEditGate(v) ==
    /\ Edit /\ gate # NoGate
    /\ gate' = [gate EXCEPT !.val = v] /\ UNCHANGED <<rules, mine>>
UiDeleteGate == Edit /\ gate # NoGate /\ GateDeleted
UiAddRule(i, r) ==
    /\ Edit /\ gate # NoGate /\ New(i)
    /\ rules' = [rules EXCEPT ![i] = r] /\ UNCHANGED <<gate, mine>>
UiEditRule(i, r) ==
    /\ Edit /\ i \in Live
    /\ rules' = [rules EXCEPT ![i] = Written(i, r)] /\ UNCHANGED <<gate, mine>>
UiDeleteRule(i) ==
    /\ Edit /\ i \in Live
    /\ rules' = [rules EXCEPT ![i] = None]
    /\ UNCHANGED <<gate, mine>>

Ui ==
    \/ \E v \in Values : UiEditGate(v)
    \/ UiDeleteGate
    \/ \E i \in RuleIds : \/ UiDeleteRule(i)
                         \/ \E r \in UiRules : UiAddRule(i, r) \/ UiEditRule(i, r)

Init ==
    /\ cfg \in Configs
    /\ gate = NoGate /\ rules = [i \in RuleIds |-> None]
    /\ st = NoState
    /\ doing = "idle" /\ pc = "none"
    /\ work = Nothing /\ todo = {} /\ listed = {}
    /\ mine = FALSE /\ lostAt = "none"
    /\ outcome = "none" /\ disturbed = FALSE
    /\ edits = 0 /\ faults = 0

Terraform == Handle \/ Refresh \/ PlanAndApply

Next ==
    \/ Terraform \/ Destroy \/ Import \/ Ui
    \/ \E c \in Configs : EditConfig(c)

Spec == Init /\ [][Next]_vars

\* A pipeline that applies one configuration again and again.
PipelineSpec == Init /\ [][Terraform \/ Ui]_vars /\ WF_vars(Terraform)

-----------------------------------------------------------------------------
(* Properties *)

Entries == [id : RuleIds \cup {None}, rule : Rules]
GateId == GateIds \cup {None}
GateValue == Values \cup {None}
CallNames == {"none", "get", "validate", "make gate", "make rules", "roll back",
              "write gate", "look again", "list", "sync", "delete others",
              "delete gate", "reconcile"}

Response == [gate : GateId, val : GateValue, rules : SUBSET Entries]
StateEntry == [status : {"none", "ok", "tainted"}, gate : GateId,
               val : GateValue, rules : SUBSET Entries]

RemoteOK ==
    /\ gate \in [id : GateId, val : GateValue]
    /\ rules \in [RuleIds -> Rules \cup {None}]
    /\ mine \in BOOLEAN

RunOK ==
    /\ doing \in {"idle", "refreshed", "read", "import", "create", "update",
                  "replace", "delete"}
    /\ pc \in CallNames
    /\ pc = "none" <=> doing \in {"idle", "refreshed"}
    /\ work \in Response
    /\ todo \subseteq Entries /\ listed \subseteq RuleIds

BoundsOK == edits \in 0..MaxEdits /\ faults \in 0..MaxFaults

\* Every variable keeps to its set, and a handler runs exactly when a call is due.
TypeOK ==
    /\ cfg \in Configs /\ disturbed \in BOOLEAN
    /\ st \in StateEntry /\ lostAt \in CallNames
    /\ outcome \in {"none", "error", "applied", "no changes", "destroyed"}
    /\ RemoteOK /\ RunOK /\ BoundsOK

AtRest == doing \in {"idle", "refreshed"}

\* No rule of Datadog has two entries in the state or in the plan of an update,
\* which would be written over each other, and every entry that is read back has
\* its id, so that the fallback of readAndReconcileRules to the name is not needed.
OneEntryPerRule ==
    /\ \A e, f \in st.rules : e.id = f.id => e = f
    /\ \A e \in st.rules \cup work.rules : e.id # None
    /\ \A e, f \in work.rules : e.id = f.id => e = f
    /\ \A e \in todo : pc # "validate" /\ e.id # None =>
          /\ e.id \notin IdsOf(work.rules)
          /\ \A f \in todo : e.id = f.id => e = f

\* The configuration still has an entry's rule, by its name and type.
Wanted(e) ==
    /\ \E r \in cfg.rules : r.name = e.rule.name /\ r.type = e.rule.type
    /\ \A f \in st.rules : f.rule.name = e.rule.name => f = e

\* An update never deletes a rule that the state knows under a name and type the
\* configuration still has: it keeps its id and its history.
KeepsConfiguredRules ==
    [][\A e \in st.rules :
          doing = "update" /\ edits' = edits /\ e.id \in Live /\ Wanted(e)
          => rules'[e.id] # None]_vars

\* A run that reports success, with nobody in the UI meanwhile, leaves just the
\* configured rules in the gate, whatever earlier failures and people left there.
AppliedMeansExact ==
    doing = "idle" /\ outcome = "applied" /\ ~disturbed
    => /\ gate = [id |-> st.gate, val |-> cfg.val]
       /\ IdsOf(st.rules) = Live
       /\ {rules[i] : i \in Live} = cfg.rules

\* A plan without changes means that the gate has every configured rule; what
\* else it has is not looked at.
NoChangesMeansPresent ==
    doing = "idle" /\ outcome = "no changes" /\ ~disturbed
    => /\ gate = [id |-> st.gate, val |-> cfg.val]
       /\ cfg.rules = {rules[i] : i \in IdsOf(st.rules)}

Orphaned == AtRest /\ mine /\ st.gate = None

\* A gate that Datadog confirmed to have made is in the state, or was deleted
\* when a rule failed, unless it is that delete or the last list that failed.
NoOrphanGate == Orphaned => lostAt \in {"roll back", "reconcile"}

\* "Rollback: delete the gate if rule creation failed": a create that fails leaves
\* no gate behind unless the rollback itself fails.
FailedCreateLeavesNoGate == Orphaned => lostAt = "roll back"

\* Why they hold.  First: each call belongs to an operation, and the lists that a
\* handler works off are empty when it goes on.
CallsFit ==
    /\ pc \in {"make gate", "make rules", "roll back"} => doing = "create"
    /\ pc \in {"write gate", "sync"} => doing = "update"
    /\ pc = "get" => doing \in {"read", "import"}
    /\ pc = "validate" => doing \in {"create", "update"}
    /\ pc = "look again" => doing \in {"create", "update"}
    /\ pc \in {"list", "delete others"} => doing \in {"update", "delete", "replace"}
    /\ pc = "delete gate" => doing \in {"delete", "replace"}
    /\ pc = "reconcile" => doing \in {"read", "import", "create", "update"}
    /\ pc \in {"delete others", "delete gate"} => todo = {}
    /\ doing \in {"read", "import", "delete", "replace"} => todo = {}
    /\ pc = "none" => work = Nothing /\ todo = {} /\ listed = {}

\* Second: a planned rule has the id of the entry it continues, or none.
PlanFits ==
    /\ \A e \in todo : e.id # None =>
          \E f \in st.rules : f.id = e.id /\ f.rule.name = e.rule.name
    /\ \A e \in todo : e.rule \in cfg.rules
    /\ pc = "validate" => work.rules = {} /\ \A e, f \in todo : e.rule = f.rule => e = f

\* Third: a configured rule is planned, written, or was not in the list.
WantedIsPlanned ==
    doing = "update" => \A e \in st.rules : Wanted(e) =>
        \/ e.id \in IdsOf(todo) \cup IdsOf(work.rules)
        \/ pc \in {"sync", "delete others", "reconcile"} /\ e.id \notin listed

\* Fourth: the gate Terraform made is the one of the state or of the create that
\* made it.
MineIsKnown ==
    /\ st.status = "none" <=> st.gate = None
    /\ doing \in {"read", "update", "delete", "replace"} =>
          work.gate = st.gate /\ st.gate # None
    /\ doing \in {"create", "import"} => st.gate = None
    /\ doing = "import" => work.gate # None
    /\ doing = "create" => (work.gate = None <=> pc \in {"validate", "make gate"})
    /\ mine => \/ gate.id # None /\ gate.id = st.gate
               \/ doing = "create" /\ gate.id = work.gate /\ gate.id # None
               \/ lostAt \in {"roll back", "reconcile"}

\* Fifth: a rule has a gate.
RulesHaveGate == gate.id = None => gate = NoGate /\ Live = {}

\* Sixth: with nobody in the UI, the handler that has read or written the options
\* of its gate knows them, no rule escapes a create or an update that has begun
\* with the rules, and what a refresh brought is what is there.
RunKnowsGate ==
    ~disturbed =>
    /\ /\ doing \in {"read", "create", "update"}
       /\ pc \notin {"get", "validate", "make gate", "write gate"} /\ GateFound
       => gate.val = work.val
    /\ doing = "create" /\ pc \in {"make rules", "look again", "reconcile"} =>
          Live \subseteq IdsOf(work.rules)
    /\ doing = "update" /\ pc \in {"sync", "delete others"} =>
          Live \subseteq IdsOf(work.rules) \cup listed
    /\ doing = "update" /\ pc = "reconcile" => Live \subseteq IdsOf(work.rules)
    /\ doing = "refreshed" /\ st.gate # None =>
          /\ gate = [id |-> st.gate, val |-> st.val]
          /\ \A e \in st.rules : e.id \in Live /\ e.rule = rules[e.id]

\* A pipeline that keeps applying ends with the configured gate and its rules,
\* unless a failed create left a gate that nothing in the state names.
Settled ==
    /\ st.status = "ok" /\ gate = [id |-> st.gate, val |-> cfg.val]
    /\ cfg.rules = {rules[i] : i \in IdsOf(st.rules)}
Blocked == AtRest /\ gate # NoGate /\ st.gate = None
Converges == []~Blocked => <>[]Settled
=============================================================================
