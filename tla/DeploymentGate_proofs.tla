----------------------- MODULE DeploymentGate_proofs -----------------------
(***************************************************************************)
(* Proofs about DeploymentGate, for every set of rules, ids, options and   *)
(* configurations and every bound.                                         *)
(***************************************************************************)
EXTENDS DeploymentGate, TLAPS

-----------------------------------------------------------------------------
(* Type correctness *)

\* What handlers begin and end with has the right type.
LEMMA EmptyTypes ==
    /\ Nothing \in Response /\ NoState \in StateEntry
    /\ NoGate \in [id : GateId, val : GateValue]
    /\ [i \in RuleIds |-> None] \in [RuleIds -> Rules \cup {None}]
BY DEF Nothing, NoState, NoGate, Response, StateEntry, GateId, GateValue

LEMMA InStateType ==
    ASSUME NEW w \in Response, NEW status \in {"none", "ok", "tainted"}
    PROVE  InState(status, w) \in StateEntry
BY DEF InState, Response, StateEntry

LEMMA EntryType ==
    ASSUME NEW i \in RuleIds \cup {None}, NEW r \in Rules
    PROVE  Entry(i, r) \in Entries
BY DEF Entry, Entries

LEMMA FinishType ==
    ASSUME NEW where \in {"idle", "refreshed"},
           NEW how \in {"none", "error", "applied", "no changes", "destroyed"},
           Finish(where, how)
    PROVE  RunOK' /\ outcome' \in {"none", "error", "applied", "no changes", "destroyed"}
BY EmptyTypes DEF Finish, RunOK, CallNames

LEMMA StartType ==
    ASSUME NEW op \in {"read", "import", "create", "update", "replace", "delete"},
           NEW call \in CallNames \ {"none"}, NEW w \in Response,
           NEW entries \in SUBSET Entries, Start(op, call, w, entries)
    PROVE  RunOK'
BY DEF Start, RunOK

LEMMA FailsType ==
    ASSUME TypeOK, Fails
    PROVE  /\ RunOK' /\ st' \in StateEntry /\ lostAt' \in CallNames
           /\ outcome' \in {"none", "error", "applied", "no changes", "destroyed"}
BY FinishType DEF Fails, TypeOK, RunOK

LEMMA SucceedsType ==
    ASSUME TypeOK, NEW w \in Response, Succeeds(w)
    PROVE  /\ RunOK' /\ st' \in StateEntry /\ lostAt' \in CallNames
           /\ outcome' \in {"none", "error", "applied", "no changes", "destroyed"}
<1>1. lostAt' \in CallNames /\ st.status \in {"none", "ok", "tainted"}
  BY DEF Succeeds, TypeOK, StateEntry
<1>2. PICK status \in {"none", "ok", "tainted"}, where \in {"idle", "refreshed"},
           how \in {"none", "error", "applied"} :
        st' = InState(status, w) /\ Finish(where, how)
  BY <1>1 DEF Succeeds
<1>. QED
  BY <1>1, <1>2, InStateType, FinishType

LEMMA GoesType ==
    ASSUME TypeOK, pc # "none", NEW call \in CallNames \ {"none"}, Goes(call),
           work' \in Response, todo' \subseteq Entries, listed' \subseteq RuleIds
    PROVE  /\ RunOK' /\ st' \in StateEntry /\ lostAt' \in CallNames
           /\ outcome' \in {"none", "error", "applied", "no changes", "destroyed"}
BY DEF Goes, TypeOK, RunOK

LEMMA FaultType ==
    ASSUME BoundsOK, Fault \/ NoFault, UNCHANGED edits
    PROVE  BoundsOK'
BY BoundsAssumption DEF BoundsOK, Fault, NoFault

LEMMA GateDeletedType ==
    ASSUME GateDeleted
    PROVE  RemoteOK'
BY EmptyTypes DEF GateDeleted, RemoteOK

\* A step of a handler keeps the configuration and the marks of the run.
LEMMA HandlerType ==
    ASSUME TypeOK, Same, Fault \/ NoFault, RemoteOK', RunOK', st' \in StateEntry,
           lostAt' \in CallNames,
           outcome' \in {"none", "error", "applied", "no changes", "destroyed"}
    PROVE  TypeOK'
BY FaultType DEF TypeOK, Same

\* One rule of Datadog is written or deleted.
LEMMA RulesType ==
    ASSUME RemoteOK, NEW i \in RuleIds, NEW r \in Rules \cup {None},
           rules' = [rules EXCEPT ![i] = r], gate' = gate, mine' = mine
    PROVE  RemoteOK'
BY DEF RemoteOK

LEMMA ReconciledType ==
    ASSUME RemoteOK, NEW entries \in SUBSET Entries
    PROVE  Reconciled(entries) \subseteq Entries
<1>1. ASSUME NEW i \in IdsOf(entries) \cap Live
      PROVE  Entry(i, rules[i]) \in Entries
  BY EntryType DEF RemoteOK, Live
<1>. QED
  BY <1>1 DEF Reconciled

LEMMA PlannedType ==
    ASSUME TypeOK, NEW prior \in [cfg.rules -> RuleIds \cup {None}]
    PROVE  {Entry(prior[r], r) : r \in cfg.rules} \subseteq Entries
<1>1. cfg.rules \subseteq Rules
  BY ConfigsAssumption DEF TypeOK
<1>2. ASSUME NEW r \in cfg.rules
      PROVE  Entry(prior[r], r) \in Entries
  BY <1>1, EntryType
<1>. QED
  BY <1>2

LEMMA UnplannedType ==
    ASSUME TypeOK
    PROVE  {Entry(None, r) : r \in cfg.rules} \subseteq Entries
BY EntryType, ConfigsAssumption DEF TypeOK

LEMMA HandleType ==
    ASSUME TypeOK, Handle
    PROVE  TypeOK'
<1>. USE DEF remoteVars
<1>1. CASE Unreachable
  BY <1>1, FailsType, HandlerType DEF Unreachable, TypeOK, RemoteOK
<1>2. CASE GetGate
  <2>1. work' \in Response
    BY <1>2 DEF GetGate, TypeOK, RunOK, RemoteOK, Response
  <2>. QED
    BY <1>2, <2>1, GoesType, HandlerType
    DEF GetGate, TypeOK, RemoteOK, RunOK, CallNames
<1>3. CASE GateGone
  <2>1. RunOK' /\ outcome' \in {"none", "error", "applied", "no changes", "destroyed"}
    BY <1>3, FinishType DEF GateGone
  <2>. QED
    BY <1>3, <2>1, EmptyTypes, HandlerType DEF GateGone, TypeOK, RemoteOK
<1>4. CASE LookAgain
  <2>1. work' \in Response
    BY <1>4 DEF LookAgain, TypeOK, RunOK, RemoteOK, Response
  <2>. QED
    BY <1>4, <2>1, GoesType, HandlerType
    DEF LookAgain, TypeOK, RemoteOK, RunOK, CallNames
<1>5. CASE Reconcile
  <2>1. [work EXCEPT !.rules = Reconciled(work.rules)] \in Response
    BY ReconciledType DEF TypeOK, RunOK, Response
  <2>. QED
    BY <1>5, <2>1, SucceedsType, HandlerType DEF Reconcile, TypeOK, RemoteOK
<1>6. CASE Validate
  <2>1. CASE Goes(IF doing = "create" THEN "make gate" ELSE "write gate")
             /\ UNCHANGED <<work, todo, listed>>
    BY <1>6, <2>1, GoesType, HandlerType
    DEF Validate, TypeOK, RemoteOK, RunOK, CallNames
  <2>2. CASE Fails
    BY <1>6, <2>2, FailsType, HandlerType DEF Validate, TypeOK, RemoteOK
  <2>. QED
    BY <1>6, <2>1, <2>2 DEF Validate
<1>7. ASSUME NEW g \in GateIds, MakeGate(g)
      PROVE  TypeOK'
  <2>1. RemoteOK'
    BY <1>7, ConfigsAssumption DEF MakeGate, TypeOK, RemoteOK, GateId, GateValue
  <2>2. CASE Goes("make rules") /\ NoFault
             /\ work' = [work EXCEPT !.gate = g, !.val = cfg.val]
             /\ UNCHANGED <<todo, listed>>
    <3>1. work' \in Response
      BY <2>2, ConfigsAssumption DEF TypeOK, RunOK, Response, GateId, GateValue
    <3>. QED
      BY <1>7, <2>1, <2>2, <3>1, GoesType, HandlerType
      DEF MakeGate, TypeOK, RunOK, CallNames
  <2>3. CASE Fault /\ Fails
    BY <1>7, <2>1, <2>3, FailsType, HandlerType DEF MakeGate
  <2>. QED
    BY <1>7, <2>2, <2>3 DEF MakeGate
<1>8. ASSUME NEW e \in todo, UpdateRule(e)
      PROVE  TypeOK'
  <2>1. e.id \in RuleIds /\ rules[e.id] \in Rules /\ e.rule \in Rules
    BY <1>8 DEF UpdateRule, Live, TypeOK, RunOK, RemoteOK, Entries
  <2>2. Written(e.id, e.rule) \in Rules
    BY <2>1 DEF Written, Rules
  <2>3. RemoteOK'
    BY <1>8, <2>1, <2>2, RulesType DEF UpdateRule, TypeOK, RemoteOK
  <2>4. CASE Goes("sync") /\ NoFault /\ listed' = listed /\ todo' = todo \ {e}
             /\ work' = [work EXCEPT !.rules = @ \cup {Entry(e.id, rules'[e.id])}]
    <3>1. Entry(e.id, rules'[e.id]) \in Entries
      BY <1>8, <2>1, <2>2, EntryType DEF UpdateRule, TypeOK, RemoteOK
    <3>2. work' \in Response
      BY <2>4, <3>1 DEF TypeOK, RunOK, Response
    <3>. QED
      BY <1>8, <2>3, <2>4, <3>2, GoesType, HandlerType
      DEF UpdateRule, TypeOK, RunOK, CallNames
  <2>5. CASE Fault /\ Fails
    BY <1>8, <2>3, <2>5, FailsType, HandlerType DEF UpdateRule
  <2>. QED
    BY <1>8, <2>4, <2>5 DEF UpdateRule
<1>9. ASSUME RuleFails, pc \in {"make rules", "sync"}
      PROVE  /\ RunOK' /\ st' \in StateEntry /\ lostAt' \in CallNames
             /\ outcome' \in {"none", "error", "applied", "no changes", "destroyed"}
  BY <1>9, GoesType, FailsType DEF RuleFails, TypeOK, RunOK, CallNames
<1>10. ASSUME NEW e \in todo, NoRule(e)
       PROVE  TypeOK'
  BY <1>10, <1>9, HandlerType DEF NoRule, TypeOK, RemoteOK
<1>11. ASSUME NEW e \in todo, NEW i \in RuleIds, MakeRule(e, i)
       PROVE  TypeOK'
  <2>1. e.rule \in Rules
    BY DEF TypeOK, RunOK, Entries
  <2>2. RemoteOK'
    BY <1>11, <2>1, RulesType DEF MakeRule, TypeOK, RemoteOK
  <2>3. CASE Goes(pc) /\ NoFault /\ listed' = listed /\ todo' = todo \ {e}
             /\ work' = [work EXCEPT !.rules = @ \cup {Entry(i, e.rule)}]
    <3>1. Entry(i, e.rule) \in Entries
      BY <2>1, EntryType
    <3>2. work' \in Response
      BY <2>3, <3>1 DEF TypeOK, RunOK, Response
    <3>. QED
      BY <1>11, <2>2, <2>3, <3>2, GoesType, HandlerType
      DEF MakeRule, TypeOK, RunOK, CallNames
  <2>4. CASE Fault /\ RuleFails
    BY <1>11, <2>2, <2>4, <1>9, HandlerType DEF MakeRule
  <2>. QED
    BY <1>11, <2>3, <2>4 DEF MakeRule
<1>12. CASE MadeAll
  BY <1>12, GoesType, HandlerType DEF MadeAll, TypeOK, RemoteOK, RunOK, CallNames
<1>13. CASE RollBack
  <2>1. RemoteOK'
    BY <1>13, GateDeletedType DEF RollBack, TypeOK, RemoteOK
  <2>. QED
    BY <1>13, <2>1, FailsType, HandlerType DEF RollBack
<1>14. CASE WriteGate
  <2>1. RemoteOK'
    BY <1>14, ConfigsAssumption DEF WriteGate, TypeOK, RemoteOK, GateValue
  <2>2. CASE Goes("look again") /\ NoFault
             /\ work' = [work EXCEPT !.val = cfg.val] /\ UNCHANGED <<todo, listed>>
    <3>1. work' \in Response
      BY <2>2, ConfigsAssumption DEF TypeOK, RunOK, Response, GateValue
    <3>. QED
      BY <1>14, <2>1, <2>2, <3>1, GoesType, HandlerType
      DEF WriteGate, TypeOK, RunOK, CallNames
  <2>3. CASE Fault /\ Fails
    BY <1>14, <2>1, <2>3, FailsType, HandlerType DEF WriteGate
  <2>. QED
    BY <1>14, <2>2, <2>3 DEF WriteGate
<1>15. CASE List
  BY <1>15, GoesType, HandlerType DEF List, Live, TypeOK, RemoteOK, RunOK, CallNames
<1>16. CASE Synced
  BY <1>16, GoesType, HandlerType DEF Synced, TypeOK, RemoteOK, RunOK, CallNames
<1>17. ASSUME NEW i \in listed, DeleteOther(i)
       PROVE  TypeOK'
  <2>1. i \in RuleIds
    BY DEF TypeOK, RunOK
  <2>2. RemoteOK'
    BY <1>17, <2>1, RulesType DEF DeleteOther, TypeOK, RemoteOK
  <2>3. CASE Goes(pc) /\ NoFault /\ listed' = listed \ {i} /\ UNCHANGED <<work, todo>>
    BY <1>17, <2>2, <2>3, GoesType, HandlerType
    DEF DeleteOther, TypeOK, RunOK, CallNames
  <2>4. CASE Fault /\ Fails
    BY <1>17, <2>2, <2>4, FailsType, HandlerType DEF DeleteOther
  <2>. QED
    BY <1>17, <2>3, <2>4 DEF DeleteOther
<1>18. CASE DeletedAll
  BY <1>18, GoesType, HandlerType DEF DeletedAll, TypeOK, RemoteOK, RunOK, CallNames
<1>19. CASE DeleteGate
  <2>1. RemoteOK'
    BY <1>19, GateDeletedType DEF DeleteGate, TypeOK, RemoteOK
  <2>2. CASE Deleted /\ st' = NoState /\ NoFault /\ UNCHANGED lostAt
    <3>1. RunOK' /\ outcome' \in {"none", "error", "applied", "no changes", "destroyed"}
      <4>1. CASE Finish("idle", "destroyed")
        BY <4>1, FinishType
      <4>2. CASE /\ Start("create", "validate", Nothing,
                          {Entry(None, r) : r \in cfg.rules})
                 /\ UNCHANGED outcome
        BY <4>2, StartType, EmptyTypes, UnplannedType DEF CallNames, TypeOK
      <4>. QED
        BY <2>2, <4>1, <4>2 DEF Deleted
    <3>. QED
      BY <1>19, <2>1, <2>2, <3>1, EmptyTypes, HandlerType DEF DeleteGate, TypeOK
  <2>3. CASE Fault /\ Fails
    BY <1>19, <2>1, <2>3, FailsType, HandlerType DEF DeleteGate
  <2>. QED
    BY <1>19, <2>2, <2>3 DEF DeleteGate
<1>20. CASE Refused
  BY <1>20, FailsType, HandlerType DEF Refused, TypeOK, RemoteOK
<1>. QED
  BY <1>1, <1>2, <1>3, <1>4, <1>5, <1>6, <1>7, <1>8, <1>10, <1>11, <1>12, <1>13,
     <1>14, <1>15, <1>16, <1>17, <1>18, <1>19, <1>20 DEF Handle

LEMMA TypeNext ==
    ASSUME TypeOK, [Next]_vars
    PROVE  TypeOK'
<1>. USE DEF remoteVars, bounds
<1>1. CASE Handle
  BY <1>1, HandleType
<1>2. CASE Refresh
  <2>1. [gate |-> st.gate, val |-> st.val, rules |-> st.rules] \in Response
    BY DEF TypeOK, StateEntry, Response
  <2>2. RunOK'
    <3>. DEFINE w == [gate |-> st.gate, val |-> st.val, rules |-> st.rules]
    <3>1. Start("read", "get", w, {})
      BY <1>2 DEF Refresh
    <3>2. "get" \in CallNames \ {"none"} /\ {} \in SUBSET Entries
      BY DEF CallNames
    <3>. HIDE DEF w
    <3>. QED
      BY <2>1, <3>1, <3>2, StartType DEF w
  <2>. QED
    BY <1>2, <2>2 DEF Refresh, TypeOK, RemoteOK, BoundsOK
<1>3. ASSUME NEW op \in {"delete", "replace"}, StartDelete(op)
      PROVE  RunOK'
  <2>1. [gate |-> st.gate, val |-> st.val, rules |-> {}] \in Response
    BY DEF TypeOK, StateEntry, Response
  <2>2. "list" \in CallNames \ {"none"} /\ {} \in SUBSET Entries
    BY DEF CallNames
  <2>3. Start(op, "list", [gate |-> st.gate, val |-> st.val, rules |-> {}], {})
    BY <1>3 DEF StartDelete
  <2>. QED
    BY <2>1, <2>2, <2>3, StartType
<1>4. CASE PlanAndApply
  <2>1. RunOK' /\ outcome' \in {"none", "no changes"}
    <3>1. CASE /\ Start("create", "validate", Nothing,
                        {Entry(None, r) : r \in cfg.rules})
               /\ outcome' = "none"
      BY <3>1, StartType, EmptyTypes, UnplannedType DEF CallNames
    <3>2. CASE StartDelete("replace") /\ outcome' = "none"
      BY <3>2, <1>3
    <3>3. CASE StartUpdate /\ outcome' = "none"
      <4>1. [gate |-> st.gate, val |-> cfg.val, rules |-> {}] \in Response
        BY ConfigsAssumption DEF TypeOK, StateEntry, Response, GateValue
      <4>. QED
        BY <3>3, <4>1, StartType, PlannedType DEF StartUpdate, CallNames
    <3>4. CASE Finish("idle", "no changes")
      BY <3>4, FinishType DEF Finish
    <3>. QED
      BY <1>4, <3>1, <3>2, <3>3, <3>4 DEF PlanAndApply
  <2>2. disturbed' \in BOOLEAN
    BY <1>4 DEF PlanAndApply, TypeOK
  <2>. QED
    BY <1>4, <2>1, <2>2 DEF PlanAndApply, TypeOK, RemoteOK, BoundsOK
<1>5. CASE Destroy
  BY <1>5, <1>3 DEF Destroy, TypeOK, RemoteOK, BoundsOK
<1>6. CASE Import
  <2>1. [Nothing EXCEPT !.gate = gate.id] \in Response
    BY EmptyTypes DEF TypeOK, RemoteOK, Response
  <2>2. RunOK'
    <3>1. Start("import", "get", [Nothing EXCEPT !.gate = gate.id], {})
      BY <1>6 DEF Import
    <3>2. "get" \in CallNames \ {"none"} /\ {} \in SUBSET Entries
      BY DEF CallNames
    <3>. QED
      BY <2>1, <3>1, <3>2, StartType
  <2>. QED
    BY <1>6, <2>2 DEF Import, TypeOK, RemoteOK, BoundsOK
<1>7. CASE Ui
  <2>1. Edit /\ RunOK'
    BY <1>7 DEF Ui, UiEditGate, UiDeleteGate, UiDeleteRule, UiAddRule, UiEditRule,
                Edit, TypeOK, RunOK
  <2>2. RemoteOK'
    <3>1. ASSUME NEW v \in Values, UiEditGate(v)
          PROVE  RemoteOK'
      BY <3>1 DEF UiEditGate, TypeOK, RemoteOK, GateValue
    <3>2. CASE UiDeleteGate
      BY <3>2, GateDeletedType DEF UiDeleteGate
    <3>3. ASSUME NEW i \in RuleIds, UiDeleteRule(i)
          PROVE  RemoteOK'
      BY <3>3, RulesType DEF UiDeleteRule, TypeOK, RemoteOK
    <3>4. ASSUME NEW i \in RuleIds, NEW r \in UiRules, UiAddRule(i, r)
          PROVE  RemoteOK'
      BY <3>4, RulesType, RulesAssumption DEF UiAddRule, TypeOK, RemoteOK
    <3>5. ASSUME NEW i \in RuleIds, NEW r \in UiRules, UiEditRule(i, r)
          PROVE  RemoteOK'
      <4>1. r \in Rules /\ rules[i] \in Rules
        BY <3>5, RulesAssumption DEF UiEditRule, Live, TypeOK, RemoteOK
      <4>2. Written(i, r) \in Rules
        BY <4>1 DEF Written, Rules
      <4>. QED
        BY <3>5, <4>2, RulesType DEF UiEditRule, TypeOK, RemoteOK
    <3>. QED
      BY <1>7, <3>1, <3>2, <3>3, <3>4, <3>5 DEF Ui
  <2>3. BoundsOK'
    <3>1. edits \in 0..MaxEdits /\ edits < MaxEdits /\ edits' = edits + 1
      BY <2>1 DEF Edit, TypeOK, BoundsOK
    <3>2. edits' \in 0..MaxEdits
      BY <3>1, BoundsAssumption
    <3>. QED
      BY <2>1, <3>2 DEF Edit, TypeOK, BoundsOK
  <2>. QED
    BY <2>1, <2>2, <2>3 DEF Edit, TypeOK
<1>8. ASSUME NEW c \in Configs, EditConfig(c)
      PROVE  TypeOK'
  BY <1>8 DEF EditConfig, TypeOK, RemoteOK, RunOK, BoundsOK
<1>9. CASE UNCHANGED vars
  BY <1>9 DEF vars, TypeOK, RemoteOK, RunOK, BoundsOK
<1>. QED
  BY <1>1, <1>2, <1>4, <1>5, <1>6, <1>7, <1>8, <1>9 DEF Next, Terraform

LEMMA TypeInit == Init => TypeOK
<1>. SUFFICES ASSUME Init
     PROVE  TypeOK
  OBVIOUS
<1>1. RemoteOK
  BY EmptyTypes DEF Init, RemoteOK
<1>2. RunOK
  BY EmptyTypes DEF Init, RunOK, CallNames
<1>3. BoundsOK
  BY BoundsAssumption DEF Init, BoundsOK
<1>. QED
  BY <1>1, <1>2, <1>3, EmptyTypes DEF Init, TypeOK, CallNames

\* The gate model keeps its types: every variable keeps to its set, and a
\* handler runs exactly when a call of its is due.
THEOREM TypeCorrect == Spec => []TypeOK
<1>1. Init => TypeOK
  BY TypeInit
<1>2. TypeOK /\ [Next]_vars => TypeOK'
  BY TypeNext
<1>. QED
  BY <1>1, <1>2, PTL DEF Spec

-----------------------------------------------------------------------------
(* Each call belongs to an operation *)

LEMMA CallsNext ==
    ASSUME TypeOK, CallsFit, [Next]_vars
    PROVE  CallsFit'
<1>. USE DEF CallsFit, Finish, Goes, Fails, Start
<1>1. ASSUME Succeeds(work') \/ \E w : Succeeds(w)
      PROVE  CallsFit'
  BY <1>1 DEF Succeeds
<1>2. CASE Handle
  <2>1. CASE Unreachable
    BY <2>1 DEF Unreachable
  <2>2. CASE GetGate
    BY <2>2 DEF GetGate
  <2>3. CASE GateGone
    BY <2>3 DEF GateGone
  <2>4. CASE LookAgain
    BY <2>4 DEF LookAgain
  <2>5. CASE Reconcile
    BY <2>5, <1>1 DEF Reconcile
  <2>6. CASE Validate
    BY <2>6 DEF Validate
  <2>7. ASSUME NEW g \in GateIds, MakeGate(g)
        PROVE  CallsFit'
    BY <2>7 DEF MakeGate
  <2>8. ASSUME NEW e \in todo, UpdateRule(e)
        PROVE  CallsFit'
    BY <2>8 DEF UpdateRule
  <2>9. ASSUME NEW e \in todo, NoRule(e)
        PROVE  CallsFit'
    BY <2>9 DEF NoRule, RuleFails
  <2>10. ASSUME NEW e \in todo, NEW i \in RuleIds, MakeRule(e, i)
         PROVE  CallsFit'
    BY <2>10 DEF MakeRule, RuleFails
  <2>11. CASE MadeAll
    BY <2>11 DEF MadeAll
  <2>12. CASE RollBack
    BY <2>12 DEF RollBack
  <2>13. CASE WriteGate
    BY <2>13 DEF WriteGate
  <2>14. CASE List
    BY <2>14 DEF List
  <2>15. CASE Synced
    BY <2>15 DEF Synced
  <2>16. ASSUME NEW i \in listed, DeleteOther(i)
         PROVE  CallsFit'
    BY <2>16 DEF DeleteOther
  <2>17. CASE DeletedAll
    BY <2>17 DEF DeletedAll
  <2>18. CASE DeleteGate
    BY <2>18 DEF DeleteGate, Deleted
  <2>19. CASE Refused
    BY <2>19 DEF Refused
  <2>. QED
    BY <1>2, <2>1, <2>2, <2>3, <2>4, <2>5, <2>6, <2>7, <2>8, <2>9, <2>10, <2>11,
       <2>12, <2>13, <2>14, <2>15, <2>16, <2>17, <2>18, <2>19 DEF Handle
<1>3. CASE Refresh
  BY <1>3 DEF Refresh
<1>4. CASE PlanAndApply
  BY <1>4 DEF PlanAndApply, StartDelete, StartUpdate
<1>5. CASE Destroy
  BY <1>5 DEF Destroy, StartDelete
<1>6. CASE Import
  BY <1>6 DEF Import
<1>7. CASE Ui
  BY <1>7 DEF Ui, UiEditGate, UiDeleteGate, UiDeleteRule, UiAddRule, UiEditRule, Edit
<1>8. ASSUME NEW c \in Configs, EditConfig(c)
      PROVE  CallsFit'
  BY <1>8 DEF EditConfig
<1>9. CASE UNCHANGED vars
  BY <1>9 DEF vars
<1>. QED
  BY <1>2, <1>3, <1>4, <1>5, <1>6, <1>7, <1>8, <1>9 DEF Next, Terraform

-----------------------------------------------------------------------------
(* One entry for a rule *)

EntriesInv == OneEntryPerRule /\ PlanFits

\* A handler that ends, or has not begun to plan, has one entry for each rule of
\* the state.
LEMMA RestEntries ==
    ASSUME todo' = {}, work'.rules = {},
           \A e, f \in st'.rules : e.id = f.id => e = f,
           \A e \in st'.rules : e.id # None
    PROVE  EntriesInv'
BY DEF EntriesInv, OneEntryPerRule, PlanFits

LEMMA FailsEntries ==
    ASSUME EntriesInv, Fails
    PROVE  EntriesInv'
BY RestEntries DEF Fails, Finish, Nothing, EntriesInv, OneEntryPerRule

LEMMA SucceedsEntries ==
    ASSUME NEW w, \A e, f \in w.rules : e.id = f.id => e = f,
           \A e \in w.rules : e.id # None, Succeeds(w)
    PROVE  EntriesInv'
<1>1. todo' = {} /\ work'.rules = {}
  BY DEF Succeeds, Finish, Nothing
<1>2. st'.rules = w.rules
  BY DEF Succeeds, InState
<1>. QED
  BY <1>1, <1>2, RestEntries

\* A step that leaves the entries alone.
LEMMA SameEntries ==
    ASSUME EntriesInv, st'.rules = st.rules, work'.rules = work.rules, todo' = todo,
           cfg' = cfg, pc = pc' \/ (pc # "validate" /\ pc' # "validate")
    PROVE  EntriesInv'
BY DEF EntriesInv, OneEntryPerRule, PlanFits, IdsOf

\* One entry of the plan is dealt with.
LEMMA OneDealtWith ==
    ASSUME EntriesInv, TypeOK, NEW e \in todo, NEW i \in RuleIds, NEW r,
           pc # "validate", pc' # "validate", st' = st, cfg' = cfg,
           i \notin IdsOf(work.rules),
           i = e.id \/ i \notin IdsOf(st.rules),
           work' = [work EXCEPT !.rules = @ \cup {Entry(i, r)}],
           todo' = todo \ {e}
    PROVE  EntriesInv'
<1>1. work'.rules = work.rules \cup {Entry(i, r)}
  BY DEF TypeOK, RunOK, Response
<1>2. Entry(i, r).id = i /\ i # None
  BY IdsAssumption DEF Entry
<1>3. ASSUME NEW f \in todo', f.id # None
      PROVE  f.id \notin IdsOf(work'.rules)
  <2>1. f.id \notin IdsOf(work.rules)
    BY <1>3 DEF EntriesInv, OneEntryPerRule
  <2>2. f.id # i
    <3>1. CASE i = e.id
      BY <1>3, <3>1 DEF EntriesInv, OneEntryPerRule
    <3>2. CASE i \notin IdsOf(st.rules)
      BY <1>3, <3>2 DEF EntriesInv, PlanFits, IdsOf
    <3>. QED
      BY <3>1, <3>2
  <2>. QED
    BY <1>1, <1>2, <2>1, <2>2 DEF IdsOf
<1>4. \A f, g \in work'.rules : f.id = g.id => f = g
  BY <1>1, <1>2 DEF EntriesInv, OneEntryPerRule, IdsOf
<1>5. \A f \in work'.rules : f.id # None
  BY <1>1, <1>2 DEF EntriesInv, OneEntryPerRule
<1>6. OneEntryPerRule'
  BY <1>3, <1>4, <1>5 DEF EntriesInv, OneEntryPerRule
<1>7. PlanFits'
  BY DEF EntriesInv, PlanFits
<1>. QED
  BY <1>6, <1>7 DEF EntriesInv

LEMMA HandleEntries ==
    ASSUME TypeOK, CallsFit, EntriesInv, Handle
    PROVE  EntriesInv'
<1>. USE DEF remoteVars, Same, Goes
<1>1. CASE Unreachable
  BY <1>1, FailsEntries DEF Unreachable
<1>2. CASE GetGate
  <2>1. work'.rules = work.rules
    BY <1>2 DEF GetGate, TypeOK, RunOK, Response
  <2>. QED
    BY <1>2, <2>1, SameEntries DEF GetGate
<1>3. CASE GateGone
  BY <1>3, RestEntries DEF GateGone, Finish, Nothing, NoState
<1>4. CASE LookAgain
  <2>1. work'.rules = work.rules
    BY <1>4 DEF LookAgain, TypeOK, RunOK, Response
  <2>. QED
    BY <1>4, <2>1, SameEntries DEF LookAgain
<1>5. CASE Reconcile
  <2>. DEFINE w == [work EXCEPT !.rules = Reconciled(work.rules)]
  <2>1. w.rules = Reconciled(work.rules) /\ Succeeds(w)
    BY <1>5 DEF Reconcile, TypeOK, RunOK, Response
  <2>2. /\ \A e, f \in Reconciled(work.rules) : e.id = f.id => e = f
        /\ \A e \in Reconciled(work.rules) : e.id # None
    BY IdsAssumption DEF Reconciled, Entry, Live
  <2>. HIDE DEF w
  <2>. QED
    BY <2>1, <2>2, SucceedsEntries
<1>6. CASE Validate
  <2>1. CASE Valid /\ UNCHANGED <<work, todo, listed>> /\ UNCHANGED st
             /\ pc' # "validate"
    <3>1. ASSUME NEW e \in todo, e.id # None, NEW f \in todo, e.id = f.id
          PROVE  e = f
      <4>1. PICK a \in st.rules : a.id = e.id /\ a.rule.name = e.rule.name
        BY <3>1 DEF EntriesInv, PlanFits
      <4>2. PICK b \in st.rules : b.id = f.id /\ b.rule.name = f.rule.name
        BY <3>1 DEF EntriesInv, PlanFits
      <4>3. a = b
        BY <3>1, <4>1, <4>2 DEF EntriesInv, OneEntryPerRule
      <4>4. e.rule = f.rule
        BY <2>1, <4>1, <4>2, <4>3 DEF Valid, EntriesInv, PlanFits
      <4>. QED
        BY <1>6, <4>4 DEF Validate, EntriesInv, PlanFits
    <3>2. work.rules = {}
      BY <1>6 DEF Validate, EntriesInv, PlanFits
    <3>3. OneEntryPerRule'
      BY <2>1, <3>1, <3>2 DEF EntriesInv, OneEntryPerRule, IdsOf
    <3>4. PlanFits'
      BY <1>6, <2>1 DEF Validate, EntriesInv, PlanFits
    <3>. QED
      BY <3>3, <3>4 DEF EntriesInv
  <2>2. CASE Fails
    BY <2>2, FailsEntries
  <2>. QED
    BY <1>6, <2>1, <2>2 DEF Validate
<1>7. ASSUME NEW g \in GateIds, MakeGate(g)
      PROVE  EntriesInv'
  <2>1. CASE Goes("make rules") /\ UNCHANGED <<todo, listed>>
             /\ work' = [work EXCEPT !.gate = g, !.val = cfg.val]
    <3>1. work'.rules = work.rules
      BY <2>1 DEF TypeOK, RunOK, Response
    <3>. QED
      BY <1>7, <2>1, <3>1, SameEntries DEF MakeGate
  <2>. QED
    BY <1>7, <2>1, FailsEntries DEF MakeGate
<1>8. ASSUME NEW e \in todo, UpdateRule(e)
      PROVE  EntriesInv'
  <2>1. CASE /\ Goes("sync") /\ todo' = todo \ {e}
             /\ work' = [work EXCEPT !.rules = @ \cup {Entry(e.id, rules'[e.id])}]
    <3>1. e.id \in RuleIds /\ e.id \notin IdsOf(work.rules) /\ pc = "sync"
      BY <1>8, IdsAssumption
      DEF UpdateRule, Live, EntriesInv, OneEntryPerRule
    <3>. QED
      BY <1>8, <2>1, <3>1, OneDealtWith DEF UpdateRule
  <2>. QED
    BY <1>8, <2>1, FailsEntries DEF UpdateRule
<1>9. ASSUME RuleFails, pc \in {"make rules", "sync"}, cfg' = cfg
      PROVE  EntriesInv'
  BY <1>9, FailsEntries, SameEntries DEF RuleFails
<1>10. ASSUME NEW e \in todo, NoRule(e)
       PROVE  EntriesInv'
  BY <1>10, <1>9 DEF NoRule
<1>11. ASSUME NEW e \in todo, NEW i \in RuleIds, MakeRule(e, i)
       PROVE  EntriesInv'
  <2>1. CASE /\ Goes(pc) /\ todo' = todo \ {e}
             /\ work' = [work EXCEPT !.rules = @ \cup {Entry(i, e.rule)}]
    <3>1. i \notin IdsOf(work.rules) /\ i \notin IdsOf(st.rules)
      BY <1>11 DEF MakeRule, New
    <3>. QED
      BY <1>11, <2>1, <3>1, OneDealtWith DEF MakeRule
  <2>. QED
    BY <1>11, <2>1, <1>9 DEF MakeRule
<1>12. CASE MadeAll
  BY <1>12, SameEntries DEF MadeAll
<1>13. CASE RollBack
  BY <1>13, FailsEntries DEF RollBack
<1>14. CASE WriteGate
  <2>1. CASE Goes("look again") /\ UNCHANGED <<todo, listed>>
             /\ work' = [work EXCEPT !.val = cfg.val]
    <3>1. work'.rules = work.rules
      BY <2>1 DEF TypeOK, RunOK, Response
    <3>. QED
      BY <1>14, <2>1, <3>1, SameEntries DEF WriteGate
  <2>. QED
    BY <1>14, <2>1, FailsEntries DEF WriteGate
<1>15. CASE List
  BY <1>15, SameEntries DEF List
<1>16. CASE Synced
  BY <1>16, SameEntries DEF Synced
<1>17. ASSUME NEW i \in listed, DeleteOther(i)
       PROVE  EntriesInv'
  BY <1>17, SameEntries, FailsEntries DEF DeleteOther
<1>18. CASE DeletedAll
  BY <1>18, SameEntries DEF DeletedAll
<1>19. CASE DeleteGate
  <2>1. CASE Deleted /\ st' = NoState
    <3>1. CASE Finish("idle", "destroyed")
      BY <2>1, <3>1, RestEntries DEF Finish, Nothing, NoState
    <3>2. CASE Start("create", "validate", Nothing, {Entry(None, r) : r \in cfg.rules})
      <4>1. /\ todo' = {Entry(None, r) : r \in cfg.rules} /\ work'.rules = {}
            /\ st'.rules = {} /\ pc' = "validate" /\ cfg' = cfg
        BY <1>19, <2>1, <3>2 DEF DeleteGate, Start, Nothing, NoState
      <4>. QED
        BY <4>1 DEF Entry, EntriesInv, OneEntryPerRule, PlanFits
    <3>. QED
      BY <2>1, <3>1, <3>2 DEF Deleted
  <2>. QED
    BY <1>19, <2>1, FailsEntries DEF DeleteGate
<1>20. CASE Refused
  BY <1>20, FailsEntries DEF Refused
<1>. QED
  BY <1>1, <1>2, <1>3, <1>4, <1>5, <1>6, <1>7, <1>8, <1>10, <1>11, <1>12, <1>13,
     <1>14, <1>15, <1>16, <1>17, <1>18, <1>19, <1>20 DEF Handle

LEMMA EntriesNext ==
    ASSUME TypeOK, CallsFit, EntriesInv, [Next]_vars
    PROVE  EntriesInv'
<1>. USE DEF remoteVars, bounds
<1>1. CASE Handle
  BY <1>1, HandleEntries
<1>2. CASE Refresh
  <2>1. /\ work'.rules = st.rules /\ todo' = {} /\ st' = st
        /\ pc' # "validate" /\ cfg' = cfg
    BY <1>2 DEF Refresh, Start
  <2>. QED
    BY <2>1 DEF EntriesInv, OneEntryPerRule, PlanFits
<1>3. ASSUME NEW op, StartDelete(op), UNCHANGED st
      PROVE  EntriesInv'
  BY <1>3, RestEntries DEF StartDelete, Start, EntriesInv, OneEntryPerRule
<1>4. CASE PlanAndApply
  <2>1. CASE Start("create", "validate", Nothing, {Entry(None, r) : r \in cfg.rules})
    <3>1. /\ todo' = {Entry(None, r) : r \in cfg.rules} /\ work'.rules = {}
          /\ st' = st /\ pc' = "validate" /\ cfg' = cfg
      BY <1>4, <2>1 DEF PlanAndApply, Start, Nothing
    <3>. QED
      BY <3>1 DEF Entry, EntriesInv, OneEntryPerRule, PlanFits
  <2>2. CASE StartUpdate
    <3>1. PICK prior \in [cfg.rules -> RuleIds \cup {None}] :
            /\ \A r \in cfg.rules : prior[r] \in PriorIds(r)
            /\ todo' = {Entry(prior[r], r) : r \in cfg.rules}
            /\ work'.rules = {} /\ pc' = "validate"
      BY <2>2 DEF StartUpdate, Start
    <3>2. st' = st /\ cfg' = cfg
      BY <1>4 DEF PlanAndApply
    <3>3. ASSUME NEW r \in cfg.rules, prior[r] # None
          PROVE  \E f \in st.rules : f.id = prior[r] /\ f.rule.name = r.name
      BY <3>1, <3>3 DEF PriorIds
    <3>4. \A e \in todo' : e.id # None =>
             \E f \in st.rules : f.id = e.id /\ f.rule.name = e.rule.name
      BY <3>1, <3>3 DEF Entry
    <3>5. /\ \A e \in todo' : e.rule \in cfg.rules
          /\ \A e, f \in todo' : e.rule = f.rule => e = f
      BY <3>1 DEF Entry
    <3>6. PlanFits'
      BY <3>1, <3>2, <3>4, <3>5 DEF PlanFits
    <3>7. OneEntryPerRule'
      BY <3>1, <3>2 DEF EntriesInv, OneEntryPerRule
    <3>. QED
      BY <3>6, <3>7 DEF EntriesInv
  <2>3. CASE Finish("idle", "no changes")
    BY <1>4, <2>3, RestEntries
    DEF PlanAndApply, Finish, Nothing, EntriesInv, OneEntryPerRule
  <2>. QED
    BY <1>4, <2>1, <2>2, <2>3, <1>3 DEF PlanAndApply
<1>5. CASE Destroy
  BY <1>5, <1>3 DEF Destroy
<1>6. CASE Import
  <2>1. work'.rules = {} /\ todo' = {} /\ st' = st
    BY <1>6 DEF Import, Start, Nothing
  <2>. QED
    BY <2>1, RestEntries DEF EntriesInv, OneEntryPerRule
<1>7. CASE Ui
  <2>1. Edit
    BY <1>7 DEF Ui, UiEditGate, UiDeleteGate, UiDeleteRule, UiAddRule, UiEditRule
  <2>. QED
    BY <2>1, SameEntries DEF Edit
<1>8. ASSUME NEW c \in Configs, EditConfig(c)
      PROVE  EntriesInv'
  <2>1. pc = "none"
    BY <1>8 DEF EditConfig, TypeOK, RunOK
  <2>2. todo' = {} /\ work'.rules = {} /\ st' = st
    BY <1>8, <2>1 DEF EditConfig, CallsFit, Nothing
  <2>. QED
    BY <2>2, RestEntries DEF EntriesInv, OneEntryPerRule
<1>9. CASE UNCHANGED vars
  BY <1>9, SameEntries DEF vars
<1>. QED
  BY <1>1, <1>2, <1>4, <1>5, <1>6, <1>7, <1>8, <1>9 DEF Next, Terraform

LEMMA EntriesInit == Init => CallsFit /\ EntriesInv
BY DEF Init, CallsFit, EntriesInv, OneEntryPerRule, PlanFits, NoState, Nothing

LEMMA CallsSafe == Spec => [](TypeOK /\ CallsFit)
<1>1. Init => TypeOK /\ CallsFit
  BY TypeInit, EntriesInit
<1>2. TypeOK /\ CallsFit /\ [Next]_vars => (TypeOK /\ CallsFit)'
  BY TypeNext, CallsNext
<1>. QED
  BY <1>1, <1>2, PTL DEF Spec

\* Datadog's rules and the entries of the state and of a plan correspond one to
\* one: names tell the entries apart while a plan is made, ids afterwards.
THEOREM EntriesSafe == Spec => []OneEntryPerRule
<1>1. Init => EntriesInv
  BY EntriesInit
<1>2. TypeOK /\ CallsFit /\ EntriesInv /\ [Next]_vars => EntriesInv'
  BY EntriesNext
<1>3. EntriesInv => OneEntryPerRule
  BY DEF EntriesInv
<1>. QED
  BY <1>1, <1>2, <1>3, CallsSafe, PTL DEF Spec
-----------------------------------------------------------------------------
(* Configured rules are kept *)

\* A step of the update that keeps what is planned and what is written, and lists
\* nothing that was not listed once it syncs.
LEMMA PlannedStays ==
    ASSUME WantedIsPlanned,
           doing' = "update" =>
              /\ doing = "update" /\ UNCHANGED <<st, cfg>>
              /\ IdsOf(todo) \cup IdsOf(work.rules)
                    \subseteq IdsOf(todo') \cup IdsOf(work'.rules)
              /\ pc \in {"sync", "delete others", "reconcile"} =>
                    /\ pc' \in {"sync", "delete others", "reconcile"}
                    /\ listed' \subseteq listed
    PROVE  WantedIsPlanned'
BY DEF WantedIsPlanned, Wanted, IdsOf

\* An entry of the plan is written with an id, its own if it has one that exists.
LEMMA PlannedWritten ==
    ASSUME WantedIsPlanned, TypeOK, CallsFit, UNCHANGED <<doing, pc, st, cfg, listed>>,
           pc \in {"make rules", "sync"},
           NEW e \in todo, NEW i, NEW r, i = e.id \/ e.id \notin listed,
           work' = [work EXCEPT !.rules = @ \cup {Entry(i, r)}],
           todo' = todo \ {e}
    PROVE  WantedIsPlanned'
<1>1. work'.rules = work.rules \cup {Entry(i, r)} /\ Entry(i, r).id = i
  BY DEF TypeOK, RunOK, Response, Entry
<1>2. SUFFICES ASSUME doing = "update", NEW f \in st.rules, Wanted(f)
      PROVE  \/ f.id \in IdsOf(todo') \cup IdsOf(work'.rules)
             \/ f.id \notin listed
  BY DEF WantedIsPlanned, Wanted, CallsFit
<1>3. CASE f.id = e.id
  BY <1>1, <1>3 DEF IdsOf
<1>4. CASE f.id # e.id
  BY <1>1, <1>2, <1>4 DEF IdsOf, WantedIsPlanned
<1>. QED
  BY <1>3, <1>4

LEMMA HandlePlanned ==
    ASSUME TypeOK, CallsFit, WantedIsPlanned, Handle
    PROVE  WantedIsPlanned'
<1>. USE DEF remoteVars, Same, Goes
<1>1. ASSUME doing' # "update"
      PROVE  WantedIsPlanned'
  BY <1>1, PlannedStays
<1>2. ASSUME Fails \/ \E w : Succeeds(w)
      PROVE  WantedIsPlanned'
  BY <1>1, <1>2 DEF Fails, Succeeds, Finish
<1>3. CASE Unreachable
  BY <1>2, <1>3 DEF Unreachable
<1>4. CASE GetGate
  BY <1>4, <1>1 DEF GetGate, CallsFit
<1>5. CASE GateGone
  BY <1>5, <1>1 DEF GateGone, Finish
<1>6. CASE LookAgain
  <2>1. work'.rules = work.rules
    BY <1>6 DEF LookAgain, TypeOK, RunOK, Response
  <2>. QED
    BY <1>6, <2>1, PlannedStays DEF LookAgain
<1>7. CASE Reconcile
  BY <1>7, <1>2 DEF Reconcile
<1>8. CASE Validate
  BY <1>8, <1>2, PlannedStays DEF Validate
<1>9. ASSUME NEW g \in GateIds, MakeGate(g)
      PROVE  WantedIsPlanned'
  BY <1>9, <1>1, <1>2 DEF MakeGate, CallsFit
<1>10. ASSUME NEW e \in todo, UpdateRule(e)
       PROVE  WantedIsPlanned'
  BY <1>10, <1>2, PlannedWritten DEF UpdateRule
<1>11. ASSUME RuleFails, pc \in {"make rules", "sync"}
       PROVE  WantedIsPlanned'
  BY <1>11, <1>1, <1>2 DEF RuleFails, CallsFit
<1>12. ASSUME NEW e \in todo, NoRule(e)
       PROVE  WantedIsPlanned'
  BY <1>12, <1>11 DEF NoRule
<1>13. ASSUME NEW e \in todo, NEW i \in RuleIds, MakeRule(e, i)
       PROVE  WantedIsPlanned'
  BY <1>13, <1>11, PlannedWritten DEF MakeRule, Unmade
<1>14. CASE MadeAll \/ RollBack
  BY <1>14, <1>1, <1>2 DEF MadeAll, RollBack, CallsFit
<1>15. CASE WriteGate
  <2>1. CASE Goes("look again") /\ UNCHANGED <<todo, listed>>
             /\ work' = [work EXCEPT !.val = cfg.val]
    <3>1. work'.rules = work.rules
      BY <2>1 DEF TypeOK, RunOK, Response
    <3>. QED
      BY <1>15, <2>1, <3>1, PlannedStays DEF WriteGate
  <2>. QED
    BY <1>15, <2>1, <1>2 DEF WriteGate
<1>16. CASE List
  BY <1>16, PlannedStays DEF List
<1>17. CASE Synced
  BY <1>17, PlannedStays DEF Synced
<1>18. ASSUME NEW i \in listed, DeleteOther(i)
       PROVE  WantedIsPlanned'
  BY <1>18, <1>2, PlannedStays DEF DeleteOther
<1>19. CASE DeletedAll
  BY <1>19, PlannedStays DEF DeletedAll
<1>20. CASE DeleteGate
  BY <1>20, <1>1, <1>2 DEF DeleteGate, Deleted, Finish, Start
<1>21. CASE Refused
  BY <1>21, <1>2 DEF Refused
<1>. QED
  BY <1>3, <1>4, <1>5, <1>6, <1>7, <1>8, <1>9, <1>10, <1>12, <1>13, <1>14, <1>15,
     <1>16, <1>17, <1>18, <1>19, <1>20, <1>21 DEF Handle

LEMMA PlannedNext ==
    ASSUME TypeOK, CallsFit, WantedIsPlanned, [Next]_vars
    PROVE  WantedIsPlanned'
<1>. USE DEF remoteVars, bounds
<1>1. CASE Handle
  BY <1>1, HandlePlanned
<1>2. CASE StartUpdate /\ UNCHANGED <<st, cfg>>
  <2>1. PICK prior \in [cfg.rules -> RuleIds \cup {None}] :
           /\ \A r \in cfg.rules : prior[r] \in PriorIds(r)
           /\ todo' = {Entry(prior[r], r) : r \in cfg.rules}
    BY <1>2 DEF StartUpdate, Start
  <2>2. ASSUME NEW e \in st.rules, Wanted(e)
        PROVE  e.id \in IdsOf(todo')
    <3>1. PICK r \in cfg.rules : r.name = e.rule.name /\ r.type = e.rule.type
      BY <2>2 DEF Wanted
    <3>2. {f \in st.rules : f.rule.name = r.name} = {e}
      BY <2>2, <3>1 DEF Wanted
    <3>3. PriorIds(r) = {e.id}
      BY <3>1, <3>2 DEF PriorIds
    <3>4. prior[r] = e.id
      BY <2>1, <3>3
    <3>5. Entry(e.id, r) \in todo' /\ Entry(e.id, r).id = e.id
      BY <2>1, <3>4 DEF Entry
    <3>. QED
      BY <3>5 DEF IdsOf
  <2>3. ASSUME NEW e \in st.rules, Wanted(e)'
        PROVE  e.id \in IdsOf(todo')
    <3>1. Wanted(e)
      BY <1>2, <2>3 DEF Wanted
    <3>. QED
      BY <2>2, <3>1
  <2>. QED
    BY <1>2, <2>3 DEF WantedIsPlanned, IdsOf
<1>3. ASSUME doing' # "update"
      PROVE  WantedIsPlanned'
  BY <1>3, PlannedStays
<1>4. CASE PlanAndApply
  BY <1>4, <1>2, <1>3 DEF PlanAndApply, Start, StartDelete, Finish
<1>5. CASE Refresh \/ Destroy \/ Import
  BY <1>5, <1>3 DEF Refresh, Destroy, Import, StartDelete, Start
<1>6. CASE Ui
  <2>1. Edit
    BY <1>6 DEF Ui, UiEditGate, UiDeleteGate, UiDeleteRule, UiAddRule, UiEditRule
  <2>. QED
    BY <2>1, PlannedStays DEF Edit
<1>7. ASSUME NEW c \in Configs, EditConfig(c)
      PROVE  WantedIsPlanned'
  BY <1>7, <1>3 DEF EditConfig
<1>8. CASE UNCHANGED vars
  BY <1>8, PlannedStays DEF vars
<1>. QED
  BY <1>1, <1>4, <1>5, <1>6, <1>7, <1>8 DEF Next, Terraform

LEMMA EditsType ==
    ASSUME TypeOK
    PROVE  edits \in Nat
<1>1. edits \in 0..MaxEdits
  BY DEF TypeOK, BoundsOK
<1>. QED
  BY <1>1, BoundsAssumption

\* The only step that deletes a rule during an update spares the planned ones.
LEMMA KeptNext ==
    ASSUME TypeOK, CallsFit, WantedIsPlanned, [Next]_vars,
           NEW e \in st.rules, doing = "update", edits' = edits,
           e.id \in Live, Wanted(e)
    PROVE  rules'[e.id] # None
<1>. USE DEF remoteVars, bounds
<1>1. e.id \in RuleIds /\ rules[e.id] \in Rules /\ rules[e.id] # None
  BY DEF Live, TypeOK, RemoteOK
<1>2. ASSUME UNCHANGED rules
      PROVE  rules'[e.id] # None
  BY <1>1, <1>2
<1>3. ASSUME NEW i \in RuleIds, NEW r \in Rules, rules' = [rules EXCEPT ![i] = r]
      PROVE  rules'[e.id] # None
  BY <1>1, <1>3, RulesAssumption DEF TypeOK, RemoteOK
<1>4. CASE Handle
  <2>1. ASSUME NEW f \in todo, UpdateRule(f)
        PROVE  rules'[e.id] # None
    <3>1. f.id \in RuleIds /\ f.rule \in Rules
      BY <2>1, RulesAssumption DEF UpdateRule, Live, TypeOK, RunOK, Entries
    <3>2. Written(f.id, f.rule) \in Rules
      BY <2>1, <3>1 DEF UpdateRule, Live, Written, Rules, TypeOK, RemoteOK
    <3>. QED
      BY <2>1, <3>1, <3>2, <1>3 DEF UpdateRule
  <2>2. ASSUME NEW f \in todo, NEW i \in RuleIds, MakeRule(f, i)
        PROVE  rules'[e.id] # None
    <3>1. f.rule \in Rules
      BY DEF TypeOK, RunOK, Entries
    <3>. QED
      BY <2>2, <3>1, <1>3 DEF MakeRule
  <2>3. ASSUME NEW i \in listed, DeleteOther(i)
        PROVE  rules'[e.id] # None
    <3>1. i # e.id
      BY <2>3 DEF DeleteOther, Others, CallsFit, WantedIsPlanned, IdsOf
    <3>. QED
      BY <2>3, <3>1, <1>1 DEF DeleteOther, TypeOK, RemoteOK
  <2>4. ~RollBack /\ ~DeleteGate
    BY DEF RollBack, DeleteGate, CallsFit
  <2>5. ASSUME NEW g \in GateIds, MakeGate(g)
        PROVE  rules'[e.id] # None
    BY <2>5, <1>2 DEF MakeGate
  <2>6. ASSUME NEW f \in todo, NoRule(f)
        PROVE  rules'[e.id] # None
    BY <2>6, <1>2 DEF NoRule
  <2>7. CASE \/ Unreachable \/ GetGate \/ GateGone \/ LookAgain \/ Reconcile
             \/ Validate \/ MadeAll \/ WriteGate \/ List \/ Synced \/ DeletedAll
             \/ Refused
    BY <2>7, <1>2
    DEF Unreachable, GetGate, GateGone, LookAgain, Reconcile, Validate, MadeAll,
        WriteGate, List, Synced, DeletedAll, Refused
  <2>. QED
    BY <1>4, <2>1, <2>2, <2>3, <2>4, <2>5, <2>6, <2>7 DEF Handle
<1>5. ~Ui
  <2>1. edits \in Nat
    BY EditsType
  <2>. QED
    BY <2>1
    DEF Ui, UiEditGate, UiDeleteGate, UiDeleteRule, UiAddRule, UiEditRule, Edit
<1>6. CASE Refresh \/ PlanAndApply \/ Destroy \/ Import
  BY <1>6, <1>2 DEF Refresh, PlanAndApply, Destroy, Import
<1>7. ASSUME NEW c \in Configs, EditConfig(c)
      PROVE  rules'[e.id] # None
  BY <1>7, <1>2 DEF EditConfig
<1>8. CASE UNCHANGED vars
  BY <1>8, <1>2 DEF vars
<1>. QED
  BY <1>4, <1>5, <1>6, <1>7, <1>8 DEF Next, Terraform

\* An update never deletes a rule that the state knows under a name and type the
\* configuration still has: it was planned with its id, and what is deleted is
\* what was listed and not written.
THEOREM KeepsSafe == Spec => KeepsConfiguredRules
<1>1. Init => WantedIsPlanned
  BY DEF Init, WantedIsPlanned
<1>2. TypeOK /\ CallsFit /\ WantedIsPlanned /\ [Next]_vars => WantedIsPlanned'
  BY PlannedNext
<1>. DEFINE Kept == \A e \in st.rules :
                       doing = "update" /\ edits' = edits /\ e.id \in Live /\ Wanted(e)
                       => rules'[e.id] # None
<1>3. TypeOK /\ CallsFit /\ WantedIsPlanned /\ [Next]_vars => [Kept]_vars
  BY KeptNext
<1>. QED
  BY <1>1, <1>2, <1>3, CallsSafe, PTL DEF Spec, KeepsConfiguredRules

-----------------------------------------------------------------------------
(* A gate that was made is known *)

LEMMA FailsMine ==
    ASSUME MineIsKnown, CallsFit, TypeOK, Fails,
           pc # "make rules" /\ pc # "look again",
           mine' => mine /\ gate'.id = gate.id
    PROVE  MineIsKnown'
<1>1. doing' = "idle" /\ pc' = "none" /\ work' = Nothing /\ st' = st
  BY DEF Fails, Finish
<1>2. ASSUME mine'
      PROVE  \/ gate'.id # None /\ gate'.id = st'.gate
             \/ lostAt' \in {"roll back", "reconcile"}
  <2>1. mine /\ gate'.id = gate.id
    BY <1>2
  <2>2. CASE gate.id # None /\ gate.id = st.gate
    BY <1>1, <2>1, <2>2
  <2>3. CASE doing = "create" /\ gate.id = work.gate /\ gate.id # None
    <3>1. pc \in {"roll back", "reconcile"}
      BY <2>3 DEF MineIsKnown, CallsFit, TypeOK, RunOK, CallNames
    <3>. QED
      BY <2>3, <3>1 DEF Fails
  <2>4. CASE lostAt \in {"roll back", "reconcile"} /\ doing = "create" /\ work.gate # None
    <3>1. pc \in {"roll back", "reconcile"}
      BY <2>4 DEF MineIsKnown, CallsFit, TypeOK, RunOK, CallNames
    <3>. QED
      BY <2>4, <3>1 DEF Fails
  <2>5. CASE lostAt \in {"roll back", "reconcile"} /\ ~(doing = "create" /\ work.gate # None)
    BY <2>5 DEF Fails
  <2>. QED
    BY <2>1, <2>2, <2>3, <2>4, <2>5 DEF MineIsKnown
<1>. QED
  BY <1>1, <1>2 DEF MineIsKnown, Nothing

LEMMA DeletedMine ==
    ASSUME GateDeleted \/ UNCHANGED <<gate, mine>>
    PROVE  mine' => mine /\ gate'.id = gate.id
<1>1. CASE GateDeleted
  BY <1>1 DEF GateDeleted
<1>2. CASE UNCHANGED <<gate, mine>>
  BY <1>2
<1>. QED
  BY <1>1, <1>2

LEMMA SameMine ==
    ASSUME MineIsKnown, UNCHANGED <<doing, st, lostAt>>, work'.gate = work.gate,
           mine' => mine /\ gate'.id = gate.id,
           pc' \in {"validate", "make gate"} <=> pc \in {"validate", "make gate"}
    PROVE  MineIsKnown'
BY DEF MineIsKnown

LEMMA SucceedsMine ==
    ASSUME MineIsKnown, TypeOK, CallsFit, NEW w, w.gate = work.gate, Succeeds(w),
           pc = "reconcile", UNCHANGED <<gate, mine>>
    PROVE  MineIsKnown'
<1>1. /\ doing' \in {"idle", "refreshed"} /\ pc' = "none" /\ lostAt' = lostAt
      /\ st'.gate = work.gate
  BY DEF Succeeds, Finish, InState
<1>2. work.gate # None
  BY DEF MineIsKnown, CallsFit
<1>3. st'.status # "none"
  <2>1. st.gate = None => doing \in {"create", "import"}
    BY DEF MineIsKnown, CallsFit
  <2>2. doing \notin {"create", "import"} => st.status # "none"
    BY <2>1 DEF MineIsKnown
  <2>. QED
    BY <2>2 DEF Succeeds, InState
<1>4. mine' => \/ gate'.id # None /\ gate'.id = st'.gate
               \/ lostAt' \in {"roll back", "reconcile"}
  BY <1>1, <1>2 DEF MineIsKnown, CallsFit
<1>. QED
  BY <1>1, <1>2, <1>3, <1>4 DEF MineIsKnown
LEMMA HandleMine ==
    ASSUME TypeOK, CallsFit, MineIsKnown, Handle
    PROVE  MineIsKnown'
<1>. USE DEF remoteVars, Same, Goes
<1>1. CASE Unreachable
  BY <1>1, FailsMine DEF Unreachable
<1>2. CASE GetGate
  <2>1. work'.gate = work.gate
    BY <1>2 DEF GetGate, TypeOK, RunOK, Response
  <2>. QED
    BY <1>2, <2>1, SameMine DEF GetGate
<1>3. CASE GateGone
  <2>1. /\ doing' \in {"idle", "refreshed"} /\ pc' = "none" /\ st' = NoState
        /\ UNCHANGED <<gate, mine, lostAt>>
    BY <1>3 DEF GateGone, Finish
  <2>2. mine => lostAt \in {"roll back", "reconcile"}
    BY <1>3 DEF GateGone, GateFound, MineIsKnown
  <2>. QED
    BY <2>1, <2>2 DEF MineIsKnown, NoState
<1>4. CASE LookAgain
  <2>1. work'.gate = work.gate
    BY <1>4 DEF LookAgain, TypeOK, RunOK, Response
  <2>. QED
    BY <1>4, <2>1, SameMine DEF LookAgain
<1>5. CASE Reconcile
  <2>. DEFINE w == [work EXCEPT !.rules = Reconciled(work.rules)]
  <2>1. w.gate = work.gate
    BY DEF TypeOK, RunOK, Response
  <2>. QED
    BY <1>5, <2>1, SucceedsMine DEF Reconcile
<1>6. CASE Validate
  BY <1>6, FailsMine, SameMine DEF Validate, CallsFit, MineIsKnown
<1>7. ASSUME NEW g \in GateIds, MakeGate(g)
      PROVE  MineIsKnown'
  <2>1. CASE Goes("make rules") /\ mine' = TRUE
             /\ work' = [work EXCEPT !.gate = g, !.val = cfg.val]
    <3>1. work'.gate = g /\ g # None /\ gate'.id = g
      BY <1>7, <2>1, IdsAssumption DEF MakeGate, TypeOK, RunOK, Response
    <3>. QED
      BY <1>7, <2>1, <3>1 DEF MakeGate, CallsFit, MineIsKnown
  <2>. QED
    BY <1>7, <2>1, FailsMine DEF MakeGate
<1>8. ASSUME NEW e \in todo, UpdateRule(e)
      PROVE  MineIsKnown'
  <2>1. CASE Goes("sync") /\ work' = [work EXCEPT !.rules = @ \cup {Entry(e.id, rules'[e.id])}]
    <3>1. work'.gate = work.gate
      BY <2>1 DEF TypeOK, RunOK, Response
    <3>. QED
      BY <1>8, <2>1, <3>1, SameMine DEF UpdateRule
  <2>. QED
    BY <1>8, <2>1, FailsMine DEF UpdateRule
<1>9. ASSUME RuleFails, pc \in {"make rules", "sync"}, UNCHANGED <<gate, mine>>
      PROVE  MineIsKnown'
  BY <1>9, FailsMine, SameMine DEF RuleFails
<1>10. ASSUME NEW e \in todo, NoRule(e)
       PROVE  MineIsKnown'
  BY <1>10, <1>9 DEF NoRule
<1>11. ASSUME NEW e \in todo, NEW i \in RuleIds, MakeRule(e, i)
       PROVE  MineIsKnown'
  <2>1. CASE Goes(pc) /\ work' = [work EXCEPT !.rules = @ \cup {Entry(i, e.rule)}]
    <3>1. work'.gate = work.gate
      BY <2>1 DEF TypeOK, RunOK, Response
    <3>. QED
      BY <1>11, <2>1, <3>1, SameMine DEF MakeRule
  <2>. QED
    BY <1>11, <2>1, <1>9 DEF MakeRule
<1>12. CASE MadeAll \/ List \/ Synced \/ DeletedAll
  <2>1. /\ UNCHANGED <<doing, st, lostAt, work, gate, mine>>
        /\ {pc, pc'} \cap {"validate", "make gate"} = {}
    BY <1>12 DEF MadeAll, List, Synced, DeletedAll
  <2>. QED
    BY <2>1, SameMine
<1>13. CASE RollBack
  <2>1. Fails /\ pc = "roll back" /\ (GateDeleted \/ UNCHANGED <<gate, mine>>)
    BY <1>13 DEF RollBack
  <2>. QED
    BY <2>1, FailsMine, DeletedMine
<1>14. CASE WriteGate
  <2>1. gate'.id = gate.id
    BY <1>14 DEF WriteGate, TypeOK, RemoteOK
  <2>2. CASE Goes("look again") /\ work' = [work EXCEPT !.val = cfg.val]
    <3>1. work'.gate = work.gate
      BY <2>2 DEF TypeOK, RunOK, Response
    <3>. QED
      BY <1>14, <2>1, <2>2, <3>1, SameMine DEF WriteGate, CallsFit
  <2>. QED
    BY <1>14, <2>1, <2>2, FailsMine DEF WriteGate
<1>15. ASSUME NEW i \in listed, DeleteOther(i)
       PROVE  MineIsKnown'
  BY <1>15, SameMine, FailsMine DEF DeleteOther
<1>16. CASE DeleteGate
  <2>1. CASE Deleted /\ st' = NoState /\ UNCHANGED lostAt
    <3>1. mine' => lostAt \in {"roll back", "reconcile"}
      BY <1>16 DEF DeleteGate, GateDeleted, GateFound, CallsFit, MineIsKnown
    <3>2. \/ doing' = "idle" /\ pc' = "none"
          \/ doing' = "create" /\ pc' = "validate" /\ work'.gate = None
      BY <2>1 DEF Deleted, Finish, Start, Nothing
    <3>3. st'.status = "none" /\ st'.gate = None
      BY <2>1 DEF NoState
    <3>. QED
      BY <2>1, <3>1, <3>2, <3>3 DEF MineIsKnown
  <2>2. CASE Fails
    <3>1. pc = "delete gate" /\ (GateDeleted \/ UNCHANGED <<gate, mine>>)
      BY <1>16 DEF DeleteGate
    <3>. QED
      BY <2>2, <3>1, FailsMine, DeletedMine
  <2>. QED
    BY <1>16, <2>1, <2>2 DEF DeleteGate
<1>17. CASE Refused
  BY <1>17, FailsMine DEF Refused
<1>. QED
  BY <1>1, <1>2, <1>3, <1>4, <1>5, <1>6, <1>7, <1>8, <1>10, <1>11, <1>12, <1>13,
     <1>14, <1>15, <1>16, <1>17 DEF Handle

LEMMA MineNext ==
    ASSUME TypeOK, CallsFit, MineIsKnown, [Next]_vars
    PROVE  MineIsKnown'
<1>. USE DEF remoteVars, bounds
<1>1. CASE Handle
  BY <1>1, HandleMine
<1>2. CASE Refresh
  BY <1>2 DEF Refresh, Start, MineIsKnown
<1>3. CASE PlanAndApply
  <2>1. UNCHANGED <<gate, mine, st, lostAt>> /\ doing \in {"idle", "refreshed"}
    BY <1>3 DEF PlanAndApply
  <2>2. mine => \/ gate.id # None /\ gate.id = st.gate
                \/ lostAt \in {"roll back", "reconcile"}
    BY <2>1 DEF MineIsKnown
  <2>3. \/ /\ doing' = "create" /\ pc' = "validate" /\ work'.gate = None
           /\ st.status = "none"
        \/ /\ doing' \in {"replace", "update"} /\ work'.gate = st.gate
           /\ st.status # "none"
        \/ doing' = "idle"
    <3>1. CASE /\ st.status = "none"
               /\ Start("create", "validate", Nothing,
                        {Entry(None, r) : r \in cfg.rules})
      BY <3>1 DEF Start, Nothing
    <3>2. CASE st.status = "tainted" /\ StartDelete("replace")
      BY <3>2 DEF StartDelete, Start
    <3>3. CASE st.status = "ok" /\ StartUpdate
      BY <3>3 DEF StartUpdate, Start
    <3>4. CASE Finish("idle", "no changes")
      BY <3>4 DEF Finish
    <3>. QED
      BY <1>3, <3>1, <3>2, <3>3, <3>4 DEF PlanAndApply
  <2>. QED
    BY <2>1, <2>2, <2>3 DEF MineIsKnown
<1>4. CASE Destroy
  BY <1>4 DEF Destroy, StartDelete, Start, MineIsKnown
<1>5. CASE Import
  <2>1. gate.id # None
    BY <1>5 DEF Import
  <2>. QED
    BY <1>5, <2>1 DEF Import, Start, Nothing, MineIsKnown
<1>6. CASE Ui
  <2>1. UNCHANGED <<doing, st, lostAt, work, pc>>
    BY <1>6 DEF Ui, UiEditGate, UiDeleteGate, UiDeleteRule, UiAddRule, UiEditRule, Edit
  <2>2. mine' => mine /\ gate'.id = gate.id
    BY <1>6
    DEF Ui, UiEditGate, UiDeleteGate, UiDeleteRule, UiAddRule, UiEditRule,
        GateDeleted, TypeOK, RemoteOK
  <2>. QED
    BY <2>1, <2>2, SameMine
<1>7. ASSUME NEW c \in Configs, EditConfig(c)
      PROVE  MineIsKnown'
  BY <1>7, SameMine DEF EditConfig
<1>8. CASE UNCHANGED vars
  BY <1>8, SameMine DEF vars
<1>. QED
  BY <1>1, <1>2, <1>3, <1>4, <1>5, <1>6, <1>7, <1>8 DEF Next, Terraform

LEMMA MineSafe == Spec => []MineIsKnown
<1>1. Init => MineIsKnown
  BY DEF Init, MineIsKnown, NoState, Nothing
<1>2. TypeOK /\ CallsFit /\ MineIsKnown /\ [Next]_vars => MineIsKnown'
  BY MineNext
<1>. QED
  BY <1>1, <1>2, CallsSafe, PTL DEF Spec

\* A gate that Terraform made is in the state, unless the rollback or the last
\* list of the create that made it failed.
THEOREM OrphanGateSafe == Spec => []NoOrphanGate
<1>1. MineIsKnown => NoOrphanGate
  BY DEF MineIsKnown, NoOrphanGate, Orphaned, AtRest
<1>. QED
  BY <1>1, MineSafe, PTL

-----------------------------------------------------------------------------
(* A rule has a gate *)

LEMMA GateDeletedRules ==
    ASSUME GateDeleted
    PROVE  RulesHaveGate' /\ Live' = {}
BY DEF GateDeleted, RulesHaveGate, NoGate, Live

LEMMA GateThereRules ==
    ASSUME gate.id # None, gate'.id = gate.id
    PROVE  RulesHaveGate'
BY DEF RulesHaveGate

LEMMA RulesNext ==
    ASSUME TypeOK, CallsFit, MineIsKnown, RulesHaveGate, [Next]_vars
    PROVE  RulesHaveGate'
<1>. USE DEF remoteVars
<1>1. ASSUME UNCHANGED <<gate, rules>>
      PROVE  RulesHaveGate'
  BY <1>1 DEF RulesHaveGate, Live
<1>2. ASSUME NEW i \in Live, gate'.id = gate.id
      PROVE  RulesHaveGate'
  BY <1>2, GateThereRules DEF RulesHaveGate
<1>3. CASE Handle
  <2>1. CASE \/ Unreachable \/ GetGate \/ GateGone \/ LookAgain \/ Reconcile
             \/ Validate \/ MadeAll \/ List \/ Synced \/ DeletedAll \/ Refused
    BY <2>1, <1>1
    DEF Unreachable, GetGate, GateGone, LookAgain, Reconcile, Validate, MadeAll,
        List, Synced, DeletedAll, Refused
  <2>2. ASSUME NEW g \in GateIds, MakeGate(g)
        PROVE  RulesHaveGate'
    BY <2>2, IdsAssumption DEF MakeGate, RulesHaveGate
  <2>3. ASSUME NEW e \in todo, UpdateRule(e)
        PROVE  RulesHaveGate'
    BY <2>3, <1>2 DEF UpdateRule
  <2>4. ASSUME NEW e \in todo, NoRule(e)
        PROVE  RulesHaveGate'
    BY <2>4, <1>1 DEF NoRule
  <2>5. ASSUME NEW e \in todo, NEW i \in RuleIds, MakeRule(e, i)
        PROVE  RulesHaveGate'
    <3>1. gate.id = work.gate /\ gate' = gate /\ pc \in {"make rules", "sync"}
      BY <2>5 DEF MakeRule, GateFound
    <3>2. work.gate # None
      BY <3>1 DEF CallsFit, MineIsKnown
    <3>. QED
      BY <3>1, <3>2, GateThereRules
  <2>6. CASE RollBack
    BY <2>6, <1>1, GateDeletedRules DEF RollBack
  <2>7. CASE WriteGate
    <3>1. gate'.id = gate.id /\ gate.id = work.gate /\ pc = "write gate"
      BY <2>7 DEF WriteGate, GateFound, TypeOK, RemoteOK
    <3>2. work.gate # None
      BY <3>1 DEF CallsFit, MineIsKnown
    <3>. QED
      BY <3>1, <3>2, GateThereRules
  <2>8. ASSUME NEW i \in listed, DeleteOther(i)
        PROVE  RulesHaveGate'
    <3>1. gate' = gate /\ Live' \subseteq Live
      BY <2>8 DEF DeleteOther, Live, TypeOK, RemoteOK
    <3>. QED
      BY <3>1 DEF RulesHaveGate
  <2>9. CASE DeleteGate
    BY <2>9, <1>1, GateDeletedRules DEF DeleteGate
  <2>. QED
    BY <1>3, <2>1, <2>2, <2>3, <2>4, <2>5, <2>6, <2>7, <2>8, <2>9 DEF Handle
<1>4. CASE Refresh \/ PlanAndApply \/ Destroy \/ Import
  BY <1>4, <1>1 DEF Refresh, PlanAndApply, Destroy, Import
<1>5. CASE Ui
  <2>1. CASE UiDeleteGate
    BY <2>1, GateDeletedRules DEF UiDeleteGate
  <2>2. ASSUME NEW v \in Values, UiEditGate(v)
        PROVE  RulesHaveGate'
    <3>1. gate'.id = gate.id /\ gate # NoGate
      BY <2>2 DEF UiEditGate, TypeOK, RemoteOK
    <3>. QED
      BY <3>1, GateThereRules DEF RulesHaveGate
  <2>3. ASSUME NEW i \in RuleIds,
               \/ UiDeleteRule(i)
               \/ \E r \in UiRules : UiAddRule(i, r) \/ UiEditRule(i, r)
        PROVE  RulesHaveGate'
    <3>1. gate' = gate /\ (gate # NoGate \/ i \in Live)
      BY <2>3 DEF UiDeleteRule, UiAddRule, UiEditRule
    <3>2. gate.id # None
      BY <3>1 DEF RulesHaveGate
    <3>. QED
      BY <3>1, <3>2, GateThereRules
  <2>. QED
    BY <1>5, <2>1, <2>2, <2>3 DEF Ui
<1>6. ASSUME NEW c \in Configs, EditConfig(c)
      PROVE  RulesHaveGate'
  BY <1>6, <1>1 DEF EditConfig
<1>7. CASE UNCHANGED vars
  BY <1>7, <1>1 DEF vars
<1>. QED
  BY <1>3, <1>4, <1>5, <1>6, <1>7 DEF Next, Terraform

-----------------------------------------------------------------------------
(* What a run knows of its gate *)

LEMMA RestKnows ==
    ASSUME \/ disturbed' = TRUE
           \/ doing' \in {"idle", "import", "delete", "replace"}
           \/ doing' = "refreshed" /\ st'.gate = None
           \/ doing' # "refreshed" /\ pc' \in {"get", "validate", "make gate", "write gate"}
    PROVE  RunKnowsGate'
BY DEF RunKnowsGate

LEMMA FailsKnows == ASSUME Fails PROVE RunKnowsGate'
BY RestKnows DEF Fails, Finish

LEMMA SucceedsKnows ==
    ASSUME TypeOK, CallsFit, RunKnowsGate, pc = "reconcile", GateFound,
           Succeeds([work EXCEPT !.rules = Reconciled(work.rules)]),
           UNCHANGED <<gate, rules, disturbed>>
    PROVE  RunKnowsGate'
<1>1. CASE doing # "read"
  BY <1>1, RestKnows DEF Succeeds, Finish
<1>2. CASE doing = "read" /\ disturbed
  BY <1>2, RestKnows DEF TypeOK
<1>3. CASE doing = "read" /\ ~disturbed
  <2>1. doing' = "refreshed"
    BY <1>3 DEF Succeeds, Finish
  <2>2. st'.gate = work.gate /\ st'.val = work.val /\ st'.rules = Reconciled(work.rules)
    <3>. DEFINE w == [work EXCEPT !.rules = Reconciled(work.rules)]
    <3>1. w.gate = work.gate /\ w.val = work.val /\ w.rules = Reconciled(work.rules)
      BY DEF TypeOK, RunOK, Response
    <3>2. st' = InState(st.status, w)
      BY <1>3 DEF Succeeds
    <3>. HIDE DEF w
    <3>. QED
      BY <3>1, <3>2 DEF InState
  <2>3. gate = [id |-> gate.id, val |-> gate.val]
    BY DEF TypeOK, RemoteOK
  <2>4. gate.id = work.gate /\ gate.val = work.val
    BY <1>3 DEF RunKnowsGate, GateFound
  <2>5. gate' = [id |-> st'.gate, val |-> st'.val]
    BY <2>2, <2>3, <2>4
  <2>6. \A e \in st'.rules : e.id \in Live' /\ e.rule = rules'[e.id]
    BY <2>2 DEF Reconciled, Entry, Live
  <2>. QED
    BY <2>1, <2>5, <2>6 DEF RunKnowsGate
<1>. QED
  BY <1>1, <1>2, <1>3

\* A step that writes a rule, and keeps its id among those dealt with.
LEMMA WrittenKnows ==
    ASSUME TypeOK, CallsFit, RunKnowsGate, Same, UNCHANGED <<gate, listed>>, Goes(pc),
           pc \in {"make rules", "sync"}, NEW i \in RuleIds, NEW r,
           rules' = [rules EXCEPT ![i] = r],
           NEW e, e.id = i, work' = [work EXCEPT !.rules = @ \cup {e}]
    PROVE  RunKnowsGate'
<1>1. /\ work'.rules = work.rules \cup {e} /\ work'.gate = work.gate
      /\ work'.val = work.val
  BY DEF TypeOK, RunOK, Response
<1>2. IdsOf(work'.rules) = IdsOf(work.rules) \cup {i}
  BY <1>1 DEF IdsOf
<1>3. Live' \subseteq Live \cup {i}
  BY DEF Live, TypeOK, RemoteOK
<1>4. UNCHANGED <<doing, pc, disturbed>> /\ pc # "none" /\ doing # "refreshed"
  BY DEF Goes, Same, TypeOK, RunOK
<1>. QED
  BY <1>1, <1>2, <1>3, <1>4 DEF RunKnowsGate, GateFound

LEMMA HandleKnows ==
    ASSUME TypeOK, CallsFit, MineIsKnown, RulesHaveGate, RunKnowsGate, Handle
    PROVE  RunKnowsGate'
<1>. USE DEF remoteVars, Same, Goes
<1>0. pc # "none" => doing # "refreshed"
  BY DEF TypeOK, RunOK
<1>1. CASE Unreachable \/ Refused
  BY <1>1, FailsKnows DEF Unreachable, Refused
<1>2. CASE GetGate
  <2>1. work'.val = gate.val
    BY <1>2 DEF GetGate, TypeOK, RunOK, Response
  <2>. QED
    BY <1>0, <1>2, <2>1 DEF GetGate, CallsFit, RunKnowsGate
<1>3. CASE GateGone
  BY <1>3, RestKnows DEF GateGone, Finish, NoState
<1>4. CASE LookAgain
  <2>1. /\ work'.gate = work.gate /\ work'.rules = work.rules
        /\ \/ work'.val = work.val
           \/ work'.val = gate.val
    <3>1. CASE work' = [work EXCEPT !.val = gate.val]
      BY <3>1 DEF TypeOK, RunOK, Response
    <3>. QED
      BY <1>4, <3>1 DEF LookAgain
  <2>2. UNCHANGED <<gate, rules, doing, disturbed, listed>>
    BY <1>4 DEF LookAgain
  <2>3. Live' = Live /\ pc = "look again"
    BY <1>4, <2>2 DEF LookAgain, Live
  <2>4. \/ doing = "create" /\ pc' = "reconcile"
        \/ doing = "update" /\ pc' = "list"
    BY <1>4 DEF LookAgain, CallsFit
  <2>. QED
    BY <2>1, <2>2, <2>3, <2>4 DEF RunKnowsGate, GateFound
<1>5. CASE Reconcile
  BY <1>5, SucceedsKnows DEF Reconcile
<1>6. CASE Validate
  BY <1>0, <1>6, FailsKnows, RestKnows DEF Validate
<1>7. ASSUME NEW g \in GateIds, MakeGate(g)
      PROVE  RunKnowsGate'
  <2>1. CASE Goes("make rules") /\ work' = [work EXCEPT !.gate = g, !.val = cfg.val]
    <3>1. work'.gate = g /\ work'.val = cfg.val /\ gate'.id = g /\ gate'.val = cfg.val
      BY <1>7, <2>1 DEF MakeGate, TypeOK, RunOK, Response
    <3>2. Live' = {}
      BY <1>7 DEF MakeGate, NoGate, RulesHaveGate, Live
    <3>3. doing' = "create" /\ pc' = "make rules"
      BY <1>7, <2>1 DEF MakeGate, CallsFit
    <3>. QED
      BY <3>1, <3>2, <3>3 DEF RunKnowsGate
  <2>. QED
    BY <1>7, <2>1, FailsKnows DEF MakeGate
<1>9. ASSUME RuleFails, pc \in {"make rules", "sync"}, UNCHANGED <<gate, disturbed>>
      PROVE  RunKnowsGate'
  <2>1. CASE pc = "make rules"
    BY <1>0, <1>9, <2>1 DEF RuleFails, RunKnowsGate, GateFound
  <2>2. CASE pc # "make rules"
    BY <1>9, <2>2, FailsKnows DEF RuleFails
  <2>. QED
    BY <2>1, <2>2
<1>10. ASSUME NEW e \in todo, UpdateRule(e)
       PROVE  RunKnowsGate'
  <2>1. e.id \in RuleIds /\ Entry(e.id, rules'[e.id]).id = e.id
    BY <1>10 DEF UpdateRule, Live, Entry
  <2>. QED
    BY <1>10, <2>1, WrittenKnows, FailsKnows DEF UpdateRule
<1>11. ASSUME NEW e \in todo, NoRule(e)
       PROVE  RunKnowsGate'
  BY <1>11, <1>9 DEF NoRule
<1>12. ASSUME NEW e \in todo, NEW i \in RuleIds, MakeRule(e, i)
       PROVE  RunKnowsGate'
  <2>1. Entry(i, e.rule).id = i
    BY DEF Entry
  <2>. QED
    BY <1>12, <2>1, <1>9, WrittenKnows DEF MakeRule
<1>13. CASE MadeAll \/ Synced
  BY <1>0, <1>13 DEF MadeAll, Synced, CallsFit, RunKnowsGate, GateFound, Live
<1>14. CASE RollBack
  BY <1>14, FailsKnows DEF RollBack
<1>15. CASE WriteGate
  <2>1. CASE Goes("look again") /\ work' = [work EXCEPT !.val = cfg.val]
    <3>1. work'.val = cfg.val /\ gate'.val = cfg.val
      BY <1>15, <2>1 DEF WriteGate, TypeOK, RunOK, RemoteOK, Response
    <3>2. doing' = "update" /\ pc' = "look again"
      BY <1>15, <2>1 DEF WriteGate, CallsFit
    <3>. QED
      BY <3>1, <3>2 DEF RunKnowsGate
  <2>. QED
    BY <1>15, <2>1, FailsKnows DEF WriteGate
<1>16. CASE List
  <2>1. /\ UNCHANGED <<gate, rules, work, doing, disturbed>> /\ listed' = Live
        /\ pc' \in {"sync", "delete others"} /\ pc = "list"
    BY <1>16 DEF List
  <2>2. Live' = Live
    BY <2>1 DEF Live
  <2>. QED
    BY <1>0, <2>1, <2>2 DEF RunKnowsGate, GateFound, CallsFit
<1>17. ASSUME NEW i \in listed, DeleteOther(i)
       PROVE  RunKnowsGate'
  <2>1. CASE Fails
    BY <2>1, FailsKnows
  <2>2. CASE Goes(pc) /\ listed' = listed \ {i} /\ UNCHANGED work
    <3>1. Live' \subseteq Live \ {i}
      BY <1>17 DEF DeleteOther, Live, TypeOK, RemoteOK
    <3>2. UNCHANGED <<gate, disturbed>> /\ pc = "delete others"
      BY <1>17 DEF DeleteOther
    <3>. QED
      BY <1>0, <2>2, <3>1, <3>2 DEF RunKnowsGate, GateFound, CallsFit
  <2>. QED
    BY <1>17, <2>1, <2>2 DEF DeleteOther
<1>18. CASE DeletedAll
  <2>1. UNCHANGED <<gate, rules, work, doing, disturbed>> /\ pc = "delete others"
    BY <1>18 DEF DeletedAll
  <2>2. listed \subseteq IdsOf(work.rules)
    BY <1>18 DEF DeletedAll, Others
  <2>3. Live' = Live
    BY <2>1 DEF Live
  <2>4. \/ doing = "update" /\ pc' = "reconcile"
        \/ doing \in {"delete", "replace"}
    BY <1>18 DEF DeletedAll, CallsFit
  <2>. QED
    BY <2>1, <2>2, <2>3, <2>4 DEF RunKnowsGate, GateFound
<1>19. CASE DeleteGate
  <2>1. \/ doing' = "idle"
        \/ doing' = "create" /\ pc' = "validate"
    BY <1>19 DEF DeleteGate, Deleted, Fails, Finish, Start
  <2>. QED
    BY <2>1, RestKnows
<1>. QED
  BY <1>1, <1>2, <1>3, <1>4, <1>5, <1>6, <1>7, <1>10, <1>11, <1>12, <1>13, <1>14,
     <1>15, <1>16, <1>17, <1>18, <1>19 DEF Handle

LEMMA KnowsNext ==
    ASSUME TypeOK, CallsFit, MineIsKnown, RulesHaveGate, RunKnowsGate, [Next]_vars
    PROVE  RunKnowsGate'
<1>. USE DEF remoteVars, bounds
<1>1. CASE Handle
  BY <1>1, HandleKnows
<1>2. CASE Refresh
  BY <1>2, RestKnows DEF Refresh, Start
<1>3. CASE PlanAndApply
  BY <1>3, RestKnows DEF PlanAndApply, StartUpdate, StartDelete, Start, Finish
<1>4. CASE Destroy \/ Import
  BY <1>4, RestKnows DEF Destroy, Import, StartDelete, Start
<1>5. CASE Ui
  BY <1>5, RestKnows
  DEF Ui, UiEditGate, UiDeleteGate, UiDeleteRule, UiAddRule, UiEditRule, Edit
<1>6. ASSUME NEW c \in Configs, EditConfig(c)
      PROVE  RunKnowsGate'
  BY <1>6, RestKnows DEF EditConfig
<1>7. CASE UNCHANGED vars
  BY <1>7 DEF vars, RunKnowsGate, GateFound, Live
<1>. QED
  BY <1>1, <1>2, <1>3, <1>4, <1>5, <1>6, <1>7 DEF Next, Terraform

-----------------------------------------------------------------------------
(* What a run that ends well says *)

LEMMA ReconcileExact ==
    ASSUME TypeOK, CallsFit, RunKnowsGate, Reconcile,
           doing' = "idle", outcome' = "applied", ~disturbed'
    PROVE  AppliedMeansExact'
<1>. DEFINE w == [work EXCEPT !.rules = Reconciled(work.rules)]
<1>1. /\ UNCHANGED <<gate, rules, cfg>> /\ ~disturbed /\ pc = "reconcile"
      /\ gate.id = work.gate
  BY DEF Reconcile, remoteVars, Same, GateFound
<1>2. /\ w.gate = work.gate /\ w.val = work.val
      /\ w.rules = Reconciled(work.rules)
  BY DEF TypeOK, RunOK, Response
<1>3. /\ doing \in {"create", "update"} /\ Conforms(w.val, w.rules)
      /\ st'.gate = work.gate /\ st'.rules = Reconciled(work.rules)
  BY <1>2 DEF Reconcile, Succeeds, Finish, InState
<1>4. Live \subseteq IdsOf(work.rules)
  BY <1>1, <1>3 DEF RunKnowsGate
<1>5. gate.val = cfg.val
  BY <1>1, <1>2, <1>3 DEF RunKnowsGate, GateFound, Conforms
<1>6. gate = [id |-> gate.id, val |-> gate.val]
  BY DEF TypeOK, RemoteOK
<1>7. Reconciled(work.rules) = {Entry(i, rules[i]) : i \in Live}
  BY <1>4 DEF Reconciled
<1>8. IdsOf(Reconciled(work.rules)) = Live
  <2>1. ASSUME NEW i \in Live
        PROVE  i \in IdsOf(Reconciled(work.rules))
    BY <1>7, Entry(i, rules[i]).id = i DEF IdsOf, Entry
  <2>2. ASSUME NEW i \in IdsOf(Reconciled(work.rules))
        PROVE  i \in Live
    BY <1>7, <2>2 DEF IdsOf, Entry
  <2>. QED
    BY <2>1, <2>2
<1>9. {e.rule : e \in Reconciled(work.rules)} = {rules[i] : i \in Live}
  <2>1. \A i \in Live : Entry(i, rules[i]).rule = rules[i]
    BY DEF Entry
  <2>. QED
    BY <1>7, <2>1
<1>10. {rules[i] : i \in Live} = cfg.rules
  BY <1>2, <1>3, <1>9 DEF Conforms
<1>11. Live' = Live
  BY <1>1 DEF Live
<1>. QED
  BY <1>1, <1>3, <1>5, <1>6, <1>8, <1>10, <1>11 DEF AppliedMeansExact

LEMMA NoChangesPresent ==
    ASSUME TypeOK, MineIsKnown, RunKnowsGate, PlanAndApply,
           doing' = "idle", outcome' = "no changes", ~disturbed'
    PROVE  NoChangesMeansPresent'
<1>1. UNCHANGED <<gate, rules, cfg, st>>
  BY DEF PlanAndApply, remoteVars
<1>2. st.status = "ok" /\ Conforms(st.val, st.rules)
  BY DEF PlanAndApply, Start, StartUpdate, StartDelete
<1>3. st.gate # None
  BY <1>2 DEF MineIsKnown
<1>4. doing = "refreshed" /\ ~disturbed
  <2>1. doing = "refreshed" /\ disturbed' = disturbed
    BY <1>3 DEF PlanAndApply
  <2>. QED
    BY <2>1
<1>5. /\ gate = [id |-> st.gate, val |-> st.val]
      /\ \A e \in st.rules : e.rule = rules[e.id]
  BY <1>3, <1>4 DEF RunKnowsGate
<1>6. {rules[i] : i \in IdsOf(st.rules)} = {e.rule : e \in st.rules}
  BY <1>5 DEF IdsOf
<1>. QED
  BY <1>1, <1>2, <1>5, <1>6 DEF NoChangesMeansPresent, Conforms

EndsWell == AppliedMeansExact /\ NoChangesMeansPresent

\* Between the ends of two runs there is nothing to say.
LEMMA OtherwiseWell ==
    ASSUME \/ disturbed' = TRUE
           \/ doing' # "idle"
           \/ outcome' \notin {"applied", "no changes"}
    PROVE  EndsWell'
BY DEF EndsWell, AppliedMeansExact, NoChangesMeansPresent

LEMMA FailsWell == ASSUME Fails PROVE EndsWell'
BY OtherwiseWell DEF Fails, Finish

LEMMA HandleWell ==
    ASSUME TypeOK, CallsFit, RunKnowsGate, Handle
    PROVE  EndsWell'
<1>. USE DEF Goes
<1>0. pc # "none" => doing # "idle"
  BY DEF TypeOK, RunOK
<1>1. CASE \/ Unreachable \/ RollBack \/ Refused
  BY <1>1, FailsWell DEF Unreachable, RollBack, Refused
<1>2. CASE \/ GetGate \/ LookAgain \/ MadeAll \/ List \/ Synced \/ DeletedAll
  BY <1>0, <1>2, OtherwiseWell DEF GetGate, LookAgain, MadeAll, List, Synced, DeletedAll
<1>3. CASE GateGone
  BY <1>3, OtherwiseWell DEF GateGone, Finish
<1>4. CASE Reconcile
  <2>1. outcome' # "no changes"
    BY <1>4 DEF Reconcile, Succeeds, Finish
  <2>. QED
    BY <1>4, <2>1, ReconcileExact DEF EndsWell, AppliedMeansExact, NoChangesMeansPresent
<1>5. CASE Validate \/ WriteGate
  BY <1>0, <1>5, FailsWell, OtherwiseWell DEF Validate, WriteGate
<1>6. ASSUME NEW g \in GateIds, MakeGate(g)
      PROVE  EndsWell'
  BY <1>0, <1>6, FailsWell, OtherwiseWell DEF MakeGate
<1>7. ASSUME NEW e \in todo, UpdateRule(e) \/ NoRule(e) \/ \E i \in RuleIds : MakeRule(e, i)
      PROVE  EndsWell'
  BY <1>0, <1>7, FailsWell, OtherwiseWell DEF UpdateRule, NoRule, MakeRule, RuleFails
<1>8. ASSUME NEW i \in listed, DeleteOther(i)
      PROVE  EndsWell'
  BY <1>0, <1>8, FailsWell, OtherwiseWell DEF DeleteOther
<1>9. CASE DeleteGate
  BY <1>9, FailsWell, OtherwiseWell DEF DeleteGate, Deleted, Finish, Start
<1>. QED
  BY <1>1, <1>2, <1>3, <1>4, <1>5, <1>6, <1>7, <1>8, <1>9 DEF Handle

LEMMA WellNext ==
    ASSUME TypeOK, CallsFit, MineIsKnown, RunKnowsGate, EndsWell, [Next]_vars
    PROVE  EndsWell'
<1>1. CASE Handle
  BY <1>1, HandleWell
<1>2. CASE Refresh \/ Destroy \/ Import
  BY <1>2, OtherwiseWell DEF Refresh, Destroy, Import, StartDelete, Start
<1>3. CASE PlanAndApply
  <2>1. doing' = "idle" => outcome' = "no changes"
    BY <1>3 DEF PlanAndApply, Start, StartUpdate, StartDelete, Finish
  <2>. QED
    BY <1>3, <2>1, NoChangesPresent DEF EndsWell, AppliedMeansExact, NoChangesMeansPresent
<1>4. CASE Ui
  BY <1>4, OtherwiseWell
  DEF Ui, UiEditGate, UiDeleteGate, UiDeleteRule, UiAddRule, UiEditRule, Edit
<1>5. ASSUME NEW c \in Configs, EditConfig(c)
      PROVE  EndsWell'
  BY <1>5, OtherwiseWell DEF EditConfig
<1>6. CASE UNCHANGED vars
  BY <1>6 DEF vars, EndsWell, AppliedMeansExact, NoChangesMeansPresent, Live
<1>. QED
  BY <1>1, <1>2, <1>3, <1>4, <1>5, <1>6 DEF Next, Terraform

LEMMA EndsSafe == Spec => []EndsWell
<1>1. Init => RulesHaveGate /\ RunKnowsGate /\ EndsWell
  BY DEF Init, RulesHaveGate, NoGate, Live, RunKnowsGate, EndsWell,
         AppliedMeansExact, NoChangesMeansPresent
<1>2. TypeOK /\ CallsFit /\ MineIsKnown /\ RulesHaveGate /\ RunKnowsGate /\ EndsWell
        /\ [Next]_vars
      => RulesHaveGate' /\ RunKnowsGate' /\ EndsWell'
  BY RulesNext, KnowsNext, WellNext
<1>. QED
  BY <1>1, <1>2, CallsSafe, MineSafe, PTL DEF Spec

\* A successful run, with nobody in the UI meanwhile, leaves just the configured
\* rules: every rule that is there was made or written by the run, which knows
\* its id, or was in its list, and goes.
THEOREM AppliedSafe == Spec => []AppliedMeansExact
<1>1. EndsWell => AppliedMeansExact
  BY DEF EndsWell
<1>. QED
  BY <1>1, EndsSafe, PTL

\* A plan without changes means that the gate has every configured rule: what
\* the plan compared was read from the gate that the state names.
THEOREM NoChangesSafe == Spec => []NoChangesMeansPresent
<1>1. EndsWell => NoChangesMeansPresent
  BY DEF EndsWell
<1>. QED
  BY <1>1, EndsSafe, PTL
=============================================================================
