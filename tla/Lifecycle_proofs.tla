-------------------------- MODULE Lifecycle_proofs --------------------------
(***************************************************************************)
(* Proofs about Lifecycle, for every set of handlers, ids and values and   *)
(* every bound.                                                            *)
(***************************************************************************)
EXTENDS Lifecycle, TLAPS

-----------------------------------------------------------------------------
(* Type correctness *)

\* The program of a handler is a sequence.
LEMMA ProgramIsSeq ==
    ASSUME NEW h \in Handlers, NEW op
    PROVE  /\ Len(ProgramOf(h, op)) \in Nat
           /\ DOMAIN ProgramOf(h, op) = 1..Len(ProgramOf(h, op))
<1>1. h \in HandlerSets
  BY HandlersAssumption
<1>2. /\ h.create \in Seq(Steps) /\ h.read \in Seq(Steps)
      /\ h.update \in Seq(Steps) \/ h.update = <<"replace">>
      /\ h.delete \in Seq(Steps)
  BY <1>1 DEF HandlerSets
<1>3. ProgramOf(h, op) \in Seq(Steps) \/ ProgramOf(h, op) = <<"replace">>
  <2>1. <<>> \in Seq(Steps)
    OBVIOUS
  <2>. QED
    BY <1>2, <2>1 DEF ProgramOf
<1>4. ASSUME NEW s \in Seq(Steps)
      PROVE  Len(s) \in Nat /\ DOMAIN s = 1..Len(s)
  OBVIOUS
<1>5. Len(<<"replace">>) \in Nat /\ DOMAIN <<"replace">> = 1..Len(<<"replace">>)
  OBVIOUS
<1>. QED
  BY <1>3, <1>4, <1>5

\* A response keeps its type, whatever is prepared for a handler.
LEMMA PreparedType ==
    ASSUME TypeOK, NEW op
    PROVE  Prepared(op) \in Response
BY ValuesAssumption DEF TypeOK, RunOK, Prepared, Nothing, Response, StateEntry, Value

LEMMA InStateType ==
    ASSUME NEW w \in Response, NEW status \in {"ok", "tainted"}
    PROVE  InState(status, w) \in StateEntry
           /\ (InState(status, w).id = None <=> InState(status, w).status = "none")
BY DEF InState, NoState, Response, StateEntry, Value

\* A step of a handler that goes on, fails or ends leaves a well-typed run.
LEMMA GoesType ==
    ASSUME TypeOK, handlers' = handlers, at \in DOMAIN Program,
           NEW w \in Response, NEW r \in Response, Goes(w, r)
    PROVE  RunOK'
<1>1. Program' = Program
  BY DEF Goes, Program
<1>2. at + 1 \in Nat /\ at + 1 <= Len(Program) + 1
  <2>1. Len(Program) \in Nat /\ DOMAIN Program = 1..Len(Program)
    BY ProgramIsSeq DEF TypeOK, Program
  <2>. QED
    BY <2>1
<1>. QED
  BY <1>1, <1>2 DEF TypeOK, RunOK, Goes

LEMMA StartType ==
    ASSUME handlers' \in Handlers, NEW op, doing' = op, at' = 1 \/ at' = 0
    PROVE  at' \in Nat /\ at' <= Len(Program') + 1
BY ProgramIsSeq DEF Program

LEMMA FinishType ==
    ASSUME handlers' \in Handlers,
           NEW where \in {"idle", "refreshed"},
           NEW how \in {"none", "error", "applied", "no changes", "destroyed"},
           Finish(where, how),
           st' \in StateEntry, st'.id = None <=> st'.status = "none"
    PROVE  RunOK'
<1>1. at' \in Nat /\ at' <= Len(Program') + 1
  BY StartType DEF Finish
<1>2. Nothing \in Response
  BY DEF Nothing, Response, Value
<1>. QED
  BY <1>1, <1>2 DEF RunOK, Finish

LEMMA FailsType ==
    ASSUME TypeOK, handlers' = handlers, NEW w \in Response, FailsWith(w)
    PROVE  RunOK'
<1>1. st' \in StateEntry /\ (st'.id = None <=> st'.status = "none")
  <2>1. CASE doing = "create"
    BY <2>1, InStateType DEF FailsWith
  <2>2. CASE doing = "update"
    <3>1. st.status \in {"ok", "tainted"}
      BY <2>2 DEF TypeOK, RunOK, StateEntry
    <3>. QED
      BY <2>2, <3>1, InStateType DEF FailsWith
  <2>3. CASE doing \notin {"create", "update"}
    BY <2>3 DEF FailsWith, TypeOK, RunOK
  <2>. QED
    BY <2>1, <2>2, <2>3
<1>. QED
  BY <1>1, FinishType DEF FailsWith, TypeOK

LEMMA SucceedsType ==
    ASSUME TypeOK, handlers' = handlers, cfg' = cfg,
           doing \notin {"idle", "refreshed"}, NEW w \in Response, Succeeds(w)
    PROVE  RunOK'
<1>1. CASE doing = "read"
  <2>1. st' = InState(st.status, w) /\ Finish("refreshed", "none")
    BY <1>1 DEF Succeeds
  <2>2. st.status \in {"ok", "tainted"}
    BY <1>1 DEF TypeOK, RunOK, StateEntry
  <2>. QED
    BY <2>1, <2>2, InStateType, FinishType DEF TypeOK
<1>2. CASE doing = "import"
  <2>1. st' = InState("ok", w) /\ Finish("idle", "none")
    BY <1>2 DEF Succeeds
  <2>. QED
    BY <2>1, InStateType, FinishType DEF TypeOK
<1>3. CASE doing \in {"create", "update"}
  <2>1. doing = "update" => st.status \in {"ok", "tainted"}
    BY DEF TypeOK, RunOK, StateEntry
  <2>2. PICK status \in {"ok", "tainted"}, how \in {"error", "applied"} :
          st' = InState(status, w) /\ Finish("idle", how)
    BY <1>3, <2>1 DEF Succeeds
  <2>. QED
    BY <2>2, InStateType, FinishType DEF TypeOK
<1>4. CASE doing = "delete"
  <2>1. st' = NoState /\ Finish("idle", "destroyed")
    BY <1>4 DEF Succeeds
  <2>2. NoState \in StateEntry /\ NoState.id = None /\ NoState.status = "none"
    BY DEF NoState, StateEntry, Value
  <2>. QED
    BY <2>1, <2>2, FinishType DEF TypeOK
<1>5. CASE doing = "replace"
  <2>1. st' = NoState /\ Start("create") /\ outcome' = outcome
    BY <1>5 DEF Succeeds
  <2>2. NoState \in StateEntry /\ NoState.id = None /\ NoState.status = "none"
    BY DEF NoState, StateEntry, Value
  <2>3. at' \in Nat /\ at' <= Len(Program') + 1
    BY <2>1, StartType DEF Start, TypeOK
  <2>4. Nothing \in Response /\ Prepared("create") \in Response
    BY PreparedType DEF Nothing, Response, Value
  <2>. QED
    BY <2>1, <2>2, <2>3, <2>4 DEF RunOK, Start, TypeOK
<1>. QED
  BY <1>1, <1>2, <1>3, <1>4, <1>5 DEF TypeOK, RunOK

\* Handlers end in one of these ways, with a response of the right type.
LEMMA CallFailsType ==
    ASSUME TypeOK, handlers' = handlers, CallFails
    PROVE  RunOK' /\ faults' \in 0..MaxFaults
<1>1. RunOK'
  BY FailsType DEF CallFails, Fails, TypeOK, RunOK
<1>. QED
  BY <1>1, BoundsAssumption DEF CallFails, Fault, TypeOK, BoundsOK

LEMMA AnswersType ==
    ASSUME TypeOK, handlers' = handlers, at \in DOMAIN Program,
           NEW i \in Ids, objects' \in [Ids -> Value], Answers(i)
    PROVE  RunOK' /\ faults' \in 0..MaxFaults
<1>1. [id |-> i, val |-> objects'[i]] \in Response
  BY DEF Response
<1>2. work \in Response
  BY DEF TypeOK, RunOK
<1>3. Goes(work, [id |-> i, val |-> objects'[i]]) /\ faults' = faults
  BY DEF Answers
<1>. QED
  BY <1>1, <1>2, <1>3, GoesType DEF TypeOK, BoundsOK

LEMMA TypeStep == TypeOK /\ [Next]_vars => TypeOK'
<1>. SUFFICES ASSUME TypeOK, [Next]_vars PROVE TypeOK'
  OBVIOUS
<1>. USE DEF At
<1>a. \A i \in Ids, v \in Value : [objects EXCEPT ![i] = v] \in [Ids -> Value]
  BY DEF TypeOK, RemoteOK
<1>b. cfg \in Value /\ None \in Value /\ UiValue \in Value
  BY DEF TypeOK, Value
<1>c. Nothing \in Response /\ work \in Response /\ answer \in Response
  BY DEF Nothing, Response, Value, TypeOK, RunOK
<1>1. ASSUME NEW i \in Ids, Post(i) PROVE TypeOK'
  <2>1. objects' \in [Ids -> Value]
    BY <1>1, <1>a, <1>b DEF Post, Creates
  <2>2. RunOK' /\ faults' \in 0..MaxFaults
    BY <1>1, <2>1, AnswersType, CallFailsType DEF Post, Same
  <2>3. lags' \in 0..MaxLags
    BY <1>1, BoundsAssumption DEF Post, TypeOK, BoundsOK
  <2>4. made' \subseteq Ids /\ hidden' \subseteq Ids
    BY <1>1 DEF Post, TypeOK, RemoteOK
  <2>. QED
    BY <1>1, <2>1, <2>2, <2>3, <2>4 DEF Post, Same, TypeOK, RemoteOK, BoundsOK
<1>2. ASSUME NEW i \in Ids, Upsert(i) PROVE TypeOK'
  <2>1. objects' \in [Ids -> Value]
    BY <1>2, <1>a, <1>b DEF Upsert, Upserts
  <2>2. RunOK' /\ faults' \in 0..MaxFaults
    BY <1>2, <2>1, AnswersType, CallFailsType DEF Upsert, Same
  <2>. QED
    BY <1>2, <2>1, <2>2 DEF Upsert, Same, TypeOK, RemoteOK, BoundsOK
<1>3. ASSUME NEW i \in Ids, UpsertAnyway(i) PROVE TypeOK'
  <2>1. objects' \in [Ids -> Value]
    BY <1>3, <1>a, <1>b DEF UpsertAnyway, Upserts, TypeOK, RemoteOK
  <2>2. RunOK' /\ faults' \in 0..MaxFaults
    <3>1. CASE Answers(i)
      BY <1>3, <2>1, <3>1, AnswersType DEF UpsertAnyway, Same
    <3>2. CASE Fault /\ FailsWith([id |-> i, val |-> cfg])
      <4>1. [id |-> i, val |-> cfg] \in Response
        BY <1>b DEF Response
      <4>2. RunOK'
        BY <1>3, <3>2, <4>1, FailsType DEF UpsertAnyway, Same
      <4>. QED
        BY <3>2, <4>2, BoundsAssumption DEF Fault, TypeOK, BoundsOK
    <3>. QED
      BY <1>3, <3>1, <3>2 DEF UpsertAnyway
  <2>. QED
    BY <1>3, <2>1, <2>2 DEF UpsertAnyway, Same, TypeOK, RemoteOK, BoundsOK
<1>4. ASSUME NEW i \in Ids, Put(i) PROVE TypeOK'
  <2>1. objects' \in [Ids -> Value]
    BY <1>4, <1>a, <1>b DEF Put, Overwrites
  <2>2. RunOK' /\ faults' \in 0..MaxFaults
    BY <1>4, <2>1, AnswersType, CallFailsType DEF Put, Same
  <2>. QED
    BY <1>4, <2>1, <2>2 DEF Put, Same, TypeOK, RemoteOK, BoundsOK
<1>5. ASSUME NEW i \in Ids, Delete(i) PROVE TypeOK'
  <2>1. objects' \in [Ids -> Value]
    BY <1>5, <1>a, <1>b DEF Delete, Removes
  <2>2. RunOK' /\ faults' \in 0..MaxFaults
    BY <1>5, <2>1, AnswersType, CallFailsType DEF Delete, Same
  <2>3. made' \subseteq Ids /\ hidden' \subseteq Ids
    BY <1>5 DEF Delete, TypeOK, RemoteOK
  <2>. QED
    BY <1>5, <2>1, <2>2, <2>3 DEF Delete, Same, TypeOK, RemoteOK, BoundsOK
<1>6. ASSUME NEW i \in Ids, Look(i) PROVE TypeOK'
  <2>1. RunOK' /\ faults' \in 0..MaxFaults
    <3>1. [id |-> i, val |-> objects[i]] \in Response /\ [id |-> i, val |-> None] \in Response
      BY <1>b DEF Response, TypeOK, RemoteOK
    <3>2. RunOK'
      BY <1>6, <1>c, <3>1, GoesType DEF Look, Same
    <3>. QED
      BY <1>6, <3>2, BoundsAssumption DEF Look, Fault, TypeOK, BoundsOK
  <2>. QED
    BY <1>6, <2>1 DEF Look, Same, remoteVars, TypeOK, RemoteOK, BoundsOK
<1>7. ASSUME Get PROVE TypeOK'
  <2>1. RunOK'
    <3>1. [id |-> Target, val |-> objects[Target]] \in Response
      BY <1>7, <1>c, ValuesAssumption DEF Get, Shown, Target, Response, TypeOK, RemoteOK
    <3>. QED
      BY <1>7, <1>c, <3>1, GoesType DEF Get, Same
  <2>. QED
    BY <1>7, <2>1 DEF Get, Same, remoteVars, TypeOK, RemoteOK, BoundsOK
<1>8. ASSUME Refuse PROVE TypeOK'
  <2>1. RunOK'
    BY <1>8, <1>c, FailsType DEF Refuse, Fails, Same
  <2>. QED
    BY <1>8, <2>1 DEF Refuse, Same, remoteVars, TypeOK, RemoteOK, BoundsOK
<1>9. ASSUME Unreachable PROVE TypeOK'
  <2>1. RunOK' /\ faults' \in 0..MaxFaults
    BY <1>9, CallFailsType DEF Unreachable, Same
  <2>. QED
    BY <1>9, <2>1 DEF Unreachable, Same, remoteVars, TypeOK, RemoteOK, BoundsOK
<1>10. ASSUME Forget PROVE TypeOK'
  <2>1. RunOK' /\ faults' \in 0..MaxFaults
    <3>1. Succeeds(Nothing) \/ FailsWith(Nothing)
      BY <1>10 DEF Forget
    <3>2. doing \notin {"idle", "refreshed"}
      BY <1>10 DEF Forget, Program, ProgramOf
    <3>3. RunOK'
      BY <1>10, <1>c, <3>1, <3>2, FailsType, SucceedsType DEF Forget, Same
    <3>. QED
      BY <1>10, <3>3, BoundsAssumption DEF Forget, Fault, TypeOK, BoundsOK
  <2>. QED
    BY <1>10, <2>1 DEF Forget, Same, remoteVars, TypeOK, RemoteOK, BoundsOK
<1>11. ASSUME Overlook PROVE TypeOK'
  <2>0. doing \notin {"idle", "refreshed"}
    BY <1>11 DEF Overlook, Program, ProgramOf
  <2>1. RunOK'
    BY <1>11, <1>c, <2>0, SucceedsType DEF Overlook, Same
  <2>. QED
    BY <1>11, <2>1 DEF Overlook, Same, remoteVars, TypeOK, RemoteOK, BoundsOK
<1>12. ASSUME AlreadyGone PROVE TypeOK'
  <2>1. RunOK'
    BY <1>12, <1>c, GoesType DEF AlreadyGone, Same
  <2>. QED
    BY <1>12, <2>1 DEF AlreadyGone, Same, remoteVars, TypeOK, RemoteOK, BoundsOK
<1>13. ASSUME Call PROVE TypeOK'
  <2>1. RunOK'
    BY <1>13, <1>c, GoesType DEF Call, Same
  <2>. QED
    BY <1>13, <2>1 DEF Call, Same, remoteVars, TypeOK, RemoteOK, BoundsOK
<1>14. ASSUME Check PROVE TypeOK'
  <2>1. RunOK'
    BY <1>14, <1>c, GoesType, FailsType DEF Check, Fails
  <2>2. unread' \in 0..MaxUnread
    BY <1>14, BoundsAssumption DEF Check, TypeOK, BoundsOK
  <2>. QED
    BY <1>14, <2>1, <2>2 DEF Check, remoteVars, TypeOK, RemoteOK, BoundsOK
<1>15. ASSUME SetId PROVE TypeOK'
  <2>0. [work EXCEPT !.id = answer.id] \in Response
    BY <1>c DEF Response
  <2>1. RunOK'
    BY <1>15, <1>c, <2>0, GoesType DEF SetId, Same
  <2>. QED
    BY <1>15, <2>1 DEF SetId, Same, remoteVars, TypeOK, RemoteOK, BoundsOK
<1>16. ASSUME Save PROVE TypeOK'
  <2>0. [work EXCEPT !.val = answer.val] \in Response
    BY <1>c DEF Response
  <2>1. RunOK'
    BY <1>16, <1>c, <2>0, GoesType DEF Save, Same
  <2>. QED
    BY <1>16, <2>1 DEF Save, Same, remoteVars, TypeOK, RemoteOK, BoundsOK
<1>17. ASSUME SavePlan PROVE TypeOK'
  <2>0. [id |-> IF handlers.sdk = "v2" THEN work.id ELSE Target, val |-> cfg] \in Response
    BY <1>b, <1>c DEF Response, Target
  <2>1. RunOK'
    BY <1>17, <1>c, <2>0, GoesType DEF SavePlan, Same
  <2>. QED
    BY <1>17, <2>1 DEF SavePlan, Same, remoteVars, TypeOK, RemoteOK, BoundsOK
<1>18. ASSUME Return PROVE TypeOK'
  <2>1. RunOK'
    BY <1>18, <1>c, SucceedsType DEF Return, Same
  <2>. QED
    BY <1>18, <2>1 DEF Return, Same, remoteVars, TypeOK, RemoteOK, BoundsOK
<1>19. ASSUME Refresh PROVE TypeOK'
  <2>1. at' \in Nat /\ at' <= Len(Program') + 1
    BY <1>19, StartType DEF Refresh, Start, TypeOK
  <2>2. Prepared("read") \in Response
    BY PreparedType
  <2>. QED
    BY <1>19, <1>c, <2>1, <2>2 DEF Refresh, Start, remoteVars, bounds, TypeOK,
       RemoteOK, RunOK, BoundsOK
<1>20. ASSUME PlanAndApply PROVE TypeOK'
  <2>1. \/ \E op \in {"create", "replace", "update"} :
             /\ Start(op) /\ outcome' = "none"
             /\ op = "create" <=> st.status = "none"
        \/ Finish("idle", "no changes")
    BY <1>20 DEF PlanAndApply, TypeOK, RunOK, StateEntry
  <2>2. RunOK'
    <3>1. CASE Finish("idle", "no changes")
      BY <1>20, <3>1, FinishType DEF PlanAndApply, TypeOK, RunOK
    <3>2. ASSUME NEW op \in {"create", "replace", "update"},
                 Start(op), outcome' = "none", op = "create" <=> st.status = "none"
          PROVE  RunOK'
      <4>1. at' \in Nat /\ at' <= Len(Program') + 1
        BY <1>20, <3>2, StartType DEF PlanAndApply, Start, TypeOK
      <4>2. Prepared(op) \in Response
        BY PreparedType
      <4>. QED
        BY <1>20, <1>c, <3>2, <4>1, <4>2 DEF PlanAndApply, Start, TypeOK, RunOK
    <3>. QED
      BY <2>1, <3>1, <3>2
  <2>3. disturbed' \in BOOLEAN
    BY <1>20 DEF PlanAndApply, TypeOK
  <2>. QED
    BY <1>20, <2>2, <2>3 DEF PlanAndApply, remoteVars, bounds, TypeOK, RemoteOK, BoundsOK
<1>21. ASSUME Destroy PROVE TypeOK'
  <2>1. at' \in Nat /\ at' <= Len(Program') + 1
    BY <1>21, StartType DEF Destroy, Start, TypeOK
  <2>2. Prepared("delete") \in Response
    BY PreparedType
  <2>. QED
    BY <1>21, <1>c, <2>1, <2>2 DEF Destroy, Start, remoteVars, bounds, TypeOK,
       RemoteOK, RunOK, BoundsOK
<1>22. ASSUME NEW i \in Ids, Import(i) PROVE TypeOK'
  <2>1. at' \in Nat /\ at' <= Len(Program') + 1
    BY <1>22, StartType DEF Import, TypeOK
  <2>2. [id |-> i, val |-> None] \in Response
    BY <1>b DEF Response
  <2>. QED
    BY <1>22, <1>c, <2>1, <2>2 DEF Import, remoteVars, bounds, TypeOK,
       RemoteOK, RunOK, BoundsOK
<1>23. ASSUME NEW i \in Ids, UiEdit(i) PROVE TypeOK'
  <2>1. objects' \in [Ids -> Value] /\ edits' \in 0..MaxEdits
    BY <1>23, <1>a, <1>b, BoundsAssumption DEF UiEdit, TypeOK, BoundsOK
  <2>2. RunOK'
    BY <1>23 DEF UiEdit, TypeOK, RunOK, Program
  <2>. QED
    BY <1>23, <2>1, <2>2 DEF UiEdit, TypeOK, RemoteOK, BoundsOK
<1>24. ASSUME NEW i \in Ids, UiCreate(i) PROVE TypeOK'
  <2>1. objects' \in [Ids -> Value] /\ edits' \in 0..MaxEdits
    BY <1>24, <1>a, <1>b, BoundsAssumption DEF UiCreate, TypeOK, BoundsOK
  <2>2. RunOK'
    BY <1>24 DEF UiCreate, TypeOK, RunOK, Program
  <2>. QED
    BY <1>24, <2>1, <2>2 DEF UiCreate, TypeOK, RemoteOK, BoundsOK
<1>25. ASSUME NEW i \in Ids, UiDelete(i) PROVE TypeOK'
  <2>1. objects' \in [Ids -> Value] /\ edits' \in 0..MaxEdits
    BY <1>25, <1>a, <1>b, BoundsAssumption DEF UiDelete, TypeOK, BoundsOK
  <2>2. RunOK'
    BY <1>25 DEF UiDelete, TypeOK, RunOK, Program
  <2>. QED
    BY <1>25, <2>1, <2>2 DEF UiDelete, TypeOK, RemoteOK, BoundsOK
<1>26. ASSUME Appear PROVE TypeOK'
  <2>1. RunOK'
    BY <1>26 DEF Appear, TypeOK, RunOK, Program
  <2>. QED
    BY <1>26, <2>1 DEF Appear, bounds, TypeOK, RemoteOK, BoundsOK
<1>27. ASSUME NEW v \in Values, EditConfig(v) PROVE TypeOK'
  <2>1. RunOK'
    BY <1>27 DEF EditConfig, TypeOK, RunOK, Program
  <2>. QED
    BY <1>27, <2>1 DEF EditConfig, remoteVars, bounds, TypeOK, RemoteOK, BoundsOK
<1>29. ASSUME Conflict PROVE TypeOK'
  <2>0. [id |-> Name, val |-> None] \in Response
    BY <1>b, NameAssumption DEF Response
  <2>1. RunOK'
    BY <1>29, <1>c, <2>0, GoesType DEF Conflict, Same
  <2>. QED
    BY <1>29, <2>1 DEF Conflict, Same, remoteVars, TypeOK, RemoteOK, BoundsOK
<1>30. ASSUME Confirm PROVE TypeOK'
  <2>1. RunOK'
    BY <1>30, <1>c, GoesType DEF Confirm, Skipped, Same
  <2>. QED
    BY <1>30, <2>1 DEF Confirm, Same, remoteVars, TypeOK, RemoteOK, BoundsOK
<1>28. CASE UNCHANGED vars
  BY <1>28 DEF vars, TypeOK, RemoteOK, RunOK, BoundsOK, Program
<1>. HIDE DEF At
<1>. QED
  BY <1>1, <1>2, <1>3, <1>4, <1>5, <1>6, <1>7, <1>8, <1>9, <1>10, <1>11, <1>12,
     <1>13, <1>14, <1>15, <1>16, <1>17, <1>18, <1>19, <1>20, <1>21, <1>22, <1>23,
     <1>24, <1>25, <1>26, <1>27, <1>28, <1>29, <1>30 DEF Next, Terraform, World, Handle

LEMMA TypeInit ==
    ASSUME Init
    PROVE  TypeOK
<1>1. at \in Nat /\ at <= Len(Program) + 1
  <2>1. Len(Program) \in Nat /\ at = 0
    BY Init, ProgramIsSeq DEF Init, Program
  <2>. QED
    BY <2>1
<1>2. Nothing \in Response /\ NoState \in StateEntry
      /\ NoState.id = None /\ NoState.status = "none"
  BY DEF Nothing, NoState, Response, StateEntry, Value
<1>3. RunOK
  <2>1. st = NoState /\ work = Nothing /\ answer = Nothing /\ doing = "idle"
        /\ outcome = "none"
    BY Init DEF Init
  <2>. QED
    BY <1>1, <1>2, <2>1 DEF RunOK
<1>4. objects \in [Ids -> Value]
  BY Init DEF Init, Value
<1>5. BoundsOK
  BY Init, BoundsAssumption DEF Init, BoundsOK
<1>6. RemoteOK
  BY Init, <1>4, Zenon DEF Init, RemoteOK
<1>7. handlers \in Handlers /\ cfg \in Values /\ disturbed \in BOOLEAN
  BY Init, Zenon DEF Init
<1>. QED
  BY <1>3, <1>5, <1>6, <1>7 DEF TypeOK

\* Whatever handlers are run, the state of Terraform and of Datadog stays well
\* typed: see TypeOK.
THEOREM TypeCorrect == Spec => []TypeOK
BY TypeInit, TypeStep, PTL DEF Spec

-----------------------------------------------------------------------------
(* Which steps a handler has behind it *)

\* A step that goes on adds itself to the past, a start forgets the past.
LEMMA PastGoes ==
    ASSUME TypeOK, handlers' = handlers, at \in DOMAIN Program,
           doing' = doing, at' = at + 1, NEW CONSTANT S
    PROVE  Past(S)' <=> Past(S) \/ Program[at] \in S
<1>1. Program' = Program
  BY DEF Program
<1>2. Len(Program) \in Nat /\ DOMAIN Program = 1..Len(Program) /\ at \in Nat
  BY ProgramIsSeq DEF TypeOK, RunOK, Program
<1>3. \A j \in DOMAIN Program : j < at + 1 <=> j < at \/ j = at
  BY <1>2
<1>. QED
  BY <1>1, <1>3 DEF Past

LEMMA PastStart ==
    ASSUME TypeOK', at' = 1, NEW CONSTANT S
    PROVE  ~Past(S)'
<1>1. DOMAIN Program' = 1..Len(Program')
  BY ProgramIsSeq DEF TypeOK, Program
<1>. QED
  BY <1>1 DEF Past

\* A handler at its end has every step behind it.
LEMMA PastEnd ==
    ASSUME TypeOK, at = Len(Program) + 1, NEW CONSTANT S,
           NEW k \in DOMAIN Program, Program[k] \in S
    PROVE  Past(S)
<1>1. Len(Program) \in Nat /\ DOMAIN Program = 1..Len(Program)
  BY ProgramIsSeq DEF TypeOK, Program
<1>2. k < at
  BY <1>1
<1>. QED
  BY <1>2 DEF Past

\* Every step belongs to one resource type, and objects once shown stay shown.
LEMMA StepFrame ==
    ASSUME TypeOK, PromptIsShown, [Next]_vars, lags' = 0
    PROVE  handlers' = handlers /\ lags = 0 /\ hidden = {} /\ PromptIsShown'
<1>1. ASSUME NEW i \in Ids, Post(i)
      PROVE  handlers' = handlers /\ lags = 0 /\ (hidden' = hidden \/ lags' # 0)
  <2>1. lags \in Nat
    BY DEF TypeOK, BoundsOK
  <2>2. lags' = lags \/ lags' = lags + 1
    BY <1>1 DEF Post
  <2>. QED
    BY <1>1, <2>1, <2>2 DEF Post, Same
<1>2. ASSUME NEW i \in Ids, Delete(i) \/ UiDelete(i)
      PROVE  handlers' = handlers /\ lags' = lags /\ (hidden = {} => hidden' = {})
  BY <1>2 DEF Delete, UiDelete, Same
<1>3. ASSUME Appear
      PROVE  handlers' = handlers /\ lags' = lags /\ hidden' = {}
  BY <1>3 DEF Appear, bounds
<1>4. ASSUME NEW i \in Ids, \/ Upsert(i) \/ UpsertAnyway(i) \/ Put(i) \/ Look(i)
                            \/ Import(i) \/ UiCreate(i) \/ UiEdit(i)
      PROVE  handlers' = handlers /\ lags' = lags /\ hidden' = hidden
  BY <1>4 DEF Upsert, UpsertAnyway, Put, Look, Import, UiCreate, UiEdit, Same,
     remoteVars, bounds
<1>5. ASSUME \/ Get \/ Refuse \/ Unreachable \/ Forget \/ Overlook \/ AlreadyGone
             \/ Call \/ Check \/ SetId \/ Save \/ SavePlan \/ Return
             \/ Conflict \/ Confirm
      PROVE  handlers' = handlers /\ lags' = lags /\ hidden' = hidden
  BY <1>5 DEF Get, Refuse, Unreachable, Forget, Overlook, AlreadyGone, Call, Check,
     SetId, Save, SavePlan, Return, Conflict, Confirm, Same, remoteVars
<1>6. ASSUME \/ Refresh \/ PlanAndApply \/ Destroy \/ (\E v \in Values : EditConfig(v))
             \/ UNCHANGED vars
      PROVE  handlers' = handlers /\ lags' = lags /\ hidden' = hidden
  <2>1. CASE Refresh \/ Destroy
    BY <2>1 DEF Refresh, Destroy, remoteVars, bounds
  <2>2. CASE PlanAndApply
    BY <2>2 DEF PlanAndApply, remoteVars, bounds
  <2>3. CASE \E v \in Values : EditConfig(v)
    BY <2>3 DEF EditConfig, remoteVars, bounds
  <2>4. CASE UNCHANGED vars
    BY <2>4 DEF vars
  <2>. QED
    BY <1>6, <2>1, <2>2, <2>3, <2>4
<1>7. handlers' = handlers /\ lags = 0 /\ (hidden = {} => hidden' = {})
  BY <1>1, <1>2, <1>3, <1>4, <1>5, <1>6 DEF Next, Terraform, World, Handle
<1>. QED
  BY <1>7 DEF PromptIsShown

LEMMA PromptStep ==
    ASSUME TypeOK, PromptIsShown, [Next]_vars
    PROVE  PromptIsShown'
BY StepFrame DEF PromptIsShown

-----------------------------------------------------------------------------
(* A handler knows the object it is about *)

LEMMA AllowedStep ==
    ASSUME TypeOK, KeepsCarefully(handlers), at \in DOMAIN Program
    PROVE  /\ doing \in {"read", "import", "update"} =>
                 /\ Program[at] \notin Posts \cup Adoption \cup {"get!"}
                 /\ Program[at] \in {"id", "save", "savePlan"} => Past(Answering)
           /\ doing \in {"delete", "replace"} => Program[at] \in Deletes \cup {"call", "check"}
<1>1. DOMAIN Program = 1..Len(Program) /\ at \in 1..Len(Program) /\ Len(Program) \in Nat
  BY ProgramIsSeq DEF TypeOK, Program
<1>2. CASE doing \in {"read", "import", "update"}
  <2>1. Program \in {handlers.read, handlers.update}
    BY <1>2 DEF Program, ProgramOf
  <2>2. /\ Program[at] \notin Posts \cup Adoption \cup {"get!"}
        /\ Program[at] \in {"id", "save", "savePlan"} =>
              \E j \in 1..(at - 1) : Program[j] \in Answering
    BY <2>1 DEF KeepsCarefully
  <2>3. \A j \in 1..(at - 1) : j \in DOMAIN Program /\ j < at
    BY <1>1
  <2>. QED
    BY <1>2, <2>2, <2>3 DEF Past
<1>3. CASE doing \in {"delete", "replace"}
  <2>1. Program = handlers.delete
    BY <1>3 DEF Program, ProgramOf
  <2>. QED
    BY <1>3, <2>1 DEF KeepsCarefully
<1>. QED
  BY <1>2, <1>3

\* What a step has to do to the response w and the answer r in a read or an
\* update, and to the object in a delete.
LEMMA GoesKeeps ==
    ASSUME TypeOK, KeepsCarefully(handlers), KnowsItsObject, lags = 0,
           handlers' = handlers, at \in DOMAIN Program, NEW w, NEW r, Goes(w, r),
           doing \in {"read", "update"} =>
               w.id = st.id /\ (r.id = st.id \/ (r = answer /\ Program[at] \notin Answering)),
           doing \in {"delete", "replace"} =>
               /\ w = work
               /\ Program[at] \in Deletes \/ ~Live(st.id) => ~Live(st.id)'
    PROVE  KnowsItsObject'
<1>1. /\ Past(Answering)' <=> Past(Answering) \/ Program[at] \in Answering
      /\ Past(Deletes)' <=> Past(Deletes) \/ Program[at] \in Deletes
  BY PastGoes DEF Goes
<1>2. /\ doing' = doing /\ st' = st /\ work' = w /\ answer' = r
  BY DEF Goes
<1>3. CASE doing \in {"read", "update"}
  BY <1>1, <1>2, <1>3 DEF KnowsItsObject
<1>4. CASE doing \in {"delete", "replace"}
  BY <1>1, <1>2, <1>4 DEF KnowsItsObject
<1>. QED
  BY <1>2, <1>3, <1>4 DEF KnowsItsObject

LEMMA EndKnows ==
    ASSUME doing' \in {"idle", "refreshed", "create", "import"}
    PROVE  KnowsItsObject'
BY DEF KnowsItsObject

LEMMA WorldKnows ==
    ASSUME TypeOK, KnowsItsObject, lags = 0,
           UNCHANGED <<handlers, doing, at, work, answer, st>>,
           st.id \in Ids /\ ~Live(st.id) => ~Live(st.id)'
    PROVE  KnowsItsObject'
<1>1. Past(Answering)' = Past(Answering) /\ Past(Deletes)' = Past(Deletes)
  BY DEF Past, Program
<1>2. doing \in {"delete", "replace"} => st.id \in Ids
  BY DEF TypeOK, RunOK, StateEntry
<1>. QED
  BY <1>1, <1>2 DEF KnowsItsObject

LEMMA KnowsStep ==
    ASSUME TypeOK, TypeOK', PromptIsShown, KnowsItsObject, [Next]_vars
    PROVE  KnowsItsObject'
<1>. SUFFICES ASSUME KeepsCarefully(handlers)', lags' = 0 PROVE KnowsItsObject'
  BY DEF KnowsItsObject
<1>a. handlers' = handlers /\ lags = 0 /\ hidden = {} /\ KeepsCarefully(handlers)
  BY StepFrame
<1>b. at \in DOMAIN Program =>
        /\ doing \in {"read", "update"} =>
              /\ Program[at] \notin Posts \cup Adoption \cup {"get!"}
              /\ Program[at] \in {"id", "save", "savePlan"} => Past(Answering)
        /\ doing \in {"delete", "replace"} => Program[at] \in Deletes \cup {"call", "check"}
  BY <1>a, AllowedStep
<1>c. /\ doing \in {"read", "update"} =>
            /\ work.id = st.id /\ st.id # None /\ answer.id \in {None, st.id}
            /\ Past(Answering) => answer.id = st.id
            /\ Target = st.id
      /\ doing \in {"delete", "replace"} => work.id = st.id /\ st.id # None /\ Target = st.id
  BY <1>a DEF KnowsItsObject, TypeOK, RunOK, Target
<1>d. \A w : FailsWith(w) \/ (Succeeds(w) /\ doing \in {"read", "import", "create", "update",
                                                      "delete", "replace"})
             => KnowsItsObject'
  BY EndKnows DEF FailsWith, Succeeds, Finish, Start
<1>e. doing \in {"idle", "refreshed", "read", "import", "create", "update", "replace", "delete"}
  BY DEF TypeOK, RunOK
<1>f. \A w, r : Goes(w, r) /\ doing \in {"create", "import", "idle", "refreshed"}
                => KnowsItsObject'
  BY EndKnows DEF Goes
<1>1. ASSUME NEW i \in Ids, Post(i) PROVE KnowsItsObject'
  <2>1. Program[at] \in Posts /\ at \in DOMAIN Program
    BY <1>1 DEF Post, At
  <2>2. doing \in {"create", "import", "idle", "refreshed"}
    BY <1>b, <1>e, <2>1 DEF Posts, Deletes
  <2>. QED
    BY <1>1, <1>d, <1>f, <2>2 DEF Post, Answers, CallFails, Fails
<1>2. ASSUME NEW i \in Ids, Upsert(i) PROVE KnowsItsObject'
  <2>1. at \in DOMAIN Program /\ Program[at] = "upsert"
    BY <1>2 DEF Upsert, At
  <2>2. CASE Answers(i)
    <3>1. doing \in {"read", "update"} => i = st.id
      BY <1>2, <1>c DEF Upsert, Upserts, One
    <3>2. doing \notin {"delete", "replace"}
      BY <1>b, <2>1 DEF Deletes
    <3>. QED
      BY <1>a, <2>1, <2>2, <3>1, <3>2, <1>c, GoesKeeps DEF Answers
  <2>. QED
    BY <1>2, <1>d, <2>2 DEF Upsert, CallFails, Fails
<1>3. ASSUME NEW i \in Ids, UpsertAnyway(i) PROVE KnowsItsObject'
  <2>1. at \in DOMAIN Program /\ Program[at] = "upsert!"
    BY <1>3 DEF UpsertAnyway, At
  <2>2. CASE Answers(i)
    <3>1. doing \in {"read", "update"} => i = st.id
      BY <1>3, <1>c DEF UpsertAnyway, Upserts, One
    <3>2. doing \notin {"delete", "replace"}
      BY <1>b, <2>1 DEF Deletes
    <3>. QED
      BY <1>a, <2>1, <2>2, <3>1, <3>2, <1>c, GoesKeeps DEF Answers
  <2>. QED
    BY <1>3, <1>d, <2>2 DEF UpsertAnyway, CallFails, Fails
<1>4. ASSUME NEW i \in Ids, Put(i) PROVE KnowsItsObject'
  <2>1. at \in DOMAIN Program /\ Program[at] \in {"put", "takeOver"}
    BY <1>4 DEF Put, At
  <2>2. CASE Answers(i)
    <3>1. doing \in {"read", "update"} => i = st.id
      BY <1>4, <1>c DEF Put, Overwrites
    <3>2. doing \notin {"delete", "replace"}
      BY <1>b, <2>1 DEF Deletes
    <3>. QED
      BY <1>a, <2>1, <2>2, <3>1, <3>2, <1>c, GoesKeeps DEF Answers
  <2>. QED
    BY <1>4, <1>d, <2>2 DEF Put, CallFails, Fails
<1>5. ASSUME NEW i \in Ids, Delete(i) PROVE KnowsItsObject'
  <2>1. at \in DOMAIN Program /\ Program[at] \in Deletes
    BY <1>5 DEF Delete, At
  <2>2. CASE Answers(i)
    <3>1. i = Target /\ objects' = [objects EXCEPT ![i] = None]
      BY <1>5 DEF Delete, Removes
    <3>2. objects'[i] = None
      BY <3>1 DEF TypeOK, RemoteOK
    <3>3. doing \in {"read", "update", "delete", "replace"} => i = st.id
      BY <1>c, <3>1
    <3>4. st' = st
      BY <2>2 DEF Answers, Goes
    <3>5. doing \in {"delete", "replace"} => ~Live(st.id)'
      BY <3>2, <3>3, <3>4 DEF Live
    <3>. QED
      BY <1>a, <2>1, <2>2, <3>3, <3>5, <1>c, GoesKeeps DEF Answers
  <2>. QED
    BY <1>5, <1>d, <2>2 DEF Delete, CallFails, Fails
<1>6. ASSUME NEW i \in Ids, Look(i) PROVE KnowsItsObject'
  <2>1. at \in DOMAIN Program /\ Program[at] \in Looks
    BY <1>6 DEF Look, At
  <2>2. PICK v : Goes(work, [id |-> i, val |-> v])
    BY <1>6 DEF Look
  <2>3. doing \in {"read", "update"} => i = st.id
    BY <1>6, <1>c DEF Look, One
  <2>4. doing \notin {"delete", "replace"}
    BY <1>b, <2>1 DEF Deletes, Looks
  <2>. QED
    BY <1>a, <2>1, <2>2, <2>3, <2>4, <1>c, GoesKeeps
<1>7. ASSUME Get PROVE KnowsItsObject'
  <2>1. at \in DOMAIN Program /\ Program[at] \in Reads
    BY <1>7 DEF Get, At
  <2>2. Goes(work, [id |-> Target, val |-> objects[Target]])
    BY <1>7 DEF Get
  <2>3. doing \notin {"delete", "replace"}
    BY <1>b, <2>1 DEF Deletes, Reads
  <2>. QED
    BY <1>a, <2>1, <2>2, <2>3, <1>c, GoesKeeps
<1>8. ASSUME Refuse \/ Unreachable PROVE KnowsItsObject'
  BY <1>8, <1>d DEF Refuse, Unreachable, CallFails, Fails
<1>9. ASSUME Forget \/ Overlook PROVE KnowsItsObject'
  <2>1. doing \in {"read", "import", "create", "update", "delete", "replace"}
    BY <1>9, <1>e DEF Forget, Overlook, At, Program, ProgramOf
  <2>. QED
    BY <1>9, <1>d, <2>1 DEF Forget, Overlook
<1>10. ASSUME AlreadyGone PROVE KnowsItsObject'
  <2>1. at \in DOMAIN Program /\ Program[at] = "delete?" /\ Goes(work, answer)
    BY <1>10 DEF AlreadyGone, At
  <2>2. Program[at] \notin Answering
    BY <2>1 DEF Answering, Deletes, Looks
  <2>3. doing \in {"delete", "replace"} => ~Live(st.id)
    BY <1>10, <1>c DEF AlreadyGone
  <2>4. ~Live(st.id) => ~Live(st.id)'
    BY <1>10, <2>1 DEF AlreadyGone, remoteVars, Live, Goes
  <2>. QED
    BY <1>a, <1>c, <2>1, <2>2, <2>3, <2>4, GoesKeeps
<1>11. ASSUME Call \/ Check PROVE KnowsItsObject'
  <2>1. CASE Goes(work, answer)
    <3>1. at \in DOMAIN Program /\ Program[at] \in {"call", "check"}
      BY <1>11 DEF Call, Check, At
    <3>2. Program[at] \notin Answering /\ Program[at] \notin Deletes
      BY <3>1 DEF Answering, Deletes, Reads, Writes, Posts, Looks
    <3>3. ~Live(st.id) => ~Live(st.id)'
      BY <1>11, <2>1 DEF Call, Check, remoteVars, Live, Goes
    <3>. QED
      BY <1>a, <1>c, <2>1, <3>1, <3>2, <3>3, GoesKeeps
  <2>. QED
    BY <1>11, <1>d, <2>1 DEF Call, Check, Fails
<1>12. ASSUME SetId \/ Save \/ SavePlan PROVE KnowsItsObject'
  <2>1. at \in DOMAIN Program /\ Program[at] \in {"id", "save", "savePlan"}
    BY <1>12 DEF SetId, Save, SavePlan, At
  <2>2. PICK w : Goes(w, answer) /\ (doing \in {"read", "update"} => w.id = st.id)
    <3>1. doing \in {"read", "update"} => answer.id = st.id
      BY <1>b, <1>c, <2>1
    <3>2. work \in [id : Ids \cup {None}, val : Value]
      BY DEF TypeOK, RunOK, Response
    <3>3. CASE SetId
      <4>1. [work EXCEPT !.id = answer.id].id = answer.id
        BY <3>2
      <4>. QED
        BY <3>1, <3>3, <4>1 DEF SetId
    <3>4. CASE Save
      <4>1. [work EXCEPT !.val = answer.val].id = work.id
        BY <3>2
      <4>. QED
        BY <1>c, <3>1, <3>4, <4>1 DEF Save
    <3>5. CASE SavePlan
      BY <1>c, <3>5 DEF SavePlan
    <3>. QED
      BY <1>12, <3>3, <3>4, <3>5
  <2>3. doing \notin {"delete", "replace"}
    BY <1>b, <2>1 DEF Deletes
  <2>4. doing \in {"read", "update"} => answer.id = st.id
    BY <1>b, <1>c, <2>1
  <2>. QED
    BY <1>a, <2>1, <2>2, <2>3, <2>4, GoesKeeps
<1>13. ASSUME Return PROVE KnowsItsObject'
  BY <1>13, <1>d, <1>e DEF Return
<1>14. ASSUME NEW op \in {"read", "create", "update", "replace", "delete"}, Start(op),
              st' = st
       PROVE  KnowsItsObject'
  <2>1. ~Past(Answering)' /\ ~Past(Deletes)'
    BY <1>14, PastStart DEF Start
  <2>2. CASE op # "create"
    <3>1. work'.id = st.id /\ answer'.id = None
      BY <1>14, <2>2 DEF Start, Prepared, Nothing
    <3>. QED
      BY <1>14, <2>1, <3>1 DEF KnowsItsObject, Start
  <2>3. CASE op = "create"
    BY <1>14, <2>3, EndKnows DEF Start
  <2>. QED
    BY <2>2, <2>3
<1>15. ASSUME Refresh \/ Destroy \/ PlanAndApply PROVE KnowsItsObject'
  BY <1>15, <1>14, EndKnows DEF Refresh, Destroy, PlanAndApply, Finish, TypeOK, RunOK, StateEntry
<1>16. ASSUME NEW i \in Ids, Import(i) PROVE KnowsItsObject'
  BY <1>16, EndKnows DEF Import
<1>17. ASSUME NEW i \in Ids, UiEdit(i) \/ UiCreate(i) \/ UiDelete(i) PROVE KnowsItsObject'
  <2>1. st' = st /\ objects \in [Ids -> Value]
    BY <1>17 DEF UiEdit, UiCreate, UiDelete, TypeOK, RemoteOK
  <2>2. st.id \in Ids /\ ~Live(st.id) => ~Live(st.id)'
    <3>1. CASE UiEdit(i)
      BY <2>1, <3>1 DEF UiEdit, Live
    <3>2. CASE UiCreate(i)
      BY <2>1, <3>2 DEF UiCreate, New, Live
    <3>3. CASE UiDelete(i)
      BY <2>1, <3>3 DEF UiDelete, Live
    <3>. QED
      BY <1>17, <3>1, <3>2, <3>3
  <2>. QED
    BY <1>a, <1>17, <2>2, WorldKnows DEF UiEdit, UiCreate, UiDelete
<1>18. ASSUME Appear \/ (\E v \in Values : EditConfig(v)) \/ UNCHANGED vars
       PROVE  KnowsItsObject'
  BY <1>a, <1>18, WorldKnows DEF Appear, EditConfig, vars, remoteVars, Live
<1>19. ASSUME Conflict \/ Confirm PROVE KnowsItsObject'
  <2>1. at \in DOMAIN Program /\ Program[at] \in {"claim"} \cup Adoption
    BY <1>19 DEF Conflict, Confirm, Skipped, At, Adoption
  <2>2. doing \in {"create", "import", "idle", "refreshed"}
    BY <1>b, <1>e, <2>1 DEF Posts, Deletes, Adoption
  <2>. QED
    BY <1>19, <1>f, <2>2 DEF Conflict, Confirm
<1>. QED
  BY <1>1, <1>2, <1>3, <1>4, <1>5, <1>6, <1>7, <1>8, <1>9, <1>10, <1>11, <1>12, <1>13,
     <1>15, <1>16, <1>17, <1>18, <1>19 DEF Next, Terraform, World, Handle

-----------------------------------------------------------------------------
(* What leaves the state is gone *)

\* Objects shown at once are shown while they live.
LEMMA ShownIsLive ==
    ASSUME TypeOK, hidden = {}, Target \in Ids, ~Shown
    PROVE  objects[Target] = None
BY ValuesAssumption DEF Shown, Live

LEMMA FailureKeeps ==
    ASSUME TypeOK, st.id # None, NEW w, FailsWith(w), doing = "update" => w.id = st.id
    PROVE  st'.id = st.id
BY DEF FailsWith, InState, TypeOK, RunOK

LEMMA SuccessKeeps ==
    ASSUME TypeOK, st.id # None, NEW w, Succeeds(w),
           doing \in {"read", "update"} /\ w.id = st.id
    PROVE  st'.id = st.id
BY DEF Succeeds, InState

LEMMA DropStep ==
    ASSUME TypeOK, PromptIsShown, KnowsItsObject, [Next]_vars, lags = 0,
           KeepsCarefully(handlers), st.id # None, st'.id # st.id
    PROVE  objects'[st.id] = None
<1>a. hidden = {}
  BY DEF PromptIsShown
<1>b. at \in DOMAIN Program =>
        /\ doing \in {"read", "update"} =>
              /\ Program[at] \notin Posts \cup Adoption \cup {"get!"}
              /\ Program[at] \in {"id", "save", "savePlan"} => Past(Answering)
        /\ doing \in {"delete", "replace"} => Program[at] \in Deletes \cup {"call", "check"}
  BY AllowedStep
<1>c. /\ doing \in {"read", "update"} => work.id = st.id /\ Target = st.id
      /\ doing \in {"delete", "replace"} => Target = st.id /\ (Past(Deletes) => ~Live(st.id))
      /\ doing \notin {"create", "import"} /\ st.id \in Ids
  BY DEF KnowsItsObject, TypeOK, RunOK, Target, StateEntry
<1>d. doing \in {"idle", "refreshed", "read", "update", "replace", "delete"}
  BY <1>c DEF TypeOK, RunOK
<1>1. ~ Fails
  BY <1>c, FailureKeeps DEF Fails
<1>2. \A w, r : ~ Goes(w, r)
  BY DEF Goes
<1>3. ASSUME NEW i \in Ids, \/ Post(i) \/ Upsert(i) \/ Put(i) \/ Delete(i) \/ Look(i)
      PROVE  FALSE
  BY <1>3, <1>1, <1>2 DEF Post, Upsert, Put, Delete, Look, Answers, CallFails
<1>4. ASSUME NEW i \in Ids, UpsertAnyway(i) PROVE FALSE
  <2>1. FailsWith([id |-> i, val |-> cfg])
    BY <1>4, <1>2 DEF UpsertAnyway, Answers
  <2>2. doing = "update" => i = st.id
    BY <1>4, <1>c DEF UpsertAnyway, Upserts, One
  <2>. QED
    BY <2>1, <2>2, FailureKeeps
<1>5. ASSUME \/ Get \/ Refuse \/ Unreachable \/ AlreadyGone \/ Call \/ Check \/ SetId
             \/ Save \/ SavePlan \/ Conflict \/ Confirm
      PROVE  FALSE
  BY <1>5, <1>1, <1>2 DEF Get, Refuse, Unreachable, AlreadyGone, Call, Check, SetId, Save,
     SavePlan, Conflict, Confirm, CallFails
<1>6. CASE Forget
  <2>1. at \in DOMAIN Program /\ Program[at] \in {"get?", "get!", "get~", "expect"}
    BY <1>6 DEF Forget, At
  <2>2. doing \in {"read", "update"}
    BY <1>b, <1>d, <2>1 DEF Deletes, Program, ProgramOf
  <2>3. Program[at] # "get!"
    BY <1>b, <2>1, <2>2
  <2>4. ~Shown /\ objects' = objects
    BY <1>6, <2>3 DEF Forget, At, remoteVars
  <2>. QED
    BY <1>a, <1>c, <2>2, <2>4, ShownIsLive
<1>7. CASE Overlook
  <2>1. at \in DOMAIN Program /\ Program[at] = "get~"
    BY <1>7 DEF Overlook, At
  <2>2. doing \in {"read", "update"}
    BY <1>b, <1>d, <2>1 DEF Deletes, Program, ProgramOf
  <2>. QED
    BY <1>7, <1>c, <2>2, SuccessKeeps DEF Overlook
<1>8. CASE Return
  <2>1. doing \in {"delete", "replace"}
    BY <1>8, <1>c, <1>d, SuccessKeeps DEF Return
  <2>2. PICK k \in DOMAIN Program : Program[k] \in Deletes
    BY <2>1 DEF KeepsCarefully, Program, ProgramOf
  <2>3. Past(Deletes)
    BY <1>8, <2>2, PastEnd DEF Return
  <2>. QED
    BY <1>8, <1>c, <2>1, <2>3 DEF Return, remoteVars, Live
<1>9. CASE Refresh \/ PlanAndApply \/ Destroy
  BY <1>9 DEF Refresh, PlanAndApply, Destroy
<1>10. ASSUME NEW i \in Ids, Import(i) \/ UiEdit(i) \/ UiCreate(i) \/ UiDelete(i)
       PROVE  FALSE
  BY <1>10 DEF Import, UiEdit, UiCreate, UiDelete
<1>11. CASE Appear \/ (\E v \in Values : EditConfig(v)) \/ UNCHANGED vars
  BY <1>11 DEF Appear, EditConfig, vars
<1>. QED
  BY <1>3, <1>4, <1>5, <1>6, <1>7, <1>8, <1>9, <1>10, <1>11
     DEF Next, Terraform, World, Handle

\* An object leaves the state only when it is gone, for every handler that
\* keeps its object carefully and objects that Datadog shows at once.
THEOREM DropsSafe ==
    ASSUME Patient = {}, \A h \in Handlers \ (Drops \cup Keeps) : KeepsCarefully(h)
    PROVE  Spec => DroppedOnlyWhenGone
<1> DEFINE Inv == TypeOK /\ PromptIsShown /\ KnowsItsObject
<1>1. Init => Inv
  BY TypeInit DEF Init, PromptIsShown, KnowsItsObject
<1>2. Inv /\ [Next]_vars => Inv'
  BY TypeStep, KnowsStep, PromptStep
<1>3. Inv /\ [Next]_vars =>
        [st.id # None /\ st'.id # st.id /\ Prompt /\ handlers \notin Drops \cup Keeps
           => objects'[st.id] = None]_vars
  BY DropStep DEF Prompt, TypeOK
<1>. QED
  BY <1>1, <1>2, <1>3, PTL DEF Spec, DroppedOnlyWhenGone

-----------------------------------------------------------------------------
(* What was created is in the state *)

LEMMA MadeStep ==
    ASSUME TypeOK, MadeIsLive, [Next]_vars
    PROVE  MadeIsLive'
<1>a. cfg # None /\ UiValue # None /\ objects \in [Ids -> Value] /\ made \subseteq Ids
  BY ValuesAssumption DEF TypeOK, RemoteOK
<1>1. ASSUME NEW i \in Ids, NEW v, v # None, objects' = [objects EXCEPT ![i] = v],
             made' = made \/ made' = made \cup {i}
      PROVE  MadeIsLive'
  BY <1>1, <1>a DEF MadeIsLive, Live
<1>2. ASSUME NEW i \in Ids, objects' = [objects EXCEPT ![i] = None], made' = made \ {i}
      PROVE  MadeIsLive'
  BY <1>2, <1>a DEF MadeIsLive, Live
<1>3. ASSUME objects' = objects, made' = made PROVE MadeIsLive'
  BY <1>3 DEF MadeIsLive, Live
<1>4. ASSUME NEW i \in Ids, Post(i) \/ Upsert(i) \/ UpsertAnyway(i) \/ Put(i)
      PROVE  MadeIsLive'
  BY <1>4, <1>1, <1>3, <1>a DEF Post, Upsert, UpsertAnyway, Put, Creates, Upserts, Overwrites
<1>5. ASSUME NEW i \in Ids, Delete(i) \/ UiDelete(i) PROVE MadeIsLive'
  BY <1>5, <1>2 DEF Delete, UiDelete, Removes
<1>6. ASSUME NEW i \in Ids, UiEdit(i) \/ UiCreate(i) PROVE MadeIsLive'
  BY <1>6, <1>1, <1>a DEF UiEdit, UiCreate
<1>7. ASSUME NEW i \in Ids, Look(i) \/ Import(i) PROVE MadeIsLive'
  BY <1>7, <1>3 DEF Look, Import, remoteVars
<1>8. ASSUME \/ Get \/ Refuse \/ Unreachable \/ Forget \/ Overlook \/ AlreadyGone \/ Call
             \/ Check \/ SetId \/ Save \/ SavePlan \/ Return
             \/ Conflict \/ Confirm
      PROVE  MadeIsLive'
  BY <1>8, <1>3 DEF Get, Refuse, Unreachable, Forget, Overlook, AlreadyGone, Call, Check,
     SetId, Save, SavePlan, Return, Conflict, Confirm, remoteVars
<1>9. CASE \/ Refresh \/ PlanAndApply \/ Destroy \/ Appear
           \/ (\E v \in Values : EditConfig(v)) \/ UNCHANGED vars
  <2>1. objects' = objects /\ made' = made
    <3>1. CASE Refresh \/ Destroy
      BY <3>1 DEF Refresh, Destroy, remoteVars
    <3>2. CASE PlanAndApply
      BY <3>2 DEF PlanAndApply, remoteVars
    <3>3. CASE \/ Appear \/ (\E v \in Values : EditConfig(v)) \/ UNCHANGED vars
      BY <3>3 DEF Appear, EditConfig, remoteVars, vars
    <3>. QED
      BY <1>9, <3>1, <3>2, <3>3
  <2>. QED
    BY <2>1, <1>3
<1>. QED
  BY <1>4, <1>5, <1>6, <1>7, <1>8, <1>9 DEF Next, Terraform, World, Handle

\* The last step of a careful create before the id is recorded is no call.
LEMMA CreateStep ==
    ASSUME TypeOK, CreatesCarefully(handlers), doing = "create", at \in DOMAIN Program
    PROVE  /\ Program[at] # "get!"
           /\ Program[at] \in Posts => ~Past(Posts) /\ ~Past(Records(handlers))
           /\ Past(Posts) /\ ~Past(Records(handlers)) /\ Program[at] \notin Records(handlers)
              => Program[at] \in Exposed(handlers) /\ Program[at] \notin Calls \cup {"error"}
<1> DEFINE create == handlers.create
<1>1. Program = create
  BY DEF Program, ProgramOf
<1>2. /\ DOMAIN create = 1..Len(create) /\ Len(create) \in Nat
      /\ at \in Nat /\ at \in DOMAIN create
  BY <1>1, ProgramIsSeq DEF TypeOK, RunOK, Program
<1>3. \A j \in 1..at : j \in DOMAIN create /\ (j < at \/ j = at)
  BY <1>2
<1>4. \A j \in DOMAIN create : j < at => j \in 1..(at - 1) /\ j \in 1..at
  BY <1>2
<1>5. at \in Unrecorded(handlers)
        <=> ~Past(Records(handlers)) /\ Program[at] \notin Records(handlers)
  <2>1. at \in 1..at
    BY <1>2
  <2>. QED
    BY <1>1, <1>2, <1>3, <1>4, <2>1 DEF Unrecorded, Past
<1>6. at \in Unrecorded(handlers) /\ Past(Posts) => Program[at] \in Exposed(handlers)
  BY <1>1, <1>4 DEF Exposed, Past
<1>7. Program[at] \in Posts => at \in Unrecorded(handlers)
  BY <1>1, <1>2 DEF CreatesCarefully
<1>8. Exposed(handlers) \cap (Calls \cup {"error"}) = {}
  BY DEF CreatesCarefully
<1>9. Posts \subseteq Calls
  BY DEF Calls, Writes, Looks, Adoption
<1>10. Program[at] # "get!"
  BY <1>1 DEF CreatesCarefully
<1>. QED
  BY <1>5, <1>6, <1>7, <1>8, <1>9, <1>10

\* A careful create that comes to its end has recorded what it made.
LEMMA CreateEnd ==
    ASSUME TypeOK, CreatesCarefully(handlers), doing = "create", at = Len(Program) + 1,
           Past(Posts)
    PROVE  Past(Records(handlers))
<1>1. Program = handlers.create
  BY DEF Program, ProgramOf
<1>2. PICK r \in DOMAIN Program : Program[r] \in Records(handlers)
  BY <1>1 DEF Past, CreatesCarefully
<1>. QED
  BY <1>2, PastEnd

\* What a step other than a post has to do while a create goes on.
LEMMA GoesMade ==
    ASSUME TypeOK, KeepsCarefully(handlers), CreatesCarefully(handlers), lags = 0,
           "check" \in Exposed(handlers) => unread = 0,
           KnowsWhatItMade, doing = "create", handlers' = handlers,
           at \in DOMAIN Program, NEW w, NEW r, Goes(w, r),
           Program[at] \notin Posts, made' \subseteq made,
           Program[at] \notin Records(handlers) => w.id = work.id,
           Program[at] \in Records(handlers) =>
               w.id = answer.id \/ (work.id # None /\ w.id = work.id),
           r = answer \/ (Program[at] \in Calls /\ (Target # None => r.id = Target))
    PROVE  KnowsWhatItMade'
<1> DEFINE R == Records(handlers)
<1>1. /\ Past(Posts)' <=> Past(Posts)
      /\ Past(R)' <=> Past(R) \/ Program[at] \in R
  <2>1. ASSUME NEW CONSTANT S PROVE Past(S)' <=> Past(S) \/ Program[at] \in S
    BY PastGoes DEF Goes
  <2>2. Past(Posts)' <=> Past(Posts)
    BY <2>1
  <2>3. R' = R /\ Program' = Program
    BY DEF Goes, Program
  <2>4. at' = at + 1 /\ DOMAIN Program = 1..Len(Program) /\ Len(Program) \in Nat /\ at \in Nat
    BY ProgramIsSeq DEF Goes, TypeOK, RunOK, Program
  <2>5. \A j \in DOMAIN Program : j < at' <=> j < at \/ j = at
    BY <2>4
  <2>. QED
    BY <2>2, <2>3, <2>5 DEF Past
<1>2. /\ ~Past(Posts) => made = {}
      /\ Past(Posts) => answer.id # None /\ made \subseteq {answer.id}
      /\ ~Past(R) => work.id = None
      /\ Past(Posts) /\ Past(R) => work.id = answer.id
  BY DEF KnowsWhatItMade
<1>3. Past(Posts) /\ ~Past(R) /\ Program[at] \notin R => Program[at] \notin Calls
  BY CreateStep
<1>4. R \cap Calls = {}
  BY DEF Records, Calls, Reads, Writes, Posts, Deletes, Looks, Adoption
<1>5. Past(Posts) => r.id = answer.id
  BY <1>2, <1>3, <1>4 DEF Target
<1>6. Past(Posts) /\ (Past(R) \/ Program[at] \in R) => w.id = answer.id
  BY <1>2
<1>7. ~Past(R) /\ Program[at] \notin R => w.id = None
  BY <1>2
<1>8. doing' = "create" /\ work' = w /\ answer' = r /\ R' = R
  BY DEF Goes
<1>. HIDE DEF R
<1>9. /\ ~Past(Posts)' => made' = {}
      /\ Past(Posts)' => answer'.id # None /\ made' \subseteq {answer'.id}
      /\ ~Past(R)' => work'.id = None
      /\ Past(Posts)' /\ Past(R)' => work'.id = answer'.id
  BY <1>1, <1>2, <1>5, <1>6, <1>7, <1>8
<1>. QED
  BY <1>8, <1>9 DEF KnowsWhatItMade, R

\* An answer that did not parse stays counted.
LEMMA UnreadStep ==
    ASSUME TypeOK, [Next]_vars, unread' = 0
    PROVE  unread = 0
<1>1. CASE Check
  <2>1. unread \in Nat
    BY DEF TypeOK, BoundsOK
  <2>. QED
    BY <1>1, <2>1 DEF Check
<1>2. ASSUME NEW i \in Ids, \/ Post(i) \/ Upsert(i) \/ UpsertAnyway(i) \/ Put(i)
                            \/ Delete(i) \/ Look(i)
      PROVE  unread' = unread
  BY <1>2 DEF Post, Upsert, UpsertAnyway, Put, Delete, Look, Same
<1>3. ASSUME \/ Get \/ Refuse \/ Unreachable \/ Forget \/ Overlook \/ AlreadyGone
             \/ Call \/ SetId \/ Save \/ SavePlan \/ Return
             \/ Conflict \/ Confirm
      PROVE  unread' = unread
  BY <1>3 DEF Get, Refuse, Unreachable, Forget, Overlook, AlreadyGone, Call, SetId, Save,
     SavePlan, Return, Conflict, Confirm, Same
<1>4. ASSUME Refresh \/ Destroy \/ PlanAndApply \/ Appear PROVE unread' = unread
  BY <1>4 DEF Refresh, Destroy, PlanAndApply, Appear, bounds
<1>5. ASSUME NEW i \in Ids, Import(i) \/ UiEdit(i) \/ UiCreate(i) \/ UiDelete(i)
      PROVE  unread' = unread
  BY <1>5 DEF Import, UiEdit, UiCreate, UiDelete, bounds
<1>6. ASSUME (\E v \in Values : EditConfig(v)) \/ UNCHANGED vars PROVE unread' = unread
  BY <1>6 DEF EditConfig, bounds, vars
<1>. QED
  BY <1>1, <1>2, <1>3, <1>4, <1>5, <1>6 DEF Next, Terraform, World, Handle

\* Only a post adds to what was made.
LEMMA MadeGrows ==
    ASSUME [Next]_vars
    PROVE  made' \subseteq made \/ \E i \in Ids : Post(i)
<1>1. ASSUME NEW i \in Ids, Upsert(i) \/ UpsertAnyway(i) \/ Put(i) \/ Delete(i) \/ Look(i)
      PROVE  made' \subseteq made
  BY <1>1 DEF Upsert, UpsertAnyway, Put, Delete, Look, remoteVars
<1>2. ASSUME \/ Get \/ Refuse \/ Unreachable \/ Forget \/ Overlook \/ AlreadyGone
             \/ Call \/ Check \/ SetId \/ Save \/ SavePlan \/ Return
             \/ Conflict \/ Confirm
      PROVE  made' \subseteq made
  BY <1>2 DEF Get, Refuse, Unreachable, Forget, Overlook, AlreadyGone, Call, Check, SetId,
     Save, SavePlan, Return, Conflict, Confirm, remoteVars
<1>3. ASSUME Refresh \/ Destroy \/ PlanAndApply \/ Appear PROVE made' \subseteq made
  BY <1>3 DEF Refresh, Destroy, PlanAndApply, Appear, remoteVars
<1>4. ASSUME NEW i \in Ids, Import(i) \/ UiEdit(i) \/ UiCreate(i) \/ UiDelete(i)
      PROVE  made' \subseteq made
  BY <1>4 DEF Import, UiEdit, UiCreate, UiDelete, remoteVars
<1>5. ASSUME (\E v \in Values : EditConfig(v)) \/ UNCHANGED vars PROVE made' \subseteq made
  BY <1>5 DEF EditConfig, remoteVars, vars
<1>. QED
  BY <1>1, <1>2, <1>3, <1>4, <1>5 DEF Next, Terraform, World, Handle

\* Outside a create the set of what was made can only shrink, and what leaves
\* the state is gone.
LEMMA MadeOutsideCreate ==
    ASSUME TypeOK, TypeOK', PromptIsShown, KnowsItsObject, MadeIsLive, MadeIsLive',
           [Next]_vars, lags = 0, KeepsCarefully(handlers), doing # "create",
           made \subseteq {st.id}
    PROVE  made' \subseteq {st'.id}
<1>1. made' \subseteq made
  <2>1. ASSUME NEW i \in Ids, Post(i) PROVE FALSE
    <3>1. at \in DOMAIN Program /\ Program[at] \in Posts
      BY <2>1 DEF Post, At
    <3>2. doing \in {"idle", "refreshed", "read", "import", "update", "delete", "replace"}
      BY DEF TypeOK, RunOK
    <3>3. doing \notin {"idle", "refreshed"}
      BY <3>1 DEF Program, ProgramOf
    <3>. QED
      BY <3>1, <3>2, <3>3, AllowedStep DEF Posts, Deletes
  <2>. QED
    BY <2>1, MadeGrows
<1>2. CASE st.id = None
  BY <1>1, <1>2, ValuesAssumption DEF TypeOK, RemoteOK
<1>3. CASE st.id # None /\ st'.id # st.id
  <2>1. objects'[st.id] = None
    BY <1>3, DropStep
  <2>2. st.id \notin made'
    BY <2>1 DEF MadeIsLive, Live
  <2>. QED
    BY <1>1, <2>2
<1>. QED
  BY <1>1, <1>2, <1>3

LEMMA MadeKnownStep ==
    ASSUME TypeOK, TypeOK', PromptIsShown, KnowsItsObject, MadeIsLive, MadeIsLive',
           KnowsWhatItMade, [Next]_vars
    PROVE  KnowsWhatItMade'
<1>. SUFFICES ASSUME KeepsCarefully(handlers)', CreatesCarefully(handlers)', lags' = 0,
                     ("check" \in Exposed(handlers) => unread = 0)'
              PROVE  KnowsWhatItMade'
  BY DEF KnowsWhatItMade
<1>a. /\ handlers' = handlers /\ lags = 0 /\ hidden = {}
      /\ KeepsCarefully(handlers) /\ CreatesCarefully(handlers)
      /\ "check" \in Exposed(handlers) => unread = 0 /\ unread' = 0
  BY StepFrame, UnreadStep
<1> DEFINE R == Records(handlers)
<1>b. R' = R
  BY <1>a
<1>1. CASE doing # "create"
  <2>1. made' \subseteq {st'.id}
    BY <1>a, <1>1, MadeOutsideCreate DEF KnowsWhatItMade
  <2>2. CASE doing' = "create"
    <3>1. made' = {}
      BY <2>1, <2>2, ValuesAssumption DEF TypeOK, RunOK, RemoteOK
    <3>2. Start("create")
      <4>1. ASSUME NEW w, NEW r, Goes(w, r) PROVE FALSE
        BY <1>1, <2>2, <4>1 DEF Goes
      <4>2. ASSUME NEW w, FailsWith(w) PROVE FALSE
        BY <2>2, <4>2 DEF FailsWith, Finish
      <4>3. ASSUME NEW w, Succeeds(w) PROVE Start("create")
        BY <2>2, <4>3 DEF Succeeds, Finish
      <4>4. ASSUME NEW i \in Ids, Post(i) \/ Upsert(i) \/ UpsertAnyway(i) \/ Put(i)
                                  \/ Delete(i) \/ Look(i)
            PROVE  FALSE
        BY <4>1, <4>2, <4>4 DEF Post, Upsert, UpsertAnyway, Put, Delete, Look, Answers,
           CallFails, Fails
      <4>5. ASSUME Get \/ Refuse \/ Unreachable \/ AlreadyGone \/ Call \/ Check \/ SetId
                   \/ Save \/ SavePlan \/ Conflict \/ Confirm
            PROVE  FALSE
        BY <4>1, <4>2, <4>5 DEF Get, Refuse, Unreachable, AlreadyGone, Call, Check, SetId,
           Save, SavePlan, Conflict, Confirm, CallFails, Fails
      <4>6. CASE Forget \/ Overlook \/ Return
        <5>1. \/ Succeeds(Nothing) \/ FailsWith(Nothing) \/ Succeeds(work)
          BY <4>6 DEF Forget, Overlook, Return
        <5>. QED
          BY <4>2, <4>3, <5>1
      <4>7. CASE PlanAndApply
        <5>1. st.status \in {"none", "ok", "tainted"}
          BY DEF TypeOK, RunOK, StateEntry
        <5>. QED
          BY <2>2, <4>7, <5>1 DEF PlanAndApply, Start, Finish
      <4>8. ASSUME Refresh \/ Destroy \/ Appear \/ (\E v \in Values : EditConfig(v))
                   \/ UNCHANGED vars
            PROVE  FALSE
        BY <1>1, <2>2, <4>8 DEF Refresh, Destroy, Appear, EditConfig, Start, vars
      <4>9. ASSUME NEW i \in Ids, Import(i) \/ UiEdit(i) \/ UiCreate(i) \/ UiDelete(i)
            PROVE  FALSE
        BY <1>1, <2>2, <4>9 DEF Import, UiEdit, UiCreate, UiDelete
      <4>. QED
        BY <4>4, <4>5, <4>6, <4>7, <4>8, <4>9 DEF Next, Terraform, World, Handle
    <3>3. work'.id = None
      <4>1. handlers.sdk = "v2" \/ handlers.sdk = "framework"
        BY HandlersAssumption DEF TypeOK, HandlerSets
      <4>2. Prepared("create").id = None
        BY <4>1 DEF Prepared, Nothing
      <4>. QED
        BY <3>2, <4>2 DEF Start
    <3>4. ~Past(Posts)' /\ ~Past(R)'
      <4>1. at' = 1 /\ DOMAIN Program' = 1..Len(Program')
        BY <3>2, ProgramIsSeq DEF Start, TypeOK, Program
      <4>. QED
        BY <4>1 DEF Past
    <3>. QED
      BY <2>2, <3>1, <3>3, <3>4 DEF KnowsWhatItMade
  <2>. QED
    BY <2>1, <2>2 DEF KnowsWhatItMade
<1>2. CASE doing = "create"
  <2>a. st.id = None
    BY <1>2 DEF TypeOK, RunOK
  <2>b. /\ ~Past(Posts) => made = {}
        /\ Past(Posts) => answer.id # None /\ made \subseteq {answer.id}
        /\ ~Past(R) => work.id = None
        /\ Past(Posts) /\ Past(R) => work.id = answer.id
    BY <1>a, <1>2 DEF KnowsWhatItMade
  <2>c. at \in DOMAIN Program =>
          /\ Program[at] # "get!"
          /\ Program[at] \in Posts => ~Past(Posts) /\ ~Past(R)
          /\ Past(Posts) /\ ~Past(R) /\ Program[at] \notin R
             => Program[at] \in Exposed(handlers) /\ Program[at] \notin Calls \cup {"error"}
    BY <1>a, <1>2, CreateStep
  <2>d. R \cap (Calls \cup {"error", "check"}) = {}
    BY DEF Records, Calls, Reads, Writes, Posts, Deletes, Looks, Adoption
  <2>e. ASSUME at \in DOMAIN Program, Past(Posts),
               \/ Program[at] \in Calls \cup {"error"}
               \/ Program[at] = "check" /\ unread' # 0
        PROVE  work.id # None /\ work.id = answer.id /\ Target = answer.id
    <3>1. Past(R)
      BY <1>a, <2>c, <2>d, <2>e
    <3>. QED
      BY <2>b, <2>e, <3>1 DEF Target
  <2>f. ASSUME NEW w, FailsWith(w) \/ Succeeds(w), made' \subseteq made,
               made \subseteq {w.id} \/ made' = {}
        PROVE  KnowsWhatItMade'
    <3>1. doing' # "create" /\ st'.id = w.id
      BY <1>2, <2>f DEF FailsWith, Succeeds, Finish, InState, NoState
    <3>. QED
      BY <2>f, <3>1 DEF KnowsWhatItMade
  \* A post that went through, or was refused because somebody has the name.
  <2>p. ASSUME NEW i \in Ids, NEW v, at \in DOMAIN Program, Program[at] \in Posts,
               Goes(work, [id |-> i, val |-> v]), made' \subseteq made \cup {i}
        PROVE  KnowsWhatItMade'
    <3>1. ~Past(Posts) /\ ~Past(R) /\ made = {}
      BY <2>b, <2>c, <2>p
    <3>2. work' = work /\ answer'.id = i /\ doing' = "create" /\ made' \subseteq {i}
      BY <1>2, <2>p, <3>1 DEF Goes
    <3>3. Past(Posts)'
      BY <1>a, <2>p, PastGoes DEF Goes
    <3>4. ~Past(R)'
      <4>1. Program' = Program /\ at' = at + 1
        BY <1>a, <2>p DEF Goes, Program
      <4>2. \A j \in DOMAIN Program : j < at + 1 <=> j < at \/ j = at
        <5>1. DOMAIN Program = 1..Len(Program) /\ Len(Program) \in Nat /\ at \in Nat
          BY ProgramIsSeq DEF TypeOK, RunOK, Program
        <5>. QED
          BY <5>1
      <4>3. Program[at] \notin R
        BY <2>d, <2>p DEF Calls, Writes, Looks, Adoption
      <4>. QED
        BY <1>b, <3>1, <4>1, <4>2, <4>3 DEF Past
    <3>5. i # None /\ work.id = None
      BY <2>b, <3>1, ValuesAssumption
    <3>. QED
      BY <3>2, <3>3, <3>4, <3>5 DEF KnowsWhatItMade
  <2>1. ASSUME NEW i \in Ids, Post(i) PROVE KnowsWhatItMade'
    <3>1. at \in DOMAIN Program /\ Program[at] \in Posts /\ made = {}
      BY <2>1, <2>b, <2>c DEF Post, At
    <3>2. CASE CallFails /\ made' = made
      BY <2>f, <3>1, <3>2 DEF CallFails, Fails
    <3>3. CASE Answers(i) /\ made' = made \cup {i}
      BY <2>p, <3>1, <3>3 DEF Answers
    <3>. QED
      BY <2>1, <3>2, <3>3 DEF Post
  <2>20. ASSUME Conflict PROVE KnowsWhatItMade'
    <3>1. at \in DOMAIN Program /\ Program[at] \in Posts /\ made' = made
      BY <2>20 DEF Conflict, At, Posts, remoteVars
    <3>. QED
      BY <2>20, <2>p, <3>1, NameAssumption DEF Conflict
  <2>g. ASSUME at \in DOMAIN Program, NEW w, NEW r, Goes(w, r), made' \subseteq made,
               Program[at] \notin Posts,
               Program[at] \notin R => w.id = work.id,
               Program[at] \in R => w.id = answer.id \/ (work.id # None /\ w.id = work.id),
               r = answer \/ (Program[at] \in Calls /\ (Target # None => r.id = Target))
        PROVE  KnowsWhatItMade'
    BY <1>a, <1>2, <2>g, GoesMade
  <2>h. ASSUME at \in DOMAIN Program, Fails, made' \subseteq made,
               \/ Program[at] \in Calls \cup {"error"}
               \/ Program[at] = "check" /\ unread' # 0
        PROVE  KnowsWhatItMade'
    <3>1. made \subseteq {work.id}
      BY <2>b, <2>e, <2>h
    <3>. QED
      BY <2>f, <2>h, <3>1 DEF Fails
  <2>i. ASSUME at \in DOMAIN Program, Program[at] \in Calls,
               FailsWith(Nothing) \/ Succeeds(Nothing), made' \subseteq made,
               objects' = objects, ~Shown
        PROVE  KnowsWhatItMade'
    <3>1. CASE ~Past(Posts)
      BY <2>b, <2>f, <2>i, <3>1
    <3>2. CASE Past(Posts)
      <4>1. Target = answer.id /\ made \subseteq {Target}
        BY <2>b, <2>e, <2>i, <3>2
      <4>2. CASE Target \in Ids
        <5>1. objects'[Target] = None
          BY <1>a, <2>i, <4>2, ShownIsLive
        <5>2. Target \notin made'
          BY <5>1 DEF MadeIsLive, Live
        <5>. QED
          BY <2>f, <2>i, <4>1, <5>2
      <4>3. CASE Target \notin Ids
        <5>1. made' = {}
          BY <2>i, <4>1, <4>3 DEF TypeOK, RemoteOK
        <5>. QED
          BY <2>f, <2>i, <5>1
      <4>. QED
        BY <4>2, <4>3
    <3>. QED
      BY <3>1, <3>2
  <2>2. ASSUME NEW i \in Ids, Upsert(i) \/ Put(i) \/ Delete(i) PROVE KnowsWhatItMade'
    <3>1. /\ at \in DOMAIN Program /\ Program[at] \in Calls
          /\ Program[at] \notin Posts /\ Program[at] \notin R
      BY <2>2, <2>d DEF Upsert, Put, Delete, At, Calls, Writes, Posts, Deletes, Looks, Adoption
    <3>2. made' \subseteq made /\ (Target # None => i = Target)
      BY <2>2 DEF Upsert, Put, Delete, Upserts, Overwrites, Removes, One
    <3>3. CASE Answers(i)
      BY <2>g, <3>1, <3>2, <3>3 DEF Answers
    <3>4. CASE CallFails
      BY <2>h, <3>1, <3>2, <3>4 DEF CallFails
    <3>. QED
      BY <2>2, <3>3, <3>4 DEF Upsert, Put, Delete
  <2>3. ASSUME NEW i \in Ids, UpsertAnyway(i) PROVE KnowsWhatItMade'
    <3>1. /\ at \in DOMAIN Program /\ Program[at] \in Calls
          /\ Program[at] \notin Posts /\ Program[at] \notin R
      BY <2>3, <2>d DEF UpsertAnyway, At, Calls, Writes, Posts, Looks, Adoption
    <3>2. made' \subseteq made /\ (Target # None => i = Target)
      BY <2>3 DEF UpsertAnyway, Upserts, One
    <3>3. CASE Answers(i)
      BY <2>g, <3>1, <3>2, <3>3 DEF Answers
    <3>4. CASE FailsWith([id |-> i, val |-> cfg])
      <4>1. made \subseteq {i}
        BY <2>b, <2>e, <3>1, <3>2
      <4>. QED
        BY <2>f, <3>2, <3>4, <4>1
    <3>. QED
      BY <2>3, <3>3, <3>4 DEF UpsertAnyway
  <2>4. ASSUME NEW i \in Ids, Look(i) PROVE KnowsWhatItMade'
    <3>1. /\ at \in DOMAIN Program /\ Program[at] \in Calls
          /\ Program[at] \notin Posts /\ Program[at] \notin R
      BY <2>4, <2>d DEF Look, At, Calls, Posts, Looks, Adoption
    <3>2. made' \subseteq made /\ (Target # None => i = Target)
      BY <2>4 DEF Look, One, remoteVars
    <3>3. PICK v : Goes(work, [id |-> i, val |-> v])
      BY <2>4 DEF Look
    <3>. QED
      BY <2>g, <3>1, <3>2, <3>3
  <2>5. ASSUME Get PROVE KnowsWhatItMade'
    <3>1. /\ at \in DOMAIN Program /\ Program[at] \in Calls
          /\ Program[at] \notin Posts /\ Program[at] \notin R
      BY <2>5, <2>d DEF Get, At, Calls, Reads, Posts, Looks, Adoption
    <3>. QED
      BY <2>5, <2>g, <3>1 DEF Get, remoteVars
  <2>6. ASSUME Refuse \/ Unreachable PROVE KnowsWhatItMade'
    <3>1. at \in DOMAIN Program /\ Program[at] \in Calls \cup {"error"}
      BY <2>6 DEF Refuse, Refused, Unreachable, At, Calls, Reads, Writes, Posts, Deletes,
         Looks, Adoption
    <3>. QED
      BY <2>6, <2>h, <3>1 DEF Refuse, Unreachable, CallFails, remoteVars
  <2>7. ASSUME Forget PROVE KnowsWhatItMade'
    <3>1. at \in DOMAIN Program /\ Program[at] \in {"get?", "get!", "get~", "expect"}
      BY <2>7 DEF Forget, At
    <3>2. Program[at] \in Calls /\ Program[at] # "get!"
      BY <2>c, <3>1 DEF Calls, Reads, Looks, Adoption
    <3>3. /\ ~Shown /\ objects' = objects /\ made' = made
          /\ FailsWith(Nothing) \/ Succeeds(Nothing)
      BY <2>7, <3>2 DEF Forget, At, remoteVars
    <3>. QED
      BY <2>i, <3>1, <3>2, <3>3
  <2>8. ASSUME Overlook PROVE KnowsWhatItMade'
    <3>1. at \in DOMAIN Program /\ Program[at] \in Calls /\ made' = made /\ Succeeds(work)
      BY <2>8 DEF Overlook, At, Calls, Reads, remoteVars, Looks, Adoption
    <3>2. made \subseteq {work.id}
      BY <2>b, <2>e, <3>1
    <3>. QED
      BY <2>f, <3>1, <3>2
  <2>9. ASSUME Call \/ AlreadyGone \/ Confirm PROVE KnowsWhatItMade'
    <3>1. /\ at \in DOMAIN Program /\ Program[at] \in Calls
          /\ Program[at] \notin Posts /\ Program[at] \notin R
      BY <2>9, <2>d DEF Call, AlreadyGone, Confirm, Skipped, At, Calls, Writes, Posts, Deletes,
         Adoption, Looks
    <3>. QED
      BY <2>9, <2>g, <3>1 DEF Call, AlreadyGone, Confirm, remoteVars
  <2>10. ASSUME Check PROVE KnowsWhatItMade'
    <3>1. at \in DOMAIN Program /\ Program[at] = "check" /\ made' = made
      BY <2>10 DEF Check, At, remoteVars
    <3>2. Program[at] \notin R /\ Program[at] \notin Posts
      BY <2>d, <3>1 DEF Posts
    <3>3. CASE Goes(work, answer)
      BY <2>g, <3>1, <3>2, <3>3
    <3>4. CASE Fails /\ unread' = unread + 1
      <4>1. unread' # 0
        BY <3>4 DEF TypeOK, BoundsOK
      <4>. QED
        BY <2>h, <3>1, <3>4, <4>1
    <3>. QED
      BY <2>10, <3>3, <3>4 DEF Check
  <2>11. ASSUME SetId PROVE KnowsWhatItMade'
    <3>1. at \in DOMAIN Program /\ Program[at] = "id" /\ made' = made
      BY <2>11 DEF SetId, At, remoteVars
    <3>2. [work EXCEPT !.id = answer.id].id = answer.id
      BY DEF TypeOK, RunOK, Response
    <3>3. Program[at] \in R /\ Program[at] \notin Posts
      BY <3>1 DEF Records, Posts
    <3>. QED
      BY <2>11, <2>g, <3>1, <3>2, <3>3 DEF SetId
  <2>12. ASSUME Save PROVE KnowsWhatItMade'
    <3>1. at \in DOMAIN Program /\ Program[at] = "save" /\ made' = made
      BY <2>12 DEF Save, At, remoteVars
    <3>2. [work EXCEPT !.val = answer.val].id = work.id
      BY DEF TypeOK, RunOK, Response
    <3>3. Program[at] \notin Posts /\ (Program[at] \in R <=> handlers.sdk # "v2")
      BY <3>1 DEF Records, Posts
    <3>4. CASE handlers.sdk = "v2"
      BY <2>12, <2>g, <3>1, <3>2, <3>3, <3>4 DEF Save
    <3>5. CASE handlers.sdk # "v2"
      BY <2>12, <2>g, <3>1, <3>3, <3>5 DEF Save
    <3>. QED
      BY <3>4, <3>5
  <2>13. ASSUME SavePlan PROVE KnowsWhatItMade'
    <3>1. at \in DOMAIN Program /\ Program[at] = "savePlan" /\ made' = made
      BY <2>13 DEF SavePlan, At, remoteVars
    <3>2. Program[at] \notin Posts /\ (Program[at] \in R <=> handlers.sdk # "v2")
      BY <3>1 DEF Records, Posts
    <3>3. CASE handlers.sdk = "v2"
      BY <2>13, <2>g, <3>1, <3>2, <3>3 DEF SavePlan
    <3>4. CASE handlers.sdk # "v2"
      BY <2>13, <2>g, <3>1, <3>2, <3>4 DEF SavePlan, Target
    <3>. QED
      BY <3>3, <3>4
  <2>14. ASSUME Return PROVE KnowsWhatItMade'
    <3>1. made \subseteq {work.id}
      <4>1. Past(Posts) => Past(R)
        BY <1>a, <1>2, <2>14, CreateEnd DEF Return
      <4>. QED
        BY <2>b, <4>1
    <3>. QED
      BY <2>14, <2>f, <3>1 DEF Return, remoteVars
  <2>15. ASSUME Refresh \/ PlanAndApply \/ Destroy PROVE FALSE
    BY <1>2, <2>15 DEF Refresh, PlanAndApply, Destroy
  <2>16. ASSUME NEW i \in Ids, Import(i) PROVE FALSE
    BY <1>2, <2>16 DEF Import
  <2>17. ASSUME UNCHANGED <<handlers, doing, at, work, answer, st>>, made' \subseteq made
         PROVE  KnowsWhatItMade'
    <3>1. Past(Posts)' = Past(Posts) /\ Past(R)' = Past(R)
      BY <1>b, <2>17 DEF Past, Program
    <3>. QED
      BY <1>2, <1>b, <2>b, <2>17, <3>1 DEF KnowsWhatItMade
  <2>18. ASSUME NEW i \in Ids, UiEdit(i) \/ UiCreate(i) \/ UiDelete(i) PROVE KnowsWhatItMade'
    BY <2>17, <2>18 DEF UiEdit, UiCreate, UiDelete
  <2>19. ASSUME Appear \/ (\E v \in Values : EditConfig(v)) \/ UNCHANGED vars
         PROVE  KnowsWhatItMade'
    BY <2>17, <2>19 DEF Appear, EditConfig, vars, remoteVars
  <2>. QED
    BY <2>1, <2>2, <2>3, <2>4, <2>5, <2>6, <2>7, <2>8, <2>9, <2>10, <2>11, <2>12, <2>13,
       <2>14, <2>15, <2>16, <2>18, <2>19, <2>20 DEF Next, Terraform, World, Handle
<1>. QED
  BY <1>1, <1>2

\* No object stays behind outside the state, for every type whose handlers are
\* careful and objects that Datadog shows at once.
THEOREM OrphansSafe ==
    ASSUME Patient = {},
           \A h \in Handlers \ (Loses \cup Keeps \cup Drops) :
               CreatesCarefully(h) /\ KeepsCarefully(h)
    PROVE  Spec => []NoOrphans
<1> DEFINE Inv == /\ TypeOK /\ PromptIsShown /\ KnowsItsObject
                  /\ MadeIsLive /\ KnowsWhatItMade
<1>1. Init => Inv
  BY TypeInit, Zenon DEF Init, PromptIsShown, KnowsItsObject, MadeIsLive, KnowsWhatItMade
<1>2. Inv /\ [Next]_vars => Inv'
  BY TypeStep, KnowsStep, PromptStep, MadeStep, MadeKnownStep
<1>3. Inv => NoOrphans
  BY DEF NoOrphans, Prompt, AtRest, KnowsWhatItMade, TypeOK, BoundsOK
<1>. QED
  BY <1>1, <1>2, <1>3, PTL DEF Spec

-----------------------------------------------------------------------------
(* What a run reports is so                                                *)

\* What a careful handler does at a step, and what it has done before.
LEMMA TrueStep ==
    ASSUME TypeOK, SettlesCarefully(handlers), at \in DOMAIN Program
    PROVE  /\ doing = "create" \/ (doing = "update" /\ handlers.update # <<"replace">>) =>
                 /\ Program[at] \notin Deletes \cup Adoption \cup {"get!", "claim"}
                 /\ Program[at] \in {"get?", "get~"} => Past(Changes)
                 /\ Program[at] = "id" => Past(Answering)
                 /\ handlers.sdk = "v2" => /\ Program[at] # "glance"
                                           /\ Program[at] = "save" => Past(Changes)
           /\ doing = "create" /\ Program[at] \in Posts => ~Past(Records(handlers))
           /\ doing = "update" /\ handlers.update # <<"replace">> => Program[at] \notin Posts
           /\ doing = "read" =>
                 /\ Program[at] \notin Writes \cup Adoption \cup {"get~", "savePlan"}
                 /\ Program[at] \in {"id", "save"} => Past(Answering)
<1>1. /\ DOMAIN Program = 1..Len(Program) /\ at \in 1..Len(Program) /\ Len(Program) \in Nat
      /\ \A j \in 1..(at - 1) : j \in DOMAIN Program /\ j < at
      /\ \A j \in DOMAIN Program : j < at => j \in 1..at
  <2>1. DOMAIN Program = 1..Len(Program) /\ Len(Program) \in Nat
    BY ProgramIsSeq DEF TypeOK, Program
  <2>. QED
    BY <2>1
<1>2. \A S : (\E j \in 1..(at - 1) : Program[j] \in S) => Past(S)
  BY <1>1 DEF Past
<1>3. ASSUME WritesTruly(handlers, Program)
      PROVE  /\ Program[at] \notin Deletes \cup Adoption \cup {"get!", "claim"}
             /\ Program[at] \in {"get?", "get~"} => Past(Changes)
             /\ Program[at] = "id" => Past(Answering)
             /\ handlers.sdk = "v2" => /\ Program[at] # "glance"
                                       /\ Program[at] = "save" => Past(Changes)
  BY <1>2, <1>3 DEF WritesTruly
<1>4. CASE doing = "create"
  <2>1. Program = handlers.create
    BY <1>4 DEF Program, ProgramOf
  <2>2. ASSUME Program[at] \in Posts PROVE ~Past(Records(handlers))
    <3>1. at \in Unrecorded(handlers)
      BY <2>1, <2>2 DEF SettlesCarefully
    <3>2. \A j \in 1..at : Program[j] \notin Records(handlers)
      BY <2>1, <3>1 DEF Unrecorded
    <3>. QED
      BY <1>1, <3>2 DEF Past
  <2>. QED
    BY <1>3, <1>4, <2>1, <2>2 DEF SettlesCarefully
<1>5. CASE doing = "update" /\ handlers.update # <<"replace">>
  <2>1. Program = handlers.update
    BY <1>5 DEF Program, ProgramOf
  <2>. QED
    BY <1>3, <1>5, <2>1 DEF SettlesCarefully
<1>6. CASE doing = "read"
  <2>1. Program = handlers.read
    BY <1>6 DEF Program, ProgramOf
  <2>. QED
    BY <1>2, <1>6, <2>1 DEF SettlesCarefully, ReadsTruly
<1>. QED
  BY <1>4, <1>5, <1>6

\* What a handler has done when it returns.
LEMMA TrueEnd ==
    ASSUME TypeOK, SettlesCarefully(handlers), at = Len(Program) + 1
    PROVE  /\ doing = "create" \/ (doing = "update" /\ handlers.update # <<"replace">>) =>
                 Past(Changes)
           /\ doing = "create" /\ handlers.sdk = "v2" => Past({"id", "error"})
           /\ doing = "read" => Past({"save", "error"})
<1>1. CASE doing = "create"
  <2>1. Program = handlers.create
    BY <1>1 DEF Program, ProgramOf
  <2>2. PICK k \in DOMAIN Program : Program[k] \in Changes
    BY <2>1 DEF SettlesCarefully, WritesTruly
  <2>3. handlers.sdk = "v2" => \E j \in DOMAIN Program : Program[j] \in {"id", "error"}
    BY <2>1 DEF SettlesCarefully
  <2>. QED
    BY <1>1, <2>2, <2>3, PastEnd
<1>2. CASE doing = "update" /\ handlers.update # <<"replace">>
  <2>1. Program = handlers.update
    BY <1>2 DEF Program, ProgramOf
  <2>2. PICK k \in DOMAIN Program : Program[k] \in Changes
    BY <1>2, <2>1 DEF SettlesCarefully, WritesTruly
  <2>. QED
    BY <1>2, <2>2, PastEnd
<1>3. CASE doing = "read"
  <2>1. Program = handlers.read
    BY <1>3 DEF Program, ProgramOf
  <2>2. PICK k \in DOMAIN Program : Program[k] \in {"save", "error"}
    BY <2>1 DEF SettlesCarefully, ReadsTruly
  <2>. QED
    BY <1>3, <2>2, PastEnd
<1>. QED
  BY <1>1, <1>2, <1>3

\* What a step has to do to the response w and the answer r.
LEMMA GoesTruly ==
    ASSUME TypeOK, KnowsWhatIsThere, handlers' = handlers, cfg' = cfg,
           at \in DOMAIN Program, NEW w, NEW r, Goes(w, r),
           r.id # None \/ (r = answer /\ Program[at] \notin Answering),
           SettlesCarefully(handlers) /\ lags' = 0 /\ ~disturbed' =>
              /\ lags = 0 /\ ~disturbed
              /\ doing \in {"create", "update"} =>
                    /\ doing = "create" /\ Program[at] \notin Records(handlers) => w.id = work.id
                    /\ handlers.sdk = "v2" =>
                          /\ w.val = cfg
                          /\ w.id = work.id \/ w.id # None
                          /\ Program[at] \in {"id", "error"} => w.id # None
                          /\ Past(Changes) \/ Program[at] \in Changes => r.val = cfg
                    /\ Past(Changes) \/ Program[at] \in Changes =>
                          /\ r.id # None /\ objects'[r.id] = cfg
                          /\ w.id # None => objects'[w.id] = cfg
              /\ doing = "read" =>
                    /\ w.id # None
                    /\ r.id # None => /\ r.id = w.id
                                      /\ r.val \in {None, objects'[w.id]}
                    /\ Past({"save", "error"}) \/ Program[at] \in {"save", "error"} =>
                          w.val \in {None, objects'[w.id]}
    PROVE  KnowsWhatIsThere'
<1>1. /\ Past(Answering)' <=> Past(Answering) \/ Program[at] \in Answering
      /\ Past(Changes)' <=> Past(Changes) \/ Program[at] \in Changes
      /\ Past({"id", "error"})' <=> Past({"id", "error"}) \/ Program[at] \in {"id", "error"}
      /\ Past({"save", "error"})' <=> Past({"save", "error"}) \/ Program[at] \in {"save", "error"}
  BY PastGoes DEF Goes
<1>2. doing' = doing /\ st' = st /\ work' = w /\ answer' = r /\ outcome' = outcome
  BY DEF Goes
<1>3. Past(Records(handlers))' <=> Past(Records(handlers)) \/ Program[at] \in Records(handlers)
  <2>1. CASE handlers.sdk = "v2"
    <3>1. Records(handlers) = {"id"} /\ Records(handlers)' = {"id"}
      BY <2>1 DEF Records
    <3>2. Past({"id"})' <=> Past({"id"}) \/ Program[at] \in {"id"}
      BY PastGoes DEF Goes
    <3>. QED
      BY <3>1, <3>2 DEF Past
  <2>2. CASE handlers.sdk # "v2"
    <3>1. /\ Records(handlers) = {"id", "save", "savePlan"}
          /\ Records(handlers)' = {"id", "save", "savePlan"}
      BY <2>2 DEF Records
    <3>2. Past({"id", "save", "savePlan"})'
             <=> Past({"id", "save", "savePlan"}) \/ Program[at] \in {"id", "save", "savePlan"}
      BY PastGoes DEF Goes
    <3>. QED
      BY <3>1, <3>2 DEF Past
  <2>. QED
    BY <2>1, <2>2
<1>4. AnswersForOne'
  BY <1>1, <1>2 DEF KnowsWhatIsThere, AnswersForOne
<1>5. ASSUME SettlesCarefully(handlers), lags' = 0, ~disturbed'
      PROVE  WriteIsKnown' /\ ReadIsKnown' /\ SettledIsTrue'
  <2>1. WriteIsKnown /\ ReadIsKnown /\ SettledIsTrue /\ lags = 0 /\ ~disturbed
    BY <1>5 DEF KnowsWhatIsThere
  <2>2. WriteIsKnown'
    <3>1. CASE doing \in {"create", "update"}
      BY <1>1, <1>2, <1>3, <1>5, <2>1, <3>1 DEF WriteIsKnown
    <3>2. CASE doing \notin {"create", "update"}
      BY <1>2, <3>2 DEF WriteIsKnown
    <3>. QED
      BY <3>1, <3>2
  <2>3. doing \notin {"idle", "refreshed"}
    BY DEF Program, ProgramOf
  <2>4. ReadIsKnown'
    BY <1>1, <1>2, <1>5, <2>3 DEF ReadIsKnown
  <2>5. SettledIsTrue'
    BY <1>2, <2>3 DEF SettledIsTrue
  <2>. QED
    BY <2>2, <2>4, <2>5
<1>6. SettlesCarefully(handlers)' <=> SettlesCarefully(handlers)
  BY DEF SettlesCarefully, Unrecorded, Records, WritesTruly, ReadsTruly
<1>. QED
  BY <1>4, <1>5, <1>6 DEF KnowsWhatIsThere

\* Nothing is behind Terraform between two handlers.
LEMMA PastRest ==
    ASSUME doing' \in {"idle", "refreshed"}, NEW CONSTANT S
    PROVE  ~Past(S)'
<1>1. Program' = <<>> /\ DOMAIN <<>> = {}
  BY DEF Program, ProgramOf
<1>. QED
  BY <1>1 DEF Past

\* Where a handler ends, nothing is claimed but of what Terraform reports.
LEMMA RestTruly ==
    ASSUME doing' \in {"idle", "refreshed"},
           SettlesCarefully(handlers') /\ lags' = 0 /\ ~disturbed' =>
              /\ doing' = "refreshed" /\ st'.id # None => st'.val \in {None, objects'[st'.id]}
              /\ doing' = "idle" /\ outcome' \in {"applied", "no changes"} =>
                    st'.id # None /\ objects'[st'.id] = cfg' /\ st'.val = cfg'
    PROVE  KnowsWhatIsThere'
<1>1. AnswersForOne'
  BY PastRest DEF AnswersForOne
<1>2. SettlesCarefully(handlers') <=> SettlesCarefully(handlers)'
  BY DEF SettlesCarefully, Unrecorded, Records, WritesTruly, ReadsTruly
<1>3. WriteIsKnown'
  BY DEF WriteIsKnown
<1>4. SettlesCarefully(handlers)' /\ lags' = 0 /\ ~disturbed' => ReadIsKnown' /\ SettledIsTrue'
  BY <1>2 DEF ReadIsKnown, SettledIsTrue
<1>. QED
  BY <1>1, <1>3, <1>4 DEF KnowsWhatIsThere

LEMMA FailsTruly ==
    ASSUME NEW w, FailsWith(w)
    PROVE  KnowsWhatIsThere'
<1>1. doing' = "idle" /\ outcome' = "error"
  BY DEF FailsWith, Finish
<1>. QED
  BY <1>1, RestTruly

LEMMA StartTruly ==
    ASSUME TypeOK', handlers' = handlers, cfg' = cfg, at' = 1, answer' = Nothing,
           doing' \in {"read", "import", "create", "update", "replace", "delete"},
           doing' \in {"read", "update"} => work'.id # None,
           doing' = "update" => handlers.update # <<"replace">>,
           doing' = "create" => work'.id = None,
           doing' \in {"create", "update"} /\ handlers.sdk = "v2" => work'.val = cfg
    PROVE  KnowsWhatIsThere'
<1>1. /\ ~Past(Answering)' /\ ~Past(Changes)' /\ ~Past({"id", "error"})'
      /\ ~Past({"save", "error"})'
  BY PastStart
<1>2. AnswersForOne'
  BY <1>1 DEF AnswersForOne
<1>3. WriteIsKnown'
  BY <1>1 DEF WriteIsKnown
<1>4. ReadIsKnown' /\ SettledIsTrue'
  BY <1>1 DEF ReadIsKnown, SettledIsTrue, Nothing
<1>. QED
  BY <1>2, <1>3, <1>4 DEF KnowsWhatIsThere

\* A handler that ends with w, for its reason: all its steps are done, or Datadog
\* did not show the object.
LEMMA EndsTruly ==
    ASSUME TypeOK, TypeOK', KnowsWhatIsThere, lags' = lags,
           UNCHANGED <<handlers, cfg, objects, disturbed>>,
           doing \notin {"idle", "refreshed"}, NEW w, Succeeds(w),
           SettlesCarefully(handlers) /\ lags = 0 /\ ~disturbed =>
              /\ doing = "read" /\ w.id # None => w.val \in {None, objects[w.id]}
              /\ doing \in {"create", "update"} =>
                    \/ handlers.sdk = "framework" /\ w.id = None
                    \/ /\ handlers.sdk = "v2" => w.id # None /\ w.val = cfg
                       /\ w.id # None => objects[w.id] = cfg
    PROVE  KnowsWhatIsThere'
<1>0. doing \in {"read", "import", "create", "update", "delete", "replace"}
  BY DEF TypeOK, RunOK
<1>s. handlers.sdk \in {"v2", "framework"}
  BY HandlersAssumption DEF TypeOK, HandlerSets
<1>1. CASE doing = "read"
  <2>1. st' = InState(st.status, w) /\ doing' = "refreshed"
    BY <1>1 DEF Succeeds, Finish
  <2>2. st'.id # None => st'.id = w.id /\ st'.val = w.val /\ w.id # None
    BY <2>1 DEF InState, NoState
  <2>. QED
    BY <1>1, <2>1, <2>2, RestTruly
<1>2. CASE doing = "import"
  <2>1. doing' = "idle" /\ outcome' = "none"
    BY <1>2 DEF Succeeds, Finish
  <2>. QED
    BY <2>1, RestTruly
<1>3. CASE doing \in {"create", "update"}
  <2>1. CASE handlers.sdk = "framework" /\ (w.id = None \/ w.val # cfg)
    <3>1. doing' = "idle" /\ outcome' = "error"
      BY <1>3, <2>1 DEF Succeeds, Finish
    <3>. QED
      BY <3>1, RestTruly
  <2>2. CASE ~(handlers.sdk = "framework" /\ (w.id = None \/ w.val # cfg))
    <3>1. st' = InState("ok", w) /\ doing' = "idle"
      BY <1>3, <2>2 DEF Succeeds, Finish
    <3>2. SettlesCarefully(handlers) /\ lags = 0 /\ ~disturbed =>
             w.id # None /\ w.val = cfg /\ objects[w.id] = cfg
      BY <1>3, <1>s, <2>2
    <3>3. w.id # None => st'.id = w.id /\ st'.val = w.val
      BY <3>1 DEF InState
    <3>. QED
      BY <3>1, <3>2, <3>3, RestTruly
  <2>. QED
    BY <2>1, <2>2
<1>4. CASE doing = "delete"
  <2>1. doing' = "idle" /\ outcome' = "destroyed"
    BY <1>4 DEF Succeeds, Finish
  <2>. QED
    BY <2>1, RestTruly
<1>5. CASE doing = "replace"
  <2>1. Start("create")
    BY <1>5 DEF Succeeds
  <2>2. work'.id = None /\ (handlers.sdk = "v2" => work'.val = cfg)
    BY <1>s, <2>1 DEF Start, Prepared, Nothing
  <2>. QED
    BY <2>1, <2>2, StartTruly DEF Start
<1>. QED
  BY <1>0, <1>1, <1>2, <1>3, <1>4, <1>5

LEMMA ThereStep ==
    ASSUME TypeOK, TypeOK', PromptIsShown, KnowsWhatIsThere, [Next]_vars
    PROVE  KnowsWhatIsThere'
<1>. DEFINE Ok == SettlesCarefully(handlers) /\ lags' = 0 /\ ~disturbed'
            Writing == doing \in {"create", "update"}
<1>a. /\ Ok => lags = 0 /\ hidden = {}
      /\ doing \in {"idle", "refreshed", "read", "import", "create", "update", "replace",
                    "delete"}
      /\ handlers.sdk \in {"v2", "framework"}
      /\ cfg # None /\ DOMAIN objects = Ids /\ None \notin Ids
      /\ AnswersForOne
  BY StepFrame, HandlersAssumption, ValuesAssumption
     DEF TypeOK, RunOK, RemoteOK, HandlerSets, KnowsWhatIsThere
<1>b. SettlesCarefully(handlers) /\ lags = 0 /\ ~disturbed =>
         WriteIsKnown /\ ReadIsKnown /\ SettledIsTrue
  BY DEF KnowsWhatIsThere
<1>c. SettlesCarefully(handlers) /\ lags = 0 /\ ~disturbed /\ at \in DOMAIN Program =>
         /\ Writing =>
               /\ Program[at] \notin Deletes \cup Adoption \cup {"get!", "claim"}
               /\ Program[at] \in {"get?", "get~"} => Past(Changes)
               /\ Program[at] = "id" => Past(Answering)
               /\ handlers.sdk = "v2" => /\ Program[at] # "glance"
                                         /\ Program[at] = "save" => Past(Changes)
               /\ Program[at] \in Posts => work.id = None
         /\ doing = "read" =>
               /\ Program[at] \notin Writes \cup Adoption \cup {"get~", "savePlan"}
               /\ Program[at] \in {"id", "save"} => Past(Answering)
  BY <1>b, TrueStep DEF WriteIsKnown
<1>. HIDE DEF Ok
<1>d. ASSUME NEW i \in Ids,
             at \in DOMAIN Program /\ Program[at] \in Writes \ Deletes,
             UNCHANGED <<handlers, cfg, disturbed>>,
             objects' = [objects EXCEPT ![i] = cfg],
             Program[at] \notin Posts => (Target # None => i = Target),
             Answers(i)
      PROVE  KnowsWhatIsThere'
  <2>1. Goes(work, [id |-> i, val |-> cfg])
    BY <1>a, <1>d DEF Answers
  <2>2. ASSUME Ok, Writing, work.id # None PROVE i = work.id
    <3>1. Program[at] \notin Posts
      BY <1>a, <1>c, <1>d, <2>2 DEF Ok
    <3>. QED
      BY <1>d, <2>2, <3>1 DEF Target
  <2>3. objects'[i] = cfg
    BY <1>a, <1>d
  <2>4. i # None /\ Program[at] # "id" /\ Program[at] # "error"
    BY <1>a, <1>d DEF Writes, Posts
  <2>5. Ok => doing # "read"
    BY <1>a, <1>c, <1>d DEF Ok
  <2>6. Ok /\ Writing /\ handlers.sdk = "v2" => work.val = cfg
    BY <1>a, <1>b, <1>d DEF Ok, WriteIsKnown
  <2>. QED
    BY <1>a, <1>d, <2>1, <2>2, <2>3, <2>4, <2>5, <2>6, GoesTruly DEF Ok
\* Nothing is claimed of a handler that adopts an object that has the name.
<1>k. ASSUME at \in DOMAIN Program, Program[at] \in {"claim"} \cup Adoption, NEW r,
             Goes(work, r), UNCHANGED <<handlers, cfg, disturbed>>,
             r.id # None \/ (r = answer /\ Program[at] \notin Answering)
      PROVE  KnowsWhatIsThere'
  <2>1. "claim" \in Writes
    BY DEF Writes, Posts
  <2>2. Ok => ~Writing /\ doing # "read" /\ lags = 0 /\ ~disturbed
    BY <1>a, <1>c, <1>k, <2>1 DEF Ok
  <2>. QED
    BY <1>a, <1>k, <2>2, GoesTruly DEF Ok
<1>1. ASSUME NEW i \in Ids, Post(i) PROVE KnowsWhatIsThere'
  <2>1. CASE Answers(i)
    <3>1. at \in DOMAIN Program /\ Program[at] \in Posts /\ Posts \subseteq Writes \ Deletes
      BY <1>1 DEF Post, At, Posts, Writes, Deletes
    <3>. QED
      BY <1>1, <1>d, <2>1, <3>1 DEF Post, Creates, Same
  <2>. QED
    BY <1>1, <2>1, FailsTruly DEF Post, CallFails, Fails
<1>2. ASSUME NEW i \in Ids, Upsert(i) PROVE KnowsWhatIsThere'
  <2>1. CASE Answers(i)
    <3>1. at \in DOMAIN Program /\ Program[at] = "upsert" /\ "upsert" \in Writes \ Deletes
      BY <1>2 DEF Upsert, At, Writes, Deletes
    <3>. QED
      BY <1>2, <1>d, <2>1, <3>1 DEF Upsert, Upserts, One, Same
  <2>. QED
    BY <1>2, <2>1, FailsTruly DEF Upsert, CallFails, Fails
<1>3. ASSUME NEW i \in Ids, UpsertAnyway(i) PROVE KnowsWhatIsThere'
  <2>1. CASE Upserts(i) /\ Answers(i)
    <3>1. at \in DOMAIN Program /\ Program[at] = "upsert!" /\ "upsert!" \in Writes \ Deletes
      BY <1>3 DEF UpsertAnyway, At, Writes, Deletes
    <3>. QED
      BY <1>3, <1>d, <2>1, <3>1 DEF UpsertAnyway, Upserts, One, Same
  <2>. QED
    BY <1>3, <2>1, FailsTruly DEF UpsertAnyway
<1>4. ASSUME NEW i \in Ids, Put(i) PROVE KnowsWhatIsThere'
  <2>1. CASE Answers(i)
    <3>1. at \in DOMAIN Program /\ Program[at] \in {"put", "takeOver"}
      BY <1>4 DEF Put, At
    <3>2. CASE Program[at] = "put"
      <4>1. "put" \in Writes \ Deletes
        BY DEF Writes, Deletes
      <4>. QED
        BY <1>4, <1>d, <2>1, <3>1, <3>2, <4>1 DEF Put, Overwrites, Same
    <3>3. CASE Program[at] = "takeOver"
      <4>1. i # None /\ Goes(work, [id |-> i, val |-> objects'[i]])
        BY <1>a, <2>1 DEF Answers
      <4>. QED
        BY <1>4, <1>k, <3>1, <3>3, <4>1 DEF Put, Same, Adoption
    <3>. QED
      BY <3>1, <3>2, <3>3
  <2>. QED
    BY <1>4, <2>1, FailsTruly DEF Put, CallFails, Fails
<1>5. ASSUME NEW i \in Ids, Delete(i) PROVE KnowsWhatIsThere'
  <2>1. CASE Answers(i)
    <3>1. at \in DOMAIN Program /\ Program[at] \in Deletes /\ Deletes \subseteq Writes
      BY <1>5 DEF Delete, At, Writes
    <3>2. Goes(work, [id |-> i, val |-> objects'[i]])
      BY <2>1 DEF Answers
    <3>3. Ok => ~Writing /\ doing # "read" /\ ~disturbed
      BY <1>5, <1>a, <1>c, <3>1 DEF Ok, Delete, Same
    <3>. QED
      BY <1>5, <1>a, <3>1, <3>2, <3>3, GoesTruly DEF Delete, Same, Ok
  <2>. QED
    BY <1>5, <2>1, FailsTruly DEF Delete, CallFails, Fails
\* The object of a handler that looks at it, and what is there.
<1>e. ASSUME SettlesCarefully(handlers), lags = 0, ~disturbed
      PROVE  /\ Writing /\ Past(Changes) => Target # None /\ objects[Target] = cfg
             /\ doing = "read" => Target = work.id /\ Target # None
  <2>1. Writing /\ Past(Changes) => Target # None /\ objects[Target] = cfg
    BY <1>b, <1>e DEF WriteIsKnown, Target
  <2>2. doing = "read" => Target = work.id /\ Target # None
    BY <1>b, <1>e DEF ReadIsKnown, Target
  <2>. QED
    BY <2>1, <2>2
<1>f. ASSUME NEW i \in Ids, NEW v,
             at \in DOMAIN Program /\ Program[at] \in Reads \cup Looks,
             UNCHANGED <<handlers, cfg, disturbed, objects>>,
             Target # None => i = Target,
             Goes(work, [id |-> i, val |-> v]),
             v = objects[i] \/ (Program[at] = "glance" /\ v = None)
      PROVE  KnowsWhatIsThere'
  <2>1. i # None /\ Program[at] \notin {"id", "error", "save"} \cup Changes
    BY <1>a, <1>f DEF Changes, Writes, Posts, Deletes, Reads, Looks
  <2>2. ASSUME Ok, Writing
        PROVE  /\ handlers.sdk = "v2" => /\ work.val = cfg
                                         /\ Past(Changes) => v = cfg
               /\ Past(Changes) => /\ objects[i] = cfg
                                   /\ work.id # None => objects[work.id] = cfg
    <3>1. SettlesCarefully(handlers) /\ lags = 0 /\ ~disturbed
      BY <1>a, <1>f, <2>2 DEF Ok
    <3>2. Past(Changes) => objects[i] = cfg
      BY <1>e, <1>f, <2>2, <3>1
    <3>3. handlers.sdk = "v2" => v = objects[i]
      BY <1>c, <1>f, <2>2, <3>1
    <3>. QED
      BY <1>b, <2>2, <3>1, <3>2, <3>3 DEF WriteIsKnown
  <2>3. ASSUME Ok, doing = "read"
        PROVE  /\ work.id # None /\ i = work.id /\ v \in {None, objects[work.id]}
               /\ Past({"save", "error"}) => work.val \in {None, objects[work.id]}
    <3>1. SettlesCarefully(handlers) /\ lags = 0 /\ ~disturbed
      BY <1>a, <1>f, <2>3 DEF Ok
    <3>2. i = work.id
      BY <1>e, <1>f, <2>3, <3>1
    <3>. QED
      BY <1>b, <1>f, <2>3, <3>1, <3>2 DEF ReadIsKnown
  <2>. QED
    BY <1>a, <1>f, <2>1, <2>2, <2>3, GoesTruly DEF Ok
<1>6. ASSUME NEW i \in Ids, Look(i) PROVE KnowsWhatIsThere'
  <2>1. at \in DOMAIN Program /\ Program[at] \in Looks
    BY <1>6 DEF Look, At
  <2>2. PICK v : /\ Goes(work, [id |-> i, val |-> v])
                 /\ v = objects[i] \/ (Program[at] = "glance" /\ v = None)
    BY <1>6 DEF Look, At
  <2>. QED
    BY <1>6, <1>f, <2>1, <2>2 DEF Look, One, Same, remoteVars
<1>7. ASSUME Get PROVE KnowsWhatIsThere'
  <2>1. at \in DOMAIN Program /\ Program[at] \in Reads /\ Target \in Ids
    BY <1>7 DEF Get, At, Shown, Target, TypeOK, RunOK, Response
  <2>. QED
    BY <1>7, <1>f, <2>1 DEF Get, Same, remoteVars
<1>8. ASSUME Refuse \/ Unreachable PROVE KnowsWhatIsThere'
  BY <1>8, FailsTruly DEF Refuse, Unreachable, CallFails, Fails
\* After a write, the object is shown.
<1>g. ASSUME ~Shown, Ok, UNCHANGED <<handlers, cfg, disturbed>>, Writing
      PROVE  ~Past(Changes)
  <2>1. SUFFICES ASSUME Past(Changes) PROVE FALSE
    OBVIOUS
  <2>2. SettlesCarefully(handlers) /\ lags = 0 /\ ~disturbed /\ hidden = {}
    BY <1>a, <1>g DEF Ok
  <2>3. Target # None /\ objects[Target] = cfg
    BY <1>e, <1>g, <2>1, <2>2
  <2>. QED
    BY <1>a, <1>g, <2>2, <2>3 DEF Shown, Live
<1>9. ASSUME Forget PROVE KnowsWhatIsThere'
  <2>1. CASE FailsWith(Nothing)
    BY <2>1, FailsTruly
  <2>2. CASE Succeeds(Nothing) /\ At({"get?", "get!", "get~"}) /\ (At({"get!"}) \/ ~Shown)
    <3>1. at \in DOMAIN Program /\ Program[at] \in {"get?", "get!", "get~"}
          /\ (Program[at] = "get!" \/ ~Shown)
      BY <2>2 DEF At
    <3>2. doing \notin {"idle", "refreshed"}
      BY <3>1 DEF Program, ProgramOf
    <3>3. UNCHANGED <<handlers, cfg, disturbed, objects, lags>>
      BY <1>9 DEF Forget, Same, remoteVars
    <3>4. ASSUME SettlesCarefully(handlers), lags = 0, ~disturbed PROVE ~Writing
      BY <1>c, <1>g, <3>1, <3>3, <3>4 DEF Ok
    <3>. QED
      BY <2>2, <3>2, <3>3, <3>4, EndsTruly DEF Nothing
  <2>. QED
    BY <1>9, <2>1, <2>2 DEF Forget, At
<1>10. ASSUME Overlook PROVE KnowsWhatIsThere'
  <2>1. at \in DOMAIN Program /\ Program[at] = "get~" /\ ~Shown /\ Succeeds(work)
    BY <1>10 DEF Overlook, At
  <2>2. doing \notin {"idle", "refreshed"}
    BY <2>1 DEF Program, ProgramOf
  <2>3. UNCHANGED <<handlers, cfg, disturbed, objects, lags>>
    BY <1>10 DEF Overlook, Same, remoteVars
  <2>4. ASSUME SettlesCarefully(handlers), lags = 0, ~disturbed
        PROVE  ~Writing /\ doing # "read"
    BY <1>c, <1>g, <2>1, <2>3, <2>4 DEF Ok
  <2>. QED
    BY <2>1, <2>2, <2>3, <2>4, EndsTruly
<1>h. ASSUME at \in DOMAIN Program, Program[at] \in {"call", "check", "delete?"},
             Goes(work, answer),
             UNCHANGED <<handlers, cfg, disturbed, objects>>
      PROVE  KnowsWhatIsThere'
  <2>1. Program[at] \notin {"id", "error", "save"} \cup Changes \cup Answering
    BY <1>h DEF Changes, Answering, Writes, Posts, Deletes, Reads, Looks
  <2>2. Ok => WriteIsKnown /\ ReadIsKnown /\ lags = 0 /\ ~disturbed
    BY <1>a, <1>b, <1>h DEF Ok
  <2>3. Ok => WriteIsKnown
    BY <2>2
  <2>. QED
    BY <1>a, <1>h, <2>1, <2>2, GoesTruly DEF Ok, WriteIsKnown, ReadIsKnown
<1>11. ASSUME AlreadyGone \/ Call PROVE KnowsWhatIsThere'
  BY <1>11, <1>h DEF AlreadyGone, Call, At, Same, remoteVars
<1>12. ASSUME Check PROVE KnowsWhatIsThere'
  <2>1. CASE Fails
    BY <2>1, FailsTruly DEF Fails
  <2>2. CASE Goes(work, answer)
    BY <1>12, <1>h, <2>2 DEF Check, At, remoteVars
  <2>. QED
    BY <1>12, <2>1, <2>2 DEF Check
<1>13. ASSUME SetId PROVE KnowsWhatIsThere'
  <2>. DEFINE w == [work EXCEPT !.id = answer.id]
  <2>1. /\ at \in DOMAIN Program /\ Program[at] = "id"
        /\ Goes(w, answer)
        /\ UNCHANGED <<handlers, cfg, disturbed, objects>>
    BY <1>13 DEF SetId, At, Same, remoteVars
  <2>2. w.id = answer.id /\ w.val = work.val
    BY DEF TypeOK, RunOK, Response
  <2>. HIDE DEF w
  <2>3. "id" \notin Changes \cup Answering /\ "id" \in Records(handlers)
    BY DEF Changes, Answering, Writes, Posts, Deletes, Reads, Records, Looks
  <2>4. Ok => /\ WriteIsKnown /\ ReadIsKnown /\ lags = 0 /\ ~disturbed
              /\ SettlesCarefully(handlers)
    BY <1>a, <1>b, <2>1 DEF Ok
  <2>5. Ok /\ (Writing \/ doing = "read") => answer.id # None
    BY <1>a, <1>c, <2>1, <2>4 DEF AnswersForOne
  <2>. QED
    BY <1>a, <2>1, <2>2, <2>3, <2>4, <2>5, GoesTruly DEF Ok, WriteIsKnown, ReadIsKnown
<1>14. ASSUME Save PROVE KnowsWhatIsThere'
  <2>. DEFINE w == [work EXCEPT !.val = answer.val]
  <2>1. /\ at \in DOMAIN Program /\ Program[at] = "save"
        /\ Goes(IF handlers.sdk = "v2" THEN w ELSE answer, answer)
        /\ UNCHANGED <<handlers, cfg, disturbed, objects>>
    BY <1>14 DEF Save, At, Same, remoteVars
  <2>2. w.id = work.id /\ w.val = answer.val
    BY DEF TypeOK, RunOK, Response
  <2>. HIDE DEF w
  <2>3. /\ "save" \notin Changes \cup Answering
        /\ handlers.sdk # "v2" => "save" \in Records(handlers)
    BY DEF Changes, Answering, Writes, Posts, Deletes, Reads, Records, Looks
  <2>4. Ok => /\ WriteIsKnown /\ ReadIsKnown /\ lags = 0 /\ ~disturbed
              /\ SettlesCarefully(handlers)
    BY <1>a, <1>b, <2>1 DEF Ok
  <2>5. Ok /\ doing = "read" => answer.id # None
    BY <1>a, <1>c, <2>1, <2>4 DEF AnswersForOne
  <2>6. Ok /\ Writing /\ handlers.sdk = "v2" => Past(Changes)
    BY <1>c, <2>1, <2>4
  <2>7. CASE handlers.sdk = "v2"
    BY <1>a, <2>1, <2>2, <2>3, <2>4, <2>5, <2>6, <2>7, GoesTruly
       DEF Ok, WriteIsKnown, ReadIsKnown
  <2>8. CASE handlers.sdk # "v2"
    BY <1>a, <2>1, <2>3, <2>4, <2>5, <2>8, GoesTruly DEF Ok, WriteIsKnown, ReadIsKnown
  <2>. QED
    BY <2>7, <2>8
<1>15. ASSUME SavePlan PROVE KnowsWhatIsThere'
  <2>. DEFINE i == IF handlers.sdk = "v2" THEN work.id ELSE Target
              w == [id |-> i, val |-> cfg]
  <2>1. /\ at \in DOMAIN Program /\ Program[at] = "savePlan"
        /\ Goes(w, answer)
        /\ UNCHANGED <<handlers, cfg, disturbed, objects>>
    BY <1>15 DEF SavePlan, At, Same, remoteVars
  <2>2. /\ "savePlan" \notin Changes \cup Answering
        /\ handlers.sdk # "v2" => "savePlan" \in Records(handlers)
    BY DEF Changes, Answering, Writes, Posts, Deletes, Reads, Records, Looks
  <2>3. Ok => /\ WriteIsKnown /\ lags = 0 /\ ~disturbed /\ doing # "read"
    BY <1>a, <1>b, <1>c, <2>1 DEF Ok
  <2>4. i \in {work.id, answer.id} /\ (handlers.sdk = "v2" => i = work.id)
        /\ w.id = i /\ w.val = cfg
    BY DEF Target
  <2>. HIDE DEF w, i
  <2>. QED
    BY <1>a, <2>1, <2>2, <2>3, <2>4, GoesTruly DEF Ok, WriteIsKnown
<1>16. ASSUME Return PROVE KnowsWhatIsThere'
  <2>1. /\ Succeeds(work) /\ at = Len(Program) + 1 /\ doing \notin {"idle", "refreshed"}
        /\ UNCHANGED <<handlers, cfg, disturbed, objects, lags>>
    BY <1>16 DEF Return, Same, remoteVars
  <2>2. ASSUME SettlesCarefully(handlers), lags = 0, ~disturbed
        PROVE  /\ doing = "read" /\ work.id # None => work.val \in {None, objects[work.id]}
               /\ Writing => /\ handlers.sdk = "v2" => work.id # None /\ work.val = cfg
                             /\ work.id # None => objects[work.id] = cfg
    BY <1>b, <2>1, <2>2, TrueEnd DEF WriteIsKnown, ReadIsKnown
  <2>. QED
    BY <2>1, <2>2, EndsTruly
<1>17. ASSUME Refresh PROVE KnowsWhatIsThere'
  <2>1. /\ doing' = "read" /\ at' = 1 /\ answer' = Nothing /\ work' = Prepared("read")
        /\ handlers' = handlers /\ cfg' = cfg /\ st.id # None
    BY <1>17 DEF Refresh, Start
  <2>2. work'.id # None
    BY <2>1 DEF Prepared
  <2>. QED
    BY <2>1, <2>2, StartTruly
<1>18. ASSUME PlanAndApply PROVE KnowsWhatIsThere'
  <2>1. handlers' = handlers /\ cfg' = cfg /\ objects' = objects /\ lags' = lags /\ st' = st
    BY <1>18 DEF PlanAndApply, remoteVars, bounds
  <2>2. ASSUME NEW op \in {"create", "replace", "update"}, Start(op),
               op = "update" => st.id # None /\ handlers.update # <<"replace">>
        PROVE  KnowsWhatIsThere'
    <3>1. doing' = op /\ at' = 1 /\ answer' = Nothing /\ work' = Prepared(op)
      BY <2>2 DEF Start
    <3>2. op = "create" => work'.id = None /\ (handlers.sdk = "v2" => work'.val = cfg)
      BY <1>a, <3>1 DEF Prepared, Nothing
    <3>3. op = "update" => work'.id # None /\ (handlers.sdk = "v2" => work'.val = cfg)
      BY <2>2, <3>1 DEF Prepared
    <3>. QED
      BY <2>1, <2>2, <3>1, <3>2, <3>3, StartTruly
  <2>3. ASSUME Finish("idle", "no changes"), st.status = "ok", st.val = cfg
        PROVE  KnowsWhatIsThere'
    <3>1. doing' = "idle"
      BY <2>3 DEF Finish
    <3>2. st.id # None
      BY <2>3 DEF TypeOK, RunOK
    <3>3. doing = "refreshed" /\ disturbed' = disturbed
      BY <1>18, <3>2 DEF PlanAndApply
    <3>4. SettlesCarefully(handlers) /\ lags = 0 /\ ~disturbed => objects[st.id] = cfg
      BY <1>a, <1>b, <2>3, <3>2, <3>3 DEF ReadIsKnown
    <3>. QED
      BY <2>1, <2>3, <3>1, <3>2, <3>3, <3>4, RestTruly
  <2>4. st.status \in {"none", "ok", "tainted"} /\ (st.id = None <=> st.status = "none")
    BY DEF TypeOK, RunOK, StateEntry
  <2>. QED
    BY <1>18, <2>2, <2>3, <2>4 DEF PlanAndApply
<1>19. ASSUME Destroy \/ \E i \in Ids : Import(i) PROVE KnowsWhatIsThere'
  <2>1. /\ doing' \in {"delete", "import"} /\ at' = 1 /\ answer' = Nothing
        /\ handlers' = handlers /\ cfg' = cfg
    BY <1>19 DEF Destroy, Import, Start
  <2>. QED
    BY <2>1, StartTruly
<1>20. ASSUME UNCHANGED <<handlers, doing, at, work, answer>>, disturbed'
       PROVE  KnowsWhatIsThere'
  <2>1. Past(Answering)' = Past(Answering)
    BY <1>20 DEF Past, Program
  <2>. QED
    BY <1>a, <1>20, <2>1 DEF KnowsWhatIsThere, AnswersForOne
<1>21. ASSUME NEW i \in Ids, UiEdit(i) \/ UiCreate(i) \/ UiDelete(i) PROVE KnowsWhatIsThere'
  BY <1>20, <1>21 DEF UiEdit, UiCreate, UiDelete
<1>22. ASSUME NEW v \in Values, EditConfig(v) PROVE KnowsWhatIsThere'
  <2>1. doing' = "idle" /\ outcome' = "none"
    BY <1>22 DEF EditConfig
  <2>. QED
    BY <2>1, RestTruly
<1>23. ASSUME UNCHANGED <<handlers, cfg, objects, st, doing, at, work, answer, outcome,
                          disturbed, lags>>
       PROVE  KnowsWhatIsThere'
  <2>1. /\ Past(Answering)' = Past(Answering) /\ Past(Changes)' = Past(Changes)
        /\ Past({"id", "error"})' = Past({"id", "error"})
        /\ Past({"save", "error"})' = Past({"save", "error"})
        /\ Past(Records(handlers))' = Past(Records(handlers))
        /\ SettlesCarefully(handlers)' = SettlesCarefully(handlers)
    BY <1>23 DEF Past, Program, Records, SettlesCarefully, Unrecorded, WritesTruly, ReadsTruly
  <2>2. AnswersForOne'
    BY <1>a, <1>23, <2>1 DEF AnswersForOne
  <2>3. (WriteIsKnown <=> WriteIsKnown') /\ (ReadIsKnown <=> ReadIsKnown')
        /\ (SettledIsTrue <=> SettledIsTrue')
    BY <1>23, <2>1 DEF WriteIsKnown, ReadIsKnown, SettledIsTrue
  <2>. QED
    BY <1>b, <1>23, <2>1, <2>2, <2>3 DEF KnowsWhatIsThere
<1>25. ASSUME Conflict PROVE KnowsWhatIsThere'
  <2>1. /\ at \in DOMAIN Program /\ Program[at] = "claim" /\ Name # None
        /\ Goes(work, [id |-> Name, val |-> None]) /\ UNCHANGED <<handlers, cfg, disturbed>>
    BY <1>a, <1>25, NameAssumption DEF Conflict, At, Same
  <2>. QED
    BY <1>k, <2>1
<1>26. ASSUME Confirm PROVE KnowsWhatIsThere'
  <2>1. /\ at \in DOMAIN Program /\ Program[at] \in Adoption /\ Program[at] \notin Answering
        /\ Goes(work, answer) /\ UNCHANGED <<handlers, cfg, disturbed>>
    BY <1>26 DEF Confirm, Skipped, At, Same, Adoption, Answering, Reads, Writes, Posts, Deletes,
       Looks
  <2>. QED
    BY <1>k, <2>1
<1>24. ASSUME Appear \/ UNCHANGED vars PROVE KnowsWhatIsThere'
  BY <1>23, <1>24 DEF Appear, vars, bounds
<1>. QED
  BY <1>1, <1>2, <1>3, <1>4, <1>5, <1>6, <1>7, <1>8, <1>9, <1>10, <1>11, <1>12, <1>13,
     <1>14, <1>15, <1>16, <1>17, <1>18, <1>19, <1>21, <1>22, <1>24, <1>25, <1>26
     DEF Next, Terraform, World, Handle

\* A run that reports success, or that there is nothing to change, leaves an
\* object that is what was configured, for every type whose handlers look at
\* what they write and objects that Datadog shows at once.
THEOREM SettledSafe ==
    ASSUME Patient = {}, \A h \in Handlers \ Blind : SettlesCarefully(h)
    PROVE  Spec => []SettledMeansTrue
<1> DEFINE Inv == TypeOK /\ PromptIsShown /\ KnowsWhatIsThere
<1>1. Init => Inv
  <2>1. SUFFICES ASSUME Init PROVE Inv
    OBVIOUS
  <2>2. TypeOK
    BY <2>1, TypeInit
  <2>3. /\ doing = "idle" /\ answer = Nothing /\ at = 0 /\ outcome = "none" /\ hidden = {}
    BY <2>1 DEF Init
  <2>4. Program = <<>> /\ DOMAIN <<>> = {}
    BY <2>3 DEF Program, ProgramOf
  <2>5. AnswersForOne
    BY <2>4 DEF AnswersForOne, Past
  <2>6. WriteIsKnown /\ ReadIsKnown /\ SettledIsTrue
    BY <2>3 DEF WriteIsKnown, ReadIsKnown, SettledIsTrue
  <2>. QED
    BY <2>2, <2>3, <2>5, <2>6 DEF KnowsWhatIsThere, PromptIsShown
<1>2. Inv /\ [Next]_vars => Inv'
  BY TypeStep, PromptStep, ThereStep
<1>3. Inv => SettledMeansTrue
  BY DEF SettledMeansTrue, Prompt, KnowsWhatIsThere, SettledIsTrue, TypeOK
<1>. QED
  BY <1>1, <1>2, <1>3, PTL DEF Spec
=============================================================================
