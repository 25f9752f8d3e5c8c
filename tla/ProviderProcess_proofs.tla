------------------------ MODULE ProviderProcess_proofs ------------------------
(***************************************************************************)
(* For any number of calls at the same time, in any combination: two       *)
(* handlers of one process write to one account together only when one of  *)
(* them is of a type that locks nothing, a resource is one object unless   *)
(* the client itself sent a request again, plans know which permissions    *)
(* there are, and requests are made with the credentials that were         *)
(* checked.                                                                *)
(***************************************************************************)
EXTENDS ProviderProcess, TLAPS

-----------------------------------------------------------------------------
(* The table of types                                                      *)

\* All types whose objects are parts of one account lock the same mutex, and
\* they lock it before every write that calls Datadog.
Disciplined(t) ==
    /\ t.mutex = t.account
    /\ t.calls \cap Writes \subseteq t.locked

LEMMA SerialIsDisciplined ==
  ASSUME NEW lib, NEW account
  PROVE  Disciplined(Serial(lib, account))
  BY DEF Disciplined, Serial, Writes, Ops

(* Those who lock for less call Datadog for less.                          *)
LEMMA LambdaIsDisciplined == Disciplined(AwsLambdaArn)
  BY DEF Disciplined, Serial, Writes, Ops, AwsLambdaArn

LEMMA EventBridgeIsDisciplined == Disciplined(AwsEventBridge)
  BY DEF Disciplined, Serial, Writes, Ops, AwsEventBridge

LEMMA ExternalIdIsDisciplined == Disciplined(AwsExternalId)
  BY DEF Disciplined, Serial, Writes, Ops, AwsExternalId

LEMMA PagerdutyIsDisciplined == Disciplined(Pagerduty)
  BY DEF Disciplined, Serial, Writes, Ops, Pagerduty

LEMMA WafIsDisciplined ==
    Disciplined(WafCustomRule) /\ Disciplined(WafExclusionFilter)
  BY DEF Disciplined, Serial, Writes, Ops, WafCustomRule, WafExclusionFilter

LEMMA AgentRuleIsDisciplined == Disciplined(CsmThreatsAgentRule)
  BY DEF Disciplined, Serial, Writes, Ops, CsmThreatsAgentRule

LEMMA TypesAreDisciplined == \A t \in SerialTypes : Disciplined(t)
<1>1. /\ Disciplined(AwsAccount) /\ Disciplined(AwsLogCollection)
      /\ Disciplined(AwsTagFilter) /\ Disciplined(Azure) /\ Disciplined(Gcp)
      /\ Disciplined(GcpSts)
  BY SerialIsDisciplined
  DEF AwsAccount, AwsLogCollection, AwsTagFilter, Azure, Gcp, GcpSts
<1>2. /\ Disciplined(PagerdutyService) /\ Disciplined(SlackChannel)
      /\ Disciplined(Webhook) /\ Disciplined(WebhookCustomVariable)
      /\ Disciplined(CsmThreatsPolicy) /\ Disciplined(Suppression)
  BY SerialIsDisciplined
  DEF PagerdutyService, SlackChannel, Webhook, WebhookCustomVariable,
      CsmThreatsPolicy, Suppression
<1>3. /\ Disciplined(NotificationRule) /\ Disciplined(RetentionFilter)
      /\ Disciplined(LogsPipeline) /\ Disciplined(LogsIndex)
      /\ Disciplined(ScannerGroup) /\ Disciplined(ScannerRule)
  BY SerialIsDisciplined
  DEF NotificationRule, RetentionFilter, LogsPipeline, LogsIndex,
      ScannerGroup, ScannerRule
<1> QED
  BY <1>1, <1>2, <1>3, LambdaIsDisciplined, EventBridgeIsDisciplined,
     ExternalIdIsDisciplined, PagerdutyIsDisciplined, WafIsDisciplined,
     AgentRuleIsDisciplined
  DEF SerialTypes

-----------------------------------------------------------------------------
(* The mutexes                                                             *)

\* Who is past the lock of its mutex owns it, and who calls Datadog has a
\* reason to.
OwnerOK(w) ==
    /\ IsPlan(w) => pc[w] \in {"idle", "fetch", "check", "done"}
    /\ pc[w] \in {"wait", "call", "sent"} => task[w].op \in T(w).calls
    /\ pc[w] \in {"call", "sent"} /\ Locks(w) => owner[T(w).mutex] = w

TasksOK ==
    \A w \in Workers :
        \/ IsPlan(w)
        \/ T(w) \in SerialTypes \union UnlockedTypes /\ task[w].op \in Ops

\* What the mutexes guarantee, step by step.
OwnsItsMutex ==
    /\ TasksOK
    /\ DOMAIN pc = Workers
    /\ DOMAIN owner = Mutexes
    /\ \A w \in Workers : OwnerOK(w)

LEMMA OwnsItsMutexAtFirst == Init => OwnsItsMutex
<1> SUFFICES ASSUME Init
             PROVE  OwnsItsMutex
  OBVIOUS
<1>1. TasksOK
  <2>1. PICK s \in Scenarios : task = s.task
    BY DEF Init
  <2> QED
    BY <2>1, ScenarioAssumption DEF TasksOK, IsPlan, T
<1>2. DOMAIN pc = Workers /\ DOMAIN owner = Mutexes
  BY DEF Init
<1>3. ASSUME NEW w \in Workers
      PROVE  OwnerOK(w)
  <2>1. pc[w] = "idle"
    BY DEF Init
  <2> QED
    BY <2>1 DEF OwnerOK
<1> QED
  BY <1>1, <1>2, <1>3 DEF OwnsItsMutex

(* What depends on the tasks alone stays as it is.                         *)
LEMMA TasksStay ==
  ASSUME UNCHANGED task
  PROVE  /\ TasksOK => TasksOK'
         /\ Mutexes' = Mutexes
         /\ \A w \in Workers : /\ IsPlan(w)' <=> IsPlan(w)
                               /\ T(w)' = T(w)
                               /\ Locks(w)' <=> Locks(w)
  BY DEF TasksOK, Mutexes, IsPlan, T, Locks

(* A call whose place and whose mutex stay as they are.                    *)
LEMMA OthersStay ==
  ASSUME UNCHANGED task, NEW v \in Workers, OwnerOK(v), pc'[v] = pc[v],
         ~IsPlan(v) /\ owner[T(v).mutex] = v => owner'[T(v).mutex] = v
  PROVE  OwnerOK(v)'
<1>1. /\ IsPlan(v)' <=> IsPlan(v)
      /\ T(v)' = T(v)
      /\ Locks(v)' <=> Locks(v)
  BY DEF IsPlan, T, Locks
<1>2. pc[v] \in {"call", "sent"} => ~IsPlan(v)
  BY DEF OwnerOK
<1> QED
  BY <1>1, <1>2 DEF OwnerOK

(* A call that ends gives its mutex back and takes nobody else's.          *)
LEMMA EndKeepsOwners ==
  ASSUME OwnsItsMutex, NEW w \in Workers, NEW how, Ends(w, how),
         UNCHANGED task
  PROVE  OwnsItsMutex'
<1>1. /\ DOMAIN pc' = Workers
      /\ pc'[w] = "done"
      /\ \A v \in Workers \ {w} : pc'[v] = pc[v]
  BY DEF Ends, OwnsItsMutex
<1>2. /\ DOMAIN owner' = Mutexes
      /\ \A m \in Mutexes : owner[m] # w => owner'[m] = owner[m]
  BY DEF Ends, Releases, OwnsItsMutex
<1>3. OwnerOK(w)'
  BY <1>1 DEF OwnerOK
<1>4. ASSUME NEW v \in Workers \ {w}
      PROVE  OwnerOK(v)'
  <2>1. ~IsPlan(v) => T(v).mutex \in Mutexes
    BY DEF Mutexes
  <2>2. ~IsPlan(v) /\ owner[T(v).mutex] = v => owner'[T(v).mutex] = v
    BY <1>2, <2>1
  <2>3. OwnerOK(v)
    BY DEF OwnsItsMutex
  <2> QED
    BY <1>1, <2>2, <2>3, OthersStay
<1> QED
  BY <1>1, <1>2, <1>3, <1>4, TasksStay DEF OwnsItsMutex

\* A step of w that changes where it is, and not past a lock.
Moves(w, where) ==
    /\ pc' = [pc EXCEPT ![w] = where]
    /\ UNCHANGED <<task, owner>>
    /\ IsPlan(w) => where \in {"idle", "fetch", "check", "done"}
    /\ where \in {"wait", "call", "sent"} => task[w].op \in T(w).calls
    /\ where \in {"call", "sent"} /\ Locks(w) => owner[T(w).mutex] = w

LEMMA MoveKeepsOwners ==
  ASSUME OwnsItsMutex, NEW w \in Workers, NEW where, Moves(w, where)
  PROVE  OwnsItsMutex'
<1>1. /\ DOMAIN pc' = Workers
      /\ pc'[w] = where
      /\ \A v \in Workers \ {w} : pc'[v] = pc[v]
  BY DEF Moves, OwnsItsMutex
<1>2. UNCHANGED task /\ UNCHANGED owner
  BY DEF Moves
<1>3. OwnerOK(w)'
  BY <1>1, <1>2 DEF Moves, OwnerOK, IsPlan, T, Locks
<1>4. ASSUME NEW v \in Workers \ {w}
      PROVE  OwnerOK(v)'
  <2>1. OwnerOK(v)
    BY DEF OwnsItsMutex
  <2> QED
    BY <1>1, <1>2, <2>1, OthersStay
<1> QED
  BY <1>1, <1>2, <1>3, <1>4, TasksStay DEF OwnsItsMutex

(* Who changes no place and no mutex.                                      *)
LEMMA StutterKeepsOwners ==
  ASSUME OwnsItsMutex, UNCHANGED <<task, pc, owner>>
  PROVE  OwnsItsMutex'
  BY DEF OwnsItsMutex, OwnerOK, TasksOK, IsPlan, T, Locks, Mutexes

LEMMA StepKeepsOwners ==
  ASSUME OwnsItsMutex, NEW w \in Workers, Step(w)
  PROVE  OwnsItsMutex'
<1>0. OwnerOK(w)
  BY DEF OwnsItsMutex
<1>1. CASE Begin(w)
  <2>1. UNCHANGED task
    BY <1>1 DEF Begin, Settled
  <2>2. CASE task[w].op \notin T(w).calls
    BY <1>1, <2>1, <2>2, EndKeepsOwners DEF Begin
  <2>3. CASE task[w].op \in T(w).calls
    <3>1. Moves(w, IF Locks(w) THEN "wait" ELSE "call")
      BY <1>1, <2>1, <2>3 DEF Begin, Moves
    <3> QED
      BY <3>1, MoveKeepsOwners
  <2> QED
    BY <2>2, <2>3
<1>2. CASE Lock(w)
  <2>1. /\ UNCHANGED task
        /\ owner[T(w).mutex] = None
        /\ owner' = [owner EXCEPT ![T(w).mutex] = w]
        /\ pc' = [pc EXCEPT ![w] = "call"]
    BY <1>2 DEF Lock, Settled, Held
  <2>2. ~IsPlan(w) /\ task[w].op \in T(w).calls
    BY <1>0, <1>2 DEF Lock, OwnerOK
  <2>3. T(w).mutex \in Mutexes
    BY <2>2 DEF Mutexes
  <2>4. /\ DOMAIN pc' = Workers /\ DOMAIN owner' = Mutexes
        /\ pc'[w] = "call" /\ owner'[T(w).mutex] = w
        /\ \A v \in Workers \ {w} : pc'[v] = pc[v]
        /\ \A m \in Mutexes : owner[m] # None => owner'[m] = owner[m]
    BY <2>1, <2>3 DEF OwnsItsMutex
  <2>5. OwnerOK(w)'
    BY <2>1, <2>2, <2>4 DEF OwnerOK, IsPlan, T
  <2>6. ASSUME NEW v \in Workers \ {w}
        PROVE  OwnerOK(v)'
    <3>1. ~IsPlan(v) => T(v).mutex \in Mutexes
      BY DEF Mutexes
    <3>2. ~IsPlan(v) /\ owner[T(v).mutex] = v => owner'[T(v).mutex] = v
      BY <2>4, <3>1, NoneAssumption
    <3>3. OwnerOK(v)
      BY DEF OwnsItsMutex
    <3> QED
      BY <2>1, <2>4, <3>2, <3>3, OthersStay
  <2> QED
    BY <2>1, <2>4, <2>5, <2>6, TasksStay DEF OwnsItsMutex
<1>3. CASE Send(w)
  <2>1. Moves(w, "sent")
    BY <1>0, <1>3 DEF Send, Settled, locks, Moves, OwnerOK
  <2> QED
    BY <2>1, MoveKeepsOwners
<1>4. CASE Answered(w)
  BY <1>4, EndKeepsOwners DEF Answered, Settled
<1>5. CASE Conflict(w)
  <2>1. CASE Patient(w)
    <3>1. Moves(w, "call")
      BY <1>0, <1>5, <2>1 DEF Conflict, Busy, Settled, Moves, OwnerOK
    <3> QED
      BY <3>1, MoveKeepsOwners
  <2>2. CASE ~Patient(w)
    BY <1>5, <2>2, EndKeepsOwners DEF Conflict, Settled
  <2> QED
    BY <2>1, <2>2
<1>6. CASE Fails(w)
  BY <1>6, EndKeepsOwners DEF Fails, Settled
<1>7. CASE Lost(w)
  <2>1. CASE Resends(w)
    <3>1. Moves(w, "call")
      BY <1>0, <1>7, <2>1 DEF Lost, Settled, Moves, OwnerOK
    <3> QED
      BY <3>1, MoveKeepsOwners
  <2>2. CASE ~Resends(w)
    BY <1>7, <2>2, EndKeepsOwners DEF Lost, Settled
  <2> QED
    BY <2>1, <2>2
<1>8. CASE GiveUp(w)
  BY <1>8, EndKeepsOwners DEF GiveUp, Settled
<1>9. CASE LateAnswer(w)
  BY <1>9, StutterKeepsOwners DEF LateAnswer, Settled
<1>10. CASE PlanBegins(w)
  <2>1. Moves(w, IF table = None THEN "fetch" ELSE "check")
    BY <1>10 DEF PlanBegins, Planning, locks, Moves
  <2> QED
    BY <2>1, MoveKeepsOwners
<1>11. CASE Fetch(w)
  <2>1. Moves(w, "check")
    BY <1>11 DEF Fetch, Planning, locks, Moves
  <2> QED
    BY <2>1, MoveKeepsOwners
<1>12. CASE FetchFails(w) \/ Check(w)
  <2>1. Moves(w, "done")
    BY <1>12 DEF FetchFails, Check, Planning, locks, Moves
  <2> QED
    BY <2>1, MoveKeepsOwners
<1> QED
  BY <1>1, <1>2, <1>3, <1>4, <1>5, <1>6, <1>7, <1>8, <1>9, <1>10, <1>11,
     <1>12 DEF Step

LEMMA NextKeepsOwners ==
  ASSUME OwnsItsMutex, [Next]_vars
  PROVE  OwnsItsMutex'
<1>2. CASE ConfigureFramework \/ ConfigureSdk
  BY <1>2, StutterKeepsOwners DEF ConfigureFramework, ConfigureSdk, locks
<1>3. CASE \E w \in Workers : Step(w)
  BY <1>3, StepKeepsOwners
<1>4. CASE \E a \in Accounts : Outside(a)
  BY <1>4, StutterKeepsOwners DEF Outside, Settled, locks
<1>5. CASE UNCHANGED vars
  BY <1>5, StutterKeepsOwners DEF vars, locks
<1> QED
  BY <1>2, <1>3, <1>4, <1>5 DEF Next

LEMMA OwnersDoNotCollide == OwnsItsMutex => NoOwnCollisions
<1> SUFFICES ASSUME OwnsItsMutex, NEW a \in Accounts,
                    NEW v \in Writing(a), NEW w \in Writing(a),
                    T(v) \notin UnlockedTypes, T(w) \notin UnlockedTypes
             PROVE  v = w
  BY DEF NoOwnCollisions
<1>1. ASSUME NEW u \in Workers, ~IsPlan(u), Busy(u), T(u) \notin UnlockedTypes
      PROVE  owner[T(u).account] = u
  <2>0. OwnerOK(u)
    BY DEF OwnsItsMutex
  <2>1. Disciplined(T(u))
    BY <1>1, TypesAreDisciplined DEF OwnsItsMutex, TasksOK
  <2>2. task[u].op \in T(u).calls \cap Writes
    BY <1>1, <2>0 DEF Busy, OwnerOK
  <2>3. Locks(u)
    BY <2>1, <2>2 DEF Disciplined, Locks
  <2> QED
    BY <1>1, <2>0, <2>1, <2>3 DEF Busy, OwnerOK, Disciplined
<1> QED
  BY <1>1 DEF Writing

(* Whatever calls come in at the same time, no two of them write to one    *)
(* account together, unless one is of a type that locks nothing.           *)
THEOREM NeverTwoWriters == Spec => []NoOwnCollisions
<1>1. Init => OwnsItsMutex
  BY OwnsItsMutexAtFirst
<1>2. OwnsItsMutex /\ [Next]_vars => OwnsItsMutex'
  BY NextKeepsOwners
<1>3. OwnsItsMutex => NoOwnCollisions
  BY OwnersDoNotCollide
<1> QED
  BY <1>1, <1>2, <1>3, PTL DEF Spec

-----------------------------------------------------------------------------
(* The objects                                                             *)

\* Nothing is made before the call, and what is made is made once, unless an
\* answer was lost and the client sends the request again.
MadeOK(w) ==
    /\ made[w] \in Nat
    /\ w \in late => pc[w] = "done" /\ outcome[w] = "timeout"
    /\ pc[w] = "idle" => made[w] = 0
    /\ made[w] > 0 /\ ~(lost[w] /\ Client(w).retry.enabled)
       => /\ made[w] = 1 /\ pc[w] = "done" /\ w \notin late
          /\ lost[w] \/ outcome[w] \in {"ok", "timeout"}

\* The clients do not change any more once a call runs.
MakesOnce ==
    /\ DOMAIN pc = Workers /\ DOMAIN outcome = Workers
    /\ DOMAIN made = Workers /\ DOMAIN lost = Workers
    /\ phase # "ready" => \A w \in Workers : pc[w] = "idle"
    /\ \A w \in Workers : MadeOK(w)

LEMMA MakesOnceAtFirst == Init => MakesOnce
  BY DEF Init, MakesOnce, MadeOK

LEMMA ClientStays ==
  ASSUME UNCHANGED <<config, task>>
  PROVE  \A w \in Workers : Client(w)' = Client(w)
  BY DEF config, Client, T

(* A step of one call leaves the others alone.                             *)
LEMMA OthersMakeOnce ==
  ASSUME MakesOnce, NEW w \in Workers, MadeOK(w)',
         UNCHANGED <<config, task>>, phase = "ready",
         /\ DOMAIN pc' = Workers /\ DOMAIN outcome' = Workers
         /\ DOMAIN made' = Workers /\ DOMAIN lost' = Workers,
         \A v \in Workers \ {w} :
            /\ pc'[v] = pc[v] /\ outcome'[v] = outcome[v]
            /\ made'[v] = made[v] /\ lost'[v] = lost[v]
            /\ v \in late' <=> v \in late
  PROVE  MakesOnce'
<1>1. ASSUME NEW v \in Workers \ {w}
      PROVE  MadeOK(v)'
  <2>1. MadeOK(v)
    BY DEF MakesOnce
  <2>2. Client(v)' = Client(v)
    BY ClientStays
  <2> QED
    BY <2>1, <2>2 DEF MadeOK
<1>2. phase' = "ready"
  BY DEF config
<1> QED
  BY <1>1, <1>2 DEF MakesOnce

LEMMA StepMakesOnce ==
  ASSUME MakesOnce, NEW w \in Workers, Step(w)
  PROVE  MakesOnce'
<1>0. /\ UNCHANGED <<config, task>>
      /\ Client(w)' = Client(w)
      /\ MadeOK(w)
  <2>1. UNCHANGED <<config, task>>
    BY DEF Step, Begin, Lock, Send, Answered, Conflict, Fails, Lost, GiveUp,
           LateAnswer, PlanBegins, Fetch, FetchFails, Check, Settled, Planning
  <2> QED
    BY <2>1, ClientStays DEF MakesOnce
<1>1. phase = "ready"
  BY <1>0
  DEF MakesOnce, MadeOK, Step, Begin, Lock, Send, Answered, Conflict, Busy,
      Fails, Lost, GiveUp, LateAnswer, PlanBegins, Fetch, FetchFails, Check
\* No object is made, and the call is not over.
<1>2. CASE Lock(w) \/ Send(w) \/ PlanBegins(w) \/ Fetch(w)
  <2>1. /\ UNCHANGED <<outcome, late, made, lost>>
        /\ pc[w] # "done" /\ pc'[w] # "idle"
        /\ DOMAIN pc' = Workers
        /\ \A v \in Workers \ {w} : pc'[v] = pc[v]
    BY <1>2
    DEF MakesOnce, Lock, Send, PlanBegins, Fetch, Planning, locks
  <2>2. MadeOK(w)'
    BY <1>0, <2>1 DEF MadeOK
  <2> QED
    BY <1>0, <1>1, <2>1, <2>2, OthersMakeOnce DEF MakesOnce
\* The call ends without another object.
<1>3. CASE Begin(w) \/ Fails(w) \/ Conflict(w) \/ FetchFails(w) \/ Check(w)
  <2>1. /\ UNCHANGED <<late, made, lost>>
        /\ pc[w] # "done" /\ pc'[w] # "idle"
        /\ DOMAIN pc' = Workers /\ DOMAIN outcome' = Workers
        /\ \A v \in Workers \ {w} :
              pc'[v] = pc[v] /\ outcome'[v] = outcome[v]
    BY <1>3
    DEF MakesOnce, Begin, Fails, Conflict, Busy, FetchFails, Check, Ends,
        Planning, locks
  <2>2. MadeOK(w)'
    BY <1>0, <2>1 DEF MadeOK
  <2> QED
    BY <1>0, <1>1, <2>1, <2>2, OthersMakeOnce DEF MakesOnce
<1>4. CASE Answered(w)
  <2>1. /\ UNCHANGED <<late, lost>>
        /\ pc[w] = "sent" /\ pc'[w] = "done" /\ outcome'[w] = "ok"
        /\ DOMAIN pc' = Workers /\ DOMAIN outcome' = Workers
        /\ \A v \in Workers \ {w} :
              pc'[v] = pc[v] /\ outcome'[v] = outcome[v]
    BY <1>4 DEF MakesOnce, Answered, Ends
  <2>2. /\ DOMAIN made' = Workers /\ made'[w] \in {made[w], made[w] + 1}
        /\ \A v \in Workers \ {w} : made'[v] = made[v]
    BY <1>4 DEF MakesOnce, Answered, Applied
  <2>3. MadeOK(w)'
    BY <1>0, <2>1, <2>2 DEF MadeOK
  <2> QED
    BY <1>0, <1>1, <2>1, <2>2, <2>3, OthersMakeOnce DEF MakesOnce
<1>5. CASE Lost(w)
  <2>1. /\ UNCHANGED late /\ lost'[w] = TRUE
        /\ pc[w] = "sent" /\ pc'[w] # "idle"
        /\ pc'[w] = "done" \/ Client(w).retry.enabled
        /\ DOMAIN pc' = Workers /\ DOMAIN outcome' = Workers
        /\ DOMAIN lost' = Workers
        /\ \A v \in Workers \ {w} :
              /\ pc'[v] = pc[v] /\ outcome'[v] = outcome[v]
              /\ lost'[v] = lost[v]
    BY <1>5 DEF MakesOnce, Lost, Ends, Resends
  <2>2. /\ DOMAIN made' = Workers /\ made'[w] \in {made[w], made[w] + 1}
        /\ \A v \in Workers \ {w} : made'[v] = made[v]
    BY <1>5 DEF MakesOnce, Lost, Applied
  <2>3. MadeOK(w)'
    BY <1>0, <2>1, <2>2 DEF MadeOK
  <2> QED
    BY <1>0, <1>1, <2>1, <2>2, <2>3, OthersMakeOnce DEF MakesOnce
<1>6. CASE GiveUp(w)
  <2>1. /\ UNCHANGED <<made, lost>>
        /\ pc[w] # "done" /\ pc'[w] = "done" /\ outcome'[w] = "timeout"
        /\ DOMAIN pc' = Workers /\ DOMAIN outcome' = Workers
        /\ \A v \in Workers \ {w} :
              /\ pc'[v] = pc[v] /\ outcome'[v] = outcome[v]
              /\ v \in late' <=> v \in late
    BY <1>6 DEF MakesOnce, GiveUp, Ends
  <2>2. MadeOK(w)'
    BY <1>0, <2>1 DEF MadeOK
  <2> QED
    BY <1>0, <1>1, <2>1, <2>2, OthersMakeOnce DEF MakesOnce
<1>7. CASE LateAnswer(w)
  <2>1. /\ UNCHANGED <<pc, outcome, lost>>
        /\ w \in late /\ w \notin late'
        /\ \A v \in Workers \ {w} : v \in late' <=> v \in late
    BY <1>7 DEF LateAnswer
  <2>2. /\ DOMAIN made' = Workers /\ made'[w] \in {made[w], made[w] + 1}
        /\ \A v \in Workers \ {w} : made'[v] = made[v]
    BY <1>7 DEF MakesOnce, LateAnswer, Applied
  <2>3. MadeOK(w)'
    BY <1>0, <2>1, <2>2 DEF MadeOK
  <2> QED
    BY <1>0, <1>1, <2>1, <2>2, <2>3, OthersMakeOnce DEF MakesOnce
<1> QED
  BY <1>2, <1>3, <1>4, <1>5, <1>6, <1>7 DEF Step

LEMMA NextMakesOnce ==
  ASSUME MakesOnce, [Next]_vars
  PROVE  MakesOnce'
\* Before the provider is configured no call runs.
<1>1. CASE ConfigureFramework \/ ConfigureSdk
  <2>1. UNCHANGED <<pc, outcome, made, lost, late>>
    BY <1>1 DEF ConfigureFramework, ConfigureSdk, locks
  <2>2. \A w \in Workers : pc[w] = "idle" /\ MadeOK(w)
    BY <1>1 DEF ConfigureFramework, ConfigureSdk, MakesOnce
  <2> QED
    BY <2>1, <2>2 DEF MakesOnce, MadeOK
<1>2. CASE \E w \in Workers : Step(w)
  BY <1>2, StepMakesOnce
<1>3. CASE (\E a \in Accounts : Outside(a)) \/ UNCHANGED vars
  <2>1. UNCHANGED <<config, task, pc, outcome, made, lost, late>>
    BY <1>3 DEF Outside, Settled, locks, vars
  <2>2. UNCHANGED phase
    BY <2>1 DEF config
  <2>3. \A w \in Workers : Client(w)' = Client(w)
    BY <2>1, ClientStays
  <2> QED
    BY <2>1, <2>2, <2>3 DEF MakesOnce, MadeOK
<1> QED
  BY <1>1, <1>2, <1>3 DEF Next

(* A resource is one object, whatever fails, times out or is answered late *)
(* and whichever calls run beside it: the only second one comes from a     *)
(* client that sends a lost request again.                                 *)
THEOREM OneObjectForEach == Spec => []OneObjectEach
<1>1. Init => MakesOnce
  BY MakesOnceAtFirst
<1>2. MakesOnce /\ [Next]_vars => MakesOnce'
  BY NextMakesOnce
<1>3. MakesOnce => OneObjectEach
  BY DEF MakesOnce, MadeOK, OneObjectEach
<1> QED
  BY <1>1, <1>2, <1>3, PTL DEF Spec
-----------------------------------------------------------------------------
(* The table of permissions                                                *)

\* A plan that has no more to fetch finds the table filled, and a plan that is
\* over was right, unless it read the table while another one filled it.
PlanOK(w) ==
    /\ pc[w] = "check" => table # None
    /\ outcome[w] = "refused" /\ ~raced[w]
       => ~(task[w].needs \subseteq Permissions)
    /\ outcome[w] = "ok" /\ IsPlan(w) => task[w].needs \subseteq Permissions

TableOK ==
    /\ DOMAIN pc = Workers /\ DOMAIN outcome = Workers
    /\ DOMAIN raced = Workers
    /\ table \in {None, Permissions}
    /\ \A w \in Workers : PlanOK(w)

LEMMA TableAtFirst == Init => TableOK
  BY DEF Init, TableOK, PlanOK

(* What is not about the table and ends no plan.                           *)
LEMMA CallsKeepTable ==
  ASSUME TableOK, NEW w \in Workers, UNCHANGED <<task, perms>>,
         DOMAIN pc' = Workers, DOMAIN outcome' = Workers,
         \A v \in Workers : pc'[v] = "check" => pc[v] = "check",
         \A v \in Workers \ {w} : outcome'[v] = outcome[v],
         \/ outcome'[w] = outcome[w]
         \/ outcome'[w] = "ok" /\ ~IsPlan(w)
         \/ outcome'[w] \notin {"ok", "refused"}
  PROVE  TableOK'
<1>1. UNCHANGED <<task, table, raced>>
  BY DEF perms
<1>2. ASSUME NEW v \in Workers
      PROVE  PlanOK(v)'
  <2>1. PlanOK(v)
    BY DEF TableOK
  <2>2. IsPlan(v)' <=> IsPlan(v)
    BY <1>1 DEF IsPlan
  <2> QED
    BY <1>1, <2>1, <2>2 DEF PlanOK
<1> QED
  BY <1>1, <1>2 DEF TableOK

(* A call ends, but not as a plan does.                                    *)
LEMMA EndKeepsTable ==
  ASSUME TableOK, NEW w \in Workers, NEW how, Ends(w, how), Settled,
         how \in {"ok", "error", "conflict", "timeout"},
         how = "ok" => ~IsPlan(w)
  PROVE  TableOK'
<1>1. /\ DOMAIN pc' = Workers /\ DOMAIN outcome' = Workers
      /\ pc'[w] = "done" /\ outcome'[w] = how
      /\ \A v \in Workers \ {w} : pc'[v] = pc[v] /\ outcome'[v] = outcome[v]
  BY DEF Ends, TableOK
<1>2. UNCHANGED <<task, perms>>
  BY DEF Settled
<1> QED
  BY <1>1, <1>2, CallsKeepTable

LEMMA StepKeepsTable ==
  ASSUME OwnsItsMutex, TableOK, NEW w \in Workers, Step(w)
  PROVE  TableOK'
<1>0. OwnerOK(w) /\ PlanOK(w)
  BY DEF OwnsItsMutex, TableOK
<1>1. CASE Begin(w)
  <2>1. CASE task[w].op \notin T(w).calls
    BY <1>1, <2>1, EndKeepsTable DEF Begin
  <2>2. CASE task[w].op \in T(w).calls
    <3>1. /\ UNCHANGED <<task, perms, outcome>>
          /\ DOMAIN pc' = Workers
          /\ \A v \in Workers : pc'[v] = "check" => pc[v] = "check"
      BY <1>1, <2>2 DEF TableOK, Begin, Settled
    <3> QED
      BY <3>1, CallsKeepTable DEF TableOK
  <2> QED
    BY <2>1, <2>2
<1>2. CASE Answered(w)
  BY <1>0, <1>2, EndKeepsTable DEF Answered, OwnerOK
<1>3. CASE \/ Fails(w) \/ GiveUp(w)
           \/ Conflict(w) /\ ~Patient(w)
           \/ Lost(w) /\ ~Resends(w)
  BY <1>3, EndKeepsTable DEF Fails, GiveUp, Conflict, Lost
<1>4. CASE \/ Lock(w) \/ Send(w) \/ LateAnswer(w)
           \/ Conflict(w) /\ Patient(w)
           \/ Lost(w) /\ Resends(w)
  <2>1. /\ UNCHANGED <<task, perms, outcome>>
        /\ DOMAIN pc' = Workers
        /\ \A v \in Workers : pc'[v] = "check" => pc[v] = "check"
    BY <1>4
    DEF TableOK, Lock, Send, LateAnswer, Conflict, Lost, Settled
  <2> QED
    BY <2>1, CallsKeepTable DEF TableOK
<1>5. CASE PlanBegins(w)
  <2>1. /\ UNCHANGED <<task, outcome, table, raced>>
        /\ DOMAIN pc' = Workers
        /\ pc'[w] = "check" => table # None
        /\ \A v \in Workers \ {w} : pc'[v] = pc[v]
    BY <1>5 DEF TableOK, PlanBegins, Planning
  <2>2. ASSUME NEW v \in Workers
        PROVE  PlanOK(v)'
    BY <2>1 DEF TableOK, PlanOK, IsPlan
  <2> QED
    BY <2>1, <2>2 DEF TableOK
<1>6. CASE Fetch(w)
  <2>1. /\ UNCHANGED <<task, outcome, raced>>
        /\ table' = Permissions /\ table' # None
        /\ DOMAIN pc' = Workers
    BY <1>6, NoneAssumption DEF TableOK, Fetch, Planning
  <2>2. ASSUME NEW v \in Workers
        PROVE  PlanOK(v)'
    BY <2>1 DEF TableOK, PlanOK, IsPlan
  <2> QED
    BY <2>1, <2>2 DEF TableOK
<1>7. CASE FetchFails(w)
  <2>1. /\ UNCHANGED <<task, perms>>
        /\ DOMAIN pc' = Workers /\ DOMAIN outcome' = Workers
        /\ pc'[w] = "done" /\ outcome'[w] = "error"
        /\ \A v \in Workers \ {w} : pc'[v] = pc[v] /\ outcome'[v] = outcome[v]
    BY <1>7 DEF TableOK, FetchFails, Planning
  <2> QED
    BY <2>1, CallsKeepTable
<1>8. CASE Check(w)
  <2>1. table = Permissions
    BY <1>0, <1>8 DEF Check, PlanOK, TableOK
  <2>2. PICK view \in IF fresh[w] THEN {table} ELSE SUBSET table :
          outcome' = [outcome EXCEPT ![w] = IF task[w].needs \subseteq view
                                            THEN "ok" ELSE "refused"]
    BY <1>8 DEF Check
  <2>3. /\ UNCHANGED <<task, table>>
        /\ DOMAIN pc' = Workers /\ DOMAIN outcome' = Workers
        /\ DOMAIN raced' = Workers
        /\ pc'[w] = "done" /\ raced'[w] = ~fresh[w]
        /\ \A v \in Workers \ {w} : /\ pc'[v] = pc[v]
                                    /\ outcome'[v] = outcome[v]
                                    /\ raced'[v] = raced[v]
    BY <1>8, <2>2 DEF Check, Planning, TableOK
  <2>4. outcome'[w] = IF task[w].needs \subseteq view THEN "ok" ELSE "refused"
    BY <2>2 DEF TableOK
  <2>5. /\ view \subseteq Permissions
        /\ fresh[w] => view = Permissions
    BY <2>1, <2>2
  <2>6. PlanOK(w)'
    BY <2>3, <2>4, <2>5 DEF PlanOK
  <2>7. ASSUME NEW v \in Workers \ {w}
        PROVE  PlanOK(v)'
    BY <2>3 DEF TableOK, PlanOK, IsPlan
  <2> QED
    BY <2>3, <2>6, <2>7 DEF TableOK
<1> QED
  BY <1>1, <1>2, <1>3, <1>4, <1>5, <1>6, <1>7, <1>8 DEF Step

LEMMA NextKeepsTable ==
  ASSUME OwnsItsMutex, TableOK, [Next]_vars
  PROVE  TableOK'
<1>1. CASE \E w \in Workers : Step(w)
  BY <1>1, StepKeepsTable
<1>2. CASE \/ ConfigureFramework \/ ConfigureSdk
           \/ \E a \in Accounts : Outside(a)
           \/ UNCHANGED vars
  <2>1. UNCHANGED <<task, pc, outcome, perms>>
    BY <1>2 DEF ConfigureFramework, ConfigureSdk, Outside, Settled, vars
  <2> QED
    BY <2>1 DEF perms, TableOK, PlanOK, IsPlan
<1> QED
  BY <1>1, <1>2 DEF Next

(* However many roles are planned at the same time, and whichever requests *)
(* fail: no plan passes with a permission that does not exist, and none is *)
(* refused one that exists, unless it read the table while another plan    *)
(* filled it.                                                              *)
THEOREM PlansAreRight == Spec => []PlansKnowPermissions
<1>1. Init => OwnsItsMutex /\ TableOK
  BY OwnsItsMutexAtFirst, TableAtFirst
<1>2. OwnsItsMutex /\ TableOK /\ [Next]_vars => (OwnsItsMutex /\ TableOK)'
  BY NextKeepsOwners, NextKeepsTable
<1>3. TableOK => PlansKnowPermissions
  BY DEF TableOK, PlanOK, PlansKnowPermissions
<1> QED
  BY <1>1, <1>2, <1>3, PTL DEF Spec
-----------------------------------------------------------------------------
(* The configuration                                                       *)

\* Each library made its client from the settings, and what the older one
\* checked is what its own client says.
ConfigOK ==
    /\ phase \in {"framework", "ready"} =>
          fw = defaultConfigureFunc(cfg) /\ fw # Failed
    /\ phase = "ready" =>
          /\ sdk = providerConfigure(cfg) /\ sdk # Failed
          /\ Validates(cfg) =>
                checked = {Identity(sdk)} /\ Identity(sdk) \in Customers

LEMMA ConfigAtFirst == Init => ConfigOK
  BY DEF Init, ConfigOK

LEMMA ConfigStays ==
  ASSUME ConfigOK, UNCHANGED config
  PROVE  ConfigOK'
  BY DEF ConfigOK, config, Identity

LEMMA NextKeepsConfig ==
  ASSUME ConfigOK, [Next]_vars
  PROVE  ConfigOK'
<1>1. CASE ConfigureFramework
  <2>1. /\ fw' = defaultConfigureFunc(cfg') /\ phase' # "ready"
        /\ phase' = "framework" => fw' # Failed
    BY <1>1 DEF ConfigureFramework
  <2> QED
    BY <2>1 DEF ConfigOK
<1>2. CASE ConfigureSdk
  <2>1. /\ phase = "framework"
        /\ UNCHANGED <<cfg, fw>>
        /\ phase' \in {"stopped", "ready"}
    BY <1>2 DEF ConfigureSdk
  <2>2. ASSUME phase' = "ready"
        PROVE  /\ sdk' = providerConfigure(cfg) /\ sdk' # Failed
               /\ Validates(cfg) => /\ checked' = {Identity(sdk')}
                                    /\ Identity(sdk') \in Customers
    BY <1>2, <2>2 DEF ConfigureSdk
  <2>3. Identity(sdk)' = Identity(sdk')
    BY DEF Identity
  <2> QED
    BY <2>1, <2>2, <2>3 DEF ConfigOK
<1>3. CASE \/ \E w \in Workers : Step(w)
           \/ \E a \in Accounts : Outside(a)
           \/ UNCHANGED vars
  <2>1. UNCHANGED config
    BY <1>3
    DEF Step, Begin, Lock, Send, Answered, Conflict, Fails, Lost, GiveUp,
        LateAnswer, PlanBegins, Fetch, FetchFails, Check, Settled, Planning,
        Outside, vars
  <2> QED
    BY <2>1, ConfigStays
<1> QED
  BY <1>1, <1>2, <1>3 DEF Next

(* A setting whose attribute is not the empty string is the same for both. *)
LEMMA TextsAgree ==
  ASSUME NEW s, s.attr # ""
  PROVE  SdkText(s) = FwText(s)
  BY DEF SdkText, FwText

LEMMA IdentityOf ==
  ASSUME NEW a, NEW b, NEW c
  PROVE  Identity([auth |-> a, server |-> b, retry |-> c]) = <<a, b>>
  BY DEF Identity

LEMMA ConfigIsChecked == ConfigOK => CheckedBeforeUse
<1> SUFFICES ASSUME ConfigOK, phase = "ready", cfg.validate \in {Null, "true"},
                    \A s \in {"key", "app", "org", "aws", "url"} :
                        cfg[s].attr # ""
             PROVE  /\ Identity(fw) \in checked /\ Identity(sdk) \in checked
                    /\ cfg.cloud = "" => Identity(communityClient(cfg)) \in checked
                    /\ checked \subseteq Customers
  BY DEF CheckedBeforeUse
<1> DEFINE t == SdkTexts(cfg)
<1>1. FwTexts(cfg) = t
  <2>1. /\ cfg.key.attr # "" /\ cfg.app.attr # "" /\ cfg.org.attr # ""
        /\ cfg.aws.attr # "" /\ cfg.url.attr # ""
    OBVIOUS
  <2>2. /\ SdkText(cfg.key) = FwText(cfg.key)
        /\ SdkText(cfg.app) = FwText(cfg.app)
        /\ SdkText(cfg.org) = FwText(cfg.org)
        /\ SdkText(cfg.aws) = FwText(cfg.aws)
        /\ SdkText(cfg.url) = FwText(cfg.url)
    BY <2>1, TextsAgree
  <2> QED
    BY <2>2 DEF FwTexts, SdkTexts
<1>2. Validates(cfg)
  BY DEF Validates, ParseBool
<1>3. /\ fw = defaultConfigureFunc(cfg) /\ fw # Failed
      /\ sdk = providerConfigure(cfg) /\ sdk # Failed
      /\ checked = {Identity(sdk)} /\ Identity(sdk) \in Customers
  BY <1>2 DEF ConfigOK
<1> HIDE DEF t
<1>4. /\ fw = [auth |-> Auth(cfg, t), server |-> Server(t),
               retry |-> FwRetry(cfg)]
      /\ sdk = [auth |-> Auth(cfg, t), server |-> Server(t),
                retry |-> SdkRetry(cfg)]
      /\ ~Refused(cfg, t)
  BY <1>1, <1>3 DEF defaultConfigureFunc, providerConfigure, t
<1>5. /\ Identity(fw) = <<Auth(cfg, t), Server(t)>>
      /\ Identity(sdk) = <<Auth(cfg, t), Server(t)>>
  BY <1>4 DEF Identity
<1>6. ASSUME cfg.cloud = ""
      PROVE  Identity(communityClient(cfg)) = Identity(sdk)
  <2> DEFINE keys == [how |-> "keys", key |-> t.key, app |-> t.app]
  <2>1. t.key # "" /\ t.app # ""
    BY <1>2, <1>4, <1>6 DEF Refused, MissingKeys
  <2>2. Auth(cfg, t) = keys
    BY <1>6, <2>1 DEF Auth
  <2>3. communityClient(cfg) =
            [auth |-> keys, server |-> Server(t), retry |-> RetryDefaults]
    BY DEF communityClient, t
  <2> HIDE DEF keys
  <2>4. Identity(communityClient(cfg)) = <<keys, Server(t)>>
    BY <2>3, IdentityOf
  <2> QED
    BY <1>5, <2>2, <2>4
<1> QED
  BY <1>3, <1>5, <1>6

(* Whatever the settings: if they are to be checked, every client that is  *)
(* used says who was checked, and speaks to the server that checked it.    *)
THEOREM CheckedFirst == Spec => []CheckedBeforeUse
<1>1. Init => ConfigOK
  BY ConfigAtFirst
<1>2. ConfigOK /\ [Next]_vars => ConfigOK'
  BY NextKeepsConfig
<1>3. ConfigOK => CheckedBeforeUse
  BY ConfigIsChecked
<1> QED
  BY <1>1, <1>2, <1>3, PTL DEF Spec
=============================================================================
