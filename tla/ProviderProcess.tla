---------------------------- MODULE ProviderProcess ----------------------------
(***************************************************************************)
(* One process of the provider: it is configured once, by both libraries,  *)
(* and then serves the calls of Terraform for many resources at the same   *)
(* time.  What the calls share is modelled here: the two clients, the      *)
(* mutexes of the types whose objects are parts of one account at Datadog, *)
(* the retries of the WAF types while they hold one, and the table of      *)
(* permissions that every plan of a role reads.                            *)
(*                                                                         *)
(* What a handler does with its own object is in module Lifecycle.         *)
(***************************************************************************)
EXTENDS ProviderConfigure, FiniteSets

CONSTANTS
    Workers,      \* calls of Terraform, which run at the same time
    Scenarios,    \* [cfg: settings, task: [Workers -> tasks]]
    Customers,    \* the pairs of credentials and server that Datadog accepts
    Permissions,  \* the permissions there are
    None,
    MaxFaults,    \* bound: answers that are lost and requests that fail
    MaxOutside    \* bound: writes of other programs

Ops == {"create", "read", "update", "delete"}
Writes == Ops \ {"read"}

\* lib: whose client the type uses; account: what its objects are parts
\* of; mutex: what its handlers lock; calls: operations that call Datadog;
\* locked: those that lock first; patient: a 409 is retried for a minute.
Serial(lib, account) ==
    [lib |-> lib, account |-> account, mutex |-> account, calls |-> Ops,
     locked |-> Writes, patient |-> FALSE]

AwsAccount == Serial("sdk", "aws")
AwsLambdaArn ==
    [Serial("sdk", "aws") EXCEPT !.locked = {"create", "delete"},
        !.calls = {"create", "read", "delete"}]
AwsLogCollection == Serial("sdk", "aws")
AwsTagFilter == Serial("sdk", "aws")
\* Its update is an error, and so is that of an external id.
AwsEventBridge ==
    [Serial("fw", "aws") EXCEPT !.locked = {"create", "delete"},
        !.calls = {"create", "read", "delete"}]
AwsExternalId ==
    [Serial("fw", "aws") EXCEPT !.locked = {"create"}, !.calls = {"create"}]
Azure == Serial("fw", "azure")
Gcp == Serial("fw", "gcp")
GcpSts == Serial("fw", "gcp_sts")
\* Its delete only writes to the log.
Pagerduty ==
    [Serial("community", "pagerduty") EXCEPT !.locked = {"create", "update"},
        !.calls = {"create", "read", "update"}]
PagerdutyService == Serial("sdk", "pagerduty")
SlackChannel == Serial("sdk", "slack")
Webhook == Serial("fw", "webhooks")
WebhookCustomVariable == Serial("fw", "webhooks")
WafCustomRule == [Serial("fw", "waf") EXCEPT !.patient = TRUE]
\* Mutant: a mutex of its own.
WafExclusionFilterAlone ==
    [Serial("fw", "waf") EXCEPT !.patient = TRUE, !.mutex = "filters"]
WafExclusionFilter == [Serial("fw", "waf") EXCEPT !.patient = TRUE]
CsmThreatsAgentRule == [Serial("fw", "csm_threats") EXCEPT !.locked = Ops]
CsmThreatsPolicy == Serial("fw", "csm_threats")
Suppression == Serial("fw", "suppressions")
NotificationRule == Serial("fw", "notifications")
RetentionFilter == Serial("fw", "retention_filters")
LogsPipeline == Serial("sdk", "pipelines")
LogsIndex == Serial("sdk", "indexes")
ScannerGroup == Serial("sdk", "scanner")
ScannerRule == Serial("sdk", "scanner")

SerialTypes == {
    AwsAccount, AwsLambdaArn, AwsLogCollection, AwsTagFilter,
    AwsEventBridge, AwsExternalId, Azure, Gcp, GcpSts, Pagerduty,
    PagerdutyService, SlackChannel, Webhook, WebhookCustomVariable,
    WafCustomRule, WafExclusionFilter, CsmThreatsAgentRule,
    CsmThreatsPolicy, Suppression, NotificationRule, RetentionFilter,
    LogsPipeline, LogsIndex, ScannerGroup, ScannerRule}

\* They write to the account of a type above and lock nothing.
Unlocked(lib, account) ==
    [Serial(lib, account) EXCEPT !.mutex = "none", !.locked = {}]

IntegrationAwsAccount == Unlocked("fw", "aws")
CloudWorkloadAgentRule == Unlocked("sdk", "csm_threats")
RetentionFilterOrder ==
    [Unlocked("fw", "retention_filters") EXCEPT !.calls = {"create", "read", "update"}]
\* Its create is an error, and its delete does nothing.
LogsIntegrationPipeline ==
    [Unlocked("sdk", "pipelines") EXCEPT !.calls = {"read", "update"}]
LogsPipelineOrder ==
    [Unlocked("sdk", "pipelines") EXCEPT !.calls = {"create", "read", "update"}]
LogsIndexOrder ==
    [Unlocked("sdk", "indexes") EXCEPT !.calls = {"create", "read", "update"}]
ScannerGroupOrder ==
    [Unlocked("fw", "scanner") EXCEPT !.calls = {"create", "read", "update"}]

UnlockedTypes == {
    IntegrationAwsAccount, CloudWorkloadAgentRule, RetentionFilterOrder,
    LogsIntegrationPipeline, LogsPipelineOrder, LogsIndexOrder,
    ScannerGroupOrder}

ASSUME ScenarioAssumption ==
    \A s \in Scenarios : \A w \in Workers :
        \/ s.task[w].op = "plan"
        \/ /\ s.task[w].type \in SerialTypes \union UnlockedTypes
           /\ s.task[w].op \in Ops

ASSUME NoneAssumption == None \notin Workers /\ None # Permissions

VARIABLES
    phase,     \* "start", "framework", "ready", "stopped"
    cfg, fw, sdk, checked,
    task,      \* [type, op] of each worker, or the plan of a role
    pc, outcome,
    tries,     \* how often the client sent the request again
    owner,     \* who holds each mutex
    late,      \* workers whose last call goes on after they have returned
    made,      \* objects that exist for a worker that creates
    lost,      \* history: an answer was lost
    table, fresh, writer, \* the permissions, and whose view of them is whole
    raced,     \* history: the table was read while another one filled it
    outside,   \* accounts that another program writes to
    faults, visits

locks == <<owner, late, made, lost, tries>>
perms == <<table, fresh, writer, raced>>
config == <<phase, cfg, fw, sdk, checked>>
bounds == <<outside, faults, visits>>
vars == <<config, task, pc, outcome, locks, perms, bounds>>

IsPlan(w) == task[w].op = "plan"
T(w) == task[w].type
Locks(w) == task[w].op \in T(w).locked
Client(w) == CASE T(w).lib = "fw" -> fw
               [] T(w).lib = "sdk" -> sdk
               [] OTHER -> communityClient(cfg)
Accounts == {T(w).account : w \in {v \in Workers : ~IsPlan(v)}}
Mutexes == {T(w).mutex : w \in {v \in Workers : ~IsPlan(v)}}

-----------------------------------------------------------------------------
(* Configuration: first the framework, then the SDK, which checks the      *)
(* credentials for both.                                                   *)

ConfigureFramework ==
    /\ phase = "start"
    /\ fw' = defaultConfigureFunc(cfg)
    /\ phase' = IF fw' = Failed THEN "stopped" ELSE "framework"
    /\ UNCHANGED <<cfg, sdk, checked, task, pc, outcome, locks, perms, bounds>>

Identity(client) == <<client.auth, client.server>>

ConfigureSdk ==
    /\ phase = "framework"
    /\ LET client == providerConfigure(cfg)
           fails == \/ client = Failed
                    \/ Validates(cfg) /\ Identity(client) \notin Customers
       IN  /\ sdk' = IF fails THEN Failed ELSE client
           /\ phase' = IF fails THEN "stopped" ELSE "ready"
           /\ checked' = IF ~fails /\ Validates(cfg)
                         THEN {Identity(client)} ELSE {}
    /\ UNCHANGED <<cfg, fw, task, pc, outcome, locks, perms, bounds>>

-----------------------------------------------------------------------------
(* The calls *)

Busy(w) == pc[w] = "sent" /\ task[w].op \in Writes
Held(m) == owner[m] # None
\* Another write to the account is under way.
Contended(w) ==
    \/ T(w).account \in outside
    \/ \E v \in Workers \ {w} :
          /\ ~IsPlan(v) /\ T(v).account = T(w).account
          /\ Busy(v) \/ v \in late
Settled == UNCHANGED <<config, task, perms>>

\* defer Unlock
Releases(w) ==
    owner' = [m \in DOMAIN owner |-> IF owner[m] = w THEN None ELSE owner[m]]

Ends(w, how) ==
    /\ pc' = [pc EXCEPT ![w] = "done"]
    /\ outcome' = [outcome EXCEPT ![w] = how]
    /\ Releases(w)

\* A call comes in: an operation that does nothing at Datadog is over at once.
Begin(w) ==
    /\ phase = "ready" /\ pc[w] = "idle" /\ ~IsPlan(w)
    /\ IF task[w].op \notin T(w).calls THEN Ends(w, "ok")
       ELSE /\ pc' = [pc EXCEPT ![w] = IF Locks(w) THEN "wait" ELSE "call"]
            /\ UNCHANGED <<outcome, owner>>
    /\ Settled /\ UNCHANGED <<late, made, lost, tries, bounds>>

Lock(w) ==
    /\ pc[w] = "wait" /\ ~Held(T(w).mutex)
    /\ owner' = [owner EXCEPT ![T(w).mutex] = w]
    /\ pc' = [pc EXCEPT ![w] = "call"]
    /\ Settled /\ UNCHANGED <<outcome, late, made, lost, tries, bounds>>

Send(w) ==
    /\ pc[w] = "call"
    /\ pc' = [pc EXCEPT ![w] = "sent"]
    /\ Settled /\ UNCHANGED <<outcome, locks, bounds>>

Applied(w) ==
    made' = IF task[w].op = "create" THEN [made EXCEPT ![w] = @ + 1] ELSE made

Answered(w) ==
    /\ pc[w] = "sent"
    /\ Applied(w) /\ Ends(w, "ok")
    /\ Settled /\ UNCHANGED <<late, lost, tries, bounds>>

\* Datadog answers a write with 409 while it carries out another one.
Patient(w) == T(w).patient
Conflict(w) ==
    /\ Busy(w) /\ Contended(w)
    /\ IF Patient(w)
       THEN /\ pc' = [pc EXCEPT ![w] = "call"]
            /\ tries' = [tries EXCEPT ![w] = 0]
            /\ UNCHANGED <<outcome, owner>>
       ELSE Ends(w, "conflict") /\ UNCHANGED tries
    /\ Settled /\ UNCHANGED <<late, made, lost, bounds>>

\* The request fails.
Fails(w) ==
    /\ pc[w] = "sent" /\ faults < MaxFaults /\ faults' = faults + 1
    /\ Ends(w, "error")
    /\ Settled /\ UNCHANGED <<late, made, lost, tries, outside, visits>>

\* Mutant: a handler retries whatever goes wrong.
ResendsPatient(w) ==
    \/ T(w).patient
    \/ Client(w).retry.enabled /\ tries[w] < Client(w).retry.max
Resends(w) == Client(w).retry.enabled /\ tries[w] < Client(w).retry.max

\* The request is carried out and the gateway answers it with an error: the
\* client itself sends it again, as it does after every 429 and 5xx.
Lost(w) ==
    /\ pc[w] = "sent" /\ faults < MaxFaults /\ faults' = faults + 1
    /\ Applied(w) /\ lost' = [lost EXCEPT ![w] = TRUE]
    /\ IF Resends(w)
       THEN /\ pc' = [pc EXCEPT ![w] = "call"]
            /\ tries' = [tries EXCEPT ![w] = @ + 1]
            /\ UNCHANGED <<outcome, owner>>
       ELSE Ends(w, "error") /\ UNCHANGED tries
    /\ Settled /\ UNCHANGED <<late, outside, visits>>

\* Mutant: only an update has a timeout.
TimesOutUpdate(w) == T(w).patient /\ task[w].op = "update"
TimesOut(w) == T(w).patient

\* RetryContext gives up after a minute; it returns without the answer to a
\* call that hangs, and that call goes on.
GiveUp(w) ==
    /\ pc[w] \in {"call", "sent"} /\ ~IsPlan(w) /\ TimesOut(w)
    /\ late' = IF pc[w] = "sent" THEN late \union {w} ELSE late
    /\ Ends(w, "timeout")
    /\ Settled /\ UNCHANGED <<made, lost, tries, bounds>>

LateAnswer(w) ==
    /\ w \in late /\ late' = late \ {w}
    /\ Applied(w) \/ UNCHANGED made
    /\ Settled /\ UNCHANGED <<pc, outcome, owner, lost, tries, bounds>>

-----------------------------------------------------------------------------
(* The plans of roles that list permissions: getValidPermissions.  That a    *)
(* restricted one is refused as well depends on the plan's own values.       *)

Planning == UNCHANGED <<config, task, locks, outside, visits>>

\* What was filled before this plan began is seen as it is.
PlanBegins(w) ==
    /\ phase = "ready" /\ pc[w] = "idle" /\ IsPlan(w)
    /\ pc' = [pc EXCEPT ![w] = IF table = None THEN "fetch" ELSE "check"]
    /\ fresh' = [fresh EXCEPT ![w] = writer # None /\ pc[writer] = "done"]
    /\ Planning /\ UNCHANGED <<outcome, table, writer, raced, faults>>

\* Mutant: the table is there before the error is looked at.
FetchFailsFilled(w) ==
    /\ pc[w] = "fetch" /\ faults < MaxFaults /\ faults' = faults + 1
    /\ table' = {} /\ writer' = w
    /\ fresh' = [v \in Workers |-> v = w]
    /\ pc' = [pc EXCEPT ![w] = "done"]
    /\ outcome' = [outcome EXCEPT ![w] = "error"]
    /\ Planning /\ UNCHANGED raced

FetchFails(w) ==
    /\ pc[w] = "fetch" /\ faults < MaxFaults /\ faults' = faults + 1
    /\ pc' = [pc EXCEPT ![w] = "done"]
    /\ outcome' = [outcome EXCEPT ![w] = "error"]
    /\ Planning /\ UNCHANGED perms

\* The variable is assigned without a lock: those who run now may see the
\* table before they see what is in it.
Fetch(w) ==
    /\ pc[w] = "fetch"
    /\ table' = Permissions /\ writer' = w
    /\ fresh' = [v \in Workers |-> v = w]
    /\ pc' = [pc EXCEPT ![w] = "check"]
    /\ Planning /\ UNCHANGED <<outcome, raced, faults>>

Check(w) ==
    /\ pc[w] = "check"
    /\ \E view \in IF fresh[w] THEN {table} ELSE SUBSET table :
          outcome' = [outcome EXCEPT ![w] = IF task[w].needs \subseteq view
                                            THEN "ok" ELSE "refused"]
    /\ raced' = [raced EXCEPT ![w] = ~fresh[w]]
    /\ pc' = [pc EXCEPT ![w] = "done"]
    /\ Planning /\ UNCHANGED <<table, fresh, writer, faults>>

-----------------------------------------------------------------------------
\* Another program, another process of the provider among them.
Outside(a) ==
    /\ phase = "ready"
    /\ \/ a \notin outside /\ visits < MaxOutside /\ visits' = visits + 1
          /\ outside' = outside \union {a}
       \/ a \in outside /\ outside' = outside \ {a} /\ UNCHANGED visits
    /\ Settled /\ UNCHANGED <<pc, outcome, locks, faults>>

Init ==
    /\ \E s \in Scenarios : cfg = s.cfg /\ task = s.task
    /\ phase = "start" /\ fw = Failed /\ sdk = Failed /\ checked = {}
    /\ pc = [w \in Workers |-> "idle"]
    /\ outcome = [w \in Workers |-> "none"]
    /\ tries = [w \in Workers |-> 0]
    /\ owner = [m \in Mutexes |-> None] /\ late = {}
    /\ made = [w \in Workers |-> 0] /\ lost = [w \in Workers |-> FALSE]
    /\ table = None /\ writer = None
    /\ fresh = [w \in Workers |-> FALSE] /\ raced = [w \in Workers |-> FALSE]
    /\ outside = {} /\ faults = 0 /\ visits = 0

Step(w) ==
    \/ Begin(w) \/ Lock(w) \/ Send(w) \/ Answered(w) \/ Conflict(w)
    \/ Fails(w) \/ Lost(w) \/ GiveUp(w) \/ LateAnswer(w)
    \/ PlanBegins(w) \/ Fetch(w) \/ FetchFails(w) \/ Check(w)

Over == phase = "stopped" \/ \A w \in Workers : pc[w] = "done" /\ w \notin late

Next ==
    \/ ConfigureFramework \/ ConfigureSdk
    \/ \E w \in Workers : Step(w)
    \/ \E a \in Accounts : Outside(a)
    \/ Over /\ outside = {} /\ UNCHANGED vars

\* Go runs every goroutine and hands a mutex to everyone who waits for it,
\* and the timers of RetryContext run out.
Spec ==
    /\ Init /\ [][Next]_vars
    /\ WF_vars(ConfigureFramework) /\ WF_vars(ConfigureSdk)
    /\ \A w \in Workers :
          /\ WF_vars(Step(w)) /\ SF_vars(Lock(w)) /\ WF_vars(GiveUp(w))

-----------------------------------------------------------------------------
(* Invariants *)

TypeOK ==
    /\ phase \in {"start", "framework", "ready", "stopped"}
    /\ pc \in [Workers -> {"idle", "wait", "call", "sent", "fetch", "check",
                           "done"}]
    /\ outcome \in [Workers -> {"none", "ok", "error", "conflict", "timeout",
                                "refused"}]
    /\ owner \in [Mutexes -> Workers \union {None}]
    /\ late \subseteq {w \in Workers : outcome[w] = "timeout"}
    /\ table = None \/ table \subseteq Permissions
    /\ writer \in Workers \union {None}
    /\ \A w \in Workers :
          /\ (outcome[w] = "none") = (pc[w] # "done")
          /\ pc[w] # "idle" => phase = "ready"
          /\ tries[w] > 0 => tries[w] <= Client(w).retry.max
          /\ made[w] <= 1 + MaxFaults

\* The calls of one process that write to one account at this moment.
Writing(account) ==
    {w \in Workers : ~IsPlan(w) /\ T(w).account = account /\ Busy(w)}

\* Two handlers of one process write to one account at the same time only when
\* one of them is of a type that locks nothing, whichever of the two libraries
\* serves it: none of the others is told of a conflict with another one of them.
\* Only a call that was given up can still be in the way.
NoOwnCollisions ==
    \A a \in Accounts : \A v, w \in Writing(a) :
        v # w => {T(v), T(w)} \cap UnlockedTypes # {}

\* A resource is one object: only an answer that was lost makes two of it,
\* because the client sends the request again, and one that its handler does
\* not know of is one whose answer was lost or not waited for.
OneObjectEach ==
    \A w \in Workers :
        /\ made[w] > 1 => lost[w] /\ Client(w).retry.enabled
        /\ outcome[w] \notin {"none", "ok"} /\ made[w] > 0
           => lost[w] \/ outcome[w] = "timeout"

\* With validation on, every request is made with the credentials that were
\* checked and to the server they were checked at, also those of the library
\* that checks nothing itself.  A setting whose attribute is the empty string
\* is excepted: the framework does not look for its environment variable.
\* With a cloud provider the community client has keys that nobody checks.
CheckedBeforeUse ==
    phase = "ready" /\ cfg.validate \in {Null, "true"}
    /\ (\A s \in {"key", "app", "org", "aws", "url"} : cfg[s].attr # "")
    => /\ Identity(fw) \in checked /\ Identity(sdk) \in checked
       /\ cfg.cloud = "" => Identity(communityClient(cfg)) \in checked
       /\ checked \subseteq Customers

\* The plan of a role refuses a permission if and only if there is no such
\* permission, also after another plan could not fetch the list; the plans
\* that read the table while another one fills it are excepted.
PlansKnowPermissions ==
    \A w \in Workers :
        /\ outcome[w] = "refused" /\ ~raced[w]
           => ~(task[w].needs \subseteq Permissions)
        /\ outcome[w] = "ok" /\ IsPlan(w) => task[w].needs \subseteq Permissions

\* The two libraries read the settings of the retries in functions of their own, and
\* come to the same policy: both send a lost request again or neither does, as often,
\* and waiting as long.  The waiting times are compared only when none of them is
\* set: the framework takes the timeout and the base from the multiplier's setting.
RetriesAgree ==
    phase = "ready" =>
        /\ fw.retry.enabled = sdk.retry.enabled
        /\ fw.retry.enabled => fw.retry.max = sdk.retry.max
        /\ fw.retry.enabled /\ (\A s \in {"timeout", "multiplier", "base"} :
                                 FwValue(cfg[s]) = Null)
           => fw.retry = sdk.retry

-----------------------------------------------------------------------------
(* Liveness *)

\* Nobody waits for ever: neither for a mutex nor for another program that
\* never stops writing, nor after an error of someone else.
Terminates == <>(phase = "stopped" \/ \A w \in Workers : pc[w] = "done")
=============================================================================
