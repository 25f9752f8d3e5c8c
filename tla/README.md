# A TLA+ model of the Datadog Terraform provider

The provider is a set of request handlers. Terraform calls `Read`, `Create`,
`Update`, `Delete` and the plan modifiers of many resources, and every handler is
a short program of API calls against a server that other people change too.
Nothing is transactional: a handler can fail between any two of its calls, a call
that failed may have been carried out, and the only memory a handler leaves is the
Terraform state it managed to save and whatever it did to Datadog. What can go
wrong is therefore almost never in one handler but between several: an object that
nobody knows any more, a state that claims what is not so, a refresh that cannot
get past an object that is gone, a pipeline that applies the same change for ever.

Five families of modules look at it from different sides:

* every resource type as a table of steps with one semantics (`Lifecycle`);
* the resources whose handlers are too intricate for that, with every call as an
  action: `RulesetOrder`, `AllocationRules`, `DeploymentGate`, `UserAccounts`.
  The first two implement one abstract specification, `OwnedOrder`;
* what the calls of one process share: its configuration, mutexes, retries and a
  cached table (`ProviderConfigure`, `ProviderProcess`);
* the data sources, as records of how they read (`Lookup`, `DataSources`);
* the conversions between configuration, API and state, attribute by attribute
  (`Conversion`, `ConversionCycle` and the modules of the dashboards).

TLC checks each on small instances; TLAPS proves safety properties of eight modules
for every value of their constants.

## 1. Inventory

Paths are below `src/datadog`. `fw` is `fwprovider/`.

| Part | Code | State it keeps | Operations | Interacts with | What is hard | What makes it correct | Modelled in |
|---|---|---|---|---|---|---|---|
| Resource types with the generic handlers | `resource_datadog_*.go`, `fw/resource_datadog_*.go` | one entry of the Terraform state each; one object at Datadog | Create, Read, Update, Delete, ImportState | the two plugin libraries (what an error leaves in the state), the Datadog API, people in the UI | a failure between two calls; an object deleted between two calls; an object not shown yet | nothing made is lost; nothing is dropped that exists; success means the object is as configured; repeated applies get there | `Lifecycle` |
| Tag pipeline ruleset order | `fw/resource_datadog_tag_pipeline_rulesets.go` | the order of all rulesets | list, plan check, delete loop, reorder | the rulesets, which other resources and people make | acts on a list taken earlier; a loop that stops half way | deletes only what it may; never moves what it does not manage | `RulesetOrder` |
| Custom allocation rules and their order | `fw/resource_datadog_custom_allocation_rule*.go` | rules with a number each; the order of all of them | the four handlers of a rule; list, plan and reorder of the order | each other: an update of a rule writes the number that the order writes | a number of the last refresh undoes a move; ids unknown at plan time | a configured rule is never deleted; the order holds after an apply | `AllocationRules` |
| Deployment gate | `fw/resource_datadog_deployment_gate.go` | a gate and its rules, several ids in one entry | the four handlers with createRules, syncRules, deleteAllRules, readAndReconcileRules | Datadog's gate and rule endpoints | one of several calls fails; identity of rules by name | one entry for a rule; a kept rule keeps its id; no gate left behind | `DeploymentGate` |
| Users, service accounts | `resource_datadog_user.go`, `fw/resource_datadog_service_account.go` | an account and its roles | create with adoption after 409, roles one by one, invite, disable | role endpoints, the user search | the adopted account may be another one; roles half exchanged | the configured roles, the right account | `UserAccounts` |
| Dashboard conversions | `resource_datadog_dashboard.go` | none | a schema, a build and a flatten function for each block | configuration, API, state | three lists of attributes kept equal by hand | what is written arrives, what is read is what is there | `ConversionCycle`, `Dashboard*` |
| Data sources | `data_source_datadog_*.go`, `fw/data_source_datadog_*.go` | none | look up one or many, page by page | the API | objects come and go between pages; several fit | the one that is meant, or an error | `Lookup`, `DataSources` |
| Provider configuration | `provider.go`, `fw/framework_provider.go`, `internal/utils/api_instances_helper.go` | two API clients, default tags, retry settings | Configure in both libraries | environment, attributes, cloud authentication | two implementations of the same rules | both clients act for the account that was checked | `ProviderConfigure` |
| Calls in one process | `internal/utils/utils.go`, the types with a mutex, `fw/resource_datadog_appsec_waf_*.go`, `resource_datadog_role.go` | mutexes, a package variable with the permissions | lock, call, retry, give up; fill and read the table | parallel calls of Terraform | a retry of what was carried out; a reader of a half filled table | no two writers of one account; one object for a resource; nobody waits for ever | `ProviderProcess` |
| Framework wrapper, default tags | `internal/fwutils/modify_plan.go`, `fw_enrich_schema.go`, `resource_datadog_*.go` (tagDiff) | none | default tags are merged around every handler | every framework resource | plan and apply must merge alike | no perpetual difference | - |
| Write-only secrets | `internal/fwutils/writeonly_helpers.go` | a version | helpers for attributes that are not stored | no resource uses them yet | - | - | - |
| Monitor validation | `resource_datadog_monitor.go`, `fw/resource_datadog_monitor.go` | none | a plan validates with retries | the validation endpoint | retry and deadline in a plan | a plan does not fail for an error that passes | - |
| Tags, plan modifiers, validators, custom types | `internal/utils/tags.go`, `internal/planmodifiers`, `internal/validators`, `internal/customtypes` | none | conversions of strings | every schema | normal forms must be idempotent | normalising twice is normalising once | - |
| Error translation, custom requests | `internal/utils/utils.go`, `custom_request.go` | none | errors to diagnostics, `CheckForUnparsed` | every handler | an answer that does not parse | an error always ends the handler | step `check` of `Lifecycle` |
| Observability pipeline processors | `fw/observability_pipeline/` | none | conversions | the pipeline resource | size only | round trip | - |
| `main.go` | | none | serves both providers | Terraform | nothing | nothing | - |

`PROJECT.json` lists the generic types by product area, and every hazard at its
line with the properties that are about it.

## 2. Plan

The order followed the weight of the behaviour, not the length of the code.

1. `RulesetOrder`: the resource that may delete what it did not make. Done.
2. `Lifecycle`, `FrameworkHandlers`, `SdkHandlers`: every resource type with the
   generic handlers. Done.
3. `DeploymentGate`: the resource with several objects in one entry. Done.
4. `UserAccounts`: adoption after 409, roles one by one, disabled accounts. Done;
   its safety properties are proved.
5. `AllocationRules`: the order composed with the rules in it; `OwnedOrder`, the
   promise that 1 and 5 implement. Done; both refinements are proved.
6. `ProviderConfigure` and `ProviderProcess`: settings, mutexes, retries on 409 and
   5xx, the table of permissions. Done; four of its five invariants are proved.
7. `Lookup` and `DataSources`: all data sources. Done; both invariants are proved.
8. `Conversion`, `ConversionCycle` and the dashboards. Done; sufficient conditions
   for all four properties are proved.
9. Left: the conversions of the observability pipeline and its processors, which
   need a converter table like that of the dashboards; the default tags and
   `tagDiff`; the validation request of a monitor's plan; the publish call of an
   app and the upload of a reference table as actions of their own (today they are
   approximated by the steps they share with other types). Theorems worth adding: the
   same as today's about `Lifecycle` for objects that show late and types that poll.

## 3. Modules

| Module | What it is |
|---|---|
| `OwnedOrder` | what the owner of an order promises everybody else |
| `RulesetOrder`, `MCRulesetOrder`, `RulesetOrder_proofs` | the ruleset order, the UI and Terraform around it; the instance; theorems |
| `AllocationRules`, `MCAllocationRules`, `AllocationRules_proofs` | single rules and their order in one run; the instance; theorems |
| `Lifecycle` | what a step of a handler does, what Terraform makes of a handler that ends |
| `FrameworkHandlers`, `SdkHandlers` | the steps of every handler of every generic type |
| `MCLifecycle`, `MCLifecyclePipeline` | all types together and the lists of exceptions; the types that recover and the hypothesis of the theorems |
| `Lifecycle_proofs` | theorems about `Lifecycle` |
| `DeploymentGate`, `MCDeploymentGate`, `DeploymentGate_proofs` | a gate, its rules, the UI and Terraform around them; the instances; theorems |
| `UserAccounts`, `MCUserAccounts`, `UserAccounts_proofs` | users and service accounts; the instance; its theorems |
| `ProviderConfigure` | where each setting of the two clients comes from |
| `ProviderProcess`, `MCProviderProcess`, `ProviderProcess_proofs` | one process that is configured and serves calls in parallel; the scenarios; theorems |
| `Lookup` | how a data source reads: pages, filters, choice, details, retries |
| `DataSources`, `MCLookup`, `DataSources_proofs` | every data source as a record, and what all promise; the organisations; theorems |
| `Conversion` | a build or flatten function as the attributes it carries, and when |
| `ConversionCycle` | configure, apply, edit, refresh, forget, import of one block |
| `DashboardSchemas`, `DashboardBuild`, `DashboardFlatten` | per function of the dashboard resource, the attributes it knows |
| `DashboardConversions`, `MCConversion` | schema, build and flatten of each block; the known losses |
| `ConversionCycle_proofs` | theorems about `ConversionCycle` |

`PROJECT.json` maps every definition to the lines it models. All modules share
one picture of Terraform, taken from how the code in `src/` is called:

* a run is a refresh (`Read`), a plan and an apply; the configuration changes
  between runs only;
* a framework `Create` starts with an empty response, an SDK v2 `Create` with
  the planned values and no id. A create that fails is *tainted* if its response
  names an object, otherwise it left nothing; a tainted object is deleted and
  created anew;
* a failed `Update` saves its response: in the framework the prior state unless
  the handler wrote something, in the SDK v2 the planned values;
* from the framework, Terraform refuses a result that is not what was planned,
  but saves it; from the SDK v2 it accepts anything;
* a failed `Read` or `Delete` leaves the state alone; a `Read` that finds nothing
  empties it.

"People" edit, create and delete objects in the Datadog UI at any moment, also
between two calls of a handler. A *fault* is a call that fails; where Datadog may
have carried it out all the same, both outcomes are modelled.

### OwnedOrder, RulesetOrder, AllocationRules

`OwnedOrder` is a few lines: others do anything; the owner looks, claims some
items in an order, removes an item of others only under an exclusive claim and
only when it saw it, and arranges the claimed items first without changing the
order of the rest. What it makes itself it may also tend.

In `RulesetOrder` a list of ids is the function from an id to its place; sorting
by position is an operator without recursion, which is what makes the module
provable. `Read`, `ModifyPlan`, `updateOrder` (list and checks, one action; each
delete of the loop, one action; the reorder, one action) and `Delete` are the
handlers. `DesiredLen` counts entries of a list that repeat an id, because the
code compares lengths; the configurations of the run have no repeats, and
`UnmanagedKeepsPlaceNoRepeats` excepts them, for with a repeat the check for
unmanaged rulesets does not run. An empty list of ids is a configuration that the
code takes for an import: no plan for it is ever without changes, so `Converges`
is not claimed of it either. History variables: `seen` (what the last read
listed), `lost` (what this apply asked Datadog to delete), `outcome`. Left out:
names and queries of rulesets, and the position numbers the API adds.

`AllocationRules` composes two resource types. A run reads every rule and then the
order, plans both, applies the rules in any order and then the order that names
them. Unlike a ruleset, a rule carries a number `order_id` that an update of the
rule writes too, from the last refresh: numbers have gaps and can be equal, so the
list the API returns is any of the `Sortings`. Ids of rules that the same apply
creates are unknown when the order is planned. A failed write or delete may have been
carried out. `AppliedMeansOrdered` is about every run that ends well, by an apply or
without changes, and says what such a run leaves (`Settled`): each configured rule with
its content, in the configured order, and under the override no other rule. It covers the runs
that write no order, whose rules write the numbers of the last refresh. One kind of run
is excepted: somebody edits the rules during it, and then only a run that writes the
order promises the order, because an update of a rule may write a number that the edit
has made stale. `Blocked` names what no run can mend: without the override, an
unmanaged rule before a managed one. A rule that leaves the configuration counts
as unmanaged until it is deleted, and the refused plan is what would delete it.

Assumed of Datadog: a reorder numbers the rules from 1 in the given order; a new
rule goes to the end.

### Lifecycle

A handler is a sequence of steps, and the tables say which. For example

    CreatedAs == <<"postAs", "check", "save">>        in resource_datadog_webhook.go
    CreatedSdk == <<"post", "check", "id", "save">>   in resource_datadog_downtime.go

A type is a record of four such sequences and its library. The order of steps is
the order in the code: whether `d.SetId` comes before or after a call that can
fail, whether an unparsed answer is refused before or after it, whether a read
knows a 404 from other errors, whether an update saves the plan or the answer.
`Lifecycle` gives each kind of step its meaning once (the header of the module
lists them). The values a user can set are abstracted to one value. `Check` is
`CheckForUnparsed`; `Patient` types poll with `RetryContext`.

What a create does with a name that is taken is part of its first step. `post` makes a
new object whatever there is, unless the account holds as many as it may; `postName`
is refused while an object of that name exists (a team and its handle); `postAs` is
too, and the id of its object is the configured name (`Name`), so a second create of one
resource never yields a second id: webhooks and their variables, the metrics made from
logs, RUM events and spans, log indexes, and the integrations that are named by an account. `claim`
takes no refusal for an error, and `confirm` and `takeOver` are the read and the write
with which the compliance framework goes on after it. That Datadog refuses a taken
name is assumed of it.

`Converges` says of every type that repeated applies end with the configured object,
whatever was edited, deleted or failed, and names the only two states in which they may
stop for good. `NameTaken`: nothing is in the state and an object has the name, so every
create is refused; a create that was carried out and reported as failed leads there. And
for a type in `Stuck`, `Gone`: the object of the state was deleted, which its read
reports as an error.

The properties have exceptions, and the exceptions are the interesting part of
the table; each list is in `MCLifecycle` with its reason, and removing a type from
a list makes the run fail:

| List | Types | Reason |
|---|---|---|
| `TypesLoses` | azure and GCP integration, dashboard list, logs restriction query, reference table, app builder app, authn mapping, role, synthetics test | a call that can fail comes between the create and the line that records the id: the object is lost when it does |
| `TypesStuck` | agentless scanning of GCP, action connection, cost budget, security notification rule, app builder app, default rule | their read reports an error for an object that is gone: no apply gets past it, which `Converges` excepts in that state only |
| `TypesImported` | integration pipeline, default rule | their create always fails, by design: they are left out of `lifecycle_live` |
| `TypesAdopt` | compliance framework | its create takes over an object that has the name, which the hypothesis of two theorems does not allow; every run includes it |
| `TypesBlind` | dataset, AWS external id, org connection, user role, child organization, PagerDuty service, scanner rule | the read does not store what it read; a scanner rule that is gone stays in the state; left out of `lifecycle_live` |
| `TypesDrops` | powerpack | any error of the read that carries a response is taken for 404 |
| `TypesKeeps` | 15 types | the delete does nothing, by design |
| `TypesPatient` | authn mapping, dashboards, powerpack, role, synthetics test | they wait until the object shows; the others lose sight of an object that shows late |

A synthetics test that is deleted between the two calls of one read fails that
refresh, but not the next; it needs no exception.

### DeploymentGate

One action for every API call of the four handlers, with the code up to the next
call; `pc` names the call. `work` is the state the handler builds, `todo` the
entries of the plan still to be written, `listed` what the list of rules
returned, less what was deleted. Rules are sets of entries (id and rule): every
place of the code that reads them looks them up by id or name, so their order is
left out. A planned rule takes over the id of a rule of its name and type in the
state (`PriorIds`); if two entries have one name the later one counts, which is
a choice here. Fallbacks to the name in `readAndReconcileRules` need an entry
without an id, which `OneEntryPerRule` shows does not occur.

Assumed of Datadog: one gate for a service, environment and identifier (a second
create is refused), a deleted gate takes its rules with it, an update of a rule
does not change its type, ids are not reused. `LookAgain` is the `GetDeploymentGate`
whose error Create and Update ignore.

Something the model shows and no property states: when an update fails after it
created a rule, that rule is in no state. The next update removes it, as it
deletes every listed rule that it did not write; if instead the configuration
goes back to what it was, no update runs and the rule stays.

### UserAccounts

Both resources answer a 409 by searching for the account and taking it over, and
differ in the rest, so `kind` says which one runs. `make`, `search`, `write`, the
role calls, `invite` and `disable` are actions; `toAdd` and `toRemove` are the
sets that `updateRoles` computes, and roles are added before any is removed, one
call each, in any order (a Go set). The state a handler leaves behind on an error
follows the library: the SDK v2 saves the planned values of a failed update, the
framework the prior ones. `Contains` is the search of Datadog, which finds
addresses that contain the one asked for, and `Found` the first `Page` of them: neither
resource asks for a second page. A failed call may have been carried out. The service
account notes an answer of the search that does not parse and goes on, and its create
fails at the end in any case. `MCUserAccounts` has the organisations that matter:
nobody, a disabled account, two addresses of which one is part of the other, an account
that changed its address but kept its handle, a service account of the same handle, and
two accounts on the first page before the one that is meant. Assumed of Datadog: an
update of a user may change its address, as the code asks for; a comment in the tests of
the resource says that it is not possible for another user, and then the write is
refused, which is a fault here.

`WritesOnlyTheMeant` is about every call of a create that changes an account that was
there (the write, the roles, a role removed): that account has the configured address, and
is a service account if the resource is one. The two exceptions are an edit in the UI
after the search and the only account the search found, which both resources take
whatever its address; `accounts_adoption` shows that the second one is real.
`Blocked` lists what no run can mend, above all a service account after a conflict,
because its handler goes on with the values of the failed answer.

### ProviderConfigure and ProviderProcess

A setting is its attribute and its environment variable, and each of the two
libraries has its own operator for which of them counts (`FwValue` and the SDK's),
its own defaults and its own retry policy; the third client, of the community
library, is made from the keys. `ProviderProcess` configures both as Terraform
does, then lets workers run calls in parallel. `Lock`, the call, its answer, the
client's retries of a 5xx, the minute of retries on a 409 of the two WAF types,
the time-out that gives a call up while it goes on (`late`), and the plans of roles
that fill and read the table of permissions are steps of their own. The 25 `SerialTypes`
are the types that lock a mutex around their writes; `account` says what their
objects are parts of, `mutex` which variable they lock. The seven `UnlockedTypes` write to
the same accounts and lock nothing: `datadog_integration_aws_account`, the older cloud
workload rule, the integration pipeline, and the orders of retention filters,
pipelines, indexes and scanner groups. `NoOwnCollisions` is about all pairs of both
sets, and excepts those with an unlocked type. What a handler does to its
own object is in `Lifecycle`.

`RetriesAgree` compares the two operators that make a retry policy of the settings.
`CheckedBeforeUse` excepts a setting whose attribute is the empty string, for which
the SDK looks at the environment variable and the framework does not, and the
community client under a cloud provider, whose keys nobody checks.

Assumed of Datadog: two simultaneous writes to one account lead to a conflict
(which is what the comments at the mutexes say); after a lost answer the write may
or may not have been carried out. Of Terraform: at most one call for a resource at
a time.

### Lookup and DataSources

A data source is a record: what it asks for, how it recognises the last page, which
objects it keeps, what it does with objects of another kind or that do not parse,
and how it chooses among several. `Lookup` is the program that such a record
parameterises: one request is one step, and objects are created and deleted
between any two, which shifts the pages. `DataSources` has one record for each way
of configuring each data source. Exceptions, by name: `FirstPage` reads only the
first page of the answer; `FirstWins` takes the first of several; a deletion during
a list that is read page by page can hide an object that was there all the time;
the two metric data sources with `by |-> "quoted"` send the name in quotes and
find nothing. An object that could not be parsed leaves an empty element in some lists
(`Holes`), and two of them leave two: `NoRepeats` is about the others, and one of the
organisations has two such objects. `Careful` says what a record has to keep up for the
properties to hold (the name that was looked for is compared, only lists are filtered,
nothing is left out in silence where one object is taken for the only one);
`SourcesAssumption`, which TLC evaluates, that all data sources do.

### Conversion, ConversionCycle and the dashboards

Every block of a resource is described three times: by its schema, by the function
that builds the request and by the one that flattens the answer. A function is
here the set of attributes it carries with the conditions under which it does
(`Each`, `FirstOf` for an if/else-if chain, `OnlyWith` for a condition, and so
on). `ConversionCycle` puts one block through its life: a user writes and erases
attributes, applies, somebody edits the block in Datadog, Terraform refreshes,
forgets and imports it. What a value looks like on either side is left out: a
value is who set it.

`MCKnownLosses` lists what the code is known not to carry, with the line, and
`KnownLossesAreReal` makes TLC compare each entry with the function; the properties
leave out exactly these attributes and hold of all others, so a forgotten
attribute anywhere else fails the run. Two of them are things that only the user
interface can put into a block, and that are not lost but taken for something else
(`Mistakes`): an inline sunburst legend without `hide_value`, by which line 6866 tells
the legends apart, becomes an empty `legend_table`, and a group's widget of a kind the
provider does not know a nil widget (line 1791, where the error is dropped). A block that
holds one is left out of `RefreshedIsTrue` and `ImportIsComplete` (`Understood`).

A block that is written with nothing in it (`style {}`) reaches the build function as a
nil element. `PanicsWithout(S)` marks the functions that assert it to be a map;
a converter whose configuration is empty is such a block. `MCKnownCrashes` lists
them (a request, its queries, `fill`, `size`, `x`, `y`, a formula's `style`, a number
format's `unit`, a custom link, a powerpack's `template_variables`) together with the
powerpack widget that has no `template_variables` at all, and TLC checks that each
entry can crash; the schema does not allow an empty `number_format`, which must have
a `unit`. A list stream request is refused without a column that has a width or a
field, which stands for the three error returns of lines 6058-6075; that two empty
columns pass the check and crash is not modelled, since blocks are not counted. Empty
blocks that a function passes over (`yaxis {}`) carry no value that could be lost.

## 4. Runs

| Run | Shows | Bounds |
|---|---|---|
| `rulesets` | `DeletesOnlyListedUnmanaged`, `UnmanagedKeepsPlaceNoRepeats`, `NoChangesMeansConforming`, `AppliedMeansOrdered`; `OwnsItsOrder`: it implements `OwnedOrder`; `Converges`: repeated applies reach the configured order or one that only people can mend | 3 rulesets, 6 configurations, 2 UI edits, 2 faults, 2 changes of the configuration |
| `allocation` | `KeepsConfiguredRules`, `AppliedMeansOrdered`, `OwnsItsOrder`, `Converges` for rules and order together | 2 rules, 1 rule of the UI, 5 ids, 4 configurations, 1 edit, 1 fault, 1 change of the configuration (410000 states) |
| `lifecycle` | `NoOrphans`, `SettledMeansTrue`, `DroppedOnlyWhenGone` for every type | 4 ids and a name, 2 values, 1 edit, 1 fault, 1 unreadable answer, 1 object that shows late (870000 states) |
| `lifecycle_live` | `Converges` for every type but those of `TypesBlind` and `TypesImported`, and the hypothesis of the theorems | 3 ids and a name, 1 value, 1 edit, 1 fault, 1 late object (180000 states) |
| `gate` | `OneEntryPerRule`, `AppliedMeansExact`, `NoChangesMeansPresent`, `NoOrphanGate`, `KeepsConfiguredRules` | 5 rule ids, 2 gate ids, 4 configurations, 1 edit, 2 faults |
| `gate_live` | `Converges`, unless a failed create left a gate behind | 4 rule ids, 2 configurations, 1 edit, 1 fault |
| `gate_left_behind` | a create whose last list fails leaves its gate and its rules (violation) | 1 edit, 1 fault |
| `accounts` | `ReportsAreTrue`, `NeverWithoutRoles`, `InvitedBeforeSaved`, `WritesOnlyTheMeant`, `Converges` | 3 accounts, 2 roles, 3 addresses, pages of 2, 3 configurations, 6 organisations, 1 edit, 1 fault, 1 choice (95000 states) |
| `accounts_adoption` | a user's create takes over an account with another address (violation) | as `accounts` |
| `lookups` | `FoundIsTheOne`, `NothingIsMissed`, `Terminates` for every data source | 4 objects, pages of 2, 6 organisations, 2 edits, 1 fault |
| `process` | `NoOwnCollisions`, `OneObjectEach`, `CheckedBeforeUse`, `RetriesAgree`, `PlansKnowPermissions`, `Terminates` | 3 workers; every combination of the settings with idle workers, every pair of types of one account, 3 roles; 2 faults, 1 write of another program (290000 states) |
| `conversions` | `AppliedIsPlanned`, `RefreshedIsTrue`, `ImportIsComplete`, `ConversionsSucceed` for every block of a dashboard | one attribute at a time, and every pair that meets in a chain or a condition |

Why the bounds are enough. An edit and a fault are the two things a handler must
survive, and every hazard of section 1 needs at most one of each *within* a
handler; two faults let a run fail and its repair fail too, which is what a half
done delete loop and a failed rollback need. Three rulesets are the least with
an unmanaged one between two managed ones; a fourth adds no new relation between
places. Five ids of allocation rules are two, their replacements and one of the
UI. Three accounts and a page of two let the one that is meant be on the page, behind it or
nowhere. Four ids let an object be lost, replaced and replaced again while one
made by somebody else exists. Five rule ids are two rules, their replacements
and a stranger. Two values of the configuration let a change be seen, a third is
`UiValue`. Two pages, of which the last is full or not, are what the loops of the
data sources can get wrong at their end, and two edits can shift a page both ways.
Three workers are two that meet and one that waits for both. Attributes of a block
that meet in no condition are carried independently by the form of a `Converter`,
so one at a time is as good as all at once. Deadlock is checked in every run but
`lookups`, where a read ends and stays so. Ids (and in `lifecycle` the values) are
symmetric in the safety runs of `Lifecycle` and `DeploymentGate`, in no liveness
run. The theorems have none of these bounds.

Fairness.

* `WF(Terraform)`, `WF(TerraformRun)`, `WF(Run)` are a pipeline that runs
  `terraform apply` again and again: a handler that has started always takes its
  next step, since an API call is answered or fails at last, and the next run begins. Faults, edits and unreadable answers are bounded,
  so they end. The person at the terminal (import, destroy, abandon, a changed
  configuration) and people in the UI are not fair.
* `WF(Appear)` in `Lifecycle`: Datadog at last shows an object it has confirmed;
  the polling handlers rely on it, with a deadline.
* `Lookup`: `WF(Read)` and `WF(TimeOut)`: a request is answered or fails, a deadline
  passes.
* `ProviderProcess`: `WF(Step(w))`, calls end (an assumption about the network and
  Datadog: the client that `utils.NewHTTPClient` makes sets no time-out of its own, and a
  call that hung would hold its mutex for ever); `WF(GiveUp(w))`, timers run out;
  `SF(Lock(w))`, a Go mutex hands over to a goroutine that has waited for long.
* `ConversionCycle` states none: it has no liveness property.

## 5. Findings

Two runs end in a violation of what the repository says; `PROJECT.json` quotes the
lines.

* `gate_left_behind`: a create of a deployment gate that fails after its rules were
  made leaves the gate and no state that names it, although the code has a rollback.
* `accounts_adoption`: the changelog says that existing users are matched by e-mail
  address; a user's create takes the only account that the search returns whatever its
  address, and the search also finds addresses that contain the configured one.

Two more were met while modelling, are exceptions of a property of `process`, and have no
run of their own.

* The framework's client takes the time-out of its retries from the setting of the
  multiplier (`framework_provider.go:690`), so `http_client_retry_timeout` has no effect
  there, although `docs/index.md` describes it; `RetriesAgree` compares the waiting times only
  when none of them is set.
* `datadog_integration_aws_account` writes to the AWS integration without
  `IntegrationAwsMutex`, "mutex for AWS Integration resources" (`utils.go:95`), which the
  other six AWS types lock; `NoOwnCollisions` excepts the pairs with an unlocked type.

Other places where the code does less than a property asks are exceptions of the
property, each named in the module: the `Types...` lists of `MCLifecycle`, repeated
ids and the empty list of `RulesetOrder`, `FirstPage` and `FirstWins` and the quoted
metric names of `DataSources`, `MCKnownLosses` and `MCKnownCrashes` of
`MCConversion`, `Blocked` in `AllocationRules` and `UserAccounts`, empty attributes
in `CheckedBeforeUse`, `UnlockedTypes` in `NoOwnCollisions`, and plans that race for the table in `PlansKnowPermissions`.

## 6. Proofs

`tlapm` proves, without bounds on the sets of ids, values, rules, converters,
workers, settings or configurations, and for any number of edits, faults and
unreadable answers:

| Theorem | Says |
|---|---|
| `RulesetOrder_proofs!TypeCorrect` | every order is a list of distinct ids without gaps |
| `DeletionsSafe`, `ReorderSafe`, `NoChangesSafe` | the three invariants of the run `rulesets` |
| `Implements` | `RulesetOrder` implements `OwnedOrder` |
| `AllocationRules_proofs!TypeCorrect` | ids not given out have no number, every entry of the state is about a rule that Terraform made, no two about one |
| `KeepsSafe`, `OrderedSafe` | `KeepsConfiguredRules`, `AppliedMeansOrdered` |
| `Implements` | `AllocationRules` implements `OwnedOrder` |
| `Lifecycle_proofs!TypeCorrect` | types, and an entry of the state names an object exactly when it is not empty |
| `DropsSafe`, `OrphansSafe`, `SettledSafe` | `DroppedOnlyWhenGone`, `NoOrphans`, `SettledMeansTrue` |
| `DeploymentGate_proofs!TypeCorrect` | types, and a handler runs exactly when a call is due |
| `EntriesSafe`, `OrphanGateSafe`, `KeepsSafe` | `OneEntryPerRule`, `NoOrphanGate`, `KeepsConfiguredRules` |
| `AppliedSafe`, `NoChangesSafe` | `AppliedMeansExact`, `NoChangesMeansPresent` |
| `ConversionCycle_proofs!TypeCorrect` | attributes are those of the schema |
| `FaithfulIsLossless`, `FaithfulSeesEdits`, `FaithfulCanImport` | a faithful converter has `AppliedIsPlanned`, `RefreshedIsTrue`, `ImportIsComplete` |
| `ReadableSucceeds` | a readable converter that does not crash has `ConversionsSucceed` |
| `UserAccounts_proofs!ReportsSafe` | `ReportsAreTrue` |
| `RolesSafe`, `InvitedSafe`, `MeantSafe` | `NeverWithoutRoles`, `InvitedBeforeSaved`, `WritesOnlyTheMeant` |
| `ProviderProcess_proofs!NeverTwoWriters` | `NoOwnCollisions` |
| `OneObjectForEach`, `PlansAreRight`, `CheckedFirst` | `OneObjectEach`, `PlansKnowPermissions`, `CheckedBeforeUse` |
| `DataSources_proofs!TypeCorrect` | what Datadog has and what a read holds are lists of objects; only an answer has empty elements |
| `FoundSafe`, `MissedSafe` | `FoundIsTheOne`, `NothingIsMissed` |

*Ruleset order.* The work is in the lists: that `Sorted` of a finite set is a
list again, that taking a ruleset out or putting some first leaves a list, and
that the index test `AllAtEnd` means what it says (`Cardinality` of an initial
segment). `DeletionsSafe` needs that `doomed` was computed from `listed` and
`plan` and neither changes until the loop ends; `ReorderSafe` that the reorder
is reached only through the check; `NoChangesSafe` that `seen` is the order the
state was read from. `Implements` maps each action to one of `OwnedOrder` or to a
stutter, with the invariants of the other theorems; the work is to show that the
list the reorder sends, made from `listed` and the plan, leads to an `Arrange` also
when rulesets came, went or moved since they were listed.

*Allocation rules.* What makes the proofs long is the data: a number is any natural, two
rules may share one, and the list that the API answers with is any `Sortings` of
them. `KeepsSafe` and the refinement need little of the control (`ApplyKnows`: while the
order is applied, `desired` lists the ids that the applied rules have, and `doomed` holds
listed ids that are not desired). `OrderedSafe` follows a run from its first read to its
end (`RunInv`), unless somebody edits the rules meanwhile: `ReadHolds`, the entries read
so far agree with Datadog; `ViewHolds`, so does the order when it is planned; `RulesHold`,
the rules that were applied are done, each entry has the number of its rule,
and when no order was planned the order still holds; `DesiredHolds`, while the order is
applied every configured rule is done, and what is neither desired nor doomed is gone.
That an update of a rule does not disturb the order of a run that writes none is the
heart of it: the number that it writes is the one that was read in the same run. That there is one more than the highest number (`Highest`) is shown by a least
counterexample among the bounds of the numbers; the library's induction theorems
could not be used for it. `RestFacts` and `RenumberedFacts` say that the reorder's
list is the desired ids and then the others, each once, and what number each gets;
from that `OrderedSafe` follows, and the refinement: `Place`, a rule's place in the
list without gaps, is what `OwnedOrder` knows, so that a rule whose number changes
and whose place does not is a stutter. `KeysAssumption` (finitely many rules of the
configuration, as in any file), `ConfigsAssumption` (a configured order names no rule twice)
and `BoundsAssumption` (the bounds are numbers) are assumed.

*Lifecycle.* The theorems are about every sequence of steps, not about the table.
They assume that handlers are *careful* in three ways: `CreatesCarefully` (no call runs while
an object is made but not recorded, and it is recorded) and `KeepsCarefully`
(reads and updates never create, take only a 404 for "gone" and save what was
answered; a delete deletes) and, for `SettledSafe`, `SettlesCarefully` (a create or an
update writes the object and does not return early as if it had, and with the SDK v2,
whose results nobody compares with the plan, saves only what was answered after the
write; a read saves what it was answered and changes nothing). `MCLifecyclePipeline`
checks, as an `ASSUME` of a run, that every type is careful but for the listed
exceptions, so that each theorem applies to each of them. The exceptions of the third
are exact: a type is in `TypesBlind` if and only if it is not `SettlesCarefully`.
They also assume `Patient = {}`, so what is claimed of objects that show late is
claimed of none; that polling types find them is model-checked only. `NoOrphans` is far from inductive. The invariant has
four parts: `KnowsItsObject` (during a read, an update and a delete the response
is about the object of the state, and a delete that passed left nothing),
`KnowsWhatItMade` (what was made is what the last answer is about until a step
records its id, then it is in the response), `MadeIsLive` and `PromptIsShown`.
The second needs the first to know that a delete before a replacement left
nothing, and both need the position in the program (`Past`), because what the
response holds depends on the steps that ran. `SettledMeansTrue` has an invariant of its
own, `KnowsWhatIsThere`, for runs that nobody disturbs: once a create or an update has
written, both the object it was answered for and the one in its response are as
configured (`WriteIsKnown`), so that no later read can find it gone and end the handler
as if all were well; what a read has saved is what is there, or nothing (`ReadIsKnown`).
The two plugin libraries take different ways to the end: with the framework the
comparison of the result with the plan does the work, with the SDK v2 the invariant has
to say that the response never differs from the plan.

*Deployment gate.* `CallsFit` ties a call to the operations it belongs to and says
which lists are empty then. `PlanFits` says a planned rule has the id of an entry
of its own name: with `Valid` (names tell the rules apart) two planned rules
cannot share an id, which is `OneEntryPerRule` after `Validate`; until then the plan
may have an id twice, and the property leaves that call out. `WantedIsPlanned` is why kept
rules survive the second half of `syncRules`: each is planned, written, or was
not listed. `MineIsKnown` follows the gate from its create to the state: it is in
`work`, then in `st`, and leaves both only by `GateDeleted` or a failure that
`lostAt` remembers. `AppliedSafe` and `NoChangesSafe` need two parts more.
`RulesHaveGate` says that no rule is left where there is no gate, so that a create
begins without any. `RunKnowsGate` says, for runs that nobody disturbs, what a handler
knows at each call: the options it read or wrote are those of the gate; no rule
escapes a create once its rules are begun, or an update once they are listed, since
each is in `work` or in `listed`; and what a refresh brought is what is there. That
the gate has no rule *besides* the configured ones is therefore a fact about the list
taken before the first write, and the proof follows it through the loop that deletes.
`RulesAssumption` (None is no rule) and `IdsAssumption` (None is no id) are the only
facts about the constants that these need.

*Conversions.* The four theorems are about any table of converters, and say what one
has to keep up by hand for the attributes whose loss is not recorded
(`Kept`). `Faithful`: both functions have them, no condition stands around
them, none is kept from the old state, nothing else is taken for one, and of two that the flatten function tries in
turn the build function sends one or refuses both. `Readable`: what the flatten
function insists on, refuses or takes for a clash, the build function insists on or
refuses too. The key lemmas are that `Carry` drops nothing of a block with
one alternative of each chain (`CarryAll`), and that what an apply stores is such a
block (`BuiltIsSeparate`). The invariant says that every block at Datadog is one, and
one that the build function would have insisted on. `OthersAreFaithful`, an `ASSUME`
that TLC evaluates, says that all converters of the dashboards are both, but for
six whose functions depend on more than whether an attribute is there
(`Conditional`). Four of those satisfy the two conditions as well, but three of them
hold the mutants that show what such a condition protects from; the sunburst and the
group take something else for one of their attributes.

*Accounts.* What a run reports is true because of what its handler knows of the
account, so the invariant (`Known`) says what that is at each call, as long as
nobody uses the UI: after the refresh the state is the account; while roles are
exchanged, the account's roles and those still to be added are the configured
ones and those still to be removed (`RolesKnow`), and afterwards they are the
configured ones (`RolesDoneKnow`); a create knows the address (`CreateKnows`);
what the search took is still meant or still the only account found while the create
writes (`SearchKnows`, from which `MeantSafe` follows: no write and no role call
changes what the search finds, since the address it sets is the one searched for).
A service account that was taken over is excepted (`Compares`), since its handler
never compares its roles; the proof then uses that the answer of the 409, which it
saves, is no configuration, so that no success is reported (`NoAnswerNeverConforms`).
`RolesKnow` also gives `NeverWithoutRoles`: when the first role is removed, all
configured ones are there. `NoneAssumption` (None is no id and no address),
`ConfigsAssumption` and `OrganisationsAssumption` are what it needs of the
constants, and of `Contains` that an address contains itself.

*Process.* `OwnsItsMutex` says that a worker between its lock and the end of its
handler owns the mutex of its type, if its operation locks one. (A handler that
gives up unlocks, although its last call may go on: that is `late`, which the
property leaves out and `OneObjectEach` does not.) With the table of types (all types of one account lock one mutex,
checked by the prover by going through the 25 records) two busy workers of one
account would own one mutex, unless one is of an unlocked type. `MakesOnce` counts objects against the position of
the call, the answers lost and the retries the client is allowed. `TableOK` says
that the table is all permissions or none and that a plan past its fetch finds it
filled; `ConfigOK` that each client is what its library makes of the settings, and
that what was checked is the identity of the SDK's. The step to `CheckedBeforeUse`
is that the two ways of reading a setting agree unless the attribute is the empty
string. Assumptions:
`ScenarioAssumption` (workers run calls of the types in the table) and
`NoneAssumption` (None is no worker and not the table of permissions).

*Data sources.* The theorems are about every careful record, any organisation, pages of
any size and any number of objects created and deleted between two requests. A page is
cut out of a list that has shifted since the last one was cut out, so the invariant
(`AskKnows`) is about positions: unless something was deleted, what fits and was there
all the time is on a page that was read or stands behind the pages read; unless something
was created, nothing that stands behind them is on one that was read. That a creation
moves objects only backwards and a deletion only to the front is the lemma
`EmbeddedLater`: when a list is embedded in another (`Embeds`, which `Inserted` and
`Deleted` give for the two edits), then after any filter no object stands further in
front in the second. It rests on `FilteredPicks`, which describes the recursive
function `Filtered` by the places its elements are taken from, shown by a least
counterexample among the prefixes. `LastPage` goes through the four ways in which
loops know the last page, among them the one that subtracts one and divides, and shows
that none stops while an object stands behind. `ConcludesWell` then says for each way to
choose that the answer is right if the list is complete, and `DetailsKnow` carries that
over the reads that follow: what is due is in the result or still to be read, and not in
both. Assumptions: `PageSizeAssumption` (a page holds at least one object),
`AskedAssumption` and `OrganisationsAssumption` (no object is listed twice), and
`SourcesAssumption`.

Not proved, only model-checked: all liveness (`Converges`, `Terminates`), since
fairness and `ENABLED` are outside the prover; `RetriesAgree`, which is about the
values of the settings and not about steps; everything about the `Patient`
types, for which the theorems about `Lifecycle` say nothing once an object shows late.

## 7. Not modelled, and why

* The conversions of the other resources, among them the observability pipeline
  and its processors: data without control. The dashboards stand for them, as the
  resource with by far the most; `Converter` is made to take the rest.
* Default tags and the framework wrapper that merges them, tags, plan modifiers,
  validators and custom types: pure functions of strings, character by character,
  whose control is one call around each handler.
* Schemas, but for the attributes of the dashboards' blocks.
* The validation request of a monitor's plan, which changes nothing.
* The write-only helpers, which no resource uses; custom requests, which hand
  on what the client returns; `main.go`.
* Dashboard lists of a dashboard and the warnings of the role's permissions:
  their errors are only logged.
* Time. Deadlines and time-outs are faults or steps; back-off is not modelled.
* Several resources in one run, but for those that share something in the process
  (`ProviderProcess`) or at Datadog (`AllocationRules`). Elsewhere one is "people"
  for the other.
* What Datadog does with two simultaneous writes of which one is of an unlocked type:
  the repository does not say.
