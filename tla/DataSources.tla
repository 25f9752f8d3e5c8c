----------------------------- MODULE DataSources -----------------------------
(***************************************************************************)
(* The data sources of the provider: what each of them asks for and what   *)
(* it makes of the answer, as a record of module Lookup for each way of    *)
(* configuring it, and what every one of them promises.                    *)
(***************************************************************************)
EXTENDS Lookup

Reader(n) ==
    [name |-> n, by |-> "all", paging |-> "whole", keeps |-> "all",
     others |-> "taken", odd |-> "taken", several |-> "list", details |-> FALSE,
     empty |-> "fine", gone |-> "error", retries |-> "never"]

-----------------------------------------------------------------------------
(* Lookups by name *)

dataSourceDatadogDashboardRead ==
    {[Reader("dashboard") EXCEPT !.keeps = "exact", !.several = "error",
        !.odd = "error", !.retries = "gateway"]}
dashboardListRead ==
    {[Reader("dashboard_list") EXCEPT !.keeps = "exact", !.several = "first",
        !.odd = "error"]}

\* The loop stops at the first match, so the test for several after it
\* never holds.
powerpackRead ==
    {[Reader("powerpack") EXCEPT !.keeps = "exact", !.paging = "short",
        !.several = "first"]}
syntheticsGlobalVariableRead ==
    {[Reader("synthetics_global_variable") EXCEPT !.keeps = "exact",
        !.several = "error", !.odd = "error"]}
dataSourceDatadogSensitiveDataScannerStandardPatternRead ==
    {[Reader("standard_pattern") EXCEPT !.keeps = "keyword",
        !.several = "error"]}
dataSourceDatadogRoleRead ==
    {[Reader("role") EXCEPT !.by = "keyword", !.paging = "first",
        !.several = "first exact", !.odd = "error"]}

\* With and without exact_match and exclude_service_accounts.
dataSourceDatadogUserRead ==
    {[Reader("user") EXCEPT !.by = "keyword", !.paging = "first",
        !.others = "skip", !.several = "error", !.odd = "error"],
     [Reader("user") EXCEPT !.by = "keyword", !.paging = "first",
        !.several = "error", !.odd = "error"],
     [Reader("user_exact") EXCEPT !.by = "keyword", !.paging = "first",
        !.others = "skip", !.several = "only exact", !.odd = "error"],
     [Reader("user_exact") EXCEPT !.by = "keyword", !.paging = "first",
        !.several = "only exact", !.odd = "error"]}
serviceAccountRead ==
    {[Reader("service_account") EXCEPT !.by = "id", !.others = "refuse"],
     [Reader("service_account") EXCEPT !.by = "keyword", !.paging = "short",
        !.others = "skip", !.several = "error"],
     [Reader("service_account_exact") EXCEPT !.by = "keyword",
        !.paging = "short", !.others = "skip", !.several = "only exact"]}
apiKeyRead ==
    {[Reader("api_key") EXCEPT !.by = "id"],
     [Reader("api_key") EXCEPT !.by = "keyword", !.paging = "first",
        !.several = "error", !.details = TRUE],
     [Reader("api_key_exact") EXCEPT !.by = "keyword", !.paging = "first",
        !.several = "only exact", !.details = TRUE]}
applicationKeyRead ==
    {[Reader("application_key") EXCEPT !.by = "id"],
     [Reader("application_key") EXCEPT !.by = "keyword", !.paging = "first",
        !.several = "error", !.details = TRUE],
     [Reader("application_key_exact") EXCEPT !.by = "keyword",
        !.paging = "first", !.several = "only exact", !.details = TRUE]}
dataSourceDatadogMonitorRead ==
    {[Reader("monitor") EXCEPT !.by = "keyword", !.several = "error",
        !.odd = "error"]}
dataSourceDatadogServiceLevelObjectiveRead ==
    {[Reader("service_level_objective") EXCEPT !.by = "keyword",
        !.paging = "first", !.several = "error", !.odd = "error"]}
teamRead ==
    {[Reader("team") EXCEPT !.by = "id"],
     [Reader("team") EXCEPT !.by = "keyword", !.paging = "first",
        !.several = "error"]}
teamHierarchyLinksRead ==
    {[Reader("team_hierarchy_links") EXCEPT !.by = "id"],
     [Reader("team_hierarchy_links") EXCEPT !.by = "exact",
        !.paging = "first", !.several = "error"]}
referenceTableRead ==
    {[Reader("reference_table") EXCEPT !.by = "id"],
     [Reader("reference_table") EXCEPT !.by = "exact", !.paging = "first",
        !.several = "error", !.details = TRUE]}
rumApplicationRead ==
    {[Reader("rum_application") EXCEPT !.by = "id"],
     [Reader("rum_application") EXCEPT !.keeps = "exact", !.several = "error",
        !.details = TRUE]}
incidentNotificationTemplateRead ==
    {[Reader("incident_notification_template") EXCEPT !.by = "id"],
     [Reader("incident_notification_template") EXCEPT !.keeps = "exact",
        !.several = "first"]}
awsExternalIdRead ==
    {[Reader("integration_aws_external_id") EXCEPT !.by = "exact",
        !.several = "error", !.others = "refuse", !.odd = "error"]}

\* Not a data source: the refresh of a membership looks for it in the same
\* way.
teamMembershipRead ==
    {[Reader("team_membership") EXCEPT !.keeps = "exact", !.paging = "short",
        !.several = "first", !.odd = "error"]}

-----------------------------------------------------------------------------
(* Lists that come in pages *)

dataSourceDatadogRolesRead ==
    {[Reader("roles") EXCEPT !.by = "keyword", !.paging = "total",
        !.odd = "skip", !.empty = "refuse answer"],
     [Reader("roles") EXCEPT !.paging = "total", !.odd = "skip",
        !.empty = "refuse answer"]}
dataSourceDatadogSecurityMonitoringRulesRead ==
    {[Reader("security_monitoring_rules") EXCEPT !.paging = "past",
        !.keeps = "keyword", !.others = "skip", !.odd = "skip"]}
dataSourceDatadogServiceLevelObjectivesRead ==
    {[Reader("service_level_objectives") EXCEPT !.by = "keyword",
        !.paging = "last", !.odd = "skip", !.empty = "refuse rest"],
     [Reader("service_level_objectives") EXCEPT !.by = "keyword",
        !.paging = "last", !.odd = "skip", !.empty = "fine"],
     [Reader("service_level_objectives_list") EXCEPT !.by = "keyword",
        !.paging = "first", !.odd = "skip", !.empty = "refuse rest"],
     [Reader("service_level_objectives_list") EXCEPT !.by = "keyword",
        !.paging = "first", !.odd = "skip", !.empty = "fine"]}
roleUsersRead ==
    {[Reader("role_users") EXCEPT !.by = "keyword", !.paging = "short"],
     [Reader("role_users") EXCEPT !.by = "keyword", !.paging = "short",
        !.details = TRUE]}
teamMembershipsRead ==
    {[Reader("team_memberships") EXCEPT !.by = "keyword", !.paging = "short"],
     [Reader("team_memberships") EXCEPT !.by = "keyword", !.paging = "short",
        !.details = TRUE]}
usersRead == {[Reader("users") EXCEPT !.by = "keyword", !.paging = "short"]}
teamsRead == {[Reader("teams") EXCEPT !.by = "keyword", !.paging = "short"]}
softwareCatalogRead ==
    {[Reader("software_catalog") EXCEPT !.by = "keyword", !.paging = "short"]}
hostsRead == {[Reader("hosts") EXCEPT !.by = "keyword", !.paging = "first"]}

-----------------------------------------------------------------------------
(* Lists in one answer *)

dataSourceDatadogPermissionsRead ==
    {[Reader("permissions") EXCEPT !.others = "skip", !.odd = "skip"],
     [Reader("permissions") EXCEPT !.odd = "skip"]}
dataSourceDatadogLogsPipelinesRead ==
    {[Reader("logs_pipelines") EXCEPT !.others = "skip", !.odd = "skip"]}
dataSourceDatadogSecurityFiltersRead ==
    {[Reader("security_monitoring_filters") EXCEPT !.odd = "skip"]}
dataSourceDatadogCloudWorkloadSecurityAgentRulesRead ==
    {[Reader("cloud_workload_security_agent_rules") EXCEPT !.odd = "skip"]}
dataSourceDatadogIntegrationAWSLogsServicesRead ==
    {[Reader("integration_aws_logs_services") EXCEPT !.odd = "skip"]}
dataSourceDatadogMonitorsRead ==
    {[Reader("monitors") EXCEPT !.by = "keyword", !.odd = "hole"]}
dataSourceDatadogLogsIndexesRead ==
    {[Reader("logs_indexes") EXCEPT !.odd = "hole"]}
dataSourceDatadogMonitorConfigPoliciesRead ==
    {[Reader("monitor_config_policies") EXCEPT !.odd = "hole"]}
dataSourceDatadogLogsArchivesOrderRead == {Reader("whole")}
dataSourceDatadogLogsIndexesOrderRead == {Reader("whole")}
apmRetentionFiltersOrderRead == {Reader("whole")}
csmThreatsAgentRulesRead == {Reader("whole")}
csmThreatsPoliciesRead == {Reader("whole")}
ipRangesRead == {Reader("whole")}
logsPipelinesOrderRead == {Reader("whole")}
rumRetentionFiltersRead == {Reader("whole")}
sensitiveDataScannerGroupOrderRead == {Reader("whole")}
syntheticsLocationsRead == {Reader("whole")}
awsLogsServicesRead == {Reader("whole")}
awsNamespacesRead == {Reader("whole")}
awsIamPermissionsRead == {Reader("whole")}
awsIamResourceCollectionRead == {Reader("whole")}
awsIamStandardRead == {Reader("whole")}
awsNamespaceRulesRead == {Reader("whole")}
securityMonitoringSuppressionsRead == {Reader("whole")}
metricsRead == {[Reader("whole") EXCEPT !.by = "keyword"]}

-----------------------------------------------------------------------------
(* Objects by their id *)

actionConnectionRead == {[Reader("by_id") EXCEPT !.by = "id"]}
appBuilderAppRead == {[Reader("by_id") EXCEPT !.by = "id"]}
awsCurConfigRead == {[Reader("by_id") EXCEPT !.by = "id"]}
azureUcConfigRead == {[Reader("by_id") EXCEPT !.by = "id"]}
gcpUcConfigRead == {[Reader("by_id") EXCEPT !.by = "id"]}
costBudgetRead == {[Reader("by_id") EXCEPT !.by = "id"]}
customAllocationRuleRead == {[Reader("by_id") EXCEPT !.by = "id"]}
incidentNotificationRuleRead == {[Reader("by_id") EXCEPT !.by = "id"]}
incidentTypeRead == {[Reader("by_id") EXCEPT !.by = "id"]}
metricTagsRead == {[Reader("by_id") EXCEPT !.by = "id"]}
tagPipelineRulesetRead == {[Reader("by_id") EXCEPT !.by = "id"]}
dataSourceDatadogSyntheticsTestRead == {[Reader("by_id") EXCEPT !.by = "id"]}
workflowAutomationRead ==
    {[Reader("by_id") EXCEPT !.by = "id", !.gone = "forget"]}

\* The name of the metric goes into the request as String() prints it, in
\* quotes.
metricMetadataRead == {[Reader("quoted") EXCEPT !.by = "quoted"]}
metricActiveTagsRead == {[Reader("quoted") EXCEPT !.by = "quoted"]}

\* Rows are written asynchronously: the request is repeated until all are
\* there.
referenceTableRowsRead ==
    {[Reader("rows") EXCEPT !.by = "ids", !.retries = "missing"]}

-----------------------------------------------------------------------------
AllSources == UNION {
    dataSourceDatadogDashboardRead, dashboardListRead, powerpackRead,
    syntheticsGlobalVariableRead,
    dataSourceDatadogSensitiveDataScannerStandardPatternRead,
    dataSourceDatadogRoleRead, dataSourceDatadogUserRead,
    serviceAccountRead, apiKeyRead, applicationKeyRead,
    dataSourceDatadogMonitorRead,
    dataSourceDatadogServiceLevelObjectiveRead, teamRead,
    teamHierarchyLinksRead, referenceTableRead, rumApplicationRead,
    incidentNotificationTemplateRead, awsExternalIdRead, teamMembershipRead,
    dataSourceDatadogRolesRead,
    dataSourceDatadogSecurityMonitoringRulesRead,
    dataSourceDatadogServiceLevelObjectivesRead, roleUsersRead,
    teamMembershipsRead, usersRead, teamsRead, softwareCatalogRead,
    hostsRead, dataSourceDatadogPermissionsRead,
    dataSourceDatadogLogsPipelinesRead,
    dataSourceDatadogSecurityFiltersRead,
    dataSourceDatadogCloudWorkloadSecurityAgentRulesRead,
    dataSourceDatadogIntegrationAWSLogsServicesRead,
    dataSourceDatadogMonitorsRead, dataSourceDatadogLogsIndexesRead,
    dataSourceDatadogMonitorConfigPoliciesRead,
    dataSourceDatadogLogsArchivesOrderRead,
    dataSourceDatadogLogsIndexesOrderRead, apmRetentionFiltersOrderRead,
    csmThreatsAgentRulesRead, csmThreatsPoliciesRead, ipRangesRead,
    logsPipelinesOrderRead, rumRetentionFiltersRead,
    sensitiveDataScannerGroupOrderRead, syntheticsLocationsRead,
    awsLogsServicesRead, awsNamespacesRead, awsIamPermissionsRead,
    awsIamResourceCollectionRead, awsIamStandardRead, awsNamespaceRulesRead,
    securityMonitoringSuppressionsRead, metricsRead, actionConnectionRead,
    appBuilderAppRead, awsCurConfigRead, azureUcConfigRead, gcpUcConfigRead,
    costBudgetRead, customAllocationRuleRead, incidentNotificationRuleRead,
    incidentTypeRead, metricTagsRead, tagPipelineRulesetRead,
    dataSourceDatadogSyntheticsTestRead, workflowAutomationRead,
    metricMetadataRead, metricActiveTagsRead, referenceTableRowsRead}

-----------------------------------------------------------------------------
(* Those that do not promise it *)

\* The first of several that fit is taken.
FirstWins == {"dashboard_list", "incident_notification_template", "powerpack",
              "role", "team_membership"}
\* Only the first page of the answer is read.
FirstPage == {"role", "user", "user_exact", "api_key", "api_key_exact",
              "application_key", "application_key_exact", "team",
              "team_hierarchy_links", "reference_table",
              "service_level_objective", "service_level_objectives_list",
              "hosts"}
\* The name, or the exact one, is what the object must have.
ByName == {"dashboard", "dashboard_list", "powerpack", "user_exact",
           "synthetics_global_variable", "service_account_exact",
           "api_key_exact", "application_key_exact", "team_hierarchy_links",
           "reference_table", "rum_application", "team_membership",
           "incident_notification_template", "integration_aws_external_id"}

-----------------------------------------------------------------------------
(* What is kept up by hand in each of them *)

ByList == {"all", "keyword", "exact"}

Careful(s) ==
    /\ s.paging \in {"whole", "first", "short", "total", "past", "last"}
    /\ s.several \in {"list", "error", "first", "first exact", "only exact"}
    \* Only lists are paged, filtered and read once more.
    /\ \/ s.by \in ByList
       \/ s.by \in {"id", "ids", "quoted"} /\ ~s.details /\ s.others # "skip"
    /\ s.others = "refuse" => s.by # "quoted"
    \* What is looked for by its name is compared with it.
    /\ s.name \in ByName /\ s.by # "id" =>
          /\ s.by \in ByList
          /\ "exact" \in {s.by, s.keeps} \/ s.several = "only exact"
    \* One object is not taken for the only one where others are left out in
    \* silence: on other pages, after the first, or for they do not parse.
    /\ s.paging = "first" => s.name \in FirstPage
    /\ s.several \in {"first", "first exact"} => s.name \in FirstWins
    /\ s.odd = "skip" => s.several = "list"

ASSUME SourcesAssumption == \A s \in Sources : Careful(s)

-----------------------------------------------------------------------------
(* Invariants *)

Fits(i) == Asks(i) /\ Meant(i)

\* What a configuration refers to by its name has that name, and is not of
\* another kind, whatever a keyword search of Datadog answers with.
FoundIsWanted ==
    outcome = "found" =>
        /\ src.name \in ByName /\ src.by # "id" => Exact(result[1])
        /\ src.by = "id" => result[1] \in Asked
        /\ src.others \in {"skip", "refuse"} => ~kind[result[1]].other

\* An answer is the only one there is: no other object that fits as well was
\* at Datadog all the time, on whatever page, unless one was deleted meanwhile
\* and the others moved to a page that had been read.
FoundIsOnly ==
    outcome = "found" /\ src.by \in {"all", "keyword", "exact"}
    /\ src.name \notin FirstWins \union FirstPage
    /\ (src.paging # "whole" => ~deleted) =>
        \A i \in stayed \ {result[1]} :
            ~(Fits(i) /\ (src.several = "only exact" => Exact(i)))

\* A list has every object in it that fits and was there all the time, unless
\* one was deleted while it was read, or a request of its own failed.
ListsWhatStayed ==
    outcome = "listed" /\ ~deleted /\ ~hidden /\ src.name \notin FirstPage =>
        \A i \in stayed :
            /\ Fits(i)
            /\ src.odd \in {"skip", "hole"} => ~kind[i].odd
            /\ src.details => Exact(i)
            => i \in ToSet(result)

\* "Not found" is said when there is nothing: an object that is meant and was
\* there all the time is not missed.
NoneMeansNone ==
    outcome = "none" /\ ~deleted /\ src.by \notin {"id", "quoted"}
    /\ src.name \notin FirstPage =>
        \A i \in stayed : ~(Exact(i) /\ Fits(i) /\ ~kind[i].odd)

\* No list has an object in it twice, unless one was created meanwhile that
\* moved the others to the next page.  (It may have several empty elements.)
NoRepeats ==
    ~inserted =>
        \A m, n \in DOMAIN result :
            result[m] = result[n] /\ result[m] # None => m = n

\* The two questions that a reader of a configuration asks.
FoundIsTheOne == FoundIsWanted /\ FoundIsOnly
NothingIsMissed == ListsWhatStayed /\ NoneMeansNone /\ NoRepeats

-----------------------------------------------------------------------------
(* Liveness *)

\* Every read comes to an end, also when rows that were asked for never come
\* and when the gateway stays broken.
Terminates == <>(pc = "done")
=============================================================================
