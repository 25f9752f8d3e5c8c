----------------------------- MODULE SdkHandlers -----------------------------
(***************************************************************************)
(* The handlers of the resource types written for the terraform-plugin-sdk *)
(* v2 (package datadog), one definition for each type: the steps of        *)
(* Create, Read, Update and Delete, in the words of Lifecycle.             *)
(***************************************************************************)
EXTENDS Sequences

\* One handler set, in the order Create, Read, Update, Delete.
Sdk(create, read, update, delete) ==
    [sdk |-> "v2", create |-> create, read |-> read, update |-> update,
     delete |-> delete, imports |-> TRUE]
NotImportedSdk(h) == [h EXCEPT !.imports = FALSE]

\* The handlers most types have.
\* Mutant: the id is recorded after a second look.
CreatedSdkIdLast == <<"post", "check", "get", "id", "save">>
CreatedSdk == <<"post", "check", "id", "save">>
\* Mutant: the answer is never written into the state.
FetchedSdkUnsaved == <<"get?", "check">>
FetchedSdk == <<"get?", "check", "save">>
UpdatedSdk == <<"put", "check", "save">>
DeletedSdk == <<"delete">>
StandardSdk == Sdk(CreatedSdk, FetchedSdk, UpdatedSdk, DeletedSdk)

CreatedAsSdk == <<"postAs", "check", "id", "save">>
WrittenSdk == <<"upsert", "check", "id", "save">>
LookedUpSdk == <<"look", "check", "save">>
ReplacedSdk == <<"replace">>  \* every attribute has ForceNew
IgnoredSdk == <<>>            \* the handler does nothing

\* resource_datadog_authn_mapping.go
AuthnMapping == Sdk(<<"post", "check", "poll", "check", "id", "save">>,
    <<"get?", "save">>, UpdatedSdk, DeletedSdk)

\* resource_datadog_child_organization.go
ChildOrganization == NotImportedSdk(Sdk(<<"post", "id", "save">>, IgnoredSdk,
    ReplacedSdk, IgnoredSdk))

\* resource_datadog_cloud_configuration_rule.go.  Delete is that of
\* SecurityMonitoringRule.
CloudConfigurationRule == StandardSdk

\* resource_datadog_cloud_workload_security_agent_rule.go
CloudWorkloadSecurityAgentRule == Sdk(CreatedSdk, FetchedSdk,
    <<"put", "save">>, DeletedSdk)

\* resource_datadog_dashboard.go.  Errors of the dashboard lists are only
\* logged.
DashboardCreate == <<"post", "check", "id", "poll", "check", "save">>
DashboardRead == FetchedSdk
DashboardUpdate == UpdatedSdk
DashboardDelete == DeletedSdk
Dashboard == Sdk(DashboardCreate, DashboardRead, DashboardUpdate,
    DashboardDelete)

\* resource_datadog_dashboard_json.go
DashboardJson == Sdk(<<"post", "check", "id", "check", "save", "poll">>,
    FetchedSdk, UpdatedSdk, DeletedSdk)

\* resource_datadog_downtime.go.  A downtime that ended or was cancelled is
\* dropped like one that is gone.  buildDowntimeStruct gets it before the put.
DowntimeCreate == CreatedSdk
DowntimeRead == FetchedSdk
DowntimeUpdate == <<"get", "put", "check", "id", "save">>
DowntimeDelete == DeletedSdk
Downtime == Sdk(DowntimeCreate, DowntimeRead, DowntimeUpdate, DowntimeDelete)

\* resource_datadog_integration_aws.go
AwsIntegration == Sdk(<<"postAs", "check", "id", "get?", "check", "save">>,
    FetchedSdk, <<"put", "id", "get?", "check", "save">>, DeletedSdk)

\* resource_datadog_integration_aws_tag_filter.go
AwsTagFilter == Sdk(<<"upsert", "id", "expect", "check", "save">>, FetchedSdk,
    <<"upsert", "expect", "check", "save">>, DeletedSdk)

\* resource_datadog_integration_aws_lambda_arn.go
AwsLambdaArn == Sdk(<<"postAs", "check", "id", "expect", "check", "save">>,
    FetchedSdk, ReplacedSdk, DeletedSdk)

\* resource_datadog_integration_aws_log_collection.go
AwsLogCollection == Sdk(<<"upsert", "id", "expect", "check", "save">>,
    FetchedSdk, <<"upsert", "expect", "check", "save">>, <<"delete?">>)

\* resource_datadog_integration_opsgenie_service_object.go
OpsgenieService == Sdk(<<"post", "id", "save">>, <<"get?", "save">>,
    <<"put", "save">>, DeletedSdk)

\* resource_datadog_integration_pagerduty.go.  Delete only logs.
PagerdutyIntegration == Sdk(
    <<"upsert", "get", "check", "id", "get?", "check", "save">>, FetchedSdk,
    <<"upsert", "get?", "check", "save">>, IgnoredSdk)

\* resource_datadog_integration_pagerduty_service_object.go.  The key, all
\* that can be updated, is never read.
PagerdutyService == Sdk(<<"postAs", "id", "get?", "check">>,
    <<"get?", "check">>, <<"put", "get?", "check">>, DeletedSdk)

\* resource_datadog_integration_slack_channel.go
SlackChannel == Sdk(CreatedAsSdk, FetchedSdk,
    <<"put", "check", "id", "save">>, DeletedSdk)

\* resource_datadog_logs_archive.go
LogsArchive == Sdk(CreatedSdk, FetchedSdk, UpdatedSdk, <<"delete?">>)

\* resource_datadog_logs_archive_order.go
LogsArchiveOrder == Sdk(WrittenSdk, LookedUpSdk, WrittenSdk, IgnoredSdk)

\* resource_datadog_logs_custom_pipeline.go.  Datadog answers 400 for a
\* pipeline that is gone.
LogsCustomPipeline == Sdk(CreatedSdk, FetchedSdk, UpdatedSdk, <<"delete?">>)

\* resource_datadog_logs_index.go
LogsIndex == Sdk(CreatedAsSdk, FetchedSdk, UpdatedSdk, DeletedSdk)

\* resource_datadog_logs_index_order.go
LogsIndexOrder == Sdk(WrittenSdk, LookedUpSdk, WrittenSdk, IgnoredSdk)

\* resource_datadog_logs_integration_pipeline.go
LogsIntegrationPipeline == Sdk(<<"error">>, FetchedSdk,
    <<"put", "check", "id", "save">>, IgnoredSdk)

\* resource_datadog_logs_metric.go
LogsMetricCreate == CreatedAsSdk
LogsMetricRead == FetchedSdk
LogsMetricUpdate == UpdatedSdk
LogsMetricDelete == DeletedSdk
LogsMetric == Sdk(LogsMetricCreate, LogsMetricRead, LogsMetricUpdate,
    LogsMetricDelete)

\* resource_datadog_logs_pipeline_order.go
LogsPipelineOrder == Sdk(WrittenSdk, LookedUpSdk, WrittenSdk, IgnoredSdk)

\* resource_datadog_metric_metadata.go
MetricMetadata == Sdk(WrittenSdk, FetchedSdk, UpdatedSdk, IgnoredSdk)

\* resource_datadog_metric_tag_configuration.go
MetricTagConfiguration == Sdk(CreatedAsSdk, FetchedSdk,
    <<"get", "check", "put", "check", "save">>, DeletedSdk)

\* resource_datadog_monitor.go
MonitorCreate == <<"post", "id", "save">>
MonitorRead == FetchedSdk
MonitorUpdate == UpdatedSdk
MonitorDelete == DeletedSdk
Monitor == Sdk(MonitorCreate, MonitorRead, MonitorUpdate, MonitorDelete)

\* resource_datadog_monitor_config_policy.go
MonitorConfigPolicy == Sdk(<<"post", "id", "save">>, <<"get?", "save">>,
    UpdatedSdk, DeletedSdk)

\* resource_datadog_monitor_json.go
MonitorJson == Sdk(<<"post", "id", "save">>, <<"get?", "save">>,
    <<"put", "save">>, DeletedSdk)

\* resource_datadog_organization_settings.go.  The security contacts are a
\* second object: read after the first, written last and awaited.
OrganizationSettings == Sdk(
    <<"look", "id", "upsert", "save", "upsert", "await", "save">>,
    <<"get?", "save", "look", "save">>,
    <<"upsert", "save", "upsert", "await", "save">>, IgnoredSdk)

\* resource_datadog_powerpack.go.  Read takes any answer that is an error
\* for a 404.
PowerpackCreate == <<"post", "check", "id", "poll", "check", "save">>
PowerpackRead == <<"get!", "check", "save">>
PowerpackUpdate == UpdatedSdk
PowerpackDelete == DeletedSdk
Powerpack == Sdk(PowerpackCreate, PowerpackRead, PowerpackUpdate,
    PowerpackDelete)

\* resource_datadog_role.go
Role == Sdk(<<"post", "check", "poll", "check", "id", "save">>, FetchedSdk,
    UpdatedSdk, DeletedSdk)

\* resource_datadog_security_monitoring_default_rule.go
SecurityMonitoringDefaultRuleCreate == <<"error">>
SecurityMonitoringDefaultRuleRead == <<"get", "check", "save">>
SecurityMonitoringDefaultRuleUpdate == <<"get", "check", "put", "save">>
SecurityMonitoringDefaultRule == Sdk(SecurityMonitoringDefaultRuleCreate,
    SecurityMonitoringDefaultRuleRead, SecurityMonitoringDefaultRuleUpdate,
    IgnoredSdk)

\* resource_datadog_security_monitoring_rule.go
SecurityMonitoringRuleCreate == CreatedSdk
SecurityMonitoringRuleRead == FetchedSdk
SecurityMonitoringRuleUpdate == UpdatedSdk
SecurityMonitoringRuleDelete == DeletedSdk
SecurityMonitoringRule == Sdk(SecurityMonitoringRuleCreate,
    SecurityMonitoringRuleRead, SecurityMonitoringRuleUpdate,
    SecurityMonitoringRuleDelete)

\* resource_datadog_security_monitoring_filters.go
SecurityMonitoringFilter == Sdk(CreatedSdk, FetchedSdk, <<"put">>, DeletedSdk)

\* resource_datadog_sensitive_data_scanner_group.go
ScannerGroup == Sdk(CreatedSdk, <<"get?", "save">>,
    <<"put", "check", "savePlan">>, DeletedSdk)

\* resource_datadog_sensitive_data_scanner_rule.go.  Read does nothing about
\* a rule that is not in the list, and drops it when there is no list.
ScannerRuleCreate == CreatedSdk
ScannerRuleRead == <<"get~", "check", "save">>
ScannerRuleUpdate == <<"put", "check", "savePlan">>
ScannerRuleDelete == DeletedSdk
ScannerRule == Sdk(ScannerRuleCreate, ScannerRuleRead, ScannerRuleUpdate,
    ScannerRuleDelete)

\* resource_datadog_service_definition_yaml.go
ServiceDefinition == Sdk(WrittenSdk, FetchedSdk, <<"upsert", "check", "save">>,
    DeletedSdk)

\* resource_datadog_service_level_objective.go
ServiceLevelObjectiveCreate == CreatedSdk
ServiceLevelObjectiveRead == FetchedSdk
ServiceLevelObjectiveUpdate == UpdatedSdk
ServiceLevelObjectiveDelete == DeletedSdk
ServiceLevelObjective == Sdk(ServiceLevelObjectiveCreate,
    ServiceLevelObjectiveRead, ServiceLevelObjectiveUpdate,
    ServiceLevelObjectiveDelete)

\* resource_datadog_slo_correction.go
SloCorrection == StandardSdk

\* resource_datadog_synthetics_test_.go
SyntheticsTestCreate == <<"post", "check", "poll", "check", "id", "save">>
SyntheticsTestRead == <<"get?", "check", "get", "check", "save">>
SyntheticsTestUpdate == UpdatedSdk
SyntheticsTestDelete == DeletedSdk
SyntheticsTest == Sdk(SyntheticsTestCreate, SyntheticsTestRead,
    SyntheticsTestUpdate, SyntheticsTestDelete)
==============================================================================
