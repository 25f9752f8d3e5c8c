----------------------------- MODULE MCLifecycle -----------------------------
(***************************************************************************)
(* Every resource type of the provider through Lifecycle, except those     *)
(* with a module of their own.                                             *)
(***************************************************************************)
EXTENDS Lifecycle, FrameworkHandlers, SdkHandlers, TLC

FrameworkTypes == {
    Team, TeamLink, TeamMembership, TeamPermissionSetting, TeamHierarchyLinks,
    ApiKey, ApplicationKey, AppKeyRegistration, ApmRetentionFilter,
    ApmRetentionFilterOrder, AgentlessScanningAws, AgentlessScanningGcp,
    ActionConnection, AwsCurConfig, AzureIntegration, AzureUcConfig,
    GcpUcConfig, ComplianceCustomFramework, ResourceEvaluationFilter,
    CostBudget, CsmThreatsAgentRule, CsmThreatsPolicy,
    SecurityMonitoringSuppression, CustomAllocationRule, DashboardList,
    Dataset, DomainAllowlist, DowntimeSchedule, IncidentNotificationRule,
    IncidentNotificationTemplate, IncidentType, AwsAccount, AwsEventBridge,
    AwsExternalId, CloudflareAccount, ConfluentAccount, ConfluentResource,
    FastlyAccount, FastlyService, GcpIntegration, GcpStsAccount, TeamsHandle,
    WorkflowsWebhookHandle, IpAllowlist, LogsCustomDestination,
    LogsRestrictionQuery, MonitorFramework, MonitorNotificationRule,
    ObservabilityPipeline, OnCallEscalationPolicy, OnCallSchedule,
    OnCallTeamRoutingRules, OnCallUserNotificationChannel, OpenapiApi,
    OrgConnection, RestrictionPolicy, RumApplication, RumMetric,
    RumRetentionFilter, RumRetentionFiltersOrder, SecurityMonitoringRuleJson,
    SecurityNotificationRule, ScannerGroupOrder, ServiceAccountApplicationKey,
    SoftwareCatalog, SpansMetric, SyntheticsConcurrencyCap,
    SyntheticsGlobalVariable, SyntheticsPrivateLocation, TagPipelineRuleset,
    UserRole, Webhook, WebhookCustomVariable, WorkflowAutomation,
    ReferenceTable, AppsecWafCustomRule, AppsecWafExclusionFilter,
    AppBuilderApp}

SdkTypes == {
    AuthnMapping, ChildOrganization, CloudConfigurationRule,
    CloudWorkloadSecurityAgentRule, Dashboard, DashboardJson, Downtime,
    AwsIntegration, AwsTagFilter, AwsLambdaArn, AwsLogCollection,
    OpsgenieService, PagerdutyIntegration, PagerdutyService, SlackChannel,
    LogsArchive, LogsArchiveOrder, LogsCustomPipeline, LogsIndex,
    LogsIndexOrder, LogsIntegrationPipeline, LogsMetric, LogsPipelineOrder,
    MetricMetadata, MetricTagConfiguration, Monitor, MonitorConfigPolicy,
    MonitorJson, OrganizationSettings, Powerpack, Role,
    SecurityMonitoringDefaultRule, SecurityMonitoringRule,
    SecurityMonitoringFilter, ScannerGroup, ScannerRule, ServiceDefinition,
    ServiceLevelObjective, SloCorrection, SyntheticsTest}

AllTypes == FrameworkTypes \cup SdkTypes

\* A call between the post and the step that records the id.
TypesLoses == {
    AzureIntegration, DashboardList, GcpIntegration, LogsRestrictionQuery,
    ReferenceTable, AppBuilderApp, AuthnMapping, Role, SyntheticsTest}

\* Their read reports an error for an object that is gone.
TypesStuck == {
    AgentlessScanningGcp, ActionConnection, CostBudget, SecurityNotificationRule,
    AppBuilderApp, SecurityMonitoringDefaultRule}

\* Their create always fails: they can only be imported.
TypesImported == {
    LogsIntegrationPipeline, SecurityMonitoringDefaultRule}

\* Their create takes over an object that has the name.
TypesAdopt == {
    ComplianceCustomFramework}

\* Their read does not write what it read into the state.
TypesBlind == {
    Dataset, AwsExternalId, OrgConnection, UserRole, ChildOrganization,
    PagerdutyService, ScannerRule}

\* They poll until Datadog shows the new object.
TypesPatient == {
    AuthnMapping, Dashboard, DashboardJson, Powerpack, Role, SyntheticsTest}

\* Any refusal of the read is taken for a deleted object.
TypesDrops == {
    Powerpack}

\* Their delete does nothing.
TypesKeeps == {
    TeamPermissionSetting, ApmRetentionFilterOrder, AwsExternalId,
    RumRetentionFiltersOrder, ScannerGroupOrder, SyntheticsConcurrencyCap,
    ChildOrganization, PagerdutyIntegration, LogsArchiveOrder, LogsIndexOrder,
    LogsIntegrationPipeline, LogsPipelineOrder, MetricMetadata,
    OrganizationSettings, SecurityMonitoringDefaultRule}

Symmetry == Permutations(Ids \ {Name}) \cup Permutations(Values)
==============================================================================
