-------------------------- MODULE FrameworkHandlers --------------------------
(***************************************************************************)
(* The handlers of the resource types written for terraform-plugin-        *)
(* framework (package fwprovider), one definition for each type: the steps *)
(* of Create, Read, Update and Delete, in the words of Lifecycle.          *)
(***************************************************************************)
EXTENDS Sequences

\* One handler set, in the order Create, Read, Update, Delete.
Framework(create, read, update, delete) ==
    [sdk |-> "framework", create |-> create, read |-> read, update |-> update,
     delete |-> delete, imports |-> TRUE]
NotImported(h) == [h EXCEPT !.imports = FALSE]

\* The handlers most types have.
Created == <<"post", "check", "save">>
CreatedName == <<"postName", "check", "save">>
CreatedAs == <<"postAs", "check", "save">>
\* Mutants: any refusal counts as gone; the 404 branch is missing.
FetchedAnyRefusal == <<"get!", "check", "save">>
FetchedNo404 == <<"get", "check", "save">>
Fetched == <<"get?", "check", "save">>
Updated == <<"put", "check", "save">>
Deleted == <<"delete?">>
Standard == Framework(Created, Fetched, Updated, Deleted)

Replaced == <<"replace">>  \* every attribute has a RequiresReplace plan modifier
Ignored == <<>>            \* the handler does nothing

\* resource_datadog_team.go
Team == Framework(CreatedName, Fetched, Updated, Deleted)

\* resource_datadog_team_link.go
TeamLink == Standard

\* resource_datadog_team_membership.go.  Read lists the memberships and
\* drops one that is not in the list.
TeamMembership == Framework(CreatedAs, Fetched, Updated, Deleted)

\* resource_datadog_team_permission_setting.go
TeamPermissionSetting == NotImported(Framework(<<"upsert", "save">>,
    <<"get?", "save">>, <<"upsert", "save">>, Ignored))

\* resource_datadog_team_hierarchy_links.go
TeamHierarchyLinks == Framework(Created, Fetched, Replaced, Deleted)

\* resource_datadog_api_key.go
ApiKey == Framework(<<"post", "save">>, <<"get?", "save">>, <<"put", "save">>,
    <<"delete">>)

\* resource_datadog_application_key.go
ApplicationKey == Framework(<<"post", "save">>, <<"get?", "save">>,
    <<"put", "save">>, <<"delete">>)

\* resource_datadog_app_key_registration.go
AppKeyRegistration == Framework(<<"upsert", "savePlan">>, <<"get?", "save">>,
    Replaced, <<"delete">>)

\* resource_datadog_apm_retention_filter.go
ApmRetentionFilter == Standard

\* resource_datadog_apm_retention_filter_order.go.  Update ignores an error
\* of the list that follows the write.
ApmRetentionFilterOrder == Framework(<<"upsert", "look", "check", "save">>,
    <<"look", "check", "save">>, <<"upsert", "glance", "save">>, Ignored)

\* resource_datadog_agentless_scanning_aws_scan_options.go
AgentlessScanningAws == Framework(<<"postAs", "save">>, <<"get?", "save">>,
    <<"put", "savePlan", "get?", "save">>, <<"delete">>)

\* resource_datadog_agentless_scanning_gcp_scan_options.go
AgentlessScanningGcp == Framework(<<"call", "upsert", "save">>,
    <<"get", "save">>, <<"call", "upsert", "save">>, <<"delete">>)

\* resource_datadog_action_connection.go.  The check of delete is of the
\* status code.
ActionConnection == Framework(<<"post", "savePlan">>, <<"get", "save">>,
    <<"put", "savePlan">>, <<"delete", "check">>)

\* resource_datadog_aws_cur_config.go
AwsCurConfig == Standard

\* resource_datadog_azure_integration.go
AzureIntegration == Framework(<<"postAs", "get", "save">>,
    <<"get?", "save">>, <<"put", "get", "save">>, Deleted)

\* resource_datadog_azure_uc_config.go
AzureUcConfig == Framework(Created, Fetched, Replaced, Deleted)

\* resource_datadog_gcp_uc_config.go
GcpUcConfig == Framework(Created, Fetched, Replaced, Deleted)

\* resource_datadog_compliance_custom_framework.go.  Create adopts a
\* framework of that name after a 409.
ComplianceCustomFramework == NotImported(Framework(
    <<"claim", "confirm", "takeOver", "savePlan">>, <<"get?", "save">>,
    <<"put", "savePlan">>, <<"delete">>))

\* resource_datadog_compliance_resource_evaluation_filter.go
ResourceEvaluationFilter == Framework(<<"upsert", "check", "save">>,
    <<"look", "save">>, <<"upsert", "check", "save">>, <<"delete?", "check">>)

\* resource_datadog_cost_budget.go
CostBudget == Framework(<<"post", "save">>, <<"get", "save">>,
    <<"put", "save">>, <<"delete">>)

\* resource_datadog_csm_threats_agent_rule.go.  CheckForUnparsed is given
\* the response of the handler, not that of Datadog.
CsmThreatsAgentRule == Framework(<<"post", "save">>, <<"get?", "save">>,
    <<"put", "save">>, Deleted)

\* resource_datadog_csm_threats_policy.go
CsmThreatsPolicy == Framework(<<"post", "save">>, <<"get?", "save">>,
    <<"put", "save">>, Deleted)

\* resource_datadog_security_monitoring_suppression.go
SecurityMonitoringSuppression == Framework(<<"post", "save">>,
    <<"get?", "save">>, <<"put", "save">>, Deleted)

\* resource_datadog_custom_allocation_rule.go
CustomAllocationRule == Standard

\* resource_datadog_dashboard_list.go.  The items of the list are a call of
\* their own.
DashboardListCreate == <<"post", "check", "put", "save">>
DashboardListRead == <<"get?", "get", "check", "save">>
DashboardListUpdate == <<"put", "get", "check", "put", "put", "save">>
DashboardListDelete == <<"delete">>
DashboardList == Framework(DashboardListCreate, DashboardListRead,
    DashboardListUpdate, DashboardListDelete)

\* resource_datadog_dataset.go.  Read ends without State.Set.
Dataset == Framework(Created, <<"get?", "check">>, Updated, Deleted)

\* resource_datadog_domain_allowlist.go
DomainAllowlist == Framework(<<"upsert", "check", "save">>,
    <<"look", "check", "save">>, <<"upsert", "check", "save">>,
    <<"delete?", "check">>)

\* resource_datadog_downtime_schedule.go
DowntimeSchedule == Framework(<<"post", "save">>, <<"get?", "save">>,
    <<"put", "save">>, Deleted)

\* resource_datadog_incident_notification_rule.go.  The check is of the
\* status code.
IncidentNotificationRuleCreate == Created
IncidentNotificationRuleRead == <<"get?", "save">>
IncidentNotificationRuleUpdate == Updated
IncidentNotificationRuleDelete == Deleted
IncidentNotificationRule == Framework(IncidentNotificationRuleCreate,
    IncidentNotificationRuleRead, IncidentNotificationRuleUpdate,
    IncidentNotificationRuleDelete)

\* resource_datadog_incident_notification_template.go
IncidentNotificationTemplateCreate == Created
IncidentNotificationTemplateRead == <<"get?", "save">>
IncidentNotificationTemplateUpdate == Updated
IncidentNotificationTemplateDelete == Deleted
IncidentNotificationTemplate == Framework(IncidentNotificationTemplateCreate,
    IncidentNotificationTemplateRead, IncidentNotificationTemplateUpdate,
    IncidentNotificationTemplateDelete)

\* resource_datadog_incident_type.go
IncidentType == Framework(Created, <<"get?", "save">>, Updated, Deleted)

\* resource_datadog_integration_aws_account.go
AwsAccount == Standard

\* resource_datadog_integration_aws_event_bridge.go
AwsEventBridge == Framework(Created, Fetched, Replaced, <<"delete">>)

\* resource_datadog_integration_aws_external_id.go.  Nothing is read again
\* and nothing can be deleted.
AwsExternalId == Framework(Created, Ignored, Ignored, Ignored)

\* resource_datadog_integration_cloudflare_account.go
CloudflareAccount == Standard

\* resource_datadog_integration_confluent_account.go
ConfluentAccount == Standard

\* resource_datadog_integration_confluent_resource.go
ConfluentResource == Framework(CreatedAs, Fetched, Updated, Deleted)

\* resource_datadog_integration_fastly_account.go
FastlyAccount == Standard

\* resource_datadog_integration_fastly_service.go
FastlyService == Framework(CreatedAs, Fetched, Updated, Deleted)

\* resource_datadog_integration_gcp.go
GcpIntegration == Framework(<<"postAs", "get", "check", "save">>, Fetched,
    <<"put", "get", "check", "save">>, Deleted)

\* resource_datadog_integration_gcp_sts.go.  Create makes the delegate
\* first.
GcpStsAccount == Framework(<<"call", "post", "check", "save">>, Fetched,
    Updated, Deleted)

\* resource_datadog_integration_microsoft_teams_handle.go
TeamsHandle == Standard

\* resource_datadog_integration_microsoft_teams_workflows_webhook_handle.go
WorkflowsWebhookHandle == Standard

\* resource_datadog_ip_allowlist.go
IpAllowlist == Framework(<<"upsert", "check", "save">>,
    <<"look", "check", "save">>, <<"upsert", "check", "save">>,
    <<"delete?", "check">>)

\* resource_datadog_logs_custom_destination.go
LogsCustomDestination == Standard

\* resource_datadog_logs_restriction_query.go.  The second write adds and
\* removes the roles.
LogsRestrictionQueryCreate == <<"post", "check", "put", "get", "save">>
LogsRestrictionQueryRead == Fetched
LogsRestrictionQueryUpdate == <<"put", "check", "put", "get", "save">>
LogsRestrictionQueryDelete == Deleted
LogsRestrictionQuery == Framework(LogsRestrictionQueryCreate,
    LogsRestrictionQueryRead, LogsRestrictionQueryUpdate,
    LogsRestrictionQueryDelete)

\* resource_datadog_monitor.go
MonitorFramework == Framework(<<"post", "save">>, <<"get?", "save">>,
    <<"put", "save">>, Deleted)

\* resource_datadog_monitor_notification_rule.go
MonitorNotificationRule == Framework(<<"post", "save">>, <<"get?", "save">>,
    <<"put", "save">>, Deleted)

\* resource_datadog_observability_pipeline.go
ObservabilityPipeline == Standard

\* resource_datadog_on_call_escalation_policy.go
OnCallEscalationPolicy == Standard

\* resource_datadog_on_call_schedule.go
OnCallSchedule == Standard

\* resource_datadog_on_call_team_routing_rules.go.  Deleted by a write of no
\* rules.
OnCallTeamRoutingRules == Framework(<<"upsert", "check", "save">>, Fetched,
    <<"upsert", "check", "save">>, Deleted)

\* resource_datadog_on_call_user_notification_channel.go
OnCallUserNotificationChannel == Framework(Created, Fetched, Replaced, Deleted)

\* resource_datadog_openapi_api.go
OpenapiApi == Framework(Created, <<"get?", "save">>, Updated, Deleted)

\* resource_datadog_org_connection.go.  Read ends without State.Set.
OrgConnection == Framework(Created, <<"get?", "check">>, Updated, Deleted)

\* resource_datadog_restriction_policy.go
RestrictionPolicy == Framework(<<"upsert", "check", "save">>, Fetched,
    <<"upsert", "check", "save">>, Deleted)

\* resource_datadog_rum_application.go
RumApplication == Standard

\* resource_datadog_rum_metric.go
RumMetric == Framework(CreatedAs, Fetched, Updated, Deleted)

\* resource_datadog_rum_retention_filter.go
RumRetentionFilter == Standard

\* resource_datadog_rum_retention_filters_order.go
RumRetentionFiltersOrder == Framework(<<"upsert!", "save">>,
    <<"look", "check", "save">>, <<"upsert!", "save">>, Ignored)

\* resource_datadog_security_monitoring_rule_json.go
SecurityMonitoringRuleJsonCreate == <<"post", "check", "savePlan">>
SecurityMonitoringRuleJsonRead == Fetched
SecurityMonitoringRuleJsonUpdate == <<"put", "check", "savePlan">>
SecurityMonitoringRuleJsonDelete == Deleted
SecurityMonitoringRuleJson == Framework(SecurityMonitoringRuleJsonCreate,
    SecurityMonitoringRuleJsonRead, SecurityMonitoringRuleJsonUpdate,
    SecurityMonitoringRuleJsonDelete)

\* resource_datadog_security_notification_rule.go
SecurityNotificationRuleCreate == CreatedName
SecurityNotificationRuleRead == <<"get", "save">>
SecurityNotificationRuleUpdate == Updated
SecurityNotificationRuleDelete == <<"delete">>
SecurityNotificationRule == Framework(SecurityNotificationRuleCreate,
    SecurityNotificationRuleRead, SecurityNotificationRuleUpdate,
    SecurityNotificationRuleDelete)

\* resource_datadog_sensitive_data_scanner_group_order.go
ScannerGroupOrder == Framework(<<"upsert!", "savePlan">>, <<"look", "save">>,
    <<"upsert!", "savePlan">>, Ignored)

\* resource_datadog_service_account_application_key.go
ServiceAccountApplicationKey == Standard

\* resource_datadog_software_catalog.go
SoftwareCatalog == Framework(<<"upsert", "check", "savePlan">>,
    <<"get?", "save">>, <<"upsert", "check", "savePlan">>, Deleted)

\* resource_datadog_spans_metric.go
SpansMetric == Framework(CreatedAs, Fetched, Updated, Deleted)

\* resource_datadog_synthetics_concurrency_cap.go
SyntheticsConcurrencyCap == Framework(<<"upsert!", "savePlan">>,
    <<"look", "save">>, <<"upsert!", "savePlan">>, Ignored)

\* resource_datadog_synthetics_global_variable.go
SyntheticsGlobalVariable == Standard

\* resource_datadog_synthetics_private_location.go
SyntheticsPrivateLocation == Standard

\* resource_datadog_tag_pipeline_ruleset.go
TagPipelineRuleset == Framework(<<"post", "save">>, <<"get?", "save">>,
    <<"put", "save">>, Deleted)

\* resource_datadog_user_role.go.  A membership: its two ids are all there
\* is to it.
UserRole == Framework(<<"upsert", "check", "save">>, <<"get?", "check">>,
    Replaced, Deleted)

\* resource_datadog_webhook.go
Webhook == Framework(CreatedAs, Fetched, Updated, Deleted)

\* resource_datadog_webhook_custom_variable.go
WebhookCustomVariable == Framework(CreatedAs, Fetched, Updated, Deleted)

\* resource_datadog_workflow_automation.go
WorkflowAutomation == Framework(<<"post", "savePlan">>, <<"get?", "save">>,
    <<"put", "savePlan">>, <<"delete">>)

\* resource_datadog_reference_table.go.  Create finds the table in a list,
\* by name.
ReferenceTable == Framework(<<"postName", "check", "get", "save">>, Fetched,
    <<"put", "get", "check", "save">>, Deleted)

\* resource_datadog_appsec_waf_custom_rule.go
AppsecWafCustomRule == Standard

\* resource_datadog_appsec_waf_exclusion_filter.go
AppsecWafExclusionFilter == Standard

\* resource_datadog_app_builder_app.go.  The second write publishes or
\* unpublishes the app.
AppBuilderAppCreate == <<"post", "put", "savePlan">>
AppBuilderAppRead == <<"get", "save">>
AppBuilderAppUpdate == <<"put", "put", "savePlan">>
AppBuilderAppDelete == <<"delete">>
AppBuilderApp == Framework(AppBuilderAppCreate, AppBuilderAppRead,
    AppBuilderAppUpdate, AppBuilderAppDelete)
==============================================================================
