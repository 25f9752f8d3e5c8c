---------------------------- MODULE DashboardBuild ----------------------------
(***************************************************************************)
(* The conversions of datadog_dashboard towards Datadog: per function of   *)
(* the source, the attributes of a block it puts into the request.  A      *)
(* suffix names the nested block of a function that converts several.      *)
(***************************************************************************)
EXTENDS DashboardSchemas

buildDatadogDashboard ==
  Each(resourceDatadogDashboard \ {"dashboard_lists"})
  ++ FirstOf(<<"is_read_only", "restricted_roles">>)
\* Its errors are only logged.
updateDashboardLists == Each({"dashboard_lists"})
buildDatadogPowerpackTVarContents == Each(getPpkTemplateVariableContentSchema)
buildDatadogTemplateVariables ==
  Each(getTemplateVariableSchema)
  ++ FirstOf(<<"defaults", "default">>)
buildDatadogTemplateVariablePresets == Each(getTemplateVariablePresetSchema)
buildDatadogTemplateVariablePresets_template_variable ==
  Each(getTemplateVariablePresetValueSchema)
  ++ FirstOf(<<"values", "value">>)
buildDatadogWidget ==
  Each(getWidgetSchema)
  ++ ExactlyOneOf(<<"group_definition", "alert_graph_definition", "alert_value_definition",
    "change_definition", "check_status_definition", "distribution_definition",
    "event_stream_definition", "event_timeline_definition", "free_text_definition",
    "heatmap_definition", "hostmap_definition", "iframe_definition", "image_definition",
    "log_stream_definition", "manage_status_definition", "note_definition",
    "query_value_definition", "query_table_definition", "scatterplot_definition",
    "servicemap_definition", "service_level_objective_definition", "slo_list_definition",
    "sunburst_definition", "timeseries_definition", "toplist_definition",
    "topology_map_definition", "trace_service_definition", "treemap_definition",
    "geomap_definition", "list_stream_definition", "run_workflow_definition",
    "split_graph_definition", "powerpack_definition">>)
buildDatadogSourceWidgetDefinition ==
  Each(getSplitGraphSourceWidgetSchema)
  ++ FailsWithout(getSplitGraphSourceWidgetSchema) ++
    FailsWithTwoOf(getSplitGraphSourceWidgetSchema)
buildDatadogWidgetLayout == Each(getWidgetLayoutSchema)
buildDatadogGroupDefinition == Each(getGroupDefinitionSchema)
buildDatadogAlertGraphDefinition == Each(getAlertGraphDefinitionSchema)
buildDatadogAlertValueDefinition == Each(getAlertValueDefinitionSchema)
buildDatadogChangeDefinition == Each(getChangeDefinitionSchema)
buildDatadogChangeRequests ==
  Each(getChangeRequestSchema) ++ PanicsWithout(getChangeRequestSchema)
  ++ FirstOf(<<"q", "apm_query", "log_query", "rum_query", "security_query",
    "process_query", "query">>)
buildDatadogChangeRequests_query ==
  Each({"event_query", "metric_query", "process_query", "slo_query", "cloud_cost_query"})
  ++ FirstOf(<<"event_query", "metric_query", "process_query", "slo_query",
    "cloud_cost_query">>)
  ++ PanicsWithout(getFormulaQuerySchema)
buildDatadogDistributionDefinition == Each(getDistributionDefinitionSchema)
buildDatadogDistributionRequests ==
  Each(getDistributionRequestSchema) ++ PanicsWithout(getDistributionRequestSchema)
  ++ FirstOf(<<"q", "apm_query", "log_query", "process_query", "rum_query",
    "security_query", "apm_stats_query">>)
buildDatadogEventStreamDefinition == Each(getEventStreamDefinitionSchema)
buildDatadogEventTimelineDefinition == Each(getEventTimelineDefinitionSchema)
buildDatadogCheckStatusDefinition == Each(getCheckStatusDefinitionSchema)
buildDatadogFreeTextDefinition == Each(getFreeTextDefinitionSchema)
buildDatadogHeatmapDefinition == Each(getHeatmapDefinitionSchema)
buildDatadogHeatmapRequests ==
  Each(getHeatmapRequestSchema) ++ PanicsWithout(getHeatmapRequestSchema)
  ++ FirstOf(<<"q", "apm_query", "log_query", "process_query", "rum_query",
    "security_query", "query">>)
buildDatadogHeatmapRequests_query ==
  Each({"event_query", "metric_query", "process_query", "slo_query"})
  ++ FirstOf(<<"event_query", "metric_query", "process_query", "slo_query">>)
  ++ PanicsWithout(getFormulaQuerySchema)
buildDatadogHostmapDefinition == Each(getHostmapDefinitionSchema)
buildDatadogHostmapRequest ==
  Each(getHostmapRequestSchema) ++ PanicsWithout(getHostmapRequestSchema)
  ++ FirstOf(<<"q", "apm_query", "log_query", "process_query", "rum_query",
    "security_query">>)
buildDatadogIframeDefinition == Each(getIframeDefinitionSchema)
buildDatadogImageDefinition == Each(getImageDefinitionSchema)
buildDatadogLogStreamDefinition == Each(getLogStreamDefinitionSchema)
buildDatadogWidgetFieldSort == Each(getWidgetFieldSortSchema)
buildDatadogManageStatusDefinition == Each(getManageStatusDefinitionSchema)
buildDatadogNoteDefinition == Each(getNoteDefinitionSchema)
buildDatadogQueryValueDefinition == Each(getQueryValueDefinitionSchema)
buildDatadogQueryValueRequests ==
  Each(getQueryValueRequestSchema) ++ PanicsWithout(getQueryValueRequestSchema)
  ++ FirstOf(<<"q", "apm_query", "log_query", "process_query", "rum_query",
    "security_query", "audit_query", "query">>)
buildDatadogQueryValueRequests_query ==
  Each({"event_query", "metric_query", "process_query", "slo_query", "cloud_cost_query"})
  ++ FirstOf(<<"event_query", "metric_query", "process_query", "slo_query",
    "cloud_cost_query">>)
  ++ PanicsWithout(getFormulaQuerySchema)
buildDatadogQueryTableDefinition == Each(getQueryTableDefinitionSchema)
buildDatadogQueryTableRequests ==
  Each(getQueryTableRequestSchema) ++ PanicsWithout(getQueryTableRequestSchema)
  ++ FirstOf(<<"q", "apm_query", "log_query", "process_query", "rum_query",
    "security_query", "apm_stats_query", "query">>)
buildDatadogQueryTableRequests_query ==
  Each(getFormulaQuerySchema)
  ++ FirstOf(<<"event_query", "metric_query", "process_query", "apm_dependency_stats_query",
    "apm_resource_stats_query", "slo_query", "cloud_cost_query">>)
  ++ PanicsWithout(getFormulaQuerySchema)
buildDatadogQueryTableTextFormat == Each(getQueryTableRequestSchema_text_format)
buildDatadogScatterplotDefinition == Each(getScatterplotDefinitionSchema)
buildDatadogScatterplotDefinition_request ==
  Each(getScatterplotDefinitionSchema_request)
  ++ PanicsWithout(getScatterplotDefinitionSchema_request)
buildDatadogScatterplotTableRequest == Each(getScatterplotTableRequestSchema) ++ PanicsWithout(getScatterplotTableRequestSchema)
buildDatadogScatterplotTableRequest_query ==
  Each({"event_query", "metric_query", "process_query", "slo_query", "cloud_cost_query"})
  ++ FirstOf(<<"event_query", "metric_query", "process_query", "slo_query",
    "cloud_cost_query">>)
  ++ PanicsWithout(getFormulaQuerySchema)
buildDatadogScatterplotRequest ==
  Each(getScatterplotRequestSchema) ++ PanicsWithout(getScatterplotRequestSchema)
  ++ FirstOf(<<"q", "apm_query", "log_query", "process_query", "rum_query",
    "security_query">>)
buildDatadogServiceMapDefinition == Each(getServiceMapDefinitionSchema)
buildDatadogTopologyMapDefinition == Each(getTopologyMapDefinitionSchema)
buildDatadogTopologyRequests == Each(getTopologyRequestSchema)
buildDatadogTopologyQuery == Each(getTopologyQuerySchema)
buildDatadogServiceLevelObjectiveDefinition == Each(getServiceLevelObjectiveDefinitionSchema)
buildDatadogSloListDefinition == Each(getSloListDefinitionSchema)
buildDatadogSloListRequests == Each(getSloListRequestSchema)
buildDatadogSloListSort == Each(getWidgetFieldSortSchema)
buildDatadogListStreamDefinition == Each(getListStreamDefinitionSchema)
\* Mutant: an attribute added to the schema is forgotten here.
buildDatadogListStreamRequestsOld ==
  Each(getListStreamRequestSchema \ {"response_format"})
  ++ OnlyWith("query.data_source", "query.event_size")
  ++ FailsWithout({"columns.width", "columns.field"})
\* query.data_source stands for the source event_stream, the only one with an event size.
\* A request without columns, or with one column that has nothing in it, is refused.
buildDatadogListStreamRequests ==
  Each(getListStreamRequestSchema)
  ++ OnlyWith("query.data_source", "query.event_size")
  ++ FailsWithout({"columns.width", "columns.field"})
buildDatadogGeomapDefinition == Each(getGeomapDefinitionSchema)
buildDatadogGeomapRequests ==
  Each(getGeomapRequestSchema) ++ PanicsWithout(getGeomapRequestSchema)
  ++ FirstOf(<<"q", "log_query", "rum_query", "query">>)
buildDatadogGeomapRequests_query ==
  Each({"event_query", "metric_query", "process_query", "slo_query"})
  ++ FirstOf(<<"event_query", "metric_query", "process_query", "slo_query">>)
  ++ PanicsWithout(getFormulaQuerySchema)
buildDatadogTimeseriesDefinition == Each(getTimeseriesDefinitionSchema)
buildDatadogSunburstLegendInline == Each(getSunburstDefinitionschema_legend_inline)
buildDatadogSunburstLegendTable == Each(getSunburstDefinitionschema_legend_table)
buildDatadogSunburstDefinition ==
  Each(getSunburstDefinitionschema)
  ++ FirstOf(<<"legend_table", "legend_inline">>)
buildDatadogSunburstRequests ==
  Each(getSunburstRequestSchema) ++ PanicsWithout(getSunburstRequestSchema)
  ++ FirstOf(<<"q", "apm_query", "log_query", "network_query", "rum_query",
    "security_query", "process_query", "audit_query", "query">>)
buildDatadogSunburstRequests_query ==
  Each({"event_query", "metric_query", "process_query", "slo_query", "cloud_cost_query"})
  ++ FirstOf(<<"event_query", "metric_query", "process_query", "slo_query",
    "cloud_cost_query">>)
  ++ PanicsWithout(getFormulaQuerySchema)
buildDatadogScatterplotFormula == Each(getScatterplotFormulaSchema)
buildDatadogFormula ==
  Each(getFormulaSchema \cup {"cell_display_mode_options.trend_type",
    "cell_display_mode_options.y_scale"})
buildDatadogFormula_style ==
  Each(getFormulaSchema_style) ++ PanicsWithout(getFormulaSchema_style)
buildDatadogEventQuery == Each(getFormulaQuerySchema_event_query)
buildDatadogMetricQuery == Each(getFormulaQuerySchema_metric_query \ {"data_source"})
buildDatadogFormulaAndFunctionAPMResourceStatsQuery ==
  Each(getFormulaQuerySchema_apm_resource_stats_query)
buildDatadogFormulaAndFunctionAPMDependencyStatsQuery ==
  Each(getFormulaQuerySchema_apm_dependency_stats_query)
buildDatadogFormulaAndFunctionProcessQuery == Each(getFormulaQuerySchema_process_query)
buildDatadogFormulaAndFunctionSLOQuery == Each(getFormulaQuerySchema_slo_query)
buildDatadogFormulaAndFunctionCloudCostQuery == Each(getFormulaQuerySchema_cloud_cost_query)
buildDatadogTimeseriesRequests ==
  Each(getTimeseriesRequestSchema) ++ PanicsWithout(getTimeseriesRequestSchema)
  ++ FirstOf(<<"q", "apm_query", "log_query", "network_query", "rum_query",
    "security_query", "process_query", "audit_query", "query">>)
buildDatadogTimeseriesRequests_query ==
  Each({"event_query", "metric_query", "process_query", "slo_query", "cloud_cost_query"})
  ++ FirstOf(<<"event_query", "metric_query", "process_query", "slo_query",
    "cloud_cost_query">>)
  ++ PanicsWithout(getFormulaQuerySchema)
buildDatadogToplistDefinition == Each(getToplistDefinitionSchema)
buildDatadogToplistStyle == Each(getToplistWidgetStyleSchema)
buildDatadogToplistRequests ==
  Each(getToplistRequestSchema) ++ PanicsWithout(getToplistRequestSchema)
  ++ FirstOf(<<"q", "apm_query", "log_query", "process_query", "rum_query",
    "security_query", "audit_query", "query">>)
buildDatadogToplistRequests_query ==
  Each({"event_query", "metric_query", "process_query", "slo_query", "cloud_cost_query"})
  ++ FirstOf(<<"event_query", "metric_query", "process_query", "slo_query",
    "cloud_cost_query">>)
  ++ PanicsWithout(getFormulaQuerySchema)
buildDatadogTraceServiceDefinition == Each(getTraceServiceDefinitionSchema)
buildDatadogSplitGraphDefinition == Each(getSplitGraphDefinitionSchema)
\* Line 8815 takes the first element of the list, which is empty when the block is absent.
buildDatadogPowerpackDefinition ==
  Each(getPowerpackDefinitionSchema)
  ++ PanicsWithout({"template_variables"})
buildDatadogSplitConfig == Each(getSplitConfigSchema)
buildDatadogSplitSort == Each(getSplitSortSchema)
buildDatadogStaticSplits == Each(getStaticSplitsSchema)
buildDatadogRunWorkflowDefinition == Each(getRunWorkflowDefinitionSchema)
buildDatadogRunWorkflowInputs == Each(getRunWorkflowDefinitionSchema_input)
buildDatadogTreemapDefinition == Each(getTreemapDefinitionSchema)
buildDatadogTreemapRequests == Each(getTreemapRequestSchema) ++ PanicsWithout(getTreemapRequestSchema)
buildDatadogTreemapRequests_query ==
  Each({"event_query", "metric_query", "process_query", "slo_query", "cloud_cost_query"})
  ++ FirstOf(<<"event_query", "metric_query", "process_query", "slo_query",
    "cloud_cost_query">>)
  ++ PanicsWithout(getFormulaQuerySchema)
buildDatadogWidgetConditionalFormat == Each(getWidgetConditionalFormatSchema)
buildDatadogTimeseriesBackground == Each(getQueryValueTimeseriesBackgroundSchema)
buildDatadogWidgetCustomLinks ==
  Each(getWidgetCustomLinkSchema) ++ PanicsWithout(getWidgetCustomLinkSchema)
  ++ FirstOf(<<"override_label", "label">>)
  ++ OnlyWith("override_label", "is_hidden")
buildDatadogWidgetEvents == Each(getWidgetEventSchema)
buildDatadogWidgetMarkers == Each(getWidgetMarkerSchema)
buildDatadogQueryCompute == Each(getComputeSchema)
buildDatadogApmOrLogQuery == Each(getApmLogNetworkRumSecurityAuditQuerySchema)
buildDatadogGroupBySort == Each(getQueryGroupBySortSchema)
buildDatadogProcessQuery == Each(getProcessQuerySchema)
buildDatadogApmStatsQueryColumn == Each(getApmStatsQuerySchema_columns)
buildDatadogApmStatsQuery == Each(getApmStatsQuerySchema)
buildDatadogWidgetAxis == Each(getWidgetAxisSchema)
buildDatadogDistributionWidgetXAxis == Each(getDistributionWidgetXAxisSchema)
buildDatadogDistributionWidgetYAxis == Each(getDistributionWidgetYAxisSchema)
buildDatadogWidgetStyle == Each(getWidgetRequestStyle)
buildDatadogWidgetRequestStyle == Each(getTimeseriesRequestSchema_style)
buildDatadogGeomapRequestStyle == Each(getGeomapDefinitionSchema_style)
buildDatadogGeomapRequestView == Each(getGeomapDefinitionSchema_view)
buildDatadogHostmapRequestStyle == Each(getHostmapDefinitionSchema_style)
buildDatadogNumberFormatFormulaSchema == Each(getNumberFormatFormulaSchema)
buildDatadogNumberFormatFormulaSchema_unit ==
  Each(getNumberFormatFormulaSchema_unit) ++ PanicsWithout(getNumberFormatFormulaSchema_unit)
buildDatadogPowerpackDefinition_tvars ==
  Each(getPpkTemplateVariableSchema) ++ PanicsWithout(getPpkTemplateVariableSchema)
buildDatadogSplitConfig_split_dimensions == Each(getSplitDimensionSchema)
==============================================================================
