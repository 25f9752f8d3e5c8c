---------------------------- MODULE DashboardFlatten ----------------------------
(***************************************************************************)
(* The conversions of datadog_dashboard into the Terraform state: per      *)
(* function of the source, the attributes of a block it reads from the     *)
(* answer.  A suffix names the nested block of a function that converts    *)
(* several.                                                                *)
(***************************************************************************)
EXTENDS DashboardSchemas

\* Mutant: the d.Set of the tags is missing.
updateDashboardStateNoTags ==
  Each(resourceDatadogDashboard \ {"dashboard_lists", "tags"})
  ++ Keeps({"dashboard_lists", "tags"})
updateDashboardState ==
  Each(resourceDatadogDashboard \ {"dashboard_lists"})
  ++ Keeps({"dashboard_lists"})
buildTerraformPowerpackTVarContents == Each(getPpkTemplateVariableContentSchema)
buildTerraformTemplateVariables ==
  Each(getTemplateVariableSchema)
  ++ FirstOf(<<"defaults", "default">>)
buildTerraformTemplateVariablePresets == Each(getTemplateVariablePresetSchema)
buildTerraformTemplateVariablePresets_template_variable ==
  Each(getTemplateVariablePresetValueSchema)
  ++ FirstOf(<<"values", "value">>)
buildTerraformWidget ==
  Each(getWidgetSchema)
  ++ ExactlyOneOf(<<"group_definition", "alert_graph_definition", "alert_value_definition",
    "change_definition", "check_status_definition", "distribution_definition",
    "event_stream_definition", "event_timeline_definition", "free_text_definition",
    "heatmap_definition", "hostmap_definition", "iframe_definition", "image_definition",
    "log_stream_definition", "list_stream_definition", "manage_status_definition",
    "note_definition", "query_value_definition", "query_table_definition",
    "scatterplot_definition", "servicemap_definition", "service_level_objective_definition",
    "slo_list_definition", "sunburst_definition", "timeseries_definition",
    "toplist_definition", "topology_map_definition", "trace_service_definition",
    "treemap_definition", "geomap_definition", "run_workflow_definition",
    "split_graph_definition", "powerpack_definition">>)
buildTerraformWidget_widget_layout == Each(getWidgetLayoutSchema)
\* Mutant: a new kind of source has a build branch only.
buildTerraformSourceWidgetDefinitionOld ==
  LET known == getSplitGraphSourceWidgetSchema
               \ {"scatterplot_definition", "treemap_definition"} IN
  Each(known) ++ FailsWithout(known) ++ Refuses({"change_definition"})
\* Line 1637 sets a map where the schema declares a list, which d.Set refuses.
buildTerraformSourceWidgetDefinition ==
  Each(getSplitGraphSourceWidgetSchema \ {"scatterplot_definition"})
  ++ ExactlyOneOf(<<"change_definition", "query_value_definition", "query_table_definition",
    "sunburst_definition", "timeseries_definition", "toplist_definition",
    "treemap_definition", "geomap_definition">>)
  ++ Refuses({"change_definition"})
\* Line 1791 drops the error of a nested widget of a kind the provider does not know, and
\* takes nil for the widget.
buildTerraformGroupDefinition ==
  Each(getGroupDefinitionSchema) ++ Mistakes("unknown_widget", "widget")
buildTerraformAlertGraphDefinition == Each(getAlertGraphDefinitionSchema)
buildTerraformAlertValueDefinition == Each(getAlertValueDefinitionSchema)
buildTerraformChangeDefinition == Each(getChangeDefinitionSchema)
buildTerraformChangeRequests ==
  Each(getChangeRequestSchema)
  ++ FirstOf(<<"q", "apm_query", "log_query", "process_query", "rum_query",
    "security_query", "query">>)
buildTerraformDistributionDefinition == Each(getDistributionDefinitionSchema)
buildTerraformDistributionRequests ==
  Each(getDistributionRequestSchema)
  ++ FirstOf(<<"q", "apm_query", "log_query", "process_query", "rum_query",
    "security_query", "apm_stats_query">>)
buildTerraformEventStreamDefinition == Each(getEventStreamDefinitionSchema)
buildTerraformEventTimelineDefinition == Each(getEventTimelineDefinitionSchema)
buildTerraformCheckStatusDefinition == Each(getCheckStatusDefinitionSchema)
buildTerraformFreeTextDefinition == Each(getFreeTextDefinitionSchema)
buildTerraformHeatmapDefinition == Each(getHeatmapDefinitionSchema)
buildTerraformHeatmapRequests ==
  Each(getHeatmapRequestSchema)
  ++ FirstOf(<<"q", "apm_query", "log_query", "process_query", "rum_query",
    "security_query", "query">>)
buildTerraformHostmapDefinition == Each(getHostmapDefinitionSchema)
buildTerraformHostmapRequest ==
  Each(getHostmapRequestSchema)
  ++ FirstOf(<<"q", "apm_query", "log_query", "process_query", "rum_query",
    "security_query">>)
buildTerraformIframeDefinition == Each(getIframeDefinitionSchema)
buildTerraformImageDefinition == Each(getImageDefinitionSchema)
buildTerraformLogStreamDefinition == Each(getLogStreamDefinitionSchema)
buildTerraformWidgetFieldSort == Each(getWidgetFieldSortSchema)
buildTerraformManageStatusDefinition == Each(getManageStatusDefinitionSchema)
buildTerraformNoteDefinition == Each(getNoteDefinitionSchema)
buildTerraformTimeseriesBackground == Each(getQueryValueTimeseriesBackgroundSchema)
buildTerraformQueryValueDefinition == Each(getQueryValueDefinitionSchema)
buildTerraformQueryValueRequests ==
  Each(getQueryValueRequestSchema)
  ++ FirstOf(<<"q", "apm_query", "log_query", "process_query", "rum_query",
    "security_query", "audit_query", "query">>)
buildTerraformQueryTableDefinition == Each(getQueryTableDefinitionSchema)
buildTerraformQueryTableRequests ==
  Each(getQueryTableRequestSchema)
  ++ FirstOf(<<"q", "apm_query", "log_query", "process_query", "rum_query",
    "security_query", "apm_stats_query", "query">>)
buildTerraformQueryTableTextFormat == Each(getQueryTableRequestSchema_text_format)
buildTerraformScatterplotDefinition == Each(getScatterplotDefinitionSchema)
buildTerraformScatterplotDefinition_request == Each(getScatterplotDefinitionSchema_request)
buildTerraformScatterplotTableRequest == Each(getScatterplotTableRequestSchema)
buildTerraformScatterplotRequest ==
  Each(getScatterplotRequestSchema)
  ++ FirstOf(<<"q", "apm_query", "log_query", "process_query", "rum_query",
    "security_query">>)
buildTerraformServiceMapDefinition == Each(getServiceMapDefinitionSchema)
buildTerraformTopologyMapDefinition == Each(getTopologyMapDefinitionSchema)
buildTerraformTopologyRequests == Each(getTopologyRequestSchema)
buildTerraformTopologyQuery == Each(getTopologyQuerySchema)
buildTerraformServiceLevelObjectiveDefinition == Each(getServiceLevelObjectiveDefinitionSchema)
buildTerraformSloListDefinition == Each(getSloListDefinitionSchema)
buildTerraformSloListRequests == Each(getSloListRequestSchema)
buildTerraformSloListSort == Each(getWidgetFieldSortSchema)
buildTerraformGeomapRequests ==
  Each(getGeomapRequestSchema)
  ++ FirstOf(<<"q", "log_query", "rum_query", "query">>)
buildTerraformTimeseriesDefinition == Each(getTimeseriesDefinitionSchema)
buildTerraformSunburstRequests ==
  Each(getSunburstRequestSchema)
  ++ FirstOf(<<"q", "apm_query", "log_query", "network_query", "process_query", "rum_query",
    "security_query", "audit_query", "query">>)
buildTerraformSunburstLegendInline == Each(getSunburstDefinitionschema_legend_inline)
buildTerraformSunburstLegendTable == Each(getSunburstDefinitionschema_legend_table)
\* Line 6866 tells the two legends apart by hide_value, which the provider always sends with
\* an inline legend and the user interface need not.
buildTerraformSunburstDefinition ==
  Each(getSunburstDefinitionschema)
  ++ FirstOf(<<"legend_inline", "legend_table">>)
  ++ Mistakes("legend_inline_without_hide_value", "legend_table")
buildTerraformTimeseriesRequests ==
  Each(getTimeseriesRequestSchema)
  ++ FirstOf(<<"q", "apm_query", "log_query", "network_query", "process_query", "rum_query",
    "security_query", "audit_query", "query">>)
buildTerraformToplistDefinition == Each(getToplistDefinitionSchema)
buildTerraformToplistRequests ==
  Each(getToplistRequestSchema)
  ++ FirstOf(<<"q", "apm_query", "log_query", "process_query", "rum_query",
    "security_query", "audit_query", "query">>)
buildTerraformToplistWidgetStyle == Each(getToplistWidgetStyleSchema)
buildTerraformSplitGraphDefinition == Each(getSplitGraphDefinitionSchema)
buildTerraformPowerpackDefinition == Each(getPowerpackDefinitionSchema)
buildTerraformSplitConfig == Each(getSplitConfigSchema)
buildTerraformStaticSplits == Each(getStaticSplitsSchema)
buildTerraformRunWorkflowDefinition == Each(getRunWorkflowDefinitionSchema)
buildTerraformRunWorkflowInputs == Each(getRunWorkflowDefinitionSchema_input)
buildTerraformTreemapRequests == Each(getTreemapRequestSchema)
buildTerraformTreemapDefinition == Each(getTreemapDefinitionSchema)
buildTerraformGeomapDefinition == Each(getGeomapDefinitionSchema)
buildTerraformListStreamDefinition == Each(getListStreamDefinitionSchema)
\* Mutant: an attribute is written, never read.
buildTerraformListStreamWidgetRequestsOld ==
  Each(getListStreamRequestSchema \ {"query.clustering_pattern_field_path",
    "query.group_by.facet", "query.indexes"})
  ++ OnlyWith("query.data_source", "query.event_size")
buildTerraformListStreamWidgetRequests ==
  Each(getListStreamRequestSchema \ {"query.clustering_pattern_field_path",
    "query.group_by.facet"})
  ++ OnlyWith("query.data_source", "query.event_size")
buildTerraformTraceServiceDefinition == Each(getTraceServiceDefinitionSchema)
buildTerraformWidgetConditionalFormat == Each(getWidgetConditionalFormatSchema)
buildTerraformWidgetCustomLinks == Each(getWidgetCustomLinkSchema)
buildTerraformWidgetEvents == Each(getWidgetEventSchema)
buildTerraformWidgetMarkers == Each(getWidgetMarkerSchema)
buildTerraformQuery == Each(getFormulaQuerySchema)
buildTerraformQuery_metric_query == Each(getFormulaQuerySchema_metric_query)
buildTerraformQuery_event_query == Each(getFormulaQuerySchema_event_query)
buildTerraformQuery_process_query == Each(getFormulaQuerySchema_process_query)
\* Line 10118 asks the event query, absent here, for the organisations.
buildTerraformQuery_apm_dependency_stats_query ==
  Each(getFormulaQuerySchema_apm_dependency_stats_query \ {"cross_org_uuids"})
buildTerraformQuery_apm_resource_stats_query ==
  Each(getFormulaQuerySchema_apm_resource_stats_query \ {"cross_org_uuids"})
buildTerraformQuery_slo_query == Each(getFormulaQuerySchema_slo_query)
buildTerraformQuery_cloud_cost_query == Each(getFormulaQuerySchema_cloud_cost_query)
buildTerraformScatterplotFormula == Each(getScatterplotFormulaSchema)
buildTerraformFormula ==
  Each(getFormulaSchema \cup {"cell_display_mode_options.trend_type",
    "cell_display_mode_options.y_scale"})
buildTerraformFormula_style == Each(getFormulaSchema_style)
buildTerraformApmOrLogQueryCompute == Each(getComputeSchema)
buildTerraformApmOrLogQuery == Each(getApmLogNetworkRumSecurityAuditQuerySchema)
buildTerraformProcessQuery == Each(getProcessQuerySchema)
buildTerraformApmStatsQuery == Each(getApmStatsQuerySchema)
buildTerraformWidgetAxis == Each(getWidgetAxisSchema)
buildTerraformDistributionWidgetXAxis == Each(getDistributionWidgetXAxisSchema)
buildTerraformDistributionWidgetYAxis == Each(getDistributionWidgetYAxisSchema)
buildTerraformWidgetStyle == Each(getWidgetRequestStyle)
buildTerraformWidgetRequestStyle == Each(getTimeseriesRequestSchema_style)
buildTerraformGeomapRequestStyle == Each(getGeomapDefinitionSchema_style)
buildTerraformGeomapRequestView == Each(getGeomapDefinitionSchema_view)
buildTerraformHostmapRequestStyle == Each(getHostmapDefinitionSchema_style)
buildTerraformNumberFormatFormulaSchema == Each(getNumberFormatFormulaSchema)
buildTerraformNumberFormatFormulaSchema_unit == Each(getNumberFormatFormulaSchema_unit)
buildTerraformPowerpackDefinition_tvars == Each(getPpkTemplateVariableSchema)
\* Line 8983 takes the first dimension; the API keeps exactly one.
buildTerraformSplitConfig_split_dimensions == Each(getSplitDimensionSchema)
buildTerraformSplitConfig_sort == Each(getSplitSortSchema)
buildTerraformApmStatsQuery_columns == Each(getApmStatsQuerySchema_columns)
buildTerraformApmOrLogQuery_sort_query == Each(getQueryGroupBySortSchema)
==============================================================================
