---------------------------- MODULE DashboardConversions ----------------------------
(***************************************************************************)
(* The blocks of datadog_dashboard: schema, build and flatten function of  *)
(* each.                                                                   *)
(***************************************************************************)
EXTENDS DashboardBuild, DashboardFlatten

(* A build function that several converters share stands in each of them.  *)
DashboardConverters ==
  [TemplateVariable |-> Converter(getTemplateVariableSchema,
      buildDatadogTemplateVariables, buildTerraformTemplateVariables),
   TemplateVariablePreset |-> Converter(getTemplateVariablePresetSchema,
      buildDatadogTemplateVariablePresets, buildTerraformTemplateVariablePresets),
   Widget |-> Converter(getWidgetSchema, buildDatadogWidget, buildTerraformWidget),
   Group |-> Converter(getGroupDefinitionSchema \cup {"unknown_widget"},
      buildDatadogGroupDefinition, buildTerraformGroupDefinition),
   AlertGraph |-> Converter(getAlertGraphDefinitionSchema,
      buildDatadogAlertGraphDefinition, buildTerraformAlertGraphDefinition),
   AlertValue |-> Converter(getAlertValueDefinitionSchema,
      buildDatadogAlertValueDefinition, buildTerraformAlertValueDefinition),
   Change |-> Converter(getChangeDefinitionSchema,
      buildDatadogChangeDefinition, buildTerraformChangeDefinition),
   ChangeRequest |-> Converter(getChangeRequestSchema,
      buildDatadogChangeRequests, buildTerraformChangeRequests),
   Distribution |-> Converter(getDistributionDefinitionSchema,
      buildDatadogDistributionDefinition, buildTerraformDistributionDefinition),
   DistributionRequest |-> Converter(getDistributionRequestSchema,
      buildDatadogDistributionRequests, buildTerraformDistributionRequests),
   EventStream |-> Converter(getEventStreamDefinitionSchema,
      buildDatadogEventStreamDefinition, buildTerraformEventStreamDefinition),
   EventTimeline |-> Converter(getEventTimelineDefinitionSchema,
      buildDatadogEventTimelineDefinition, buildTerraformEventTimelineDefinition),
   CheckStatus |-> Converter(getCheckStatusDefinitionSchema,
      buildDatadogCheckStatusDefinition, buildTerraformCheckStatusDefinition),
   FreeText |-> Converter(getFreeTextDefinitionSchema,
      buildDatadogFreeTextDefinition, buildTerraformFreeTextDefinition),
   Heatmap |-> Converter(getHeatmapDefinitionSchema,
      buildDatadogHeatmapDefinition, buildTerraformHeatmapDefinition),
   HeatmapRequest |-> Converter(getHeatmapRequestSchema,
      buildDatadogHeatmapRequests, buildTerraformHeatmapRequests),
   Hostmap |-> Converter(getHostmapDefinitionSchema,
      buildDatadogHostmapDefinition, buildTerraformHostmapDefinition),
   HostmapRequest |-> Converter(getHostmapRequestSchema,
      buildDatadogHostmapRequest, buildTerraformHostmapRequest),
   Iframe |-> Converter(getIframeDefinitionSchema,
      buildDatadogIframeDefinition, buildTerraformIframeDefinition),
   Image |-> Converter(getImageDefinitionSchema,
      buildDatadogImageDefinition, buildTerraformImageDefinition),
   LogStream |-> Converter(getLogStreamDefinitionSchema,
      buildDatadogLogStreamDefinition, buildTerraformLogStreamDefinition),
   WidgetFieldSort |-> Converter(getWidgetFieldSortSchema,
      buildDatadogWidgetFieldSort, buildTerraformWidgetFieldSort),
   ManageStatus |-> Converter(getManageStatusDefinitionSchema,
      buildDatadogManageStatusDefinition, buildTerraformManageStatusDefinition),
   Note |-> Converter(getNoteDefinitionSchema,
      buildDatadogNoteDefinition, buildTerraformNoteDefinition),
   QueryValue |-> Converter(getQueryValueDefinitionSchema,
      buildDatadogQueryValueDefinition, buildTerraformQueryValueDefinition),
   QueryValueRequest |-> Converter(getQueryValueRequestSchema,
      buildDatadogQueryValueRequests, buildTerraformQueryValueRequests),
   QueryTable |-> Converter(getQueryTableDefinitionSchema,
      buildDatadogQueryTableDefinition, buildTerraformQueryTableDefinition),
   QueryTableRequest |-> Converter(getQueryTableRequestSchema,
      buildDatadogQueryTableRequests, buildTerraformQueryTableRequests),
   Scatterplot |-> Converter(getScatterplotDefinitionSchema,
      buildDatadogScatterplotDefinition, buildTerraformScatterplotDefinition),
   ScatterplotTableRequest |-> Converter(getScatterplotTableRequestSchema,
      buildDatadogScatterplotTableRequest, buildTerraformScatterplotTableRequest),
   ScatterplotRequest |-> Converter(getScatterplotRequestSchema,
      buildDatadogScatterplotRequest, buildTerraformScatterplotRequest),
   ServiceMap |-> Converter(getServiceMapDefinitionSchema,
      buildDatadogServiceMapDefinition, buildTerraformServiceMapDefinition),
   TopologyMap |-> Converter(getTopologyMapDefinitionSchema,
      buildDatadogTopologyMapDefinition, buildTerraformTopologyMapDefinition),
   TopologyRequest |-> Converter(getTopologyRequestSchema,
      buildDatadogTopologyRequests, buildTerraformTopologyRequests),
   TopologyQuery |-> Converter(getTopologyQuerySchema,
      buildDatadogTopologyQuery, buildTerraformTopologyQuery),
   ServiceLevelObjective |-> Converter(getServiceLevelObjectiveDefinitionSchema,
      buildDatadogServiceLevelObjectiveDefinition, buildTerraformServiceLevelObjectiveDefinition),
   SloList |-> Converter(getSloListDefinitionSchema,
      buildDatadogSloListDefinition, buildTerraformSloListDefinition),
   SloListRequest |-> Converter(getSloListRequestSchema,
      buildDatadogSloListRequests, buildTerraformSloListRequests),
   ListStream |-> Converter(getListStreamDefinitionSchema,
      buildDatadogListStreamDefinition, buildTerraformListStreamDefinition),
   Geomap |-> Converter(getGeomapDefinitionSchema,
      buildDatadogGeomapDefinition, buildTerraformGeomapDefinition),
   GeomapRequest |-> Converter(getGeomapRequestSchema,
      buildDatadogGeomapRequests, buildTerraformGeomapRequests),
   Timeseries |-> Converter(getTimeseriesDefinitionSchema,
      buildDatadogTimeseriesDefinition, buildTerraformTimeseriesDefinition),
   Sunburst |-> Converter(getSunburstDefinitionschema \cup {"legend_inline_without_hide_value"},
      buildDatadogSunburstDefinition, buildTerraformSunburstDefinition),
   SunburstRequest |-> Converter(getSunburstRequestSchema,
      buildDatadogSunburstRequests, buildTerraformSunburstRequests),
   ScatterplotFormula |-> Converter(getScatterplotFormulaSchema,
      buildDatadogScatterplotFormula, buildTerraformScatterplotFormula),
   Formula |-> Converter(getFormulaSchema, buildDatadogFormula, buildTerraformFormula),
   TimeseriesRequest |-> Converter(getTimeseriesRequestSchema,
      buildDatadogTimeseriesRequests, buildTerraformTimeseriesRequests),
   Toplist |-> Converter(getToplistDefinitionSchema,
      buildDatadogToplistDefinition, buildTerraformToplistDefinition),
   ToplistRequest |-> Converter(getToplistRequestSchema,
      buildDatadogToplistRequests, buildTerraformToplistRequests),
   TraceService |-> Converter(getTraceServiceDefinitionSchema,
      buildDatadogTraceServiceDefinition, buildTerraformTraceServiceDefinition),
   Powerpack |-> Converter(getPowerpackDefinitionSchema,
      buildDatadogPowerpackDefinition, buildTerraformPowerpackDefinition),
   SplitGraph |-> Converter(getSplitGraphDefinitionSchema,
      buildDatadogSplitGraphDefinition, buildTerraformSplitGraphDefinition),
   SplitConfig |-> Converter(getSplitConfigSchema,
      buildDatadogSplitConfig, buildTerraformSplitConfig),
   StaticSplits |-> Converter(getStaticSplitsSchema,
      buildDatadogStaticSplits, buildTerraformStaticSplits),
   RunWorkflow |-> Converter(getRunWorkflowDefinitionSchema,
      buildDatadogRunWorkflowDefinition, buildTerraformRunWorkflowDefinition),
   Treemap |-> Converter(getTreemapDefinitionSchema,
      buildDatadogTreemapDefinition, buildTerraformTreemapDefinition),
   TreemapRequest |-> Converter(getTreemapRequestSchema,
      buildDatadogTreemapRequests, buildTerraformTreemapRequests),
   WidgetConditionalFormat |-> Converter(getWidgetConditionalFormatSchema,
      buildDatadogWidgetConditionalFormat, buildTerraformWidgetConditionalFormat),
   WidgetCustomLink |-> Converter(getWidgetCustomLinkSchema,
      buildDatadogWidgetCustomLinks, buildTerraformWidgetCustomLinks),
   WidgetEvent |-> Converter(getWidgetEventSchema,
      buildDatadogWidgetEvents, buildTerraformWidgetEvents),
   WidgetMarker |-> Converter(getWidgetMarkerSchema,
      buildDatadogWidgetMarkers, buildTerraformWidgetMarkers),
   ProcessQuery |-> Converter(getProcessQuerySchema,
      buildDatadogProcessQuery, buildTerraformProcessQuery),
   ApmStatsQuery |-> Converter(getApmStatsQuerySchema,
      buildDatadogApmStatsQuery, buildTerraformApmStatsQuery),
   WidgetAxis |-> Converter(getWidgetAxisSchema,
      buildDatadogWidgetAxis, buildTerraformWidgetAxis),
   DistributionWidgetXAxis |-> Converter(getDistributionWidgetXAxisSchema,
      buildDatadogDistributionWidgetXAxis, buildTerraformDistributionWidgetXAxis),
   DistributionWidgetYAxis |-> Converter(getDistributionWidgetYAxisSchema,
      buildDatadogDistributionWidgetYAxis, buildTerraformDistributionWidgetYAxis),
   NumberFormatFormula |-> Converter(getNumberFormatFormulaSchema,
      buildDatadogNumberFormatFormulaSchema, buildTerraformNumberFormatFormulaSchema),
   HostmapStyle |-> Converter(getHostmapDefinitionSchema_style,
      buildDatadogHostmapRequestStyle, buildTerraformHostmapRequestStyle),
   GeomapStyle |-> Converter(getGeomapDefinitionSchema_style,
      buildDatadogGeomapRequestStyle, buildTerraformGeomapRequestStyle),
   GeomapView |-> Converter(getGeomapDefinitionSchema_view,
      buildDatadogGeomapRequestView, buildTerraformGeomapRequestView),
   SunburstLegendInline |-> Converter(getSunburstDefinitionschema_legend_inline,
      buildDatadogSunburstLegendInline, buildTerraformSunburstLegendInline),
   SunburstLegendTable |-> Converter(getSunburstDefinitionschema_legend_table,
      buildDatadogSunburstLegendTable, buildTerraformSunburstLegendTable),
   RunWorkflowInput |-> Converter(getRunWorkflowDefinitionSchema_input,
      buildDatadogRunWorkflowInputs, buildTerraformRunWorkflowInputs),
   QueryTableTextFormat |-> Converter(getQueryTableRequestSchema_text_format,
      buildDatadogQueryTableTextFormat, buildTerraformQueryTableTextFormat),
   TimeseriesStyle |-> Converter(getTimeseriesRequestSchema_style,
      buildDatadogWidgetRequestStyle, buildTerraformWidgetRequestStyle),
   ChangeRequestQuery |-> Converter(getFormulaQuerySchema,
      buildDatadogChangeRequests_query, buildTerraformQuery),
   HeatmapRequestQuery |-> Converter(getFormulaQuerySchema,
      buildDatadogHeatmapRequests_query, buildTerraformQuery),
   QueryValueRequestQuery |-> Converter(getFormulaQuerySchema,
      buildDatadogQueryValueRequests_query, buildTerraformQuery),
   QueryTableRequestQuery |-> Converter(getFormulaQuerySchema,
      buildDatadogQueryTableRequests_query, buildTerraformQuery),
   ScatterplotTableRequestQuery |-> Converter(getFormulaQuerySchema,
      buildDatadogScatterplotTableRequest_query, buildTerraformQuery),
   GeomapRequestQuery |-> Converter(getFormulaQuerySchema,
      buildDatadogGeomapRequests_query, buildTerraformQuery),
   SunburstRequestQuery |-> Converter(getFormulaQuerySchema,
      buildDatadogSunburstRequests_query, buildTerraformQuery),
   TimeseriesRequestQuery |-> Converter(getFormulaQuerySchema,
      buildDatadogTimeseriesRequests_query, buildTerraformQuery),
   ToplistRequestQuery |-> Converter(getFormulaQuerySchema,
      buildDatadogToplistRequests_query, buildTerraformQuery),
   TreemapRequestQuery |-> Converter(getFormulaQuerySchema,
      buildDatadogTreemapRequests_query, buildTerraformQuery),
   MetricQuery |-> Converter(getFormulaQuerySchema_metric_query,
      buildDatadogMetricQuery, buildTerraformQuery_metric_query),
   EventQuery |-> Converter(getFormulaQuerySchema_event_query,
      buildDatadogEventQuery, buildTerraformQuery_event_query),
   FormulaProcessQuery |-> Converter(getFormulaQuerySchema_process_query,
      buildDatadogFormulaAndFunctionProcessQuery, buildTerraformQuery_process_query),
   ApmDependencyStatsQuery |-> Converter(getFormulaQuerySchema_apm_dependency_stats_query,
      buildDatadogFormulaAndFunctionAPMDependencyStatsQuery, buildTerraformQuery_apm_dependency_stats_query),
   ApmResourceStatsQuery |-> Converter(getFormulaQuerySchema_apm_resource_stats_query,
      buildDatadogFormulaAndFunctionAPMResourceStatsQuery, buildTerraformQuery_apm_resource_stats_query),
   SloQuery |-> Converter(getFormulaQuerySchema_slo_query,
      buildDatadogFormulaAndFunctionSLOQuery, buildTerraformQuery_slo_query),
   CloudCostQuery |-> Converter(getFormulaQuerySchema_cloud_cost_query,
      buildDatadogFormulaAndFunctionCloudCostQuery, buildTerraformQuery_cloud_cost_query),
   WidgetLayout |-> Converter(getWidgetLayoutSchema,
      buildDatadogWidgetLayout, buildTerraformWidget_widget_layout),
   SplitSource |-> Converter(getSplitGraphSourceWidgetSchema,
      buildDatadogSourceWidgetDefinition, buildTerraformSourceWidgetDefinition),
   ListStreamRequest |-> Converter(getListStreamRequestSchema,
      buildDatadogListStreamRequests, buildTerraformListStreamWidgetRequests),
   TemplateVariablePresetValue |-> Converter(getTemplateVariablePresetValueSchema,
      buildDatadogTemplateVariablePresets_template_variable, buildTerraformTemplateVariablePresets_template_variable),
   PowerpackVariable |-> Converter(getPpkTemplateVariableContentSchema,
      buildDatadogPowerpackTVarContents, buildTerraformPowerpackTVarContents),
   ApmOrLogQuery |-> Converter(getApmLogNetworkRumSecurityAuditQuerySchema,
      buildDatadogApmOrLogQuery, buildTerraformApmOrLogQuery),
   ApmOrLogCompute |-> Converter(getComputeSchema,
      buildDatadogQueryCompute, buildTerraformApmOrLogQueryCompute),
   TimeseriesBackground |-> Converter(getQueryValueTimeseriesBackgroundSchema,
      buildDatadogTimeseriesBackground, buildTerraformTimeseriesBackground),
   ToplistStyle |-> Converter(getToplistWidgetStyleSchema,
      buildDatadogToplistStyle, buildTerraformToplistWidgetStyle),
   RequestStyle |-> Converter(getWidgetRequestStyle,
      buildDatadogWidgetStyle, buildTerraformWidgetStyle),
   QueryTableFormula |-> Converter(getQueryTableFormulaSchema,
      buildDatadogFormula, buildTerraformFormula),
   PowerpackVariables |-> Converter(getPpkTemplateVariableSchema,
      buildDatadogPowerpackDefinition_tvars, buildTerraformPowerpackDefinition_tvars),
   ScatterplotRequests |-> Converter(getScatterplotDefinitionSchema_request,
      buildDatadogScatterplotDefinition_request, buildTerraformScatterplotDefinition_request),
   FormulaStyle |-> Converter(getFormulaSchema_style,
      buildDatadogFormula_style, buildTerraformFormula_style),
   NumberFormatUnit |-> Converter(getNumberFormatFormulaSchema_unit,
      buildDatadogNumberFormatFormulaSchema_unit, buildTerraformNumberFormatFormulaSchema_unit),
   SplitDimension |-> Converter(getSplitDimensionSchema,
      buildDatadogSplitConfig_split_dimensions, buildTerraformSplitConfig_split_dimensions),
   SplitSort |-> Converter(getSplitSortSchema,
      buildDatadogSplitSort, buildTerraformSplitConfig_sort),
   ApmStatsColumn |-> Converter(getApmStatsQuerySchema_columns,
      buildDatadogApmStatsQueryColumn, buildTerraformApmStatsQuery_columns),
   GroupBySort |-> Converter(getQueryGroupBySortSchema,
      buildDatadogGroupBySort, buildTerraformApmOrLogQuery_sort_query),
   SloListSort |-> Converter(getWidgetFieldSortSchema,
      buildDatadogSloListSort, buildTerraformSloListSort),
   ToplistRequestStyle |-> Converter(getWidgetRequestStyle,
      buildDatadogWidgetRequestStyle, buildTerraformWidgetRequestStyle),
   Dashboard |-> Converter(resourceDatadogDashboard,
      buildDatadogDashboard ++ updateDashboardLists, updateDashboardState)]
==============================================================================
