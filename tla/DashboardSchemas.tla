---------------------------- MODULE DashboardSchemas ----------------------------
(***************************************************************************)
(* The schemas of datadog_dashboard: per function of the source that       *)
(* describes a block, the attributes a user can write in it.  A suffix     *)
(* names a block nested in it that has no function of its own.             *)
(***************************************************************************)
EXTENDS Conversion

\* url and dashboard_lists_removed are computed.
resourceDatadogDashboard ==
  {"title", "widget", "layout_type", "reflow_type", "description", "restricted_roles",
    "template_variable", "template_variable_preset", "notify_list", "dashboard_lists",
    "is_read_only", "tags"}
getPpkTemplateVariableSchema == {"controlled_externally", "controlled_by_powerpack"}
getPpkTemplateVariableContentSchema == {"name", "prefix", "values"}
getTemplateVariableSchema == {"name", "prefix", "default", "defaults", "available_values"}
getTemplateVariablePresetSchema == {"name", "template_variable"}
getTemplateVariablePresetValueSchema == {"name", "value", "values"}
getNonGroupWidgetSchema ==
  {"widget_layout", "alert_graph_definition", "alert_value_definition", "change_definition",
    "check_status_definition", "distribution_definition", "event_stream_definition",
    "event_timeline_definition", "free_text_definition", "heatmap_definition",
    "hostmap_definition", "iframe_definition", "image_definition", "list_stream_definition",
    "log_stream_definition", "manage_status_definition", "note_definition",
    "query_value_definition", "query_table_definition", "scatterplot_definition",
    "servicemap_definition", "service_level_objective_definition", "slo_list_definition",
    "sunburst_definition", "timeseries_definition", "toplist_definition",
    "topology_map_definition", "trace_service_definition", "treemap_definition",
    "geomap_definition", "run_workflow_definition", "powerpack_definition",
    "split_graph_definition"}
getSplitGraphSourceWidgetSchema ==
  {"change_definition", "geomap_definition", "query_value_definition",
    "query_table_definition", "scatterplot_definition", "sunburst_definition",
    "timeseries_definition", "toplist_definition", "treemap_definition"}
getWidgetLayoutSchema == {"x", "y", "width", "height", "is_column_break"}
getGroupDefinitionSchema ==
  {"widget", "layout_type", "title", "background_color", "banner_img", "show_title"}
getAlertGraphDefinitionSchema ==
  {"alert_id", "viz_type", "title", "title_size", "title_align", "live_span"}
getAlertValueDefinitionSchema ==
  {"alert_id", "precision", "unit", "text_align", "title", "title_size", "title_align"}
getChangeDefinitionSchema ==
  {"request", "title", "title_size", "title_align", "live_span", "custom_link"}
getChangeRequestSchema ==
  {"q", "apm_query", "log_query", "rum_query", "security_query", "process_query", "query",
    "formula", "change_type", "compare_to", "increase_good", "order_by", "order_dir",
    "show_present"}
getDistributionDefinitionSchema ==
  {"request", "title", "title_size", "title_align", "legend_size", "show_legend",
    "live_span", "xaxis", "yaxis"}
getDistributionRequestSchema ==
  {"q", "apm_query", "log_query", "rum_query", "security_query", "process_query",
    "apm_stats_query", "style"}
getEventStreamDefinitionSchema ==
  {"query", "event_size", "title", "title_size", "title_align", "live_span",
    "tags_execution"}
getEventTimelineDefinitionSchema ==
  {"query", "title", "title_size", "title_align", "live_span", "tags_execution"}
getCheckStatusDefinitionSchema ==
  {"check", "grouping", "group", "group_by", "tags", "title", "title_size", "title_align",
    "live_span"}
getFreeTextDefinitionSchema == {"text", "color", "font_size", "text_align"}
getHeatmapDefinitionSchema ==
  {"request", "yaxis", "title", "title_size", "title_align", "event", "show_legend",
    "legend_size", "live_span", "custom_link"}
getHeatmapRequestSchema ==
  {"q", "apm_query", "log_query", "rum_query", "security_query", "process_query", "query",
    "formula", "style"}
getHostmapDefinitionSchema ==
  {"request.fill", "request.size", "node_type", "no_metric_hosts", "no_group_hosts",
    "group", "scope", "style", "title", "title_size", "title_align", "custom_link"}
getHostmapDefinitionSchema_style == {"palette", "palette_flip", "fill_min", "fill_max"}
getHostmapRequestSchema ==
  {"q", "apm_query", "log_query", "process_query", "rum_query", "security_query"}
getIframeDefinitionSchema == {"url"}
getImageDefinitionSchema ==
  {"url", "url_dark_theme", "sizing", "margin", "has_background", "has_border",
    "horizontal_align", "vertical_align"}
getLogStreamDefinitionSchema ==
  {"indexes", "query", "columns", "show_date_column", "show_message_column",
    "message_display", "sort", "title", "title_size", "title_align", "live_span"}
getWidgetFieldSortSchema == {"column", "order"}
getListStreamRequestSchema ==
  {"columns.width", "columns.field", "response_format",
    "query.clustering_pattern_field_path", "query.data_source", "query.query_string",
    "query.event_size", "query.group_by.facet", "query.indexes", "query.storage"} \cup
    Within("query.sort", getWidgetFieldSortSchema)
getManageStatusDefinitionSchema ==
  {"query", "summary_type", "sort", "display_format", "color_preference",
    "hide_zero_counts", "show_last_triggered", "show_priority", "title", "title_size",
    "title_align"}
getNoteDefinitionSchema ==
  {"content", "background_color", "font_size", "text_align", "vertical_align",
    "has_padding", "show_tick", "tick_pos", "tick_edge"}
getQueryValueDefinitionSchema ==
  {"request", "autoscale", "custom_unit", "precision", "text_align",
    "timeseries_background", "title", "title_size", "title_align", "live_span",
    "custom_link"}
getQueryValueTimeseriesBackgroundSchema == {"type", "yaxis"}
getQueryValueRequestSchema ==
  {"q", "apm_query", "log_query", "process_query", "rum_query", "security_query",
    "audit_query", "query", "formula", "conditional_formats", "aggregator"}
getQueryTableDefinitionSchema ==
  {"request", "title", "title_size", "title_align", "live_span", "custom_link",
    "has_search_bar"}
getQueryTableRequestSchema ==
  {"q", "apm_query", "log_query", "process_query", "rum_query", "security_query",
    "apm_stats_query", "query", "formula", "conditional_formats", "alias", "aggregator",
    "limit", "order", "cell_display_mode", "text_formats.text_format"}
getTableWidgetTextFormatMatchSchema == {"type", "value"}
getTableWidgetTextFormatReplaceSchema == {"type", "with", "substring"}
getQueryTableRequestSchema_text_format ==
  {"palette", "custom_bg_color", "custom_fg_color"} \cup Within("match",
    getTableWidgetTextFormatMatchSchema) \cup Within("replace",
    getTableWidgetTextFormatReplaceSchema)
getScatterplotDefinitionSchema ==
  {"request", "xaxis", "yaxis", "color_by_groups", "title", "title_size", "title_align",
    "live_span", "custom_link"}
getScatterplotDefinitionSchema_request == {"x", "y", "scatterplot_table"}
getScatterplotTableRequestSchema == {"query", "formula"}
getScatterplotRequestSchema ==
  {"q", "apm_query", "log_query", "process_query", "rum_query", "security_query",
    "aggregator"}
getServiceMapDefinitionSchema ==
  {"service", "filters", "title", "title_size", "title_align", "custom_link"}
getTopologyMapDefinitionSchema ==
  {"request", "title", "title_size", "title_align", "custom_link"}
getTopologyRequestSchema == {"request_type", "query"}
getTopologyQuerySchema == {"data_source", "service", "filters"}
getServiceLevelObjectiveDefinitionSchema ==
  {"title", "title_size", "title_align", "view_type", "slo_id", "show_error_budget",
    "view_mode", "time_windows", "global_time_target", "additional_query_filters"}
getSloListDefinitionSchema == {"request", "title", "title_size", "title_align"}
getSloListRequestSchema == {"request_type", "query.query_string", "query.limit", "query.sort"}
getListStreamDefinitionSchema == {"request", "title", "title_size", "title_align"}
getGeomapDefinitionSchema ==
  {"request", "style", "view", "title", "title_size", "title_align", "live_span",
    "custom_link"}
getGeomapDefinitionSchema_style == {"palette", "palette_flip"}
getGeomapDefinitionSchema_view == {"focus"}
getGeomapRequestSchema == {"q", "log_query", "rum_query", "query", "formula"}
getTimeseriesDefinitionSchema ==
  {"request", "marker", "event", "yaxis", "right_yaxis", "title", "title_size",
    "title_align", "show_legend", "legend_size", "legend_layout", "legend_columns",
    "live_span", "custom_link"}
getSunburstDefinitionschema ==
  {"request", "hide_total", "legend_inline", "legend_table", "title", "title_size",
    "title_align", "live_span", "custom_link"}
getSunburstDefinitionschema_legend_inline == {"type", "hide_value", "hide_percent"}
getSunburstDefinitionschema_legend_table == {"type"}
getSunburstRequestSchema ==
  {"q", "apm_query", "log_query", "rum_query", "network_query", "process_query",
    "security_query", "audit_query", "query", "formula", "style"}
getScatterplotFormulaSchema == {"formula_expression", "dimension", "alias"}
getFormulaSchema ==
  {"formula_expression", "limit.count", "limit.order", "alias", "conditional_formats",
    "cell_display_mode", "style", "number_format"}
getFormulaSchema_style == {"palette", "palette_index"}
getQueryTableFormulaSchema ==
  getFormulaSchema \cup {"cell_display_mode_options.trend_type",
    "cell_display_mode_options.y_scale"}
getFormulaQuerySchema ==
  {"metric_query", "event_query", "process_query", "apm_dependency_stats_query",
    "apm_resource_stats_query", "slo_query", "cloud_cost_query"}
getFormulaQuerySchema_metric_query ==
  {"data_source", "query", "aggregator", "name", "cross_org_uuids", "semantic_mode"}
getFormulaQuerySchema_event_query ==
  {"data_source", "storage", "search.query", "indexes", "cross_org_uuids",
    "compute.aggregation", "compute.interval", "compute.metric", "group_by.facet",
    "group_by.limit", "group_by.sort.aggregation", "group_by.sort.metric",
    "group_by.sort.order", "name"}
getFormulaQuerySchema_process_query ==
  {"cross_org_uuids", "data_source", "metric", "text_filter", "tag_filters", "limit",
    "sort", "aggregator", "is_normalized_cpu", "name"}
getFormulaQuerySchema_apm_dependency_stats_query ==
  {"data_source", "cross_org_uuids", "env", "stat", "operation_name", "resource_name",
    "service", "primary_tag_name", "primary_tag_value", "is_upstream", "name"}
getFormulaQuerySchema_apm_resource_stats_query ==
  {"data_source", "cross_org_uuids", "env", "name", "stat", "operation_name",
    "resource_name", "service", "primary_tag_name", "primary_tag_value", "group_by"}
getFormulaQuerySchema_slo_query ==
  {"data_source", "cross_org_uuids", "slo_id", "measure", "name", "group_mode",
    "slo_query_type", "additional_query_filters"}
getFormulaQuerySchema_cloud_cost_query ==
  {"data_source", "cross_org_uuids", "query", "aggregator", "name"}
getTimeseriesRequestSchema ==
  {"q", "apm_query", "log_query", "rum_query", "network_query", "process_query",
    "security_query", "audit_query", "query", "formula", "style", "metadata.expression",
    "metadata.alias_name", "display_type", "on_right_yaxis"}
getTimeseriesRequestSchema_style == {"palette", "line_type", "line_width"}
getToplistDefinitionSchema ==
  {"request", "title", "title_size", "title_align", "live_span", "custom_link", "style"}
getToplistRequestSchema ==
  {"q", "apm_query", "log_query", "process_query", "rum_query", "security_query",
    "audit_query", "query", "formula", "conditional_formats", "style"}
getTraceServiceDefinitionSchema ==
  {"env", "service", "span_name", "show_hits", "show_errors", "show_latency",
    "show_breakdown", "show_distribution", "show_resource_list", "size_format",
    "display_format", "title", "title_size", "title_align", "live_span"}
getPowerpackDefinitionSchema ==
  {"background_color", "banner_img", "powerpack_id", "show_title", "template_variables",
    "title"}
getSplitGraphDefinitionSchema ==
  {"source_widget_definition", "split_config", "size", "has_uniform_y_axes", "title",
    "live_span"}
getSplitConfigSchema == {"split_dimensions", "limit", "sort", "static_splits"}
getSplitDimensionSchema == {"one_graph_per"}
getSplitSortComputeSchema == {"aggregation", "metric"}
getSplitSortSchema == {"order"} \cup Within("compute", getSplitSortComputeSchema)
getSplitVectorSchema == {"tag_key", "tag_values"}
getStaticSplitsSchema == Within("split_vector", getSplitVectorSchema)
getRunWorkflowDefinitionSchema ==
  {"workflow_id", "input", "title", "title_size", "title_align", "live_span", "custom_link"}
getRunWorkflowDefinitionSchema_input == {"name", "value"}
getTreemapDefinitionSchema == {"request", "title", "custom_links"}
getTreemapRequestSchema == {"query", "formula"}
getWidgetConditionalFormatSchema ==
  {"comparator", "value", "palette", "custom_bg_color", "custom_fg_color", "image_url",
    "hide_value", "timeframe", "metric"}
getWidgetCustomLinkSchema == {"label", "link", "is_hidden", "override_label"}
getWidgetDisplaySchema == {"type"}
getToplistWidgetStyleSchema ==
  {"palette", "scaling"} \cup Within("display", getWidgetDisplaySchema)
getWidgetEventSchema == {"q", "tags_execution"}
getWidgetMarkerSchema == {"value", "display_type", "label"}
getQueryGroupBySortSchema == {"aggregation", "order", "facet"}
getComputeSchema == {"aggregation", "facet", "interval"}
getApmLogNetworkRumSecurityAuditQuerySchema ==
  {"index", "compute_query", "search_query", "group_by.facet", "group_by.limit",
    "group_by.sort_query"} \cup Within("multi_compute", getComputeSchema)
getProcessQuerySchema == {"metric", "search_by", "filter_by", "limit"}
getApmStatsQuerySchema ==
  {"service", "name", "env", "primary_tag", "row_type", "resource", "columns"}
getApmStatsQuerySchema_columns == {"name", "alias", "order", "cell_display_mode"}
getWidgetAxisSchema == {"label", "scale", "min", "max", "include_zero"}
getDistributionWidgetXAxisSchema == {"scale", "min", "max", "include_zero"}
getDistributionWidgetYAxisSchema == {"scale", "min", "max", "include_zero", "label"}
getWidgetRequestStyle == {"palette"}
getNumberFormatFormulaSchema ==
  {"unit", "unit_scale.unit_name"}
getNumberFormatFormulaSchema_unit ==
  {"canonical.per_unit_name", "canonical.unit_name", "custom.label"}
getWidgetSchema == getNonGroupWidgetSchema \cup {"group_definition"}
==============================================================================
