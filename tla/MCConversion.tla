------------------------------ MODULE MCConversion ------------------------------
(***************************************************************************)
(* Every conversion of the modelled resources, put through the cycle.      *)
(***************************************************************************)
EXTENDS ConversionCycle, DashboardConversions

MCConverters == DashboardConverters

(* The kinds of query a request's build function has no branch for.        *)
MissingKinds ==
  [HeatmapRequestQuery |-> {"apm_dependency_stats_query", "apm_resource_stats_query",
                            "cloud_cost_query"},
   GeomapRequestQuery |-> {"apm_dependency_stats_query", "apm_resource_stats_query",
                           "cloud_cost_query"}]

NoApmKinds ==
  {"ChangeRequestQuery", "QueryValueRequestQuery", "ScatterplotTableRequestQuery",
   "SunburstRequestQuery", "TimeseriesRequestQuery", "ToplistRequestQuery",
   "TreemapRequestQuery"}

MCKnownLosses ==
  {<<q, k>> : q \in NoApmKinds, k \in {"apm_dependency_stats_query", "apm_resource_stats_query"}}
  \cup UNION {{<<q, k>> : k \in MissingKinds[q]} : q \in DOMAIN MissingKinds}
  \cup {
    <<"MetricQuery", "data_source">>,                  \* line 7749 always sends "metrics"
    <<"ApmDependencyStatsQuery", "cross_org_uuids">>,  \* line 10118 asks the event query
    <<"ApmResourceStatsQuery", "cross_org_uuids">>,    \* never flattened
    <<"ListStreamRequest", "query.group_by.facet">>,   \* never flattened
    <<"ListStreamRequest", "query.clustering_pattern_field_path">>,
    <<"ListStreamRequest", "query.event_size">>,       \* sent for event_stream only
    <<"WidgetCustomLink", "is_hidden">>,               \* sent with override_label only
    <<"SplitSource", "scatterplot_definition">>,       \* built, no flatten branch
    <<"SplitSource", "change_definition">>,            \* flattened to a map, line 1637
    <<"Dashboard", "dashboard_lists">>,                \* never read back
    <<"Sunburst", "legend_inline_without_hide_value">>, \* an empty legend_table, line 6869
    <<"Group", "unknown_widget">>}                     \* a nil widget, line 1791

(* A powerpack widget without template variables crashes (line 8815).  All *)
(* others are blocks of optional attributes that crash when a user writes  *)
(* one with nothing in it: requests and their queries, a formula's style,  *)
(* a number format's unit, a custom link, a powerpack's variables.         *)
MCKnownCrashes ==
  {"Powerpack", "PowerpackVariables", "WidgetCustomLink", "FormulaStyle", "NumberFormatUnit",
   "ScatterplotRequests", "ScatterplotRequest", "ScatterplotTableRequest", "HostmapRequest",
   "ChangeRequest", "DistributionRequest", "HeatmapRequest", "QueryValueRequest",
   "QueryTableRequest", "GeomapRequest", "TimeseriesRequest", "SunburstRequest",
   "ToplistRequest", "TreemapRequest",
   "ChangeRequestQuery", "HeatmapRequestQuery", "QueryValueRequestQuery",
   "QueryTableRequestQuery", "ScatterplotTableRequestQuery", "GeomapRequestQuery",
   "SunburstRequestQuery", "TimeseriesRequestQuery", "ToplistRequestQuery",
   "TreemapRequestQuery"}

(* Each recorded loss is one of the code: the attribute is missing from a  *)
(* function or stands under a condition there.                             *)
Lossy(c, a) ==
  \/ a \notin c.build.keys
  \/ a \notin c.flatten.keys
  \/ a \in c.flatten.refuses
  \/ \E p \in c.build.only : p[2] = a
ASSUME KnownLossesAreReal ==
  /\ \A l \in MCKnownLosses : Lossy(MCConverters[l[1]], l[2])
  /\ \A n \in MCKnownCrashes : MCConverters[n].build.panics # {}

(* The conversions that depend on more than whether an attribute is there. *)
Conditional(c) ==
  LET both == c.build ++ c.flatten IN
  {both.only, both.refuses, both.keeps, both.mistakes} # {{}}

(* All others are what the theorems of ConversionCycle_proofs ask for.  So *)
(* are the conditional ones; they are left out here, so that a change to   *)
(* one shows what it does to the user and not only that it was made.       *)
ASSUME OthersAreFaithful ==
  \A n \in {m \in DOMAIN Converters : ~Conditional(Converters[m])} :
    Faithful(Converters[n], Kept(n)) /\ Readable(Converters[n], Kept(n))

(* One attribute at a time, and every pair that meets in a chain or a      *)
(* condition of one of the two functions, the latter with what the block   *)
(* cannot be built without.                                                *)
Meet(c, a, b) ==
  LET both == c.build ++ c.flatten IN
  \/ <<a, b>> \in both.before \cup both.only
  \/ \E S \in both.needs \cup both.clashes : a \in S
  \/ \E S \in both.panics : a \in S /\ ~(c.schema \subseteq S)

(* What a block must hold to be built at all.                              *)
Needed(c) == UNION {S \in c.build.needs : ~(c.schema \subseteq S)}

MCScopes ==
  [n \in DOMAIN MCConverters |->
     LET c == MCConverters[n] IN
     {{a} : a \in c.schema}
     \cup {{p[1], p[2]} : p \in {q \in c.schema \X c.schema : Meet(c, q[1], q[2])}}
     \cup {{p[1], p[2], a} : p \in c.build.only, a \in Needed(c)}]
=============================================================================
