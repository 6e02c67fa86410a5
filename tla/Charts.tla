------------------------------- MODULE Charts -------------------------------
(***************************************************************************)
(* The charts (frontend components/ui/chart.tsx and the cards that use     *)
(* it): which colours a chart's style sheet defines, what the tooltip says *)
(* of the point under the pointer, and the action breakdown that is drawn  *)
(* anew with every answer of /analytics.  Recharts is external: it hands   *)
(* the tooltip the point's category and one item per series.               *)
(***************************************************************************)
EXTENDS Integers, Sequences, FiniteSets

SetsExt == INSTANCE FiniteSetsExt

CONSTANTS Actions,  \* sequence: the events' actions, in the order of the JSON object's keys
          MaxCount  \* bound: events of one action

ASSUME ChartAssumption ==
    /\ MaxCount \in Nat /\ Actions \in Seq(STRING)
    /\ \A i, j \in DOMAIN Actions : Actions[i] = Actions[j] => i = j

VARIABLES
    chart,      \* the chart looked at
    analytics,  \* the last answer of /analytics, or NoAnalytics
    active      \* the place of the point under the pointer, 0 for none

chartVars == <<chart, analytics, active>>

NoAnalytics == [processing_type |-> "none"]

\* The sum of a function's values.
Total(f) == SetsExt!MapThenSumSet(LAMBDA x : f[x], DOMAIN f)

\* GetAnalyticsClickHouse: the answer for the counts of the actions.
Answer(counts) == [action_counts   |-> counts,
                   total_events    |-> Total(counts),
                   processing_type |-> "clickhouse"]

-----------------------------------------------------------------------------
(* The catalogue.  A configuration gives keys a label, "" for none, and    *)
(* says whether they have a colour.                                        *)

Labelled(label) == [label |-> label, colour |-> FALSE]
Coloured(label) == [label |-> label, colour |-> TRUE]

\* crm.config.ts: configuration and categories (some of the months and projects) of
\* the CRM page's charts.
CrmConfig ==
    [leads     |-> [newLeads |-> Coloured("New Leads"), disqualified |-> Coloured("Disqualified"),
                    background |-> Coloured("")],
     proposals |-> [proposalsSent |-> Coloured("Proposals Sent")],
     revenue   |-> [revenue |-> Coloured("Revenue")],
     source    |-> [leads |-> Labelled("Leads"), website |-> Coloured("Website"),
                    referral |-> Coloured("Referral"), social |-> Coloured("Social Media"),
                    cold |-> Coloured("Cold Outreach"), other |-> Coloured("Other")],
     project   |-> [actual |-> Coloured("Actual"), remaining |-> Coloured("Remaining"),
                    label |-> Coloured("")]]
Sources == <<"website", "referral", "social", "cold", "other">>
Spans   == <<"1-5", "6-10", "11-15", "16-20", "21-25", "26-30">>

\* How a card uses ChartTooltipContent: its properties, "prefix" for a labelFormatter.
Options(indicator, hideLabel, prefix) ==
    [indicator |-> indicator, hideLabel |-> hideLabel, prefix |-> prefix]

LeadsChart ==
    [config |-> CrmConfig.leads, field |-> "date", points |-> Spans, axisHidden |-> TRUE,
     series |-> <<"newLeads", "disqualified">>, pie |-> FALSE,
     uses |-> {"background", "newLeads", "disqualified"}, options |-> Options("dot", FALSE, "May: ")]
ProposalsChart ==
    [config |-> CrmConfig.proposals, field |-> "date", points |-> Spans, axisHidden |-> TRUE,
     series |-> <<"proposalsSent">>, pie |-> FALSE,
     uses |-> {"proposalsSent"}, options |-> Options("dot", FALSE, "May: ")]
RevenueChart ==
    [config |-> CrmConfig.revenue, field |-> "month", points |-> <<"Jul 2024", "Jun 2025">>,
     axisHidden |-> TRUE, series |-> <<"revenue">>, pie |-> FALSE,
     uses |-> {"revenue"}, options |-> Options("dot", FALSE, "")]
SourceChart ==
    [config |-> CrmConfig.source, field |-> "source", points |-> Sources, axisHidden |-> TRUE,
     series |-> <<"leads">>, pie |-> TRUE,
     uses |-> {Sources[i] : i \in DOMAIN Sources}, options |-> Options("dot", TRUE, "")]
ProjectChart ==
    [config |-> CrmConfig.project, field |-> "name", points |-> <<"MVP Development", "Consultation">>,
     axisHidden |-> TRUE, series |-> <<"actual", "remaining">>, pie |-> FALSE,
     uses |-> {"actual", "remaining"}, options |-> Options("line", FALSE, "")]
CashFlowChart ==
    [config |-> [income |-> Coloured("Income"), expenses |-> Coloured("Expenses")],
     field |-> "month", points |-> <<"Jan", "Feb">>, axisHidden |-> FALSE,
     series |-> <<"income", "expenses">>, pie |-> FALSE,
     uses |-> {}, options |-> Options("dot", TRUE, "")]
VisitorsChart ==
    [config |-> [desktop |-> Coloured("Desktop"), mobile |-> Coloured("Mobile")],
     field |-> "month", points |-> <<"January", "February">>, axisHidden |-> TRUE,
     series |-> <<"mobile", "desktop">>, pie |-> FALSE,
     uses |-> {"mobile", "desktop"}, options |-> Options("dot", FALSE, "")]

-----------------------------------------------------------------------------
(* The action breakdown of the dashboard.                                  *)

Counts == IF analytics = NoAnalytics THEN <<>> ELSE analytics.action_counts

\* The entries, as places in Actions.
Entries == {i \in DOMAIN Actions : Actions[i] \in DOMAIN Counts}

\* Mutant: the entries as they come.
LongerUnsorted(i, j) == i < j

\* The comparison of sort, which is stable: by falling count.
Longer(i, j) ==
    LET count(k) == Counts[Actions[k]]
    IN  count(i) > count(j) \/ (count(i) = count(j) /\ i < j)

\* chartData: the n-th bar is the entry with n - 1 entries before it.
Bars ==
    LET nth(n) == CHOOSE i \in Entries : Cardinality({j \in Entries : Longer(j, i)}) = n - 1
    IN  [n \in 1 .. Cardinality(Entries) |-> Actions[nth(n)]]

BreakdownChart ==
    [config |-> [count |-> Coloured("Event Count")],
     field |-> "action", points |-> Bars, axisHidden |-> FALSE,
     series |-> <<"count">>, pie |-> FALSE,
     uses |-> {"count"}, options |-> Options("line", FALSE, "")]

\* SectionCards
Cards == [totalEvents    |-> IF analytics = NoAnalytics THEN 0 ELSE analytics.total_events,
          uniqueActions  |-> Cardinality(DOMAIN Counts),
          processingType |-> IF analytics = NoAnalytics THEN "-" ELSE analytics.processing_type]

Catalogue ==
    [leads |-> LeadsChart, proposals |-> ProposalsChart, revenue |-> RevenueChart,
     source |-> SourceChart, project |-> ProjectChart, cashFlow |-> CashFlowChart,
     visitors |-> VisitorsChart, breakdown |-> BreakdownChart]
Shown == Catalogue[chart]

-----------------------------------------------------------------------------
(* What ChartContainer and the tooltip make of it.                         *)

\* Mutant: keys without a label are skipped.
ChartStyleOfLabelled(config) == {key \in DOMAIN config : config[key].colour /\ config[key].label # ""}

\* ChartStyle: the variables --color-<key> it defines; `color` is for both themes.
ChartStyle(config) == {key \in DOMAIN config : config[key].colour}

\* Mutant: the series is looked up, not its name.
PayloadConfigOfSeries(config, strings, key) == config[strings.dataKey]

\* getPayloadConfigFromPayload: the key, or the string the item or its row has under it.
PayloadConfig(config, strings, key) ==
    LET configLabelKey == IF key \in DOMAIN strings THEN strings[key] ELSE key
    IN  CASE configLabelKey \in DOMAIN config -> config[configLabelKey]
          [] key \in DOMAIN config            -> config[key]
          [] OTHER                            -> Labelled("")

Or(label, fallback) == IF label = "" THEN fallback ELSE label

\* Mutant: the header is the label of the first series.
HeaderOfSeries(c, label) ==
    IF c.options.hideLabel THEN <<>> ELSE <<c.options.prefix, c.config[c.series[1]].label>>

\* tooltipLabel of a category, the two parts of its text; <<>> when there is nothing to show.
Header(c, label) ==
    LET value == IF label \in DOMAIN c.config THEN Or(c.config[label].label, label) ELSE label
    IN  IF c.options.hideLabel \/ (c.options.prefix = "" /\ value = "")
        THEN <<>> ELSE <<c.options.prefix, value>>

\* The header stands inside the only row, not above the rows.
NestLabel(c) == Len(c.series) = 1 /\ c.options.indicator # "dot"

\* The name of the item of series s, and the strings that item and its row have.
Name(c, s, point) == IF c.pie THEN point ELSE s
Strings(c, s, point) ==
    [key \in {"name", "dataKey", c.field} |->
        CASE key = "dataKey" -> s
          [] key = "name"    -> Name(c, s, point)
          [] OTHER           -> point]

\* A row of ChartTooltipContent.
Row(c, s, point) ==
    LET name == Name(c, s, point)
    IN  [header |-> IF NestLabel(c) THEN Header(c, point) ELSE <<>>,
         label  |-> Or(PayloadConfig(c.config, Strings(c, s, point), name).label, name)]

\* ChartTooltipContent
Tooltip(c, point) ==
    [header |-> IF NestLabel(c) THEN <<>> ELSE Header(c, point),
     rows   |-> [i \in DOMAIN c.series |-> Row(c, c.series[i], point)]]

\* The legend of "Leads by Source", a list the card makes itself.
Legend(point) == CrmConfig.source[point].label

-----------------------------------------------------------------------------
ChartInit == chart \in {"leads", "proposals", "revenue", "source", "project", "cashFlow",
                        "visitors", "breakdown"}
             /\ analytics = NoAnalytics /\ active = 0

\* Mutant: the place under the pointer is kept though the bars are fewer.
ReceiveCountsOnly(counts) ==
    /\ chart = "breakdown" /\ analytics' = Answer(counts)
    /\ UNCHANGED <<chart, active>>

\* The page has fetched /analytics again; the pointer stays where it is.
ReceiveCounts(counts) ==
    /\ chart = "breakdown" /\ analytics' = Answer(counts)
    /\ active' = IF active > Cardinality(DOMAIN counts) THEN 0 ELSE active
    /\ UNCHANGED chart

Point(i) == i \in DOMAIN Shown.points /\ active' = i /\ UNCHANGED <<chart, analytics>>
Leave    == active # 0 /\ active' = 0 /\ UNCHANGED <<chart, analytics>>

ChartNext ==
    \/ \E known \in SUBSET {Actions[i] : i \in DOMAIN Actions} :
          \E counts \in [known -> 1 .. MaxCount] : ReceiveCounts(counts)
    \/ \E i \in DOMAIN Shown.points : Point(i)
    \/ Leave

ChartSpec == ChartInit /\ [][ChartNext]_chartVars

-----------------------------------------------------------------------------
(* Properties.                                                             *)

ChartTypeOK == chart \in DOMAIN Catalogue /\ active \in 0 .. Len(Shown.points)

\* No chart paints with a colour its style sheet leaves undefined, be it the
\* colour of a series, of a background or of a single datum.
ColoursAreDefined == Shown.uses \subseteq ChartStyle(Shown.config)

\* How often a tooltip says which point it is about.
Headers(tooltip) ==
    (IF tooltip.header = <<>> THEN 0 ELSE 1)
    + Cardinality({i \in DOMAIN tooltip.rows : tooltip.rows[i].header # <<>>})

\* The tooltip says once which point it is about, unless the card hides that or the
\* point is an action without a name; and where the axis is hidden no other point has
\* the same tooltip (figures apart).
PointIsNamed == active # 0 =>
    LET point == Shown.points[active]
    IN  /\ Headers(Tooltip(Shown, point)) = IF Shown.options.hideLabel \/ point = "" THEN 0 ELSE 1
        /\ Shown.axisHidden =>
              \A i \in DOMAIN Shown.points \ {active} :
                  Tooltip(Shown, Shown.points[i]) # Tooltip(Shown, point)

\* The legend the card writes itself and the tooltip of the shared component
\* call a source by the same name.
LegendAgrees == (chart = "source" /\ active # 0) =>
    Tooltip(Shown, Shown.points[active]).rows[1].label = Legend(Shown.points[active])

\* The breakdown has one bar for every action, the longest first; the cards, fed
\* from other fields of the answer, give their number and the sum of their lengths.
BarsMatchCards ==
    LET lengths == [n \in DOMAIN Bars |-> Counts[Bars[n]]] IN
    /\ {Bars[n] : n \in DOMAIN Bars} = DOMAIN Counts /\ Len(Bars) = Cards.uniqueActions
    /\ Total(lengths) = Cards.totalEvents
    /\ \A m, n \in DOMAIN Bars : m < n => lengths[m] >= lengths[n]

\* What holds of a chart in every state: a point that exists, colours that are
\* defined, a tooltip and a legend that name the point, and bars that add up.
ChartInv == ChartTypeOK /\ ColoursAreDefined /\ PointIsNamed /\ LegendAgrees /\ BarsMatchCards
=============================================================================
