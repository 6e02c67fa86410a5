----------------------------- MODULE MCWidgets -----------------------------
(***************************************************************************)
(* Instances of the parts of the frontend that share nothing: the table,   *)
(* the forms and the charts.  Every behaviour runs one of them and leaves  *)
(* the others in one initial state.                                        *)
(***************************************************************************)
EXTENDS DataTable, AuthForms, Charts, TLC

VARIABLE part  \* the part this behaviour runs

widgetVars == <<part, tableVars, formVars, chartVars>>

MCNames     == <<2, 1, 2, 1>>
MCEmails    == ("" :> FALSE) @@ ("a" :> FALSE) @@ ("a@b.c" :> TRUE)
MCPasswords == ("" :> FALSE) @@ ("short" :> FALSE) @@ ("secret" :> TRUE) @@ ("hidden" :> TRUE)
MCActions   == <<"click", "count", "">>

WidgetInit ==
    /\ part \in {"table", "form", "charts"}
    /\ TableInit /\ FormInit /\ ChartInit
    /\ part # "table" => table = "leads"
    /\ part # "form" => form = "login"
    /\ part # "charts" => chart = "breakdown"

WidgetNext ==
    \/ part = "table" /\ TableNext /\ UNCHANGED <<part, formVars, chartVars>>
    \/ part = "form" /\ FormNext /\ UNCHANGED <<part, tableVars, chartVars>>
    \/ part = "charts" /\ ChartNext /\ UNCHANGED <<part, tableVars, formVars>>

WidgetSpec == WidgetInit /\ [][WidgetNext]_widgetVars
=============================================================================
