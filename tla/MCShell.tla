------------------------------ MODULE MCShell ------------------------------
(* Model checking AppShell: the preferences of two tabs while the sidebar   *)
(* rests, and the sidebar while the preferences rest in a synced tab.       *)
EXTENDS AppShell

VARIABLE part  \* the one that moves: "preferences" or "sidebar"

MCChoices     == [theme_mode |-> {"dark", "system"}, sidebar_collapsible |-> SidebarCollapsibles]
MCRoutes      == {<<"dashboard", "default">>, Soon, <<"auth", "v1", "login">>}

MCShellInit ==
    /\ part \in {"preferences", "sidebar"}
    /\ ShellInit
    /\ part = "preferences" => ~narrow /\ path = Soon
    /\ part = "sidebar" => jar = [k \in Keys |-> NoValue] /\ os = "light"

\* One preference can change while the sidebar moves.
OneChoice == \A t \in Tabs \ {ThisTab} : phase'[t] = "static"
             /\ (jar' # jar => jar'["sidebar_collapsible"] # NoValue)
             /\ dom'[ThisTab]["theme_mode"] = "light" /\ os' = "light"

MCShellNext ==
    /\ UNCHANGED part
    /\ \/ part = "preferences" /\ PrefNext /\ UNCHANGED sidebarVars
       \/ part = "sidebar" /\ ShellNext /\ OneChoice

MCShellSpec == MCShellInit /\ [][MCShellNext]_<<part, shellVars>>
=============================================================================
