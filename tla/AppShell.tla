------------------------------ MODULE AppShell ------------------------------
(***************************************************************************)
(* The sidebar of one tab with the preferences it is drawn from (frontend  *)
(* .../_components/sidebar/app-sidebar.tsx): AppSidebar hands the store's  *)
(* variant and collapsible to Sidebar once the store is synced, and what   *)
(* its parent gave it, nothing, before.                                    *)
(***************************************************************************)
EXTENDS Preferences, Sidebar

CONSTANT ThisTab

ASSUME ThisTabAssumption == ThisTab \in Tabs

shellVars == <<prefVars, sidebarVars>>

\* The values Sidebar takes for properties that are undefined.
SidebarDefault == [sidebar_variant |-> "sidebar", sidebar_collapsible |-> "offcanvas"]

\* Mutant: the attribute is handed on, known or not.
GivenAsItIs(k) == IF phase[ThisTab] = "synced" THEN dom[ThisTab][k] ELSE Undefined

\* AppSidebar
Given(k) == IF phase[ThisTab] = "synced" THEN store[ThisTab][k] ELSE Undefined
Drawn(k) == IF Given(k) = Undefined THEN SidebarDefault[k] ELSE Given(k)

-----------------------------------------------------------------------------
ShellInit == PrefInit /\ SidebarInit

\* A new document is a new store and a new sidebar.
ReloadShell == Reload(ThisTab) /\ ReloadPage

\* The sidebar works as soon as the page is hydrated, synced or not.
ShellNext ==
    \/ PrefNext /\ (phase'[ThisTab] = "static" => phase[ThisTab] = "static")
       /\ UNCHANGED sidebarVars
    \/ phase[ThisTab] # "static" /\ SidebarStep /\ UNCHANGED prefVars
    \/ ReloadShell

ShellSpec == ShellInit /\ [][ShellNext]_shellVars

-----------------------------------------------------------------------------
(* Properties.                                                             *)

\* In a hydrated tab the sidebar has the shape the attributes of the document
\* ask for, which the page's styles go by; for a value nobody knows (any more)
\* it has its own default.
SidebarFollowsDocument == phase[ThisTab] = "synced" =>
    \A k \in Keys \cap LayoutCritical :
        Drawn(k) = IF dom[ThisTab][k] \in Allowed[k] THEN dom[ThisTab][k] ELSE SidebarDefault[k]
=============================================================================
