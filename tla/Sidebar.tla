------------------------------ MODULE Sidebar ------------------------------
(***************************************************************************)
(* The collapsible sidebar of the dashboard shell (frontend                *)
(* components/ui/sidebar.tsx, hooks/use-mobile.ts) and the navigation in   *)
(* it (.../_components/sidebar/nav-main.tsx).  A wide window shows a list  *)
(* that collapses to icons, a narrow one a sheet; which of them it is the  *)
(* page learns from an event, and the key listener from an effect after    *)
(* that.  A submenu keeps its state only while its element is mounted.     *)
(*                                                                         *)
(* The layout that mounts the components, and its router, are external.    *)
(***************************************************************************)
EXTENDS Sequences
SeqExt == INSTANCE SequencesExt

CONSTANT Routes  \* bound: the paths that are visited

-----------------------------------------------------------------------------
(* The menu.  A path is the sequence of its segments.                      *)

Soon      == <<"dashboard", "coming-soon">>
AuthPages == {<<"auth", version, form>> : version \in {"v1", "v2"}, form \in {"login", "register"}}
Link(url) == [url |-> url, subItems |-> {}]

SidebarItems ==
    [title \in {"Default", "CRM", "Finance", "Analytics", "E-commerce", "Academy", "Logistics", "Email",
                "Chat", "Calendar", "Kanban", "Invoice", "Users", "Roles", "Authentication", "Others"} |->
        CASE title = "Default"        -> Link(<<"dashboard", "default">>)
          [] title = "CRM"            -> Link(<<"dashboard", "crm">>)
          [] title = "Finance"        -> Link(<<"dashboard", "finance">>)
          [] title = "Authentication" -> [url |-> <<"auth">>, subItems |-> AuthPages]
          [] OTHER                    -> Link(Soon)]

\* isItemActive and isSubmenuOpen.  All items "coming soon" have one URL.
SubmenuIsOn(item, at)  == \E url \in item.subItems : SeqExt!IsPrefix(url, at)
ItemIsActive(item, at) == IF item.subItems # {} THEN SubmenuIsOn(item, at) ELSE at = item.url
ActiveItems(at)        == {title \in DOMAIN SidebarItems : ItemIsActive(SidebarItems[title], at)}

Submenu == SidebarItems["Authentication"]

VARIABLES
    narrow,       \* is the window narrower than 768 pixels?
    watching,     \* did the effect of useIsMobile run?
    widthEvent,   \* is a change event of its media query on the way?
    isMobile,
    open, openMobile,
    listener,     \* the isMobile of the toggleSidebar the key listener calls, "none" before its effect
    sidebarState, \* the cookie
    path,
    submenuOpen,  \* the state of the Collapsible, FALSE when there is none
    touched,      \* history: the user has toggled this Collapsible
    entered,      \* history: the path has changed since it was mounted
    toggled       \* history: open has been toggled since the page was loaded

widthVars   == <<narrow, watching, widthEvent, isMobile>>
submenuVars == <<submenuOpen, touched, entered>>
sidebarVars == <<widthVars, open, openMobile, listener, sidebarState, path, submenuVars, toggled>>

-----------------------------------------------------------------------------
(* Rendering.                                                              *)

\* What Sidebar and NavMain render: nothing or a sheet with the list, the list
\* with its submenus, or icons with dropdowns.
View == IF isMobile THEN IF openMobile THEN "sheet" ELSE "closed"
                    ELSE IF open THEN "list" ELSE "icons"

\* The shape of the sidebar on the screen for a value of "collapsible".
Shape(collapsible) ==
    CASE View = "sheet" -> "sheet" [] View = "closed" -> "nothing" [] View = "list" -> "wide"
      [] View = "icons" -> IF collapsible = "icon" THEN "icons" ELSE "off the screen"

\* The tooltip of SidebarMenuButton stands in for the label; the menu of the
\* user and those of the documents open where there is room.
TooltipIsShown == View = "icons"
MenuSide       == IF isMobile THEN "bottom" ELSE "right"

\* Mutant: every Collapsible is mounted closed.
RenderClosed ==
    IF View' # View
    THEN submenuOpen' = FALSE /\ touched' = FALSE /\ entered' = FALSE
    ELSE UNCHANGED <<submenuOpen, touched>> /\ entered' = (entered \/ path' # path)

\* The elements of another view are other elements: a Collapsible is mounted
\* with the submenu of the current path open (defaultOpen), and is not told of
\* any later path.
Render ==
    IF View' # View
    THEN /\ submenuOpen' = (View' \in {"list", "sheet"} /\ SubmenuIsOn(Submenu, path'))
         /\ touched' = FALSE /\ entered' = FALSE
    ELSE UNCHANGED <<submenuOpen, touched>> /\ entered' = (entered \/ path' # path)

SidebarInit ==
    /\ narrow \in BOOLEAN /\ path \in Routes /\ sidebarState = "none"
    /\ watching = FALSE /\ widthEvent = FALSE /\ isMobile = FALSE
    /\ open = TRUE /\ openMobile = FALSE /\ listener = "none"
    /\ submenuOpen = SubmenuIsOn(Submenu, path)
    /\ touched = FALSE /\ entered = FALSE /\ toggled = FALSE

\* A reload: everything but the cookie starts again, and nothing reads the cookie.
ReloadPage ==
    /\ UNCHANGED <<narrow, path, sidebarState>>
    /\ watching' = FALSE /\ widthEvent' = FALSE /\ isMobile' = FALSE
    /\ open' = TRUE /\ openMobile' = FALSE /\ listener' = "none"
    /\ submenuOpen' = SubmenuIsOn(Submenu, path)
    /\ touched' = FALSE /\ entered' = FALSE /\ toggled' = FALSE

-----------------------------------------------------------------------------
(* The window.                                                             *)

Device(mobile) == IF mobile THEN "phone" ELSE "desktop"

\* Mutant: the effect listens and does not look.
StartListening ==
    /\ ~watching /\ watching' = TRUE
    /\ UNCHANGED isMobile /\ listener' = Device(isMobile)
    /\ UNCHANGED <<narrow, widthEvent, open, openMobile, sidebarState, path, toggled>>
    /\ Render

\* The effects of the first render: useIsMobile looks at the window and listens;
\* the key listener belongs to the render before that.
StartWatching ==
    /\ ~watching /\ watching' = TRUE
    /\ isMobile' = narrow /\ listener' = Device(isMobile)
    /\ UNCHANGED <<narrow, widthEvent, open, openMobile, sidebarState, path, toggled>>
    /\ Render

Resize ==
    /\ narrow' = ~narrow /\ widthEvent' = watching
    /\ UNCHANGED <<watching, isMobile, open, openMobile, listener, sidebarState, path, toggled>>
    /\ Render

\* onChange
SeeWidth ==
    /\ widthEvent /\ widthEvent' = FALSE
    /\ isMobile' = narrow
    /\ UNCHANGED <<narrow, watching, open, openMobile, listener, sidebarState, path, toggled>>
    /\ Render

\* The effect on toggleSidebar, after a render with another isMobile.
RegisterKey ==
    /\ listener \notin {"none", Device(isMobile)}
    /\ listener' = Device(isMobile)
    /\ UNCHANGED <<widthVars, open, openMobile, sidebarState, path, toggled>>
    /\ Render

-----------------------------------------------------------------------------
(* The user.                                                               *)

\* Mutant: the updater is written instead of its value.
ToggleWritesUpdater(mobile) ==
    IF mobile
    THEN openMobile' = ~openMobile /\ UNCHANGED <<open, sidebarState, toggled>>
    ELSE /\ open' = ~open /\ sidebarState' = "(open) => !open"
         /\ toggled' = TRUE /\ UNCHANGED openMobile

\* Mutant: the value before is written.
ToggleWritesOld(mobile) ==
    IF mobile
    THEN openMobile' = ~openMobile /\ UNCHANGED <<open, sidebarState, toggled>>
    ELSE /\ open' = ~open /\ sidebarState' = IF open THEN "true" ELSE "false"
         /\ toggled' = TRUE /\ UNCHANGED openMobile

\* toggleSidebar of a render with this isMobile; setOpen writes the cookie.
ToggleSidebar(mobile) ==
    IF mobile
    THEN openMobile' = ~openMobile /\ UNCHANGED <<open, sidebarState, toggled>>
    ELSE /\ open' = ~open /\ sidebarState' = IF open THEN "false" ELSE "true"
         /\ toggled' = TRUE /\ UNCHANGED openMobile

\* SidebarTrigger and SidebarRail call the function of the last render, ...
ClickToggle ==
    /\ ToggleSidebar(isMobile)
    /\ UNCHANGED <<widthVars, listener, path>>
    /\ Render

\* ... Ctrl/Cmd+B that of the listener.
PressShortcut ==
    /\ listener # "none"
    /\ ToggleSidebar(listener = "phone")
    /\ UNCHANGED <<widthVars, listener, path>>
    /\ Render

\* Escape or a click beside the sheet.
CloseSheet ==
    /\ View = "sheet" /\ openMobile' = FALSE
    /\ UNCHANGED <<widthVars, open, listener, sidebarState, path, toggled>>
    /\ Render

\* A link of the menu or of the page; the sheet stays.
Navigate(to) ==
    /\ to # path /\ path' = to
    /\ UNCHANGED <<widthVars, open, openMobile, listener, sidebarState, toggled>>
    /\ Render

\* The CollapsibleTrigger of an item with sub items.
ToggleSubmenu ==
    /\ View \in {"list", "sheet"}
    /\ submenuOpen' = ~submenuOpen /\ touched' = TRUE
    /\ UNCHANGED <<widthVars, open, openMobile, listener, sidebarState, path, entered, toggled>>

SidebarStep ==
    \/ StartWatching
    \/ Resize
    \/ SeeWidth
    \/ RegisterKey
    \/ ClickToggle
    \/ PressShortcut
    \/ CloseSheet
    \/ \E to \in Routes : Navigate(to)
    \/ ToggleSubmenu

SidebarNext == SidebarStep \/ ReloadPage

SidebarSpec == SidebarInit /\ [][SidebarNext]_sidebarVars

-----------------------------------------------------------------------------
(* Properties.                                                             *)

SidebarTypeOK ==
    /\ {narrow, watching, widthEvent, isMobile, open, openMobile} \subseteq BOOLEAN
    /\ {submenuOpen, touched, entered, toggled} \subseteq BOOLEAN
    /\ listener \in {"none", "phone", "desktop"} /\ sidebarState \in {"none", "true", "false"}
    /\ path \in Routes

\* sidebar.tsx:86: "This sets the cookie to keep the sidebar state": after the
\* first toggle the cookie is the state of the list, although a sheet is toggled
\* by the same button and the listener may belong to another render.
CookieIsSidebarState == toggled => sidebarState = IF open THEN "true" ELSE "false"

\* The submenu that holds the page is open, unless the user closed it or the
\* page changed after the submenu was mounted.
ActiveSubmenuIsOpen ==
    (View \in {"list", "sheet"} /\ "Authentication" \in ActiveItems(path)) =>
        submenuOpen \/ touched \/ entered

\* The page is not taken for a wide one for longer than an event takes.
WidthIsKnown == watching /\ ~widthEvent => isMobile = narrow
\* What holds of the sidebar in every state: its types, the width it goes by, its
\* cookie and the submenu of the page.
SidebarInv == SidebarTypeOK /\ WidthIsKnown /\ CookieIsSidebarState /\ ActiveSubmenuIsOpen
=============================================================================
