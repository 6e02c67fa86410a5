SPECIFICATION MCShellSpec
CONSTANTS
    Tabs = {"t1", "t2"}
    ThisTab = "t1"
    Keys = {"theme_mode", "sidebar_collapsible"}
    Choices <- MCChoices
    Found = {"retired", "%"}
    Routes <- MCRoutes
INVARIANTS
    PrefInv
    ChoiceIsKept
    SidebarInv
    SidebarFollowsDocument
PROPERTIES
    HydrationDoesNotFlicker
CHECK_DEADLOCK FALSE
