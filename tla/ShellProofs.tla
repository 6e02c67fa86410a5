----------------------------- MODULE ShellProofs -----------------------------
(***************************************************************************)
(* Proofs about the preferences, the sidebar and the shell that joins      *)
(* them, for any tabs, keys and routes.                                    *)
(*                                                                         *)
(* Document, store and colors agree in every hydrated tab: that invariant  *)
(* says nothing of the cookies, so no assumption is made about what other  *)
(* tabs and earlier versions leave there.  A second invariant says what    *)
(* the document looks like before hydration, a third what the cookies hold *)
(* of the choices and what every document owes.                            *)
(***************************************************************************)
EXTENDS AppShell, TLAPS

\* The document and the store have one value per tab and key.
PrefShape ==
    /\ DOMAIN dom = Tabs /\ DOMAIN store = Tabs
    /\ \A t \in Tabs : DOMAIN dom[t] = Keys /\ DOMAIN store[t] = Keys

PrefIndInv == PrefShape /\ PrefInv

\* The parts of the invariant that are about tab t.
TabInv(t) ==
    /\ DOMAIN dom[t] = Keys /\ DOMAIN store[t] = Keys
    /\ dom[t]["theme_mode"] \in ThemeModes
    /\ \A k \in Keys : store[t][k] \in Allowed[k] \cup {Undefined}
    /\ phase[t] = "synced" =>
          /\ \A k \in Keys : store[t][k] = Safe(k, dom[t][k])
          /\ (resolved[t] = "dark") <=> dark[t]
          /\ unseen[t] => store[t]["theme_mode"] = "system"
          /\ ~unseen[t] => Scheme(dark[t]) = Resolve(store[t]["theme_mode"])

TabsTyped ==
    /\ os \in {"light", "dark"}
    /\ phase \in [Tabs -> {"static", "booted", "synced"}]
    /\ dark \in [Tabs -> BOOLEAN] /\ unseen \in [Tabs -> BOOLEAN]
    /\ resolved \in [Tabs -> {"light", "dark"}]
    /\ DOMAIN dom = Tabs /\ DOMAIN store = Tabs

LEMMA ByTabs == PrefIndInv <=> TabsTyped /\ \A t \in Tabs : TabInv(t)
  BY DEF PrefIndInv, PrefShape, PrefInv, PrefTypeOK, ControlsShowDocument, ThemeFollowsMode,
         Controls, DarkDots, TabInv, TabsTyped

LEMMA ValuesKnown ==
    /\ "theme_mode" \in Keys /\ Allowed["theme_mode"] = ThemeModes
    /\ Default["theme_mode"] = "light"
    /\ \A k \in Keys : Default[k] \in Allowed[k]
    /\ \A k \in Keys : Undefined \notin Allowed[k]
    /\ \A k \in Keys : Choices[k] \subseteq Allowed[k]
  <1>1. "theme_mode" \in Keys /\ Keys \subseteq DOMAIN Allowed BY KeysAssumption
  <1>2. Allowed["theme_mode"] = ThemeModes BY DEF Allowed
  <1>3. Default["theme_mode"] = "light" BY DEF Default
  <1>4. \A k \in DOMAIN Allowed : Default[k] \in Allowed[k]
    BY DEF Default, Allowed, ThemeModes, ThemePresets, Fonts, SidebarVariants, SidebarCollapsibles,
           ContentLayouts, NavbarStyles
  <1>5. \A k \in Keys : Undefined \notin Allowed[k] BY <1>1, ChoicesAssumption
  <1>6. \A k \in Keys : Choices[k] \subseteq Allowed[k] BY ChoicesAssumption
  <1>7. \A k \in Keys : Default[k] \in Allowed[k] BY <1>1, <1>4
  <1> QED BY <1>1, <1>2, <1>3, <1>5, <1>6, <1>7

LEMMA PrefIndInvInit == PrefInit => PrefIndInv
  <1> SUFFICES ASSUME PrefInit PROVE PrefIndInv OBVIOUS
  <1>1. TabsTyped BY DEF PrefInit, TabsTyped
  <1>2. ASSUME NEW t \in Tabs PROVE TabInv(t)
    BY ValuesKnown DEF PrefInit, TabInv, Defaults, ThemeModes
  <1> QED BY <1>1, <1>2, ByTabs

\* A step of one tab leaves the others as they are.
OthersKept(t) == \A u \in Tabs \ {t} :
    /\ dom'[u] = dom[u] /\ store'[u] = store[u] /\ phase'[u] = phase[u]
    /\ dark'[u] = dark[u] /\ resolved'[u] = resolved[u] /\ unseen'[u] = unseen[u]

LEMMA OneTab ==
    ASSUME PrefIndInv, NEW t \in Tabs, TabsTyped', os' = os, OthersKept(t), TabInv(t)'
    PROVE  PrefIndInv'
  <1>1. \A u \in Tabs : TabInv(u) BY ByTabs
  <1>2. ASSUME NEW u \in Tabs \ {t} PROVE TabInv(u)'
    BY <1>1, <1>2 DEF OthersKept, TabInv, Resolve, Scheme
  <1>3. \A u \in Tabs : TabInv(u)' BY <1>2
  <1> QED BY <1>3
        DEF PrefIndInv, PrefShape, PrefInv, PrefTypeOK, ControlsShowDocument, ThemeFollowsMode,
            Controls, DarkDots, TabInv, TabsTyped

LEMMA BootKeepsInv == ASSUME PrefIndInv, NEW t \in Tabs, Boot(t) PROVE PrefIndInv'
  <1>1. TabsTyped /\ TabInv(t) BY ByTabs
  <1>2. TabsTyped' BY <1>1 DEF TabsTyped, Boot
  <1>3. os' = os /\ OthersKept(t) BY <1>1 DEF Boot, OthersKept, TabsTyped
  <1>4. TabInv(t)'
    <2>1. phase'[t] = "booted" /\ store'[t] = store[t] BY <1>1 DEF Boot, TabsTyped
    <2>2. DOMAIN dom'[t] = Keys /\ dom'[t]["theme_mode"] \in ThemeModes
      <3>1. CASE UNCHANGED dom BY <1>1, <3>1 DEF TabInv
      <3>2. CASE ~UNCHANGED dom
        BY <1>1, <3>2, ValuesKnown DEF Boot, TabsTyped, ThemeModes
      <3> QED BY <3>1, <3>2
    <2> QED BY <1>1, <2>1, <2>2 DEF TabInv
  <1> QED BY <1>2, <1>3, <1>4, OneTab

LEMMA HydrateKeepsInv == ASSUME PrefIndInv, NEW t \in Tabs, Hydrate(t) PROVE PrefIndInv'
  <1>1. TabsTyped /\ TabInv(t) BY ByTabs
  <1>2. TabsTyped' BY <1>1 DEF TabsTyped, Hydrate, ApplyTheme, Resolve, Scheme
  <1>3. os' = os /\ OthersKept(t) BY <1>1 DEF Hydrate, ApplyTheme, OthersKept, TabsTyped
  <1>4. TabInv(t)'
    <2> DEFINE mode == DomState(t)["theme_mode"]
    <2>1. mode = dom[t]["theme_mode"] /\ mode \in ThemeModes
      BY <1>1, ValuesKnown DEF DomState, TabInv, Safe
    <2>2. \A k \in Keys : DomState(t)[k] = Safe(k, dom[t][k])
      BY <1>1, ValuesKnown DEF DomState, TabInv
    <2>3. store'[t] = DomState(t) /\ DOMAIN DomState(t) = Keys
      BY <1>1 DEF Hydrate, TabsTyped, DomState
    <2>4. DOMAIN dom'[t] = Keys /\ \A k \in Keys : dom'[t][k] = dom[t][k]
      BY <1>1, <2>1, ValuesKnown DEF Hydrate, TabsTyped, TabInv
    <2>5. /\ dark'[t] = (Resolve(mode) = "dark") /\ resolved'[t] = Resolve(mode)
          /\ unseen'[t] = FALSE /\ os' = os
      BY <1>1 DEF Hydrate, ApplyTheme, TabsTyped
    <2>6. Resolve(mode) \in {"light", "dark"} BY <1>1 DEF Resolve, Scheme, TabsTyped
    <2>7. \A k \in Keys : store'[t][k] \in Allowed[k] \cup {Undefined} /\ store'[t][k] = Safe(k, dom'[t][k])
      BY <2>2, <2>3, <2>4 DEF Safe
    <2>8. Scheme(dark'[t]) = (Resolve(store[t]["theme_mode"]))'
      BY <2>3, <2>5, <2>6 DEF Resolve, Scheme
    <2> HIDE DEF mode
    <2>9. dom'[t]["theme_mode"] \in ThemeModes BY <1>1, <2>4, ValuesKnown DEF TabInv
    <2> QED BY <2>3, <2>4, <2>5, <2>7, <2>8, <2>9 DEF TabInv, Scheme
  <1> QED BY <1>2, <1>3, <1>4, OneTab

\* A chosen value goes to the document and to the store; the mode is applied.
LEMMA ChooseLayoutKeepsInv ==
    ASSUME PrefIndInv, NEW t \in Tabs, NEW k \in Keys, NEW v \in Choices[k], ChooseLayout(t, k, v)
    PROVE  PrefIndInv'
  <1>1. TabsTyped /\ TabInv(t) BY ByTabs
  <1>2. /\ phase[t] = "synced" /\ k # "theme_mode"
        /\ dom' = [dom EXCEPT ![t][k] = v] /\ store' = [store EXCEPT ![t][k] = v]
        /\ UNCHANGED <<os, phase, dark, resolved, unseen>>
    BY DEF ChooseLayout
  <1>3. TabsTyped' BY <1>1, <1>2 DEF TabsTyped
  <1>4. os' = os /\ OthersKept(t) BY <1>1, <1>2 DEF OthersKept, TabsTyped
  <1>5. TabInv(t)'
    <2>1. v \in Allowed[k] BY ValuesKnown
    <2>2. /\ DOMAIN dom'[t] = Keys /\ DOMAIN store'[t] = Keys
          /\ dom'[t][k] = v /\ store'[t][k] = v
          /\ \A j \in Keys \ {k} : dom'[t][j] = dom[t][j] /\ store'[t][j] = store[t][j]
      BY <1>1, <1>2 DEF TabsTyped, TabInv
    <2>3. /\ dom'[t]["theme_mode"] = dom[t]["theme_mode"]
          /\ store'[t]["theme_mode"] = store[t]["theme_mode"]
      BY <1>2, <2>2, ValuesKnown
    <2>4. \A j \in Keys : store'[t][j] \in Allowed[j] \cup {Undefined} /\ store'[t][j] = Safe(j, dom'[t][j])
      BY <1>1, <1>2, <2>1, <2>2 DEF TabInv, Safe
    <2>5. phase'[t] = phase[t] /\ dark' = dark /\ resolved' = resolved /\ unseen' = unseen /\ os' = os
      BY <1>2
    <2> QED BY <1>1, <1>2, <2>2, <2>3, <2>4, <2>5 DEF TabInv, Resolve
  <1> QED BY <1>3, <1>4, <1>5, OneTab

LEMMA ChooseThemeKeepsInv ==
    ASSUME PrefIndInv, NEW t \in Tabs, NEW mode \in ThemeModes, ChooseTheme(t, mode)
    PROVE  PrefIndInv'
  <1>1. TabsTyped /\ TabInv(t) BY ByTabs
  <1>2. /\ phase[t] = "synced" /\ UNCHANGED <<os, phase>>
        /\ dom' = [dom EXCEPT ![t]["theme_mode"] = mode]
        /\ store' = [store EXCEPT ![t]["theme_mode"] = mode]
        /\ dark' = [dark EXCEPT ![t] = Resolve(mode) = "dark"]
        /\ resolved' = [resolved EXCEPT ![t] = Resolve(mode)]
        /\ unseen' = [unseen EXCEPT ![t] = FALSE]
    BY DEF ChooseTheme, ApplyTheme
  <1>3. Resolve(mode) \in {"light", "dark"} BY <1>1 DEF Resolve, Scheme, TabsTyped
  <1>4. TabsTyped' BY <1>1, <1>2, <1>3 DEF TabsTyped
  <1>5. OthersKept(t) BY <1>1, <1>2 DEF OthersKept, TabsTyped
  <1>6. TabInv(t)'
    <2>1. /\ DOMAIN dom'[t] = Keys /\ DOMAIN store'[t] = Keys
          /\ dom'[t]["theme_mode"] = mode /\ store'[t]["theme_mode"] = mode
          /\ \A j \in Keys \ {"theme_mode"} : dom'[t][j] = dom[t][j] /\ store'[t][j] = store[t][j]
      BY <1>1, <1>2, ValuesKnown DEF TabsTyped, TabInv
    <2>2. \A j \in Keys : store'[t][j] \in Allowed[j] \cup {Undefined} /\ store'[t][j] = Safe(j, dom'[t][j])
      BY <1>1, <1>2, <2>1, ValuesKnown DEF TabInv, Safe
    <2>3. /\ dark'[t] = (Resolve(mode) = "dark") /\ resolved'[t] = Resolve(mode)
          /\ unseen'[t] = FALSE /\ os' = os
      BY <1>1, <1>2 DEF TabsTyped
    <2>4. Scheme(dark'[t]) = (Resolve(store[t]["theme_mode"]))'
      BY <1>3, <2>1, <2>3 DEF Resolve, Scheme
    <2> QED BY <2>1, <2>2, <2>3, <2>4 DEF TabInv
  <1> QED BY <1>2, <1>4, <1>5, <1>6, OneTab

LEMMA CycleThemeKeepsInv == ASSUME PrefIndInv, NEW t \in Tabs, CycleTheme(t) PROVE PrefIndInv'
  <1>1. TabsTyped /\ TabInv(t) BY ByTabs
  <1>2. phase[t] = "synced" BY DEF CycleTheme, ChooseTheme
  <1>3. store[t]["theme_mode"] \in ThemeModes BY <1>1, <1>2, ValuesKnown DEF TabInv, Safe
  <1>4. CASE store[t]["theme_mode"] = "light"
    <2>1. ChooseTheme(t, "dark") BY <1>4 DEF CycleTheme
    <2> QED BY <2>1, ChooseThemeKeepsInv DEF ThemeModes
  <1>5. CASE store[t]["theme_mode"] = "dark"
    <2>1. ChooseTheme(t, "system") BY <1>5 DEF CycleTheme
    <2> QED BY <2>1, ChooseThemeKeepsInv DEF ThemeModes
  <1>6. CASE store[t]["theme_mode"] = "system"
    <2>1. ChooseTheme(t, "light") BY <1>6 DEF CycleTheme
    <2> QED BY <2>1, ChooseThemeKeepsInv DEF ThemeModes
  <1> QED BY <1>3, <1>4, <1>5, <1>6 DEF ThemeModes

LEMMA RestoreKeepsInv == ASSUME PrefIndInv, NEW t \in Tabs, RestoreDefaults(t) PROVE PrefIndInv'
  <1>1. TabsTyped /\ TabInv(t) BY ByTabs
  <1>2. /\ phase[t] = "synced" /\ UNCHANGED <<os, phase>>
        /\ dom' = [dom EXCEPT ![t] = Defaults] /\ store' = [store EXCEPT ![t] = Defaults]
        /\ \/ store[t]["theme_mode"] = "light" /\ UNCHANGED <<dark, resolved, unseen>>
           \/ /\ dark' = [dark EXCEPT ![t] = Resolve("light") = "dark"]
              /\ resolved' = [resolved EXCEPT ![t] = Resolve("light")]
              /\ unseen' = [unseen EXCEPT ![t] = FALSE]
    BY ValuesKnown DEF RestoreDefaults, ApplyTheme
  <1>3. Resolve("light") = "light" BY DEF Resolve, Scheme
  <1>4. TabsTyped' BY <1>1, <1>2, <1>3 DEF TabsTyped
  <1>5. OthersKept(t) BY <1>1, <1>2 DEF OthersKept, TabsTyped
  <1>6. TabInv(t)'
    <2>1. /\ dom'[t] = Defaults /\ store'[t] = Defaults /\ DOMAIN Defaults = Keys
          /\ Defaults["theme_mode"] = "light" /\ \A j \in Keys : Defaults[j] \in Allowed[j]
      BY <1>1, <1>2, ValuesKnown DEF TabsTyped, Defaults
    <2>2. \A j \in Keys : store'[t][j] \in Allowed[j] \cup {Undefined} /\ store'[t][j] = Safe(j, dom'[t][j])
      BY <2>1 DEF Safe
    <2>3. ~unseen'[t] /\ ~dark'[t] /\ resolved'[t] = "light"
      <3>1. CASE store[t]["theme_mode"] = "light" /\ UNCHANGED <<dark, resolved, unseen>>
        BY <1>1, <1>2, <3>1 DEF TabInv, TabsTyped, Resolve, Scheme
      <3>2. CASE /\ dark' = [dark EXCEPT ![t] = Resolve("light") = "dark"]
                 /\ resolved' = [resolved EXCEPT ![t] = Resolve("light")]
                 /\ unseen' = [unseen EXCEPT ![t] = FALSE]
        BY <1>1, <1>3, <3>2 DEF TabsTyped
      <3> QED BY <1>2, <3>1, <3>2
    <2>4. (Resolve(store[t]["theme_mode"]))' = "light" BY <2>1 DEF Resolve, Scheme
    <2> QED BY <2>1, <2>2, <2>3, <2>4 DEF TabInv, Scheme, ThemeModes
  <1> QED BY <1>2, <1>4, <1>5, <1>6, OneTab

LEMMA ReloadKeepsInv == ASSUME PrefIndInv, NEW t \in Tabs, Reload(t) PROVE PrefIndInv'
  <1>1. TabsTyped /\ TabInv(t) BY ByTabs
  <1>2. TabsTyped' BY <1>1 DEF TabsTyped, Reload
  <1>3. os' = os /\ OthersKept(t) BY <1>1 DEF Reload, OthersKept, TabsTyped
  <1>4. /\ phase'[t] = "static" /\ dom'[t] = Defaults /\ store'[t] = Defaults
    BY <1>1 DEF Reload, TabsTyped
  <1>5. /\ DOMAIN Defaults = Keys /\ Defaults["theme_mode"] = "light"
        /\ \A j \in Keys : Defaults[j] \in Allowed[j]
    BY ValuesKnown DEF Defaults
  <1>6. TabInv(t)' BY <1>4, <1>5 DEF TabInv, ThemeModes
  <1> QED BY <1>2, <1>3, <1>6, OneTab

LEMMA SeeSchemeKeepsInv == ASSUME PrefIndInv, NEW t \in Tabs, SeeScheme(t) PROVE PrefIndInv'
  <1>1. TabsTyped /\ TabInv(t) BY ByTabs
  <1>2. /\ unseen[t] /\ UNCHANGED <<os, phase, store>>
        /\ dom' = [dom EXCEPT ![t]["theme_mode"] = "system"]
        /\ dark' = [dark EXCEPT ![t] = Resolve("system") = "dark"]
        /\ resolved' = [resolved EXCEPT ![t] = Resolve("system")]
        /\ unseen' = [unseen EXCEPT ![t] = FALSE]
    BY DEF SeeScheme, ApplyTheme
  <1>3. Resolve("system") = os BY DEF Resolve
  <1>4. TabsTyped' BY <1>1, <1>2, <1>3 DEF TabsTyped
  <1>5. OthersKept(t) BY <1>1, <1>2 DEF OthersKept, TabsTyped
  <1>6. TabInv(t)'
    <2>1. /\ DOMAIN dom'[t] = Keys /\ dom'[t]["theme_mode"] = "system"
          /\ \A j \in Keys \ {"theme_mode"} : dom'[t][j] = dom[t][j]
      BY <1>1, <1>2, ValuesKnown DEF TabsTyped, TabInv
    <2>2. phase'[t] = "synced" =>
            /\ store[t]["theme_mode"] = "system"
            /\ \A j \in Keys : store'[t][j] = Safe(j, dom'[t][j])
      BY <1>1, <1>2, <2>1, ValuesKnown DEF TabInv, Safe, ThemeModes
    <2>3. (dark'[t] <=> os = "dark") /\ resolved'[t] = os /\ unseen'[t] = FALSE
      BY <1>1, <1>2, <1>3 DEF TabsTyped
    <2>4. Scheme(dark'[t]) = os' BY <1>1, <1>2, <2>3 DEF Scheme, TabsTyped
    <2>5. /\ DOMAIN store'[t] = Keys
          /\ \A j \in Keys : store'[t][j] \in Allowed[j] \cup {Undefined}
      BY <1>1, <1>2 DEF TabInv
    <2> QED BY <1>2, <2>1, <2>2, <2>3, <2>4, <2>5 DEF TabInv, ThemeModes, Resolve
  <1> QED BY <1>2, <1>4, <1>5, <1>6, OneTab

\* The system's scheme concerns the tabs in "system" mode, and those are told.
LEMMA ChangeSchemeKeepsInv == ASSUME PrefIndInv, ChangeScheme PROVE PrefIndInv'
  <1>1. TabsTyped /\ \A t \in Tabs : TabInv(t) BY ByTabs
  <1>2. TabsTyped' BY <1>1 DEF TabsTyped, ChangeScheme, Scheme
  <1>3. ASSUME NEW t \in Tabs PROVE TabInv(t)'
    <2>1. unseen'[t] = (unseen[t] \/ (phase[t] = "synced" /\ store[t]["theme_mode"] = "system"))
      BY DEF ChangeScheme
    <2> QED BY <1>1, <2>1 DEF ChangeScheme, TabInv, Resolve
  <1> QED BY <1>2, <1>3
        DEF PrefIndInv, PrefShape, PrefInv, PrefTypeOK, ControlsShowDocument, ThemeFollowsMode,
            Controls, DarkDots, TabInv, TabsTyped

\* Everything else only writes the cookies.
LEMMA StorageKeepsInv == ASSUME PrefIndInv, UNCHANGED <<os, tabVars>> PROVE PrefIndInv'
  BY DEF tabVars, PrefIndInv, PrefShape, PrefInv, PrefTypeOK, ControlsShowDocument,
         ThemeFollowsMode, Controls, DarkDots, Resolve

LEMMA PrefIndInvStep == PrefIndInv /\ [PrefNext]_prefVars => PrefIndInv'
  <1> SUFFICES ASSUME PrefIndInv, [PrefNext]_prefVars PROVE PrefIndInv' OBVIOUS
  <1>1. ASSUME NEW t \in Tabs, Boot(t) PROVE PrefIndInv' BY <1>1, BootKeepsInv
  <1>2. ASSUME NEW t \in Tabs, Hydrate(t) PROVE PrefIndInv' BY <1>2, HydrateKeepsInv
  <1>3. ASSUME NEW t \in Tabs, NEW k \in Keys, NEW v \in Choices[k], ChooseLayout(t, k, v)
        PROVE  PrefIndInv'
    BY <1>3, ChooseLayoutKeepsInv
  <1>4. ASSUME NEW t \in Tabs, NEW mode \in Choices["theme_mode"], ChooseTheme(t, mode)
        PROVE  PrefIndInv'
    <2>1. mode \in ThemeModes BY <1>4, ValuesKnown
    <2> QED BY <1>4, <2>1, ChooseThemeKeepsInv
  <1>5. ASSUME NEW t \in Tabs, CycleTheme(t) PROVE PrefIndInv' BY <1>5, CycleThemeKeepsInv
  <1>6. ASSUME NEW t \in Tabs, RestoreDefaults(t) PROVE PrefIndInv' BY <1>6, RestoreKeepsInv
  <1>7. ASSUME NEW t \in Tabs, Reload(t) PROVE PrefIndInv' BY <1>7, ReloadKeepsInv
  <1>8. ASSUME NEW t \in Tabs, SeeScheme(t) PROVE PrefIndInv' BY <1>8, SeeSchemeKeepsInv
  <1>9. ASSUME NEW k \in Keys, Expire(k) PROVE PrefIndInv' BY <1>9, StorageKeepsInv DEF Expire
  <1>10. CASE ChangeScheme BY <1>10, ChangeSchemeKeepsInv
  <1>11. CASE UNCHANGED prefVars BY <1>11, StorageKeepsInv DEF prefVars
  <1> QED BY <1>1, <1>2, <1>3, <1>4, <1>5, <1>6, <1>7, <1>8, <1>9, <1>10, <1>11 DEF PrefNext

\* In every hydrated tab the controls show what the document says, and the page
\* is dark exactly when the mode, or the system in "system" mode, says so.
THEOREM PrefInvariance == PrefSpec => []PrefInv
  <1>1. PrefIndInv => PrefInv BY DEF PrefIndInv
  <1> QED BY PrefIndInvInit, PrefIndInvStep, <1>1, PTL DEF PrefSpec

-----------------------------------------------------------------------------
(* What the document looks like before hydration.                          *)

DocInv(t) ==
    /\ dom[t] = [k \in Keys |-> dom[t][k]]
    /\ phase[t] = "static" => dom[t]["theme_mode"] = "light" /\ dark[t] = FALSE
    /\ phase[t] = "booted" => dom[t]["theme_mode"] = "system" \/ dark[t] = (dom[t]["theme_mode"] = "dark")
    /\ unseen[t] => phase[t] = "synced"

BootInv == \A t \in Tabs : DocInv(t)

LEMMA BootInvInit == PrefInit => BootInv
  <1> SUFFICES ASSUME PrefInit, NEW t \in Tabs PROVE DocInv(t) BY DEF BootInv
  <1>1. dom[t] = Defaults /\ dark[t] = FALSE /\ phase[t] = "static" /\ unseen[t] = FALSE
    BY DEF PrefInit
  <1>2. Defaults = [k \in Keys |-> Defaults[k]] /\ Defaults["theme_mode"] = "light"
    BY ValuesKnown DEF Defaults
  <1> QED BY <1>1, <1>2 DEF DocInv

\* One attribute of one tab is set: the attributes are still one per key.
LEMMA SetAttribute ==
    ASSUME PrefIndInv, BootInv, NEW t \in Tabs, NEW k \in Keys, NEW v,
           dom' = [dom EXCEPT ![t][k] = v]
    PROVE  /\ dom'[t] = [j \in Keys |-> dom'[t][j]] /\ dom'[t][k] = v
           /\ \A u \in Tabs \ {t} : dom'[u] = dom[u]
  <1>1. DOMAIN dom = Tabs /\ DOMAIN dom[t] = Keys BY DEF PrefIndInv, PrefShape
  <1>2. dom'[t] = [j \in Keys |-> IF j = k THEN v ELSE dom[t][j]] BY <1>1
  <1> QED BY <1>1, <1>2

\* Of a tab that is synced nothing but the shape matters.
LEMMA SyncedDocument ==
    ASSUME BootInv, PrefIndInv, NEW t \in Tabs, OthersKept(t), phase'[t] = "synced",
           dom'[t] = [k \in Keys |-> dom'[t][k]]
    PROVE  BootInv'
  <1>1. DocInv(t)' BY DEF DocInv
  <1>2. ASSUME NEW u \in Tabs \ {t} PROVE DocInv(u)'
    BY <1>2 DEF BootInv, DocInv, OthersKept
  <1> QED BY <1>1, <1>2 DEF BootInv

LEMMA BootKeepsBootInv == ASSUME PrefIndInv, BootInv, NEW t \in Tabs, Boot(t) PROVE BootInv'
  <1>1. TabsTyped /\ TabInv(t) /\ DocInv(t) BY ByTabs DEF BootInv
  <1>2. OthersKept(t) BY <1>1 DEF Boot, OthersKept, TabsTyped
  <1>3. phase[t] = "static" /\ phase'[t] = "booted" /\ unseen'[t] = FALSE
    BY <1>1 DEF Boot, TabsTyped, DocInv
  <1>4. DocInv(t)'
    <2>1. CASE UNCHANGED <<dom, dark>> BY <1>1, <1>3, <2>1 DEF DocInv
    <2>2. CASE ~UNCHANGED <<dom, dark>>
      <3> DEFINE raw  == ReadPreference("theme_mode")
                 mode == IF raw \in ThemeModes THEN raw ELSE Default["theme_mode"]
                 doc  == [k \in Keys |-> IF k = "theme_mode" THEN mode ELSE ReadPreference(k)]
      <3>1. dom'[t] = doc /\ dark'[t] = (Resolve(mode) = "dark")
        BY <1>1, <2>2 DEF Boot, TabsTyped
      <3>2. doc = [k \in Keys |-> doc[k]] OBVIOUS
      <3>3. doc["theme_mode"] = mode BY ValuesKnown
      <3>4. mode = "system" \/ (Resolve(mode) = "dark" <=> mode = "dark") BY DEF Resolve, Scheme
      <3> HIDE DEF mode, doc
      <3>5. mode = "system" \/ dark'[t] = (mode = "dark") BY <3>1, <3>4
      <3> QED BY <1>3, <3>1, <3>2, <3>3, <3>5 DEF DocInv
    <2> QED BY <2>1, <2>2
  <1>5. ASSUME NEW u \in Tabs \ {t} PROVE DocInv(u)'
    BY <1>2, <1>5 DEF BootInv, DocInv, OthersKept
  <1> QED BY <1>4, <1>5 DEF BootInv

LEMMA ReloadKeepsBootInv == ASSUME PrefIndInv, BootInv, NEW t \in Tabs, Reload(t) PROVE BootInv'
  <1>1. TabsTyped /\ TabInv(t) BY ByTabs
  <1>2. OthersKept(t) BY <1>1 DEF Reload, OthersKept, TabsTyped
  <1>3. dom'[t] = Defaults /\ dark'[t] = FALSE /\ phase'[t] = "static" /\ unseen'[t] = FALSE
    BY <1>1 DEF Reload, TabsTyped
  <1>4. Defaults = [k \in Keys |-> Defaults[k]] /\ Defaults["theme_mode"] = "light"
    BY ValuesKnown DEF Defaults
  <1>5. DocInv(t)' BY <1>3, <1>4 DEF DocInv
  <1>6. ASSUME NEW u \in Tabs \ {t} PROVE DocInv(u)'
    BY <1>2, <1>6 DEF BootInv, DocInv, OthersKept
  <1> QED BY <1>5, <1>6 DEF BootInv

LEMMA BootInvStep == PrefIndInv /\ BootInv /\ [PrefNext]_prefVars => BootInv'
  <1> SUFFICES ASSUME PrefIndInv, BootInv, [PrefNext]_prefVars PROVE BootInv' OBVIOUS
  <1> USE ValuesKnown
  <1>0. TabsTyped BY ByTabs
  <1>1. ASSUME NEW t \in Tabs, Boot(t) PROVE BootInv' BY <1>1, BootKeepsBootInv
  <1>2. ASSUME NEW t \in Tabs, Hydrate(t) PROVE BootInv'
    <2>1. OthersKept(t) /\ phase'[t] = "synced"
      BY <1>0, <1>2, SetAttribute DEF Hydrate, ApplyTheme, OthersKept, TabsTyped
    <2>2. dom'[t] = [k \in Keys |-> dom'[t][k]] BY <1>2, SetAttribute DEF Hydrate
    <2> QED BY <2>1, <2>2, SyncedDocument
  <1>3. ASSUME NEW t \in Tabs, NEW k \in Keys, NEW v \in Choices[k], ChooseLayout(t, k, v)
        PROVE  BootInv'
    <2>1. OthersKept(t) /\ phase'[t] = "synced"
      BY <1>0, <1>3 DEF ChooseLayout, OthersKept, TabsTyped
    <2>2. dom'[t] = [j \in Keys |-> dom'[t][j]] BY <1>3, SetAttribute DEF ChooseLayout
    <2> QED BY <2>1, <2>2, SyncedDocument
  <1>4. ASSUME NEW t \in Tabs, NEW mode, ChooseTheme(t, mode) PROVE BootInv'
    <2>1. OthersKept(t) /\ phase'[t] = "synced"
      BY <1>0, <1>4 DEF ChooseTheme, ApplyTheme, OthersKept, TabsTyped
    <2>2. dom'[t] = [j \in Keys |-> dom'[t][j]] BY <1>4, SetAttribute DEF ChooseTheme
    <2> QED BY <2>1, <2>2, SyncedDocument
  <1>5. ASSUME NEW t \in Tabs, CycleTheme(t) PROVE BootInv' BY <1>4, <1>5 DEF CycleTheme
  <1>6. ASSUME NEW t \in Tabs, RestoreDefaults(t) PROVE BootInv'
    <2>1. OthersKept(t) /\ phase'[t] = "synced"
      BY <1>0, <1>6 DEF RestoreDefaults, ApplyTheme, OthersKept, TabsTyped
    <2>2. dom'[t] = Defaults BY <1>0, <1>6 DEF RestoreDefaults, TabsTyped
    <2>3. Defaults = [j \in Keys |-> Defaults[j]] BY DEF Defaults
    <2> QED BY <2>1, <2>2, <2>3, SyncedDocument
  <1>7. ASSUME NEW t \in Tabs, Reload(t) PROVE BootInv' BY <1>7, ReloadKeepsBootInv
  <1>8. ASSUME NEW t \in Tabs, SeeScheme(t) PROVE BootInv'
    <2>1. phase'[t] = "synced" BY <1>8 DEF SeeScheme, BootInv, DocInv
    <2>2. OthersKept(t) BY <1>0, <1>8 DEF SeeScheme, ApplyTheme, OthersKept, TabsTyped
    <2>3. dom'[t] = [j \in Keys |-> dom'[t][j]] BY <1>8, SetAttribute DEF SeeScheme
    <2> QED BY <2>1, <2>2, <2>3, SyncedDocument
  <1>9. CASE ChangeScheme BY <1>9 DEF ChangeScheme, BootInv, DocInv
  <1>10. CASE UNCHANGED tabVars BY <1>10 DEF tabVars, BootInv, DocInv
  <1>11. ASSUME NEW k \in Keys, Expire(k) PROVE BootInv' BY <1>10, <1>11 DEF Expire
  <1>12. CASE UNCHANGED prefVars BY <1>10, <1>12 DEF prefVars
  <1> QED BY <1>1, <1>2, <1>3, <1>4, <1>5, <1>6, <1>7, <1>8, <1>9, <1>11, <1>12 DEF PrefNext

\* The step from "booted" to "synced" is a hydration; the mode it applies is the
\* document's, whose colors the boot script has set.
LEMMA OnlyHydrateSyncs ==
    ASSUME PrefIndInv, BootInv, [PrefNext]_prefVars, NEW t \in Tabs,
           phase[t] = "booted", phase'[t] = "synced"
    PROVE  Hydrate(t)
  <1>0. TabsTyped BY ByTabs
  <1>1. ASSUME NEW u \in Tabs, Boot(u) PROVE FALSE BY <1>0, <1>1 DEF Boot, TabsTyped
  <1>2. ASSUME NEW u \in Tabs, Reload(u) PROVE FALSE BY <1>0, <1>2 DEF Reload, TabsTyped
  <1>3. ASSUME NEW u \in Tabs, Hydrate(u) PROVE u = t BY <1>0, <1>3 DEF Hydrate, TabsTyped
  <1>4. phase' # phase OBVIOUS
  <1>5. \A u \in Tabs, k \in Keys : \A v \in Choices[k] : ~ChooseLayout(u, k, v)
    BY <1>4 DEF ChooseLayout
  <1>6. \A u \in Tabs : \A mode : ~ChooseTheme(u, mode) BY <1>4 DEF ChooseTheme
  <1>7. \A u \in Tabs : ~CycleTheme(u) /\ ~RestoreDefaults(u) /\ ~SeeScheme(u)
    BY <1>4, <1>6 DEF CycleTheme, RestoreDefaults, SeeScheme
  <1>8. \A k \in Keys : ~Expire(k) BY <1>4 DEF Expire, tabVars
  <1>9. ~ChangeScheme BY <1>4 DEF ChangeScheme
  <1>10. prefVars' # prefVars BY <1>4 DEF prefVars, tabVars
  <1> QED BY <1>1, <1>2, <1>3, <1>5, <1>6, <1>7, <1>8, <1>9, <1>10 DEF PrefNext

LEMMA HydrationStep ==
    ASSUME PrefIndInv, BootInv, NEW t \in Tabs, Hydrate(t)
    PROVE  dom'[t] = dom[t] /\ (dark'[t] = dark[t] \/ dom[t]["theme_mode"] = "system")
  <1>1. TabsTyped /\ TabInv(t) /\ DocInv(t) BY ByTabs DEF BootInv
  <1> DEFINE mode == DomState(t)["theme_mode"]
  <1>2. mode = dom[t]["theme_mode"] /\ mode \in ThemeModes
    BY <1>1, ValuesKnown DEF DomState, TabInv, Safe
  <1>3. dom' = [dom EXCEPT ![t]["theme_mode"] = mode] /\ phase[t] = "booted"
        /\ dark' = [dark EXCEPT ![t] = Resolve(mode) = "dark"]
    BY DEF Hydrate, ApplyTheme
  <1> HIDE DEF mode
  <1>4. dom'[t] = [k \in Keys |-> IF k = "theme_mode" THEN mode ELSE dom[t][k]]
    BY <1>1, <1>3 DEF TabsTyped, TabInv
  <1>5. dom'[t] = [k \in Keys |-> dom[t][k]] BY <1>2, <1>4
  <1>6. dom'[t] = dom[t] BY <1>1, <1>5 DEF DocInv
  <1>7. mode = "system" \/ (Resolve(mode) = "dark" <=> mode = "dark") BY DEF Resolve, Scheme
  <1>8. dark'[t] <=> Resolve(mode) = "dark" BY <1>1, <1>3 DEF TabsTyped
  <1>9. mode = "system" \/ (dark[t] <=> mode = "dark") BY <1>1, <1>2, <1>3 DEF DocInv
  <1>10. dark'[t] \in BOOLEAN /\ dark[t] \in BOOLEAN BY <1>1, <1>3 DEF TabsTyped
  <1> QED BY <1>2, <1>6, <1>7, <1>8, <1>9, <1>10

\* Hydration changes no attribute of the document, and no color either unless
\* the system's scheme changed under a page in "system" mode.
THEOREM HydrationDoesNotFlickerHolds == PrefSpec => HydrationDoesNotFlicker
  <1> DEFINE Kept == \A t \in Tabs : phase[t] = "booted" /\ phase'[t] = "synced" =>
                        /\ dom'[t] = dom[t]
                        /\ dark'[t] = dark[t] \/ dom[t]["theme_mode"] = "system"
  <1>1. PrefIndInv /\ BootInv /\ [PrefNext]_prefVars => [Kept]_prefVars
    BY OnlyHydrateSyncs, HydrationStep
  <1> QED BY PrefIndInvInit, PrefIndInvStep, BootInvInit, BootInvStep, <1>1, PTL
          DEF PrefSpec, HydrationDoesNotFlicker

-----------------------------------------------------------------------------
(* What the cookies hold of the choices, and what a document owes.         *)

\* A choice that has not expired is what a boot script reads.
CookiesKeep ==
    /\ DOMAIN jar = Keys /\ DOMAIN chosen = Keys
    /\ \A k \in Keys : chosen[k] # NoValue => ReadPreference(k) = chosen[k] /\ chosen[k] \in Allowed[k]

\* What the document of tab t owes is a value the code knows, and it has it.
Owed(t) ==
    /\ DOMAIN due[t] = Keys
    /\ phase[t] = "static" => dom[t] = Defaults
    /\ \A k \in Keys : due[t][k] # NoValue =>
          /\ due[t][k] \in Allowed[k] /\ dom[t][k] = due[t][k]
          /\ phase[t] = "synced" => store[t][k] = due[t][k]

ChoiceInv == CookiesKeep /\ DOMAIN due = Tabs /\ \A t \in Tabs : Owed(t)

LEMMA NoValueIsNone == \A k \in Keys : NoValue \notin Allowed[k]
  BY KeysAssumption, ChoicesAssumption

LEMMA ChoiceInvInit == PrefInit => ChoiceInv
  <1> SUFFICES ASSUME PrefInit PROVE ChoiceInv OBVIOUS
  <1>1. CookiesKeep BY ValuesKnown DEF PrefInit, CookiesKeep, ReadPreference
  <1>2. ASSUME NEW t \in Tabs PROVE Owed(t) BY <1>2 DEF PrefInit, Owed, Nothing
  <1> QED BY <1>1, <1>2 DEF PrefInit, ChoiceInv

\* A step of tab t: what is left to show is the cookies' part and the tab's.
LEMMA OneOwes ==
    ASSUME ChoiceInv, NEW t \in Tabs, OthersKept(t), DOMAIN due' = Tabs,
           \A u \in Tabs \ {t} : due'[u] = due[u], CookiesKeep', Owed(t)'
    PROVE  ChoiceInv'
  <1>1. ASSUME NEW u \in Tabs \ {t} PROVE Owed(u)' BY <1>1 DEF ChoiceInv, Owed, OthersKept
  <1> QED BY <1>1 DEF ChoiceInv

LEMMA BootOwes == ASSUME PrefIndInv, ChoiceInv, NEW t \in Tabs, Boot(t) PROVE ChoiceInv'
  <1>1. TabsTyped /\ TabInv(t) /\ Owed(t) /\ CookiesKeep BY ByTabs DEF ChoiceInv
  <1>2. OthersKept(t) BY <1>1 DEF Boot, OthersKept, TabsTyped
  <1>3. CookiesKeep' BY <1>1 DEF Boot, CookiesKeep, ReadPreference
  <1>4. /\ phase[t] = "static" /\ phase'[t] = "booted" /\ due'[t] = OwesOnBoot
        /\ DOMAIN due' = Tabs /\ \A u \in Tabs \ {t} : due'[u] = due[u]
    BY <1>1 DEF Boot, TabsTyped, ChoiceInv
  <1>5. Owed(t)'
    <2>1. CASE ScriptStops
      <3>1. due'[t] = Defaults /\ dom'[t] = Defaults BY <1>1, <1>4, <2>1 DEF Boot, OwesOnBoot, Owed
      <3>2. DOMAIN Defaults = Keys /\ \A k \in Keys : Defaults[k] \in Allowed[k]
        BY ValuesKnown DEF Defaults
      <3> QED BY <1>4, <3>1, <3>2 DEF Owed
    <2>2. CASE ~ScriptStops
      <3> DEFINE raw  == ReadPreference("theme_mode")
                 mode == IF raw \in ThemeModes THEN raw ELSE Default["theme_mode"]
      <3>1. due'[t] = chosen BY <1>4, <2>2 DEF OwesOnBoot
      <3>2. dom'[t] = [k \in Keys |-> IF k = "theme_mode" THEN mode ELSE ReadPreference(k)]
        BY <1>1, <2>2 DEF Boot, TabsTyped
      <3>3. chosen["theme_mode"] # NoValue => mode = chosen["theme_mode"]
        BY <1>1, ValuesKnown DEF CookiesKeep
      <3> HIDE DEF raw, mode
      <3>4. \A k \in Keys : chosen[k] # NoValue => chosen[k] \in Allowed[k] /\ dom'[t][k] = chosen[k]
        BY <1>1, <3>2, <3>3 DEF CookiesKeep
      <3> QED BY <1>1, <1>4, <3>1, <3>4 DEF Owed, CookiesKeep
    <2> QED BY <2>1, <2>2
  <1> QED BY <1>2, <1>3, <1>4, <1>5, OneOwes

LEMMA HydrateOwes ==
    ASSUME PrefIndInv, BootInv, ChoiceInv, NEW t \in Tabs, Hydrate(t)
    PROVE  ChoiceInv'
  <1>1. TabsTyped /\ TabInv(t) /\ Owed(t) BY ByTabs DEF ChoiceInv
  <1>2. OthersKept(t) BY <1>1 DEF Hydrate, ApplyTheme, OthersKept, TabsTyped
  <1>3. CookiesKeep' /\ due' = due BY DEF Hydrate, ChoiceInv, CookiesKeep, ReadPreference
  <1>4. phase'[t] = "synced" /\ store'[t] = DomState(t) BY <1>1 DEF Hydrate, TabsTyped
  <1>5. dom'[t] = dom[t] BY HydrationStep
  <1>6. \A k \in Keys : dom[t][k] \in Allowed[k] => DomState(t)[k] = dom[t][k]
    BY <1>1 DEF DomState, TabInv, Safe
  <1>7. Owed(t)' BY <1>1, <1>3, <1>4, <1>5, <1>6 DEF Owed
  <1> QED BY <1>2, <1>3, <1>7, OneOwes DEF ChoiceInv

\* What is chosen in a tab is in the cookies, and what the tab owes from now on.
LEMMA PersistKeeps ==
    ASSUME ChoiceInv, NEW t \in Tabs, NEW S \in SUBSET Keys, NEW value,
           \A k \in S : value[k] \in Allowed[k], Persist(t, S, value)
    PROVE  /\ CookiesKeep' /\ DOMAIN due' = Tabs /\ \A u \in Tabs \ {t} : due'[u] = due[u]
           /\ due'[t] = [k \in Keys |-> IF k \in S THEN value[k] ELSE due[t][k]]
  <1>1. /\ jar' = [k \in Keys |-> IF k \in S THEN value[k] ELSE jar[k]]
        /\ chosen' = [k \in Keys |-> IF k \in S THEN value[k] ELSE chosen[k]]
        /\ due' = [due EXCEPT ![t] = [k \in Keys |-> IF k \in S THEN value[k] ELSE due[t][k]]]
    BY DEF Persist
  <1>2. CookiesKeep'
    <2> SUFFICES ASSUME NEW k \in Keys, chosen'[k] # NoValue
                 PROVE  ReadPreference(k)' = chosen'[k] /\ chosen'[k] \in Allowed[k]
      BY <1>1 DEF CookiesKeep
    <2>1. CASE k \in S BY <1>1, <2>1, NoValueIsNone DEF ReadPreference
    <2>2. CASE k \notin S BY <1>1, <2>2 DEF ReadPreference, ChoiceInv, CookiesKeep
    <2> QED BY <2>1, <2>2
  <1> QED BY <1>1, <1>2 DEF ChoiceInv

LEMMA ChooseOwes ==
    ASSUME PrefIndInv, ChoiceInv, NEW t \in Tabs, NEW k \in Keys, NEW v \in Allowed[k],
           phase[t] = "synced", OthersKept(t), phase' = phase,
           dom' = [dom EXCEPT ![t][k] = v], store' = [store EXCEPT ![t][k] = v],
           Persist(t, {k}, [j \in Keys |-> v])
    PROVE  ChoiceInv'
  <1>1. TabsTyped /\ TabInv(t) /\ Owed(t) BY ByTabs DEF ChoiceInv
  <1>2. /\ CookiesKeep' /\ DOMAIN due' = Tabs /\ \A u \in Tabs \ {t} : due'[u] = due[u]
        /\ due'[t] = [j \in Keys |-> IF j = k THEN v ELSE due[t][j]]
    <2> DEFINE value == [j \in Keys |-> v]
    <2>1. \A j \in {k} : value[j] \in Allowed[j] OBVIOUS
    <2>2. value[k] = v OBVIOUS
    <2> HIDE DEF value
    <2>3. /\ CookiesKeep' /\ DOMAIN due' = Tabs /\ \A u \in Tabs \ {t} : due'[u] = due[u]
          /\ due'[t] = [j \in Keys |-> IF j \in {k} THEN value[j] ELSE due[t][j]]
      BY <2>1, PersistKeeps DEF value
    <2> QED BY <2>2, <2>3
  <1>3. /\ dom'[t][k] = v /\ store'[t][k] = v
        /\ \A j \in Keys \ {k} : dom'[t][j] = dom[t][j] /\ store'[t][j] = store[t][j]
    BY <1>1 DEF TabsTyped, TabInv
  <1>4. Owed(t)' BY <1>1, <1>2, <1>3 DEF Owed
  <1> QED BY <1>2, <1>4, OneOwes

LEMMA ChooseThemeOwes ==
    ASSUME PrefIndInv, ChoiceInv, NEW t \in Tabs, NEW mode \in ThemeModes, ChooseTheme(t, mode)
    PROVE  ChoiceInv'
  <1>1. TabsTyped BY ByTabs
  <1>2. "theme_mode" \in Keys /\ mode \in Allowed["theme_mode"] BY ValuesKnown
  <1>3. OthersKept(t) BY <1>1 DEF ChooseTheme, ApplyTheme, OthersKept, TabsTyped
  <1> QED BY <1>2, <1>3, ChooseOwes DEF ChooseTheme

LEMMA RestoreOwes ==
    ASSUME PrefIndInv, ChoiceInv, NEW t \in Tabs, RestoreDefaults(t) PROVE ChoiceInv'
  <1>1. TabsTyped BY ByTabs
  <1>2. OthersKept(t) BY <1>1 DEF RestoreDefaults, ApplyTheme, OthersKept, TabsTyped
  <1>3. DOMAIN Defaults = Keys /\ \A k \in Keys : Defaults[k] \in Allowed[k]
    BY ValuesKnown DEF Defaults
  <1>4. /\ CookiesKeep' /\ DOMAIN due' = Tabs /\ \A u \in Tabs \ {t} : due'[u] = due[u]
        /\ due'[t] = [k \in Keys |-> IF k \in Keys THEN Defaults[k] ELSE due[t][k]]
    BY <1>3, PersistKeeps DEF RestoreDefaults
  <1>5. phase'[t] = "synced" /\ dom'[t] = Defaults /\ store'[t] = Defaults
    BY <1>1 DEF RestoreDefaults, TabsTyped
  <1>6. Owed(t)' BY <1>3, <1>4, <1>5 DEF Owed
  <1> QED BY <1>2, <1>4, <1>6, OneOwes

LEMMA ChoiceInvStep == PrefIndInv /\ BootInv /\ ChoiceInv /\ [PrefNext]_prefVars => ChoiceInv'
  <1> SUFFICES ASSUME PrefIndInv, BootInv, ChoiceInv, [PrefNext]_prefVars PROVE ChoiceInv' OBVIOUS
  <1>0. TabsTyped /\ \A t \in Tabs : TabInv(t) /\ Owed(t) BY ByTabs DEF ChoiceInv
  <1>1. ASSUME NEW t \in Tabs, Boot(t) PROVE ChoiceInv' BY <1>1, BootOwes
  <1>2. ASSUME NEW t \in Tabs, Hydrate(t) PROVE ChoiceInv' BY <1>2, HydrateOwes
  <1>3. ASSUME NEW t \in Tabs, NEW k \in Keys, NEW v \in Choices[k], ChooseLayout(t, k, v)
        PROVE  ChoiceInv'
    <2>1. v \in Allowed[k] BY ValuesKnown
    <2>2. OthersKept(t) BY <1>0, <1>3 DEF ChooseLayout, OthersKept, TabsTyped
    <2> QED BY <1>3, <2>1, <2>2, ChooseOwes DEF ChooseLayout
  <1>4. ASSUME NEW t \in Tabs, NEW mode \in Choices["theme_mode"], ChooseTheme(t, mode)
        PROVE  ChoiceInv'
    <2>1. mode \in ThemeModes BY <1>4, ValuesKnown
    <2> QED BY <1>4, <2>1, ChooseThemeOwes
  <1>5. ASSUME NEW t \in Tabs, CycleTheme(t) PROVE ChoiceInv'
    <2>1. TabInv(t) /\ phase[t] = "synced" BY <1>0, <1>5 DEF CycleTheme, ChooseTheme
    <2>2. store[t]["theme_mode"] \in ThemeModes BY <2>1, ValuesKnown DEF TabInv, Safe
    <2>3. \E mode \in ThemeModes : ChooseTheme(t, mode)
      BY <1>5, <2>2 DEF CycleTheme, ThemeModes
    <2> QED BY <2>3, ChooseThemeOwes
  <1>6. ASSUME NEW t \in Tabs, RestoreDefaults(t) PROVE ChoiceInv' BY <1>6, RestoreOwes
  <1>7. ASSUME NEW t \in Tabs, Reload(t) PROVE ChoiceInv'
    <2>1. OthersKept(t) BY <1>0, <1>7 DEF Reload, OthersKept, TabsTyped
    <2>2. CookiesKeep' BY <1>7 DEF Reload, ChoiceInv, CookiesKeep, ReadPreference
    <2>3. /\ dom'[t] = Defaults /\ due'[t] = Nothing /\ DOMAIN due' = Tabs
          /\ \A u \in Tabs \ {t} : due'[u] = due[u]
      BY <1>0, <1>7 DEF Reload, TabsTyped, ChoiceInv
    <2>4. Owed(t)' BY <2>3 DEF Owed, Nothing
    <2> QED BY <2>1, <2>2, <2>3, <2>4, OneOwes
  <1>8. ASSUME NEW t \in Tabs, SeeScheme(t) PROVE ChoiceInv'
    <2>1. OthersKept(t) BY <1>0, <1>8 DEF SeeScheme, ApplyTheme, OthersKept, TabsTyped
    <2>2. CookiesKeep' /\ due' = due BY <1>8 DEF SeeScheme, ChoiceInv, CookiesKeep, ReadPreference
    <2>3. phase[t] = "synced" /\ store[t]["theme_mode"] = "system" /\ phase' = phase /\ store' = store
      BY <1>0, <1>8 DEF SeeScheme, BootInv, DocInv, TabInv
    <2>4. /\ dom'[t]["theme_mode"] = "system"
          /\ \A k \in Keys \ {"theme_mode"} : dom'[t][k] = dom[t][k]
      BY <1>0, <1>8, ValuesKnown DEF SeeScheme, TabsTyped, TabInv
    <2>5. Owed(t)' BY <1>0, <2>2, <2>3, <2>4 DEF Owed
    <2> QED BY <2>1, <2>2, <2>5, OneOwes DEF ChoiceInv
  <1>9. ASSUME NEW k \in Keys, Expire(k) PROVE ChoiceInv'
    <2>1. /\ jar' = [jar EXCEPT ![k] = NoValue] /\ chosen' = [chosen EXCEPT ![k] = Default[k]]
          /\ UNCHANGED <<dom, store, phase, due>>
      BY <1>9 DEF Expire, tabVars
    <2>2. CookiesKeep'
      <3>1. jar'[k] = NoValue /\ chosen'[k] = Default[k] /\ Default[k] \in Allowed[k]
        BY <2>1, ValuesKnown DEF ChoiceInv, CookiesKeep
      <3>2. \A j \in Keys \ {k} : jar'[j] = jar[j] /\ chosen'[j] = chosen[j]
        BY <2>1 DEF ChoiceInv, CookiesKeep
      <3>3. DOMAIN jar' = Keys /\ DOMAIN chosen' = Keys BY <2>1 DEF ChoiceInv, CookiesKeep
      <3> QED BY <3>1, <3>2, <3>3 DEF ChoiceInv, CookiesKeep, ReadPreference
    <2> QED BY <2>1, <2>2 DEF ChoiceInv, Owed
  <1>10. CASE ChangeScheme
    BY <1>10 DEF ChangeScheme, ChoiceInv, CookiesKeep, ReadPreference, Owed
  <1>11. CASE UNCHANGED prefVars
    BY <1>11 DEF prefVars, tabVars, ChoiceInv, CookiesKeep, ReadPreference, Owed
  <1> QED BY <1>1, <1>2, <1>3, <1>4, <1>5, <1>6, <1>7, <1>8, <1>9, <1>10, <1>11 DEF PrefNext

\* From its boot on a document shows the last choice made in any tab before it
\* booted or in its own after, the default of one that expired, or the defaults of
\* all when one cookie stopped the script, whatever tabs and keys there are and in
\* whatever order they choose, boot and hydrate.
THEOREM ChoiceIsKeptHolds == PrefSpec => []ChoiceIsKept
  <1>1. ChoiceInv => ChoiceIsKept BY DEF ChoiceInv, Owed, ChoiceIsKept, Controls
  <1> QED BY PrefIndInvInit, PrefIndInvStep, BootInvInit, BootInvStep, ChoiceInvInit,
             ChoiceInvStep, <1>1, PTL
          DEF PrefSpec

-----------------------------------------------------------------------------
(* The sidebar.                                                            *)

LEMMA AuthenticationIsActive ==
    "Authentication" \in ActiveItems(path) <=> SubmenuIsOn(Submenu, path)
  <1>1. /\ "Authentication" \in DOMAIN SidebarItems
        /\ SidebarItems["Authentication"] = [url |-> <<"auth">>, subItems |-> AuthPages]
    BY DEF SidebarItems
  <1>2. <<"auth", "v1", "login">> \in AuthPages BY DEF AuthPages
  <1>3. Submenu.subItems # {} BY <1>1, <1>2 DEF Submenu
  <1> QED BY <1>1, <1>3 DEF ActiveItems, ItemIsActive, Submenu

\* What is rendered for the submenu: mounted open where the page is, and left
\* alone until another view takes its place.
LEMMA RenderKeepsSubmenu ==
    ASSUME SidebarTypeOK, ActiveSubmenuIsOpen, Render
    PROVE  /\ ActiveSubmenuIsOpen' /\ submenuOpen' \in BOOLEAN
           /\ touched' \in BOOLEAN /\ entered' \in BOOLEAN
  <1> DEFINE On == SubmenuIsOn(Submenu, path)
  <1>1. /\ ActiveSubmenuIsOpen <=> (View \in {"list", "sheet"} /\ On => submenuOpen \/ touched \/ entered)
        /\ ActiveSubmenuIsOpen' <=>
              (View' \in {"list", "sheet"} /\ On' => submenuOpen' \/ touched' \/ entered')
    <2>1. ("Authentication" \in ActiveItems(path))' <=> On'
      BY AuthenticationIsActive, PTL
    <2> QED BY <2>1, AuthenticationIsActive DEF ActiveSubmenuIsOpen
  <1>2. path' = path => (On <=> On') BY DEF SubmenuIsOn, Submenu
  <1>3. submenuOpen \in BOOLEAN /\ touched \in BOOLEAN /\ entered \in BOOLEAN BY DEF SidebarTypeOK
  <1>4. (SubmenuIsOn(Submenu, path'))  <=> On' BY DEF SubmenuIsOn, Submenu
  <1> HIDE DEF On
  <1>5. CASE View' # View
    <2>1. /\ submenuOpen' = (View' \in {"list", "sheet"} /\ SubmenuIsOn(Submenu, path'))
          /\ touched' = FALSE /\ entered' = FALSE
      BY <1>5 DEF Render
    <2> QED BY <1>1, <1>4, <2>1
  <1>6. CASE View' = View
    <2>1. submenuOpen' = submenuOpen /\ touched' = touched /\ entered' = (entered \/ path' # path)
      BY <1>6 DEF Render
    <2> QED BY <1>1, <1>2, <1>3, <1>6, <2>1
  <1> QED BY <1>5, <1>6

LEMMA SidebarInvInit == SidebarInit => SidebarInv
  <1> SUFFICES ASSUME SidebarInit PROVE SidebarInv OBVIOUS
  <1>1. submenuOpen = SubmenuIsOn(Submenu, path) BY DEF SidebarInit
  <1>2. SidebarTypeOK BY <1>1 DEF SidebarInit, SidebarTypeOK, SubmenuIsOn
  <1>3. WidthIsKnown /\ CookieIsSidebarState BY DEF SidebarInit, WidthIsKnown, CookieIsSidebarState
  <1>4. ActiveSubmenuIsOpen BY <1>1, AuthenticationIsActive DEF ActiveSubmenuIsOpen
  <1> QED BY <1>2, <1>3, <1>4 DEF SidebarInv

\* A reload is a first render, with the window and the path of before.
LEMMA ReloadPageKeepsInv == SidebarInv /\ ReloadPage => SidebarInv'
  <1> SUFFICES ASSUME SidebarInv, ReloadPage PROVE SidebarInv' OBVIOUS
  <1>1. SidebarTypeOK' BY DEF ReloadPage, SidebarInv, SidebarTypeOK, SubmenuIsOn
  <1>2. WidthIsKnown' /\ CookieIsSidebarState'
    BY DEF ReloadPage, WidthIsKnown, CookieIsSidebarState
  <1>3. ActiveSubmenuIsOpen'
    <2>1. ("Authentication" \in ActiveItems(path))' <=> SubmenuIsOn(Submenu, path)'
      BY AuthenticationIsActive, PTL
    <2>2. submenuOpen' = SubmenuIsOn(Submenu, path) /\ path' = path BY DEF ReloadPage
    <2>3. SubmenuIsOn(Submenu, path)' <=> SubmenuIsOn(Submenu, path)
      BY <2>2 DEF SubmenuIsOn, Submenu
    <2> QED BY <2>1, <2>2, <2>3 DEF ActiveSubmenuIsOpen
  <1> QED BY <1>1, <1>2, <1>3 DEF SidebarInv

\* A step that renders keeps the submenu's part; what is left is said of the
\* width, the cookie and the other variables.
LEMMA RenderingStep ==
    ASSUME SidebarInv, Render, WidthIsKnown', CookieIsSidebarState',
           {narrow', watching', widthEvent', isMobile', open', openMobile', toggled'} \subseteq BOOLEAN,
           listener' \in {"none", "phone", "desktop"}, sidebarState' \in {"none", "true", "false"},
           path' \in Routes
    PROVE  SidebarInv'
  BY RenderKeepsSubmenu DEF SidebarInv, SidebarTypeOK

LEMMA ToggleKeeps ==
    ASSUME SidebarInv, NEW mobile \in BOOLEAN, ToggleSidebar(mobile)
    PROVE  /\ CookieIsSidebarState' /\ {open', openMobile', toggled'} \subseteq BOOLEAN
           /\ sidebarState' \in {"none", "true", "false"}
  BY DEF SidebarInv, SidebarTypeOK, CookieIsSidebarState, ToggleSidebar

LEMMA SidebarInvStep == SidebarInv /\ [SidebarNext]_sidebarVars => SidebarInv'
  <1> SUFFICES ASSUME SidebarInv, [SidebarNext]_sidebarVars PROVE SidebarInv' OBVIOUS
  <1>0. SidebarTypeOK /\ WidthIsKnown /\ CookieIsSidebarState BY DEF SidebarInv
  <1> USE DEF SidebarTypeOK, WidthIsKnown, CookieIsSidebarState, Device
  <1>1. ASSUME StartWatching PROVE SidebarInv' BY <1>0, <1>1, RenderingStep DEF StartWatching
  <1>2. ASSUME Resize PROVE SidebarInv' BY <1>0, <1>2, RenderingStep DEF Resize
  <1>3. ASSUME SeeWidth PROVE SidebarInv' BY <1>0, <1>3, RenderingStep DEF SeeWidth
  <1>4. ASSUME RegisterKey PROVE SidebarInv'
    BY <1>0, <1>4, RenderingStep DEF RegisterKey, widthVars
  <1>5. ASSUME ClickToggle PROVE SidebarInv'
    <2>1. isMobile \in BOOLEAN BY <1>0
    <2>2. /\ CookieIsSidebarState' /\ {open', openMobile', toggled'} \subseteq BOOLEAN
          /\ sidebarState' \in {"none", "true", "false"}
      BY <1>5, <2>1, ToggleKeeps DEF ClickToggle
    <2> QED BY <1>0, <1>5, <2>2, RenderingStep DEF ClickToggle, widthVars
  <1>6. ASSUME PressShortcut PROVE SidebarInv'
    <2>1. (listener = "phone") \in BOOLEAN OBVIOUS
    <2>2. /\ CookieIsSidebarState' /\ {open', openMobile', toggled'} \subseteq BOOLEAN
          /\ sidebarState' \in {"none", "true", "false"}
      BY <1>6, <2>1, ToggleKeeps DEF PressShortcut
    <2> QED BY <1>0, <1>6, <2>2, RenderingStep DEF PressShortcut, widthVars
  <1>7. ASSUME CloseSheet PROVE SidebarInv'
    BY <1>0, <1>7, RenderingStep DEF CloseSheet, widthVars
  <1>8. ASSUME NEW to \in Routes, Navigate(to) PROVE SidebarInv'
    BY <1>0, <1>8, RenderingStep DEF Navigate, widthVars
  <1>9. ASSUME ToggleSubmenu PROVE SidebarInv'
    BY <1>0, <1>9 DEF ToggleSubmenu, widthVars, SidebarInv, ActiveSubmenuIsOpen
  <1>10. ASSUME ReloadPage PROVE SidebarInv' BY <1>10, ReloadPageKeepsInv
  <1>11. ASSUME UNCHANGED sidebarVars PROVE SidebarInv'
    <2>1. /\ UNCHANGED <<narrow, watching, widthEvent, isMobile, open, openMobile, listener>>
          /\ UNCHANGED <<sidebarState, path, submenuOpen, touched, entered, toggled>>
      BY <1>11 DEF sidebarVars, widthVars, submenuVars
    <2> QED BY <1>0, <2>1
            DEF SidebarInv, ActiveSubmenuIsOpen, View, ActiveItems, ItemIsActive, SubmenuIsOn
  <1> QED BY <1>1, <1>2, <1>3, <1>4, <1>5, <1>6, <1>7, <1>8, <1>9, <1>10, <1>11
          DEF SidebarNext, SidebarStep

\* The sidebar goes by the width of the window, its cookie is the state of the
\* list, and the submenu of the page is open unless the user closed it or came
\* to the page later, whatever routes there are.
THEOREM SidebarInvariance == SidebarSpec => []SidebarInv
  BY SidebarInvInit, SidebarInvStep, PTL DEF SidebarSpec

-----------------------------------------------------------------------------
(* The shell.                                                              *)

\* The shell is the preferences and the sidebar, side by side.
LEMMA ShellParts == ShellSpec => PrefSpec /\ SidebarSpec
  <1>1. ShellInit => PrefInit /\ SidebarInit BY DEF ShellInit
  <1>2. [ShellNext]_shellVars => [PrefNext]_prefVars
    <2> SUFFICES ASSUME [ShellNext]_shellVars PROVE [PrefNext]_prefVars OBVIOUS
    <2>1. CASE ShellNext
      BY <2>1, ThisTabAssumption DEF ShellNext, ReloadShell, PrefNext
    <2>2. CASE UNCHANGED shellVars BY <2>2 DEF shellVars
    <2> QED BY <2>1, <2>2
  <1>3. [ShellNext]_shellVars => [SidebarNext]_sidebarVars
    BY DEF ShellNext, ReloadShell, SidebarNext, shellVars
  <1> QED BY <1>1, <1>2, <1>3, PTL DEF ShellSpec, PrefSpec, SidebarSpec

\* In a hydrated tab the sidebar has the shape the attributes of the document
\* ask for, and its own default for a value nobody knows.
THEOREM SidebarFollowsDocumentHolds == ShellSpec => []SidebarFollowsDocument
  <1>1. PrefInv => SidebarFollowsDocument
    <2> SUFFICES ASSUME PrefInv, phase[ThisTab] = "synced", NEW k \in Keys \cap LayoutCritical
                 PROVE  Drawn(k) = IF dom[ThisTab][k] \in Allowed[k]
                                   THEN dom[ThisTab][k] ELSE SidebarDefault[k]
      BY DEF SidebarFollowsDocument
    <2>1. store[ThisTab][k] = Safe(k, dom[ThisTab][k])
      BY ThisTabAssumption DEF PrefInv, ControlsShowDocument, Controls
    <2>2. Undefined \notin Allowed[k] BY ValuesKnown
    <2> QED BY <2>1, <2>2 DEF Drawn, Given, Safe
  <1> QED BY ShellParts, PrefInvariance, <1>1, PTL

\* What is proved of the parts holds of the shell, where both move.
COROLLARY ShellInvariance ==
    ShellSpec => [](PrefInv /\ ChoiceIsKept /\ SidebarInv) /\ HydrationDoesNotFlicker
  BY ShellParts, PrefInvariance, ChoiceIsKeptHolds, SidebarInvariance, HydrationDoesNotFlickerHolds, PTL
=============================================================================
