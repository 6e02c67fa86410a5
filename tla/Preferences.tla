---------------------------- MODULE Preferences ----------------------------
(***************************************************************************)
(* The theme and layout preferences of the dashboard (frontend             *)
(* lib/preferences, stores/preferences, scripts/theme-boot.tsx and the two *)
(* controls that change them).  A tab starts with the static document, the *)
(* boot script applies what was persisted, hydration copies the document   *)
(* into the store, and from then on a choice goes to document, store and   *)
(* cookie.  Tabs of one browser share the cookies and the color scheme of  *)
(* the operating system, and nothing else.  PREFERENCE_PERSISTENCE saves   *)
(* all seven keys as cookies of the client.                                *)
(***************************************************************************)

CONSTANTS
    Tabs,
    Keys,        \* preferences looked at, a subset of the seven
    Choices,     \* bound: the values that are chosen, per key
    Found        \* what earlier versions and other programs may have left in the cookies

-----------------------------------------------------------------------------
(* The preferences and their values.                                       *)

ThemeModes   == {"light", "dark", "system"}
ThemePresets == {"default", "brutalist", "soft-pop", "tangerine"}
Fonts == {"inter", "roboto", "poppins", "geist", "geistMono", "jakarta", "nunito", "gabriela",
          "outfit", "manrope", "dmSans", "greatVibes"}
SidebarVariants     == {"sidebar", "inset", "floating"}
SidebarCollapsibles == {"icon", "offcanvas"}
ContentLayouts      == {"centered", "full-width"}
NavbarStyles        == {"sticky", "scroll"}

Allowed == [theme_mode |-> ThemeModes, theme_preset |-> ThemePresets, font |-> Fonts,
            content_layout |-> ContentLayouts, navbar_style |-> NavbarStyles,
            sidebar_variant |-> SidebarVariants, sidebar_collapsible |-> SidebarCollapsibles]

Default == [theme_mode |-> "light", theme_preset |-> "default", font |-> "inter",
            content_layout |-> "centered", navbar_style |-> "sticky",
            sidebar_variant |-> "inset", sidebar_collapsible |-> "icon"]

\* Not stored; a cookie that decodeURIComponent rejects; undefined in the store.
NoValue   == "-"
Malformed == "%"
Undefined == "undefined"

LayoutCritical == {"sidebar_variant", "sidebar_collapsible"}

ASSUME KeysAssumption ==
    /\ Keys \subseteq DOMAIN Allowed /\ "theme_mode" \in Keys
ASSUME ChoicesAssumption ==
    /\ \A k \in Keys : Choices[k] \subseteq Allowed[k]
    /\ {NoValue, Malformed, Undefined} \cap UNION {Allowed[k] : k \in DOMAIN Allowed} = {}

VARIABLES
    jar,      \* key -> its cookie
    os,       \* prefers-color-scheme
    phase,    \* tab -> "static", "booted" or "synced"
    dom,      \* tab -> key -> the data attribute of <html>
    dark,     \* tab -> is the class "dark" set?
    store,    \* tab -> key -> the value in the store
    resolved, \* tab -> resolvedThemeMode
    unseen,   \* tab -> is a change event of the media query on its way?
    chosen,   \* history: key -> the last choice made in any tab, the default once it
              \* expired, NoValue before the first one where something else was found
    due       \* history: tab -> key -> the value its document owes the user, or NoValue

tabVars  == <<phase, dom, dark, store, resolved, unseen>>
prefVars == <<jar, os, tabVars, chosen, due>>

Scheme(d)     == IF d THEN "dark" ELSE "light"
Resolve(mode) == IF mode = "system" THEN os ELSE Scheme(mode = "dark")
\* Mutant: no value is looked at.
SafeAsItIs(k, value) == value

\* getSafeValue
Safe(k, value) == IF value \in Allowed[k] THEN value ELSE Undefined

Defaults == [k \in Keys |-> Default[k]]
Nothing  == [k \in Keys |-> NoValue]

-----------------------------------------------------------------------------
\* RootLayout serves the defaults; nothing is chosen yet.
PrefInit ==
    /\ jar \in [Keys -> Found \cup {NoValue}]
    /\ os \in {"light", "dark"}
    /\ phase = [t \in Tabs |-> "static"]
    /\ dom = [t \in Tabs |-> Defaults] /\ dark = [t \in Tabs |-> FALSE]
    /\ store = [t \in Tabs |-> Defaults] /\ resolved = [t \in Tabs |-> "light"]
    /\ unseen = [t \in Tabs |-> FALSE]
    /\ chosen = [k \in Keys |-> IF jar[k] = NoValue THEN Default[k] ELSE NoValue]
    /\ due = [t \in Tabs |-> Nothing]

\* readPreference of the boot script.
ReadPreference(k) == IF jar[k] = NoValue THEN Default[k] ELSE jar[k]

\* decodeURIComponent throws for one of the cookies.
ScriptStops == \E k \in Keys : ReadPreference(k) = Malformed

\* A document that boots owes the last choices; when the script stops, the defaults.
OwesOnBoot == IF ScriptStops THEN Defaults ELSE chosen

\* Mutant: the script sets the attributes and forgets the class.
BootWithoutClass(t) ==
    /\ phase[t] = "static"
    /\ phase' = [phase EXCEPT ![t] = "booted"]
    /\ due' = [due EXCEPT ![t] = OwesOnBoot]
    /\ IF ScriptStops
       THEN UNCHANGED dom
       ELSE LET raw  == ReadPreference("theme_mode")
                mode == IF raw \in ThemeModes THEN raw ELSE Default["theme_mode"]
            IN  dom' = [dom EXCEPT ![t] =
                           [k \in Keys |-> IF k = "theme_mode" THEN mode ELSE ReadPreference(k)]]
    /\ UNCHANGED <<jar, os, dark, store, resolved, unseen, chosen>>

\* The boot script.  Only the mode is checked; any other value becomes an
\* attribute as it is.  One cookie that cannot be decoded stops the script, which
\* then has changed nothing.
Boot(t) ==
    /\ phase[t] = "static"
    /\ phase' = [phase EXCEPT ![t] = "booted"]
    /\ due' = [due EXCEPT ![t] = OwesOnBoot]
    /\ IF ScriptStops
       THEN UNCHANGED <<dom, dark>>
       ELSE LET raw  == ReadPreference("theme_mode")
                mode == IF raw \in ThemeModes THEN raw ELSE Default["theme_mode"]
            IN  /\ dom' = [dom EXCEPT ![t] =
                              [k \in Keys |-> IF k = "theme_mode" THEN mode ELSE ReadPreference(k)]]
                /\ dark' = [dark EXCEPT ![t] = Resolve(mode) = "dark"]
    /\ UNCHANGED <<jar, os, store, resolved, unseen, chosen>>

\* Mutant: the listener of the mode before stays.
ApplyThemeAndListen(t, mode) ==
    /\ dark' = [dark EXCEPT ![t] = Resolve(mode) = "dark"]
    /\ resolved' = [resolved EXCEPT ![t] = Resolve(mode)]
    /\ UNCHANGED unseen

\* applyThemeMode and the store's resolvedThemeMode; leaving "system" drops the
\* media query's listener.
ApplyTheme(t, mode) ==
    /\ dark' = [dark EXCEPT ![t] = Resolve(mode) = "dark"]
    /\ resolved' = [resolved EXCEPT ![t] = Resolve(mode)]
    /\ unseen' = [unseen EXCEPT ![t] = FALSE]

\* readDomState: the attributes, where they are known values.
DomState(t) ==
    [k \in Keys |-> IF k = "theme_mode" /\ dom[t][k] \notin ThemeModes THEN Scheme(dark[t])
                    ELSE Safe(k, dom[t][k])]

\* The two effects of PreferencesStoreProvider: the document's values replace
\* the store's, the unknown ones as undefined; then the mode is applied.
Hydrate(t) ==
    /\ phase[t] = "booted"
    /\ phase' = [phase EXCEPT ![t] = "synced"]
    /\ store' = [store EXCEPT ![t] = DomState(t)]
    /\ dom' = [dom EXCEPT ![t]["theme_mode"] = DomState(t)["theme_mode"]]
    /\ ApplyTheme(t, DomState(t)["theme_mode"])
    /\ UNCHANGED <<jar, os, chosen, due>>

-----------------------------------------------------------------------------
(* Choices.                                                                *)

\* persistPreference for the keys S.
Persist(t, S, value) ==
    /\ jar' = [k \in Keys |-> IF k \in S THEN value[k] ELSE jar[k]]
    /\ chosen' = [k \in Keys |-> IF k \in S THEN value[k] ELSE chosen[k]]
    /\ due' = [due EXCEPT ![t] = [k \in Keys |-> IF k \in S THEN value[k] ELSE due[t][k]]]

\* onThemePresetChange, onContentLayoutChange, ... of LayoutControls: document,
\* store, storage.  The controls do not report the value they show.
ChooseLayout(t, k, v) ==
    /\ phase[t] = "synced" /\ k # "theme_mode" /\ v # store[t][k]
    /\ dom' = [dom EXCEPT ![t][k] = v]
    /\ store' = [store EXCEPT ![t][k] = v]
    /\ Persist(t, {k}, [j \in Keys |-> v])
    /\ UNCHANGED <<os, phase, dark, resolved, unseen>>

\* onThemeModeChange: the provider's subscription to the store applies the mode.
ChooseTheme(t, mode) ==
    /\ phase[t] = "synced" /\ mode # store[t]["theme_mode"]
    /\ store' = [store EXCEPT ![t]["theme_mode"] = mode]
    /\ dom' = [dom EXCEPT ![t]["theme_mode"] = mode]
    /\ ApplyTheme(t, mode)
    /\ Persist(t, {"theme_mode"}, [j \in Keys |-> mode])
    /\ UNCHANGED <<os, phase>>

\* cycleTheme of ThemeSwitcher.
CycleTheme(t) ==
    ChooseTheme(t, CASE store[t]["theme_mode"] = "light"  -> "dark"
                     [] store[t]["theme_mode"] = "dark"   -> "system"
                     [] store[t]["theme_mode"] = "system" -> "light")

\* Mutant: the store is restored and the document is not.
RestoreStore(t) ==
    /\ phase[t] = "synced"
    /\ store' = [store EXCEPT ![t] = Defaults]
    /\ IF store[t]["theme_mode"] = Default["theme_mode"]
       THEN UNCHANGED <<dark, resolved, unseen>> ELSE ApplyTheme(t, Default["theme_mode"])
    /\ Persist(t, Keys, Defaults)
    /\ UNCHANGED <<os, phase, dom>>

\* Mutant: only what this tab does not show as the default is written.
RestoreWhatDiffers(t) ==
    /\ phase[t] = "synced"
    /\ dom' = [dom EXCEPT ![t] = Defaults]
    /\ store' = [store EXCEPT ![t] = Defaults]
    /\ IF store[t]["theme_mode"] = Default["theme_mode"]
       THEN UNCHANGED <<dark, resolved, unseen>> ELSE ApplyTheme(t, Default["theme_mode"])
    /\ jar' = [k \in Keys |-> IF store[t][k] # Default[k] THEN Default[k] ELSE jar[k]]
    /\ chosen' = Defaults /\ due' = [due EXCEPT ![t] = Defaults]
    /\ UNCHANGED <<os, phase>>

\* handleRestore: every handler with its default, changed or not; a mode that
\* does not change is not applied again.
RestoreDefaults(t) ==
    /\ phase[t] = "synced"
    /\ dom' = [dom EXCEPT ![t] = Defaults]
    /\ store' = [store EXCEPT ![t] = Defaults]
    /\ IF store[t]["theme_mode"] = Default["theme_mode"]
       THEN UNCHANGED <<dark, resolved, unseen>> ELSE ApplyTheme(t, Default["theme_mode"])
    /\ Persist(t, Keys, Defaults)
    /\ UNCHANGED <<os, phase>>

-----------------------------------------------------------------------------
(* The browser and the operating system.                                   *)

\* A new document.
Reload(t) ==
    /\ phase[t] # "static"
    /\ phase' = [phase EXCEPT ![t] = "static"]
    /\ dom' = [dom EXCEPT ![t] = Defaults] /\ dark' = [dark EXCEPT ![t] = FALSE]
    /\ store' = [store EXCEPT ![t] = Defaults] /\ resolved' = [resolved EXCEPT ![t] = "light"]
    /\ unseen' = [unseen EXCEPT ![t] = FALSE]
    /\ due' = [due EXCEPT ![t] = Nothing]
    /\ UNCHANGED <<jar, os, chosen>>

\* Seven days after it was written a cookie is gone.
Expire(k) ==
    /\ jar[k] # NoValue
    /\ jar' = [jar EXCEPT ![k] = NoValue] /\ chosen' = [chosen EXCEPT ![k] = Default[k]]
    /\ UNCHANGED <<os, tabVars, due>>

\* The system's scheme changes; the tabs that listen get an event.
ChangeScheme ==
    /\ os' = Scheme(os = "light")
    /\ unseen' = [t \in Tabs |-> unseen[t] \/ (phase[t] = "synced" /\ store[t]["theme_mode"] = "system")]
    /\ UNCHANGED <<jar, phase, dom, dark, store, resolved, chosen, due>>

SeeScheme(t) ==
    /\ unseen[t] /\ ApplyTheme(t, "system")
    /\ dom' = [dom EXCEPT ![t]["theme_mode"] = "system"]
    /\ UNCHANGED <<jar, os, phase, store, chosen, due>>

-----------------------------------------------------------------------------
PrefNext ==
    \/ \E t \in Tabs :
          \/ Boot(t)
          \/ Hydrate(t)
          \/ \E k \in Keys : \E v \in Choices[k] : ChooseLayout(t, k, v)
          \/ \E mode \in Choices["theme_mode"] : ChooseTheme(t, mode)
          \/ CycleTheme(t)
          \/ RestoreDefaults(t)
          \/ Reload(t)
          \/ SeeScheme(t)
    \/ \E k \in Keys : Expire(k)
    \/ ChangeScheme

PrefSpec == PrefInit /\ [][PrefNext]_prefVars

-----------------------------------------------------------------------------
(* Properties.                                                             *)

\* What LayoutControls shows as chosen, and whose dots are for a dark page.
Controls(t) == [k \in Keys |-> store[t][k]]
DarkDots(t) == resolved[t] = "dark"

PrefTypeOK ==
    /\ os \in {"light", "dark"}
    /\ phase \in [Tabs -> {"static", "booted", "synced"}]
    /\ dark \in [Tabs -> BOOLEAN] /\ unseen \in [Tabs -> BOOLEAN]
    /\ resolved \in [Tabs -> {"light", "dark"}]
    /\ \A t \in Tabs : dom[t]["theme_mode"] \in ThemeModes
    /\ \A t \in Tabs, k \in Keys : store[t][k] \in Allowed[k] \cup {Undefined}

\* In a hydrated tab the controls show what the document says, for every
\* preference; only a value the code does not know is shown as none.
ControlsShowDocument == \A t \in Tabs : phase[t] = "synced" =>
    \A k \in Keys : Controls(t)[k] = Safe(k, dom[t][k])

\* The page is dark exactly when its mode says so, the controls think so too,
\* and only a page in "system" mode that was not told yet differs from the
\* operating system.
ThemeFollowsMode == \A t \in Tabs : phase[t] = "synced" =>
    /\ DarkDots(t) = dark[t]
    /\ unseen[t] => store[t]["theme_mode"] = "system"
    /\ ~unseen[t] => Scheme(dark[t]) = Resolve(store[t]["theme_mode"])

\* What holds of store, document and colors in every state.
PrefInv == PrefTypeOK /\ ControlsShowDocument /\ ThemeFollowsMode

\* Whatever other tabs choose meanwhile, a document shows, from its boot on, the
\* last choice made in any tab before it booted or in its own tab after, or the
\* default of a choice that expired, and its controls say so once it is hydrated.
\* It has the defaults for all keys when the boot script met one cookie that
\* cannot be decoded: that cookie undoes the choices of the others.
ChoiceIsKept == \A t \in Tabs, k \in Keys : due[t][k] # NoValue =>
    /\ dom[t][k] = due[t][k]
    /\ phase[t] = "synced" => Controls(t)[k] = due[t][k]

\* theme-boot.tsx:6-7: the attributes are right "before hydration, preventing
\* layout or theme flicker": hydration changes none, and no color unless the
\* system's scheme changed under a page in "system" mode.
HydrationDoesNotFlicker == [][\A t \in Tabs :
    phase[t] = "booted" /\ phase'[t] = "synced" =>
        /\ dom'[t] = dom[t]
        /\ dark'[t] = dark[t] \/ dom[t]["theme_mode"] = "system"]_prefVars
=============================================================================
