---------------------------- MODULE ConfigDrawer ----------------------------
(***************************************************************************)
(* The configuration drawer (drawers/config/config-drawer.component.ts)    *)
(* and the handlers GetConfig and UpdateConfig (pkg/web/api/config.go).    *)
(* The drawer belongs to the application component: its form keeps its     *)
(* values when it is closed, and starts with values of its own.            *)
(*                                                                         *)
(* A configuration is the refresh schedule, which the server parses, and   *)
(* one value that stands for the other fields.                             *)
(***************************************************************************)
EXTENDS Drawer, FiniteSets

CONSTANTS
    Schedules,      \* schedules a user would type
    MaxConfigOpens, \* bound: how often the drawer is opened
    MaxEdits        \* bound: how often a field is changed

NoSchedule == ""    \* the field is empty

ASSUME ConfigBounds ==
    /\ NoSchedule \notin Schedules /\ "of the file" \notin Schedules
    /\ MaxConfigOpens \in Nat /\ MaxEdits \in Nat

Configurations == [cron: Schedules \cup {NoSchedule, "of the file"}, rest: {"of the file", "edited", "of the form"}]

\* The initial values of the form group: no schedule, no servers.
FormDefaults == [cron |-> NoSchedule, rest |-> "of the form"]

VARIABLES
    config,         \* the server's configuration
    configPanel,    \* the drawer
    form,           \* the form's values
    loadingConfig,  \* the signal loading, which hides the form
    savingConfig,   \* the signal saving
    configCalls,    \* calls under way
    opens, edits

configVars == <<config, configPanel, form, loadingConfig, savingConfig, configCalls, opens, edits>>

ConfigInit ==
    /\ config = [cron |-> "of the file", rest |-> "of the file"]
    /\ configPanel = NewDrawer /\ form = FormDefaults
    /\ loadingConfig = TRUE /\ savingConfig = FALSE
    /\ configCalls = {} /\ opens = 0 /\ edits = 0

\* open(), from the toolbar, which the keyboard reaches while the drawer is shown.
OpenConfig ==
    /\ opens < MaxConfigOpens
    /\ opens' = opens + 1
    /\ loadingConfig' = TRUE
    /\ configPanel' = OpenedDrawer(configPanel)
    /\ configCalls' = configCalls \cup {[n |-> opens, kind |-> "get", status |-> "sent", config |-> FormDefaults]}
    /\ UNCHANGED <<config, form, savingConfig, edits>>

CloseConfig ==
    /\ InReach(configPanel)
    /\ configPanel' = ClosingDrawer(configPanel)
    /\ UNCHANGED <<config, form, loadingConfig, savingConfig, configCalls, opens, edits>>

ConfigTimer ==
    /\ configPanel.timers > 0
    /\ configPanel' = TimerFired(configPanel)
    /\ UNCHANGED <<config, form, loadingConfig, savingConfig, configCalls, opens, edits>>

\* addToArray, addRecipient, removeFromArray, onDrop, or a field typed in.
Edit(changed) ==
    /\ OnScreen(configPanel) /\ ~loadingConfig /\ edits < MaxEdits
    /\ edits' = edits + 1
    /\ form' = changed
    /\ UNCHANGED <<config, configPanel, loadingConfig, savingConfig, configCalls, opens>>

\* The answer to any of the calls fills in the form, edited or not.
ConfigLoaded(c) ==
    /\ c.kind = "get" /\ c.status = "ok"
    /\ configCalls' = configCalls \ {c}
    /\ loadingConfig' = FALSE
    /\ form' = c.config
    /\ UNCHANGED <<config, configPanel, savingConfig, opens, edits>>

\* A failed call shows the form with the values it has.
ConfigNotLoaded(c) ==
    /\ c.kind = "get" /\ c.status = "failed"
    /\ configCalls' = configCalls \ {c}
    /\ loadingConfig' = FALSE
    /\ UNCHANGED <<config, configPanel, form, savingConfig, opens, edits>>

\* save(): also while the form is hidden because it loads.
SaveConfig ==
    /\ InReach(configPanel) /\ ~savingConfig
    /\ savingConfig' = TRUE
    /\ configCalls' = configCalls \cup {[n |-> opens, kind |-> "update", status |-> "sent", config |-> form]}
    /\ UNCHANGED <<config, configPanel, form, loadingConfig, opens, edits>>

ConfigSaved(c) ==
    /\ c.kind = "update" /\ c.status \in {"ok", "failed"}
    /\ configCalls' = configCalls \ {c}
    /\ savingConfig' = FALSE
    /\ configPanel' = IF c.status = "ok" THEN ClosingDrawer(configPanel) ELSE configPanel
    /\ UNCHANGED <<config, form, loadingConfig, opens, edits>>

ServeGet(c) ==
    /\ c.kind = "get" /\ c.status = "sent"
    /\ \/ configCalls' = (configCalls \ {c}) \cup {[c EXCEPT !.status = "ok", !.config = config]}
       \/ configCalls' = (configCalls \ {c}) \cup {[c EXCEPT !.status = "failed"]}
    /\ UNCHANGED <<config, configPanel, form, loadingConfig, savingConfig, opens, edits>>

\* mutant: what Validate checks does not include the schedule.
ValidAnyway(c) == TRUE

\* Validate: cron.ParseStandard refuses an empty schedule.
Valid(c) == c.cron # NoSchedule

ServeUpdate(c) ==
    /\ c.kind = "update" /\ c.status = "sent"
    /\ \/ /\ Valid(c.config)
          /\ config' = c.config
          /\ configCalls' = (configCalls \ {c}) \cup {[c EXCEPT !.status = "ok"]}
       \/ /\ configCalls' = (configCalls \ {c}) \cup {[c EXCEPT !.status = "failed"]}
          /\ UNCHANGED config
    /\ UNCHANGED <<configPanel, form, loadingConfig, savingConfig, opens, edits>>

ConfigNext ==
    \/ OpenConfig \/ CloseConfig \/ ConfigTimer \/ SaveConfig
    \/ \E s \in Schedules : Edit([form EXCEPT !.cron = s])
    \/ Edit([form EXCEPT !.rest = "edited"])
    \/ \E c \in configCalls : \/ ConfigLoaded(c) \/ ConfigNotLoaded(c) \/ ConfigSaved(c)
                              \/ ServeGet(c) \/ ServeUpdate(c)

ConfigSpec == ConfigInit /\ [][ConfigNext]_configVars

-----------------------------------------------------------------------------
ConfigTypeOK ==
    /\ config \in Configurations /\ form \in Configurations
    /\ configPanel \in DrawerType(MaxSlides + 1)
    /\ loadingConfig \in BOOLEAN /\ savingConfig \in BOOLEAN
    /\ savingConfig <=> \E c \in configCalls : c.kind = "update"
    /\ opens \in 0..MaxConfigOpens /\ edits \in 0..MaxEdits

\* Save is enabled while the configuration is still loading, or could not be
\* loaded.  The values the form starts with never replace the configuration all
\* the same, unless the user fills in a schedule: the server refuses an empty one.
UnloadedFormRefused ==
    config.rest = "of the form" => config.cron \in Schedules
=============================================================================
