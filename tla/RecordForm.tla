----------------------------- MODULE RecordForm -----------------------------
(***************************************************************************)
(* The record form (drawers/record-form/record-form-drawer.component.ts)   *)
(* with the server's GetZones and UpsertRecord (pkg/web/api).  One         *)
(* instance of the form edits and adds records one after the other; its    *)
(* fields, its timers and the calls under way outlive a closed drawer.     *)
(*                                                                         *)
(* A zone is a number, which also stands for its name; 0 is no zone, and   *)
(* no domain.  The record's other details are always filled in.            *)
(***************************************************************************)
EXTENDS Drawer, FiniteSets

CONSTANTS
    ZonesOf,        \* the zones every API token can see, a function
    MaxForms,       \* bound: how often the form is opened
    MaxTyped,       \* bound: how often the token is typed
    MaxZoneCalls    \* bound: how many calls for zones are made

Tokens == DOMAIN ZonesOf
Zones == UNION {ZonesOf[t] : t \in Tokens}
NoToken == ""               \* the field is empty

ASSUME FormBounds ==
    /\ Zones \subseteq Nat \ {0} /\ NoToken \notin Tokens
    /\ MaxForms \in Nat /\ MaxTyped \in Nat /\ MaxZoneCalls \in Nat

Ids == {1, 2}      \* bound: two records, one of them stored at first
Nothing == "nothing"        \* not a token: no value waits, none was emitted
NoRecord == [id |-> 0, zone |-> 0, domain |-> 0]

VARIABLES
    dbRecords,      \* what the server holds: by id, NoRecord's fields and the token
    formPanel,      \* the drawer
    formRecord,     \* the component's record, NoRecord for null
    tokenGroup,     \* token; required: its validator; watched: the constructor's
                    \* subscription is to this group
    typed,          \* the value the debounce timer of the subscription holds
    emitted,        \* the last value that passed distinctUntilChanged
    zones,          \* the zones offered
    zoneId,         \* the zone selected
    zoneCalls,      \* calls for zones under way
    saving,
    saveCalls,      \* saves under way
    formCounts      \* how often: opened, typed, zone calls

formVars == <<dbRecords, formPanel, formRecord, tokenGroup, typed, emitted, zones, zoneId,
              zoneCalls, saving, saveCalls, formCounts>>

FormInit ==
    /\ dbRecords \in {[i \in Ids |-> IF i = 1 THEN [id |-> 1, zone |-> z, domain |-> z, token |-> t]
                                     ELSE [id |-> 0, zone |-> 0, domain |-> 0, token |-> NoToken]] :
                        t \in Tokens, z \in Zones}
    /\ \A i \in Ids : dbRecords[i].id # 0 => dbRecords[i].zone \in ZonesOf[dbRecords[i].token]
    /\ formPanel = NewDrawer /\ formRecord = NoRecord
    /\ tokenGroup = [token |-> NoToken, required |-> TRUE, watched |-> TRUE]
    /\ typed = Nothing /\ emitted = Nothing
    /\ zones = {} /\ zoneId = 0 /\ zoneCalls = {}
    /\ saving = FALSE /\ saveCalls = {}
    /\ formCounts = [opened |-> 0, typed |-> 0, called |-> 0]

\* loadZones(token), of the record now in the form.
LoadZones(counts, id, token) ==
    /\ counts.called < MaxZoneCalls
    /\ zoneCalls' = zoneCalls \cup
          {[n |-> counts.called, id |-> id, token |-> token, status |-> "sent", zones |-> {}]}
    /\ formCounts' = [counts EXCEPT !.called = @ + 1]

Reopened == [formCounts EXCEPT !.opened = @ + 1]

\* open(record): a record as the table lists it, without its token, also while
\* the drawer shows another.  A new group takes the place of the token's; zones
\* are loaded in the next task of the event loop, before anything else can
\* happen to the form.
OpenEdit(i) ==
    /\ formCounts.opened < MaxForms /\ dbRecords[i].id # 0
    /\ formRecord' = [id |-> i, zone |-> dbRecords[i].zone, domain |-> dbRecords[i].domain]
    /\ tokenGroup' = [token |-> NoToken, required |-> FALSE, watched |-> FALSE]
    /\ zoneId' = dbRecords[i].zone
    /\ LoadZones(Reopened, i, NoToken)
    /\ formPanel' = OpenedDrawer(formPanel)
    /\ UNCHANGED <<dbRecords, typed, emitted, zones, saving, saveCalls>>

\* open() to add a record: the form is reset, which the subscription hears if it
\* is still to the form's group.
OpenAdd ==
    /\ formCounts.opened < MaxForms
    /\ formRecord' = NoRecord
    /\ tokenGroup' = [tokenGroup EXCEPT !.token = NoToken]
    /\ typed' = IF tokenGroup.watched THEN NoToken ELSE typed
    /\ zones' = {} /\ zoneId' = 0
    /\ formCounts' = Reopened
    /\ formPanel' = OpenedDrawer(formPanel)
    /\ UNCHANGED <<dbRecords, emitted, zoneCalls, saving, saveCalls>>

\* Cancel, the backdrop or Escape.
CancelForm ==
    /\ InReach(formPanel)
    /\ formPanel' = ClosingDrawer(formPanel)
    /\ UNCHANGED <<dbRecords, formRecord, tokenGroup, typed, emitted, zones, zoneId, zoneCalls,
                   saving, saveCalls, formCounts>>

FormTimer ==
    /\ formPanel.timers > 0
    /\ formPanel' = TimerFired(formPanel)
    /\ UNCHANGED <<dbRecords, formRecord, tokenGroup, typed, emitted, zones, zoneId, zoneCalls,
                   saving, saveCalls, formCounts>>

\* Also when it is cleared.
TypeToken(t) ==
    /\ InReach(formPanel) /\ formCounts.typed < MaxTyped /\ t # tokenGroup.token
    /\ tokenGroup' = [tokenGroup EXCEPT !.token = t]
    /\ typed' = IF tokenGroup.watched THEN t ELSE typed
    /\ formCounts' = [formCounts EXCEPT !.typed = @ + 1]
    /\ UNCHANGED <<dbRecords, formPanel, formRecord, emitted, zones, zoneId, zoneCalls, saving, saveCalls>>

PickZone(z) ==
    /\ InReach(formPanel) /\ z \in zones
    /\ zoneId' = z
    /\ UNCHANGED <<dbRecords, formPanel, formRecord, tokenGroup, typed, emitted, zones, zoneCalls,
                   saving, saveCalls, formCounts>>

\* 600 ms without typing.  The handler asks for this.record, whichever it is now.
Debounced ==
    /\ typed # Nothing
    /\ typed' = Nothing /\ emitted' = typed
    /\ CASE typed = emitted -> UNCHANGED <<zones, zoneId, zoneCalls, formCounts>>
         [] typed # emitted /\ (formRecord.id # 0 \/ typed # NoToken) ->
              LoadZones(formCounts, formRecord.id, typed) /\ UNCHANGED <<zones, zoneId>>
         [] OTHER -> zones' = {} /\ zoneId' = 0 /\ UNCHANGED <<zoneCalls, formCounts>>
    /\ UNCHANGED <<dbRecords, formPanel, formRecord, tokenGroup, saving, saveCalls>>

\* mutant: the zone selected stays when it is not among the new zones.
ShowZonesOnly(c) ==
    /\ c.status = "answered"
    /\ zoneCalls' = zoneCalls \ {c}
    /\ zones' = c.zones
    /\ UNCHANGED <<dbRecords, formPanel, formRecord, tokenGroup, typed, emitted, zoneId, saving,
                   saveCalls, formCounts>>

\* The answer of a call, in whatever order: a zone it does not list is deselected.
ShowZones(c) ==
    /\ c.status = "answered"
    /\ zoneCalls' = zoneCalls \ {c}
    /\ zones' = c.zones
    /\ zoneId' = IF zoneId \in c.zones THEN zoneId ELSE 0
    /\ UNCHANGED <<dbRecords, formPanel, formRecord, tokenGroup, typed, emitted, saving,
                   saveCalls, formCounts>>

ZonesFailed(c) ==
    /\ c.status = "failed"
    /\ zoneCalls' = zoneCalls \ {c}
    /\ zones' = {} /\ zoneId' = 0
    /\ UNCHANGED <<dbRecords, formPanel, formRecord, tokenGroup, typed, emitted, saving,
                   saveCalls, formCounts>>

\* The domain of the payload: the name of the zone selected, if it is offered, or
\* the one the record had; 0 when there is none and save() gives up.
PayloadDomain == IF zoneId \in zones THEN zoneId ELSE formRecord.domain

\* mutant: the button stays enabled while the record is being saved.
SaveAgain ==
    /\ InReach(formPanel)
    /\ tokenGroup.required => tokenGroup.token # NoToken
    /\ zoneId # 0 /\ PayloadDomain # 0
    /\ saving' = TRUE
    /\ saveCalls' = saveCalls \cup
          {[id |-> formRecord.id, token |-> tokenGroup.token, zone |-> zoneId,
            domain |-> PayloadDomain, status |-> "sent"]}
    /\ UNCHANGED <<dbRecords, formPanel, formRecord, tokenGroup, typed, emitted, zones, zoneId,
                   zoneCalls, formCounts>>

Save ==
    /\ InReach(formPanel) /\ ~saving
    /\ tokenGroup.required => tokenGroup.token # NoToken
    /\ zoneId # 0 /\ PayloadDomain # 0
    /\ saving' = TRUE
    /\ saveCalls' = saveCalls \cup
          {[id |-> formRecord.id, token |-> tokenGroup.token, zone |-> zoneId,
            domain |-> PayloadDomain, status |-> "sent"]}
    /\ UNCHANGED <<dbRecords, formPanel, formRecord, tokenGroup, typed, emitted, zones, zoneId,
                   zoneCalls, formCounts>>

\* The answer closes the drawer, whichever record it shows by then.
Saved(c) ==
    /\ c.status \in {"saved", "failed"}
    /\ saveCalls' = saveCalls \ {c} /\ saving' = FALSE
    /\ formPanel' = IF c.status = "saved" THEN ClosingDrawer(formPanel) ELSE formPanel
    /\ UNCHANGED <<dbRecords, formRecord, tokenGroup, typed, emitted, zones, zoneId, zoneCalls, formCounts>>

-----------------------------------------------------------------------------
(* The server.                                                             *)

\* GetZones: with the stored token when none is given.
ServeZones(c) ==
    /\ c.status = "sent"
    /\ \E failed \in BOOLEAN :
          LET token == IF c.token = NoToken THEN dbRecords[c.id].token ELSE c.token
          IN zoneCalls' = (zoneCalls \ {c}) \cup
                {IF failed THEN [c EXCEPT !.status = "failed"]
                 ELSE [c EXCEPT !.status = "answered", !.zones = ZonesOf[token]]}
    /\ UNCHANGED <<dbRecords, formPanel, formRecord, tokenGroup, typed, emitted, zones, zoneId,
                   saving, saveCalls, formCounts>>

Answer(c, status) == saveCalls' = (saveCalls \ {c}) \cup {[c EXCEPT !.status = status]}

StoreRecord(c, i) ==
    dbRecords' = [dbRecords EXCEPT ![i] =
        [id |-> i, zone |-> c.zone, domain |-> c.domain,
         token |-> IF c.token = NoToken THEN @.token ELSE c.token]]

\* UpsertRecord: a record is created, which takes a token, or changed, keeping its
\* token when none is given; the refresh that follows may fail when it is stored.
ServeSave(c) ==
    /\ c.status = "sent"
    /\ \/ /\ c.id # 0 /\ StoreRecord(c, c.id)
          /\ \E status \in {"saved", "failed"} : Answer(c, status)
       \/ /\ c.id = 0 /\ c.token # NoToken
          /\ \E i \in Ids : dbRecords[i].id = 0 /\ StoreRecord(c, i)
          /\ \E status \in {"saved", "failed"} : Answer(c, status)
       \/ Answer(c, "failed") /\ UNCHANGED dbRecords
    /\ UNCHANGED <<formPanel, formRecord, tokenGroup, typed, emitted, zones, zoneId, zoneCalls,
                   saving, formCounts>>

FormNext ==
    \/ \E i \in Ids : OpenEdit(i)
    \/ OpenAdd \/ CancelForm \/ FormTimer \/ Debounced \/ Save
    \/ \E t \in Tokens \cup {NoToken} : TypeToken(t)
    \/ \E z \in Zones : PickZone(z)
    \/ \E c \in zoneCalls : ShowZones(c) \/ ZonesFailed(c) \/ ServeZones(c)
    \/ \E c \in saveCalls : Saved(c) \/ ServeSave(c)

FormSpec == FormInit /\ [][FormNext]_formVars

-----------------------------------------------------------------------------
FormTypeOK ==
    /\ formPanel \in DrawerType(MaxSlides + 1)
    /\ formRecord \in [id: Ids \cup {0}, zone: Zones \cup {0}, domain: Zones \cup {0}]
    /\ tokenGroup \in [token: Tokens \cup {NoToken}, required: BOOLEAN, watched: BOOLEAN]
    /\ {typed, emitted} \subseteq Tokens \cup {NoToken, Nothing}
    /\ zones \subseteq Zones /\ zoneId \in Zones \cup {0}
    /\ saving \in BOOLEAN /\ (saving <=> Cardinality(saveCalls) = 1)
    /\ formCounts \in [opened: 0..MaxForms, typed: 0..MaxTyped, called: 0..MaxZoneCalls]

\* A record is never stored with the domain of another zone than its own, in
\* whatever order answers for other tokens and other records arrive while the
\* user selects: save() takes the domain of what is offered, or the record's.
SavedDomainOfZone ==
    \A i \in Ids : dbRecords[i].domain = dbRecords[i].zone

\* "Enter your Hetzner DNS API token to load available zones."
\* (record-form-drawer.component.ts:51): once the user has stopped typing, zones
\* were asked for with the token in the form to add a record.
TokenLoadsZones ==
    (OnScreen(formPanel) /\ formRecord = NoRecord /\ tokenGroup.token # NoToken /\ typed = Nothing)
        => emitted = tokenGroup.token
=============================================================================
