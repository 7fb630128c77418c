----------------------------- MODULE FormsProofs -----------------------------
(***************************************************************************)
(* Theorems about the tables and forms of the browser client: the record   *)
(* form (RecordForm), the table of records (RecordsTable), the             *)
(* configuration drawer (ConfigDrawer) and the tasks of a record           *)
(* (RecordTasks), each with the handlers of the server it calls.  Each is  *)
(* proved of the specification of its part, for every value of the         *)
(* constants.                                                              *)
(***************************************************************************)
EXTENDS RecordForm, RecordsTable, ConfigDrawer, RecordTasks, FiniteSetTheorems,
        SequenceTheorems, TLAPS

---------------------------------------------------------------------------
(* The drawer *)

Panels == DrawerType(MaxSlides + 1)

LEMMA FreshDrawer == NewDrawer \in Panels /\ NewDrawer.timers = 0
BY DEF NewDrawer, Panels, DrawerType, MaxSlides

LEMMA DrawerOpens ==
  ASSUME NEW d \in Panels
  PROVE  OpenedDrawer(d) \in Panels /\ OpenedDrawer(d).timers = d.timers
BY DEF OpenedDrawer, Panels, DrawerType

LEMMA DrawerCloses ==
  ASSUME NEW d \in Panels, d.timers <= MaxSlides
  PROVE  /\ ClosingDrawer(d) \in Panels
         /\ d.timers < MaxSlides => ClosingDrawer(d).timers <= MaxSlides
<1>1. d.timers + 1 \in 0 .. MaxSlides + 1
  BY DEF Panels, DrawerType, MaxSlides
<1>2. CASE d.overlay = "none"
  BY <1>2 DEF ClosingDrawer, Panels, DrawerType, MaxSlides
<1>3. CASE d.overlay # "none"
  <2>1. ClosingDrawer(d) = [d EXCEPT !.timers = d.timers + 1]
    BY <1>3 DEF ClosingDrawer
  <2>2. QED
    BY <1>1, <2>1 DEF Panels, DrawerType, MaxSlides
<1>4. QED
  BY <1>2, <1>3

\* A drawer the user can act on has room for one timer more.
LEMMA DrawerInReach ==
  ASSUME NEW d \in Panels, InReach(d)
  PROVE  /\ d.timers <= MaxSlides
         /\ ClosingDrawer(d) \in Panels /\ ClosingDrawer(d).timers <= MaxSlides
<1>1. d.timers < MaxSlides
  BY DEF InReach
<1>2. d.timers <= MaxSlides
  BY <1>1 DEF Panels, DrawerType, MaxSlides
<1>3. QED
  BY <1>1, <1>2, DrawerCloses

LEMMA DrawerFires ==
  ASSUME NEW d \in Panels, d.timers > 0
  PROVE  TimerFired(d) \in Panels /\ TimerFired(d).timers <= MaxSlides
BY DEF TimerFired, Panels, DrawerType, MaxSlides

---------------------------------------------------------------------------
(* The record form *)

Zone0 == Zones \union {0}
Id0 == Ids \union {0}
TokenText == Tokens \union {NoToken}
AnswerStates == {"sent", "answered", "saved", "failed"}
DbRecord == [id : Id0, zone : Zone0, domain : Zone0, token : TokenText]
FormRecord == [id : Id0, zone : Zone0, domain : Zone0]
ZoneCall == [n : Nat, id : Id0, token : TokenText, status : AnswerStates, zones : SUBSET Zones]
SaveCall == [id : Id0, token : TokenText, zone : Zone0, domain : Zone0, status : AnswerStates]
FormCounts == [opened : 0 .. MaxForms, typed : 0 .. MaxTyped, called : 0 .. MaxZoneCalls]

FormTypes ==
  /\ dbRecords \in [Ids -> DbRecord] /\ formRecord \in FormRecord
  /\ tokenGroup \in [token : TokenText, required : BOOLEAN, watched : BOOLEAN]
  /\ typed \in TokenText \union {Nothing} /\ emitted \in TokenText \union {Nothing}
  /\ zones \subseteq Zones /\ zoneId \in Zone0
  /\ zoneCalls \subseteq ZoneCall /\ saveCalls \subseteq SaveCall
  /\ formCounts \in FormCounts

\* Whoever asks without a token asks about a record that is stored, which has one.
IsStored(i) == i \in Ids /\ dbRecords[i].id # 0
TokensKnown ==
  /\ \A i \in Ids : dbRecords[i].id # 0 => dbRecords[i].token \in Tokens
  /\ formRecord.id # 0 => IsStored(formRecord.id)
  /\ \A c \in zoneCalls : c.token \in Tokens \/ IsStored(c.id)
  /\ \A c \in saveCalls : c.id # 0 => IsStored(c.id)

\* One save at a time, and a drawer that closes at most twice.
SavingOK ==
  /\ formPanel \in Panels /\ saving \in BOOLEAN
  /\ saving => formPanel.timers <= MaxSlides /\ \E c : saveCalls = {c}
  /\ ~saving => saveCalls = {}

\* The zone selected is one of those offered, or that of the record in the form.
DomainsOK ==
  /\ SavedDomainOfZone
  /\ zoneId # 0 => zoneId \in zones \/ zoneId = formRecord.domain
  /\ \A c \in saveCalls : c.domain = c.zone

FormInv == FormTypes /\ TokensKnown /\ SavingOK /\ DomainsOK

LEMMA FormNumbers ==
  /\ MaxForms \in Nat /\ MaxTyped \in Nat /\ MaxZoneCalls \in Nat
  /\ Zones \subseteq Nat \ {0} /\ NoToken \notin Tokens /\ NoToken \in TokenText
  /\ \A z \in Zone0 : z # 0 => z \in Zones
BY FormBounds DEF FormBounds, TokenText, Zone0

LEMMA TokenZones == \A t \in Tokens : ZonesOf[t] \subseteq Zones
BY DEF Zones

LEMMA FormInitial == FormInit => FormInv
<1> SUFFICES ASSUME FormInit PROVE FormInv
  OBVIOUS
<1> DEFINE First(t, z) == [i \in Ids |-> IF i = 1 THEN [id |-> 1, zone |-> z, domain |-> z, token |-> t]
                                         ELSE [id |-> 0, zone |-> 0, domain |-> 0, token |-> NoToken]]
<1>0. dbRecords \in {First(t, z) : t \in Tokens, z \in Zones}
  BY DEF FormInit
<1> HIDE DEF First
<1>1. PICK t \in Tokens, z \in Zones : dbRecords = First(t, z)
  BY <1>0
<1>2. /\ dbRecords \in [Ids -> DbRecord]
      /\ \A i \in Ids : dbRecords[i].id # 0 => dbRecords[i].token \in Tokens
      /\ SavedDomainOfZone
  <2>1. t \in TokenText /\ NoToken \in TokenText /\ z \in Zone0 /\ 0 \in Zone0 /\ 0 \in Id0
        /\ 1 \in Id0
    BY DEF TokenText, Zone0, Id0, Ids
  <2>2. \A i \in Ids : dbRecords[i] = IF i = 1 THEN [id |-> 1, zone |-> z, domain |-> z, token |-> t]
                                      ELSE [id |-> 0, zone |-> 0, domain |-> 0, token |-> NoToken]
    BY <1>1 DEF First
  <2>3. dbRecords \in [Ids -> DbRecord]
    BY <1>1, <2>1 DEF First, DbRecord
  <2>4. QED
    BY <2>2, <2>3 DEF SavedDomainOfZone
<1>3. /\ formPanel = NewDrawer /\ formRecord = NoRecord
      /\ tokenGroup = [token |-> NoToken, required |-> TRUE, watched |-> TRUE]
      /\ typed = Nothing /\ emitted = Nothing /\ zones = {} /\ zoneId = 0 /\ zoneCalls = {}
      /\ saving = FALSE /\ saveCalls = {}
      /\ formCounts = [opened |-> 0, typed |-> 0, called |-> 0]
  BY DEF FormInit
<1>4. FormTypes
  <2>1. formRecord \in FormRecord /\ zoneId \in Zone0 /\ formCounts \in FormCounts
    BY <1>3, FormNumbers DEF NoRecord, FormRecord, Id0, Zone0, FormCounts
  <2>2. tokenGroup \in [token : TokenText, required : BOOLEAN, watched : BOOLEAN]
    BY <1>3, FormNumbers
  <2>3. QED
    BY <1>2, <1>3, <2>1, <2>2 DEF FormTypes
<1>5. TokensKnown /\ DomainsOK
  BY <1>2, <1>3 DEF TokensKnown, DomainsOK, NoRecord
<1>6. SavingOK
  BY <1>3, FreshDrawer DEF SavingOK
<1>7. QED
  BY <1>4, <1>5, <1>6 DEF FormInv

\* A call for zones is made for a record that is stored, or with a token.
LEMMA ZonesAsked ==
  ASSUME FormInv, NEW id \in Id0, NEW token \in TokenText, token \in Tokens \/ IsStored(id),
         NEW counts \in FormCounts, LoadZones(counts, id, token)
  PROVE  /\ zoneCalls' \subseteq ZoneCall /\ formCounts' \in FormCounts
         /\ \A c \in zoneCalls' : c.token \in Tokens \/ IsStored(c.id)
<1> FormTypes /\ TokensKnown
  BY DEF FormInv
<1> DEFINE call == [n |-> counts.called, id |-> id, token |-> token, status |-> "sent", zones |-> {}]
<1>1. zoneCalls' = zoneCalls \union {call} /\ counts.called < MaxZoneCalls
      /\ formCounts' = [counts EXCEPT !.called = counts.called + 1]
  BY DEF LoadZones
<1>2. counts.called \in Nat /\ counts.called + 1 \in 0 .. MaxZoneCalls
  BY <1>1, FormNumbers DEF FormCounts
<1>3. formCounts' \in FormCounts
  BY <1>1, <1>2 DEF FormCounts
<1>4. call \in ZoneCall /\ call.token = token /\ call.id = id
  BY <1>2 DEF ZoneCall, AnswerStates
<1> HIDE DEF call
<1>5. QED
  BY <1>1, <1>3, <1>4 DEF FormTypes, TokensKnown

\* The form is opened to edit a record, or to add one.
LEMMA FormOpens ==
  ASSUME FormInv, OpenAdd \/ \E i \in Ids : OpenEdit(i)
  PROVE  FormInv'
<1> FormTypes /\ TokensKnown /\ SavingOK /\ DomainsOK
  BY DEF FormInv
<1>1. ASSUME formCounts.opened < MaxForms PROVE Reopened \in FormCounts
  <2>1. formCounts.opened + 1 \in 0 .. MaxForms
    BY <1>1, FormNumbers DEF FormTypes, FormCounts
  <2>2. QED
    BY <2>1 DEF Reopened, FormTypes, FormCounts
<1>2. CASE OpenAdd
  <2>1. /\ formRecord' = NoRecord /\ zones' = {} /\ zoneId' = 0
        /\ tokenGroup' = [tokenGroup EXCEPT !.token = NoToken]
        /\ typed' = IF tokenGroup.watched THEN NoToken ELSE typed
        /\ formCounts' = Reopened /\ formCounts.opened < MaxForms
        /\ formPanel' = OpenedDrawer(formPanel)
        /\ UNCHANGED <<dbRecords, emitted, zoneCalls, saving, saveCalls>>
    BY <1>2 DEF OpenAdd
  <2>2. formRecord' \in FormRecord /\ formRecord'.id = 0 /\ zoneId' \in Zone0
    BY <2>1 DEF NoRecord, FormRecord, Id0, Zone0
  <2>3. tokenGroup' \in [token : TokenText, required : BOOLEAN, watched : BOOLEAN]
        /\ typed' \in TokenText \union {Nothing}
    BY <2>1, FormNumbers DEF FormTypes
  <2>4. FormTypes'
    BY <1>1, <2>1, <2>2, <2>3 DEF FormTypes
  <2>5. TokensKnown' /\ DomainsOK'
    BY <2>1, <2>2 DEF TokensKnown, IsStored, DomainsOK, SavedDomainOfZone
  <2>6. SavingOK'
    BY <2>1, DrawerOpens DEF SavingOK
  <2>7. QED
    BY <2>4, <2>5, <2>6 DEF FormInv
<1>3. ASSUME NEW i \in Ids, OpenEdit(i) PROVE FormInv'
  <2>1. /\ formRecord' = [id |-> i, zone |-> dbRecords[i].zone, domain |-> dbRecords[i].domain]
        /\ tokenGroup' = [token |-> NoToken, required |-> FALSE, watched |-> FALSE]
        /\ zoneId' = dbRecords[i].zone /\ dbRecords[i].id # 0
        /\ LoadZones(Reopened, i, NoToken) /\ formCounts.opened < MaxForms
        /\ formPanel' = OpenedDrawer(formPanel)
        /\ UNCHANGED <<dbRecords, typed, emitted, zones, saving, saveCalls>>
    BY <1>3 DEF OpenEdit
  <2>2. formRecord' \in FormRecord /\ zoneId' \in Zone0 /\ formRecord'.id = i
        /\ formRecord'.domain = dbRecords[i].domain /\ i \in Id0
    BY <2>1 DEF FormTypes, DbRecord, FormRecord, Id0
  <2>3. tokenGroup' \in [token : TokenText, required : BOOLEAN, watched : BOOLEAN]
    BY <2>1, FormNumbers
  <2>4. IsStored(i)
    BY <2>1 DEF IsStored
  <2>5. /\ zoneCalls' \subseteq ZoneCall /\ formCounts' \in FormCounts
        /\ \A c \in zoneCalls' : c.token \in Tokens \/ IsStored(c.id)
    BY <1>1, <2>1, <2>2, <2>4, FormNumbers, ZonesAsked
  <2>6. FormTypes'
    BY <2>1, <2>2, <2>3, <2>5 DEF FormTypes
  <2>7. TokensKnown'
    BY <2>1, <2>2, <2>4, <2>5 DEF TokensKnown, IsStored
  <2>8. DomainsOK'
    BY <2>1, <2>2 DEF DomainsOK, SavedDomainOfZone
  <2>9. SavingOK'
    BY <2>1, DrawerOpens DEF SavingOK
  <2>10. QED
    BY <2>6, <2>7, <2>8, <2>9 DEF FormInv
<1>4. QED
  BY <1>2, <1>3

\* Only fields of the form and calls for zones change.
LEMMA FieldsStep ==
  ASSUME FormInv,
         UNCHANGED <<dbRecords, formPanel, formRecord, saving, saveCalls>>,
         tokenGroup' \in [token : TokenText, required : BOOLEAN, watched : BOOLEAN],
         typed' \in TokenText \union {Nothing}, emitted' \in TokenText \union {Nothing},
         zones' \subseteq Zones, zoneId' \in Zone0, formCounts' \in FormCounts,
         zoneCalls' \subseteq ZoneCall,
         \A c \in zoneCalls' : c.token \in Tokens \/ IsStored(c.id),
         zoneId' # 0 => zoneId' \in zones' \/ zoneId' = formRecord.domain
  PROVE  FormInv'
<1>1. FormTypes'
  BY DEF FormInv, FormTypes
<1>2. TokensKnown'
  BY DEF FormInv, TokensKnown, IsStored
<1>3. SavingOK'
  BY DEF FormInv, SavingOK
<1>4. DomainsOK'
  BY DEF FormInv, DomainsOK, SavedDomainOfZone
<1>5. QED
  BY <1>1, <1>2, <1>3, <1>4 DEF FormInv

\* The drawer closes or its timer fires; the user types or selects.
LEMMA UserStep ==
  ASSUME FormInv,
         \/ CancelForm \/ FormTimer
         \/ \E t \in TokenText : TypeToken(t)
         \/ \E z \in Zones : PickZone(z)
  PROVE  FormInv'
<1> FormTypes /\ TokensKnown /\ SavingOK /\ DomainsOK
  BY DEF FormInv
<1>1. ASSUME UNCHANGED <<dbRecords, formRecord, tokenGroup, typed, emitted, zones, zoneId,
                         zoneCalls, saving, saveCalls, formCounts>>,
             formPanel' \in Panels, saving => formPanel'.timers <= MaxSlides
      PROVE  FormInv'
  BY <1>1 DEF FormInv, FormTypes, TokensKnown, IsStored, SavingOK, DomainsOK, SavedDomainOfZone
<1>2. CASE CancelForm
  <2>1. InReach(formPanel) /\ formPanel' = ClosingDrawer(formPanel)
    BY <1>2 DEF CancelForm
  <2>2. formPanel' \in Panels /\ formPanel'.timers <= MaxSlides
    BY <2>1, DrawerInReach DEF SavingOK
  <2>3. QED
    BY <1>1, <1>2, <2>2 DEF CancelForm
<1>3. CASE FormTimer
  <2>1. formPanel' \in Panels /\ formPanel'.timers <= MaxSlides
    BY <1>3, DrawerFires DEF FormTimer, SavingOK
  <2>2. QED
    BY <1>1, <1>3, <2>1 DEF FormTimer
<1>4. ASSUME NEW t \in TokenText, TypeToken(t) PROVE FormInv'
  <2>1. formCounts' = [formCounts EXCEPT !.typed = formCounts.typed + 1]
        /\ formCounts.typed < MaxTyped
    BY <1>4 DEF TypeToken
  <2>2. formCounts' \in FormCounts
    <3>1. formCounts.typed + 1 \in 0 .. MaxTyped
      BY <2>1, FormNumbers DEF FormTypes, FormCounts
    <3>2. QED
      BY <2>1, <3>1 DEF FormTypes, FormCounts
  <2>3. tokenGroup' \in [token : TokenText, required : BOOLEAN, watched : BOOLEAN]
        /\ typed' \in TokenText \union {Nothing}
    BY <1>4 DEF TypeToken, FormTypes, TokenText
  <2>4. UNCHANGED <<dbRecords, formPanel, formRecord, emitted, zones, zoneId, zoneCalls, saving, saveCalls>>
    BY <1>4 DEF TypeToken
  <2>5. QED
    BY <2>2, <2>3, <2>4, FieldsStep DEF FormTypes, TokensKnown, DomainsOK
<1>5. ASSUME NEW z \in Zones, PickZone(z) PROVE FormInv'
  <2>1. zoneId' \in zones /\ zoneId' \in Zone0
        /\ UNCHANGED <<dbRecords, formPanel, formRecord, tokenGroup, typed, emitted, zones,
                       zoneCalls, saving, saveCalls, formCounts>>
    BY <1>5 DEF PickZone, Zone0
  <2>2. QED
    BY <2>1, FieldsStep DEF FormTypes, TokensKnown
<1>6. QED
  BY <1>2, <1>3, <1>4, <1>5

\* The debounce timer fires; a call for zones is answered, or its answer arrives.
LEMMA ZonesStep ==
  ASSUME FormInv, Debounced \/ \E c \in zoneCalls : ShowZones(c) \/ ZonesFailed(c) \/ ServeZones(c)
  PROVE  FormInv'
<1> FormTypes /\ TokensKnown /\ SavingOK /\ DomainsOK
  BY DEF FormInv
<1>1. {} \subseteq Zones /\ 0 \in Zone0
  BY DEF Zone0
<1>2. CASE Debounced
  <2>1. /\ typed # Nothing /\ typed' = Nothing /\ emitted' = typed
        /\ UNCHANGED <<dbRecords, formPanel, formRecord, tokenGroup, saving, saveCalls>>
    BY <1>2 DEF Debounced
  <2>2. typed \in TokenText
    BY <2>1 DEF FormTypes
  <2>3. \/ UNCHANGED <<zones, zoneId, zoneCalls, formCounts>>
        \/ /\ formRecord.id # 0 \/ typed # NoToken
           /\ LoadZones(formCounts, formRecord.id, typed) /\ UNCHANGED <<zones, zoneId>>
        \/ zones' = {} /\ zoneId' = 0 /\ UNCHANGED <<zoneCalls, formCounts>>
    BY <1>2 DEF Debounced
  <2>4. CASE UNCHANGED <<zones, zoneId, zoneCalls, formCounts>>
    BY <2>1, <2>2, <2>4, FieldsStep DEF FormTypes, TokensKnown, DomainsOK
  <2>5. CASE /\ formRecord.id # 0 \/ typed # NoToken
             /\ LoadZones(formCounts, formRecord.id, typed) /\ UNCHANGED <<zones, zoneId>>
    <3>1. formRecord.id \in Id0
      BY DEF FormTypes, FormRecord
    <3>2. typed \in Tokens \/ IsStored(formRecord.id)
      BY <2>2, <2>5 DEF TokenText, TokensKnown
    <3>3. /\ zoneCalls' \subseteq ZoneCall /\ formCounts' \in FormCounts
          /\ \A c \in zoneCalls' : c.token \in Tokens \/ IsStored(c.id)
      BY <2>2, <2>5, <3>1, <3>2, ZonesAsked DEF FormTypes
    <3>4. QED
      BY <2>1, <2>2, <2>5, <3>3, FieldsStep DEF FormTypes, DomainsOK
  <2>6. CASE zones' = {} /\ zoneId' = 0 /\ UNCHANGED <<zoneCalls, formCounts>>
    BY <1>1, <2>1, <2>2, <2>6, FieldsStep DEF FormTypes, TokensKnown
  <2>7. QED
    BY <2>3, <2>4, <2>5, <2>6
<1>3. ASSUME NEW c \in zoneCalls, ShowZones(c) PROVE FormInv'
  <2>1. /\ zones' = c.zones /\ zoneId' = (IF zoneId \in c.zones THEN zoneId ELSE 0)
        /\ zoneCalls' = zoneCalls \ {c}
        /\ UNCHANGED <<dbRecords, formPanel, formRecord, tokenGroup, typed, emitted, saving,
                       saveCalls, formCounts>>
    BY <1>3 DEF ShowZones
  <2>2. c.zones \subseteq Zones
    BY <1>3 DEF FormTypes, ZoneCall
  <2>3. zoneId' \in Zone0 /\ zoneId' # 0 => zoneId' \in zones'
    BY <1>1, <2>1 DEF FormTypes
  <2>4. QED
    BY <1>1, <2>1, <2>2, <2>3, FieldsStep DEF FormTypes, TokensKnown
<1>4. ASSUME NEW c \in zoneCalls, ZonesFailed(c) PROVE FormInv'
  <2>1. /\ zones' = {} /\ zoneId' = 0 /\ zoneCalls' = zoneCalls \ {c}
        /\ UNCHANGED <<dbRecords, formPanel, formRecord, tokenGroup, typed, emitted, saving,
                       saveCalls, formCounts>>
    BY <1>4 DEF ZonesFailed
  <2>2. QED
    BY <1>1, <2>1, FieldsStep DEF FormTypes, TokensKnown
<1>5. ASSUME NEW c \in zoneCalls, ServeZones(c) PROVE FormInv'
  <2> DEFINE token == IF c.token = NoToken THEN dbRecords[c.id].token ELSE c.token
  <2>1. /\ UNCHANGED <<dbRecords, formPanel, formRecord, tokenGroup, typed, emitted, zones, zoneId,
                       saving, saveCalls, formCounts>>
        /\ \/ zoneCalls' = (zoneCalls \ {c}) \union {[c EXCEPT !.status = "failed"]}
           \/ zoneCalls' = (zoneCalls \ {c}) \union
                              {[c EXCEPT !.status = "answered", !.zones = ZonesOf[token]]}
    BY <1>5 DEF ServeZones
  <2>2. c \in ZoneCall /\ (c.token \in Tokens \/ IsStored(c.id))
    BY <1>5 DEF FormTypes, TokensKnown
  <2>3. token \in Tokens
    BY <2>2, FormNumbers DEF IsStored, TokensKnown, ZoneCall, TokenText
  <2> HIDE DEF token
  <2>4. ZonesOf[token] \subseteq Zones
    BY <2>3, TokenZones
  <2>5. ASSUME NEW d \in ZoneCall, d.token = c.token, d.id = c.id,
               zoneCalls' = (zoneCalls \ {c}) \union {d}
        PROVE  FormInv'
    <3>1. zoneCalls' \subseteq ZoneCall /\ \A x \in zoneCalls' : x.token \in Tokens \/ IsStored(x.id)
      BY <2>2, <2>5 DEF FormTypes, TokensKnown
    <3>2. QED
      BY <2>1, <3>1, FieldsStep DEF FormTypes, DomainsOK
  <2>6. [c EXCEPT !.status = "failed"] \in ZoneCall
        /\ [c EXCEPT !.status = "failed"].token = c.token
        /\ [c EXCEPT !.status = "failed"].id = c.id
    BY <2>2 DEF ZoneCall, AnswerStates
  <2> DEFINE e == [c EXCEPT !.status = "answered", !.zones = ZonesOf[token]]
  <2>7. e \in ZoneCall /\ e.token = c.token /\ e.id = c.id
    BY <2>2, <2>4 DEF ZoneCall, AnswerStates
  <2> HIDE DEF e
  <2>8. QED
    BY <2>1, <2>5, <2>6, <2>7 DEF e
<1>6. QED
  BY <1>2, <1>3, <1>4, <1>5

\* save(), what the server makes of it, and its answer.
LEMMA SaveStep ==
  ASSUME FormInv, Save \/ \E c \in saveCalls : Saved(c) \/ ServeSave(c)
  PROVE  FormInv'
<1> FormTypes /\ TokensKnown /\ SavingOK /\ DomainsOK
  BY DEF FormInv
<1>1. CASE Save
  <2> DEFINE call == [id |-> formRecord.id, token |-> tokenGroup.token, zone |-> zoneId,
                      domain |-> PayloadDomain, status |-> "sent"]
  <2>1. /\ saving = FALSE /\ saving' = TRUE /\ formPanel.timers <= MaxSlides /\ zoneId # 0
        /\ saveCalls' = saveCalls \union {call}
        /\ UNCHANGED <<dbRecords, formPanel, formRecord, tokenGroup, typed, emitted, zones, zoneId,
                       zoneCalls, formCounts>>
    BY <1>1, DrawerInReach DEF Save, SavingOK
  <2>2. PayloadDomain = zoneId
    BY <2>1 DEF PayloadDomain, DomainsOK
  <2>3. call \in SaveCall /\ call.domain = call.zone /\ call.id = formRecord.id
    BY <2>2 DEF FormTypes, FormRecord, SaveCall, AnswerStates
  <2> HIDE DEF call
  <2>4. saveCalls' = {call}
    BY <2>1 DEF SavingOK
  <2>5. FormTypes'
    BY <2>1, <2>3, <2>4 DEF FormTypes
  <2>6. TokensKnown'
    BY <2>1, <2>3, <2>4 DEF TokensKnown, IsStored
  <2>7. SavingOK'
    BY <2>1, <2>4 DEF SavingOK
  <2>8. DomainsOK'
    BY <2>1, <2>3, <2>4 DEF DomainsOK, SavedDomainOfZone
  <2>9. QED
    BY <2>5, <2>6, <2>7, <2>8 DEF FormInv
<1>2. ASSUME NEW c \in saveCalls PROVE saving = TRUE /\ saveCalls = {c} /\ formPanel.timers <= MaxSlides
  BY <1>2 DEF SavingOK
<1>3. ASSUME NEW c \in saveCalls, Saved(c) PROVE FormInv'
  <2>1. /\ saveCalls' = {} /\ saving' = FALSE
        /\ formPanel' = ClosingDrawer(formPanel) \/ formPanel' = formPanel
        /\ UNCHANGED <<dbRecords, formRecord, tokenGroup, typed, emitted, zones, zoneId,
                       zoneCalls, formCounts>>
    BY <1>2, <1>3 DEF Saved
  <2>2. formPanel' \in Panels
    BY <1>2, <1>3, <2>1, DrawerCloses DEF SavingOK
  <2>3. FormTypes' /\ TokensKnown' /\ DomainsOK'
    BY <2>1 DEF FormTypes, TokensKnown, IsStored, DomainsOK, SavedDomainOfZone
  <2>4. SavingOK'
    BY <2>1, <2>2 DEF SavingOK
  <2>5. QED
    BY <2>3, <2>4 DEF FormInv
<1>4. ASSUME NEW c \in saveCalls, ServeSave(c) PROVE FormInv'
  <2>1. /\ \E status \in {"saved", "failed"} : Answer(c, status)
        /\ UNCHANGED <<formPanel, formRecord, tokenGroup, typed, emitted, zones, zoneId, zoneCalls,
                       saving, formCounts>>
        /\ \/ c.id # 0 /\ StoreRecord(c, c.id)
           \/ c.token # NoToken /\ \E i \in Ids : StoreRecord(c, i)
           \/ UNCHANGED dbRecords
    BY <1>4 DEF ServeSave
  <2>2. PICK status \in {"saved", "failed"} :
             saveCalls' = (saveCalls \ {c}) \union {[c EXCEPT !.status = status]}
    BY <2>1 DEF Answer
  <2>3. c \in SaveCall /\ c.domain = c.zone /\ (c.id # 0 => IsStored(c.id))
    BY <1>4 DEF FormTypes, TokensKnown, DomainsOK
  <2> DEFINE d == [c EXCEPT !.status = status]
  <2>4. d \in SaveCall /\ d.domain = d.zone /\ d.id = c.id /\ saveCalls' = {d}
    BY <1>2, <1>4, <2>2, <2>3 DEF SaveCall, AnswerStates
  <2> HIDE DEF d
  <2>5. ASSUME NEW i \in Ids, StoreRecord(c, i), c.token # NoToken \/ IsStored(i)
        PROVE  /\ dbRecords' \in [Ids -> DbRecord] /\ SavedDomainOfZone'
               /\ \A j \in Ids : dbRecords'[j].id # 0 => dbRecords'[j].token \in Tokens
               /\ \A j \in Ids : dbRecords[j].id # 0 => dbRecords'[j].id # 0
    <3> DEFINE t == IF c.token = NoToken THEN dbRecords[i].token ELSE c.token
               r == [id |-> i, zone |-> c.zone, domain |-> c.domain, token |-> t]
    <3>1. dbRecords' = [dbRecords EXCEPT ![i] = r]
      BY <2>5 DEF StoreRecord
    <3>2. t \in Tokens
      BY <2>3, <2>5 DEF SaveCall, TokenText, IsStored, TokensKnown
    <3> HIDE DEF t
    <3>3. r \in DbRecord /\ r.id # 0 /\ r.token = t /\ r.domain = r.zone
      BY <2>3, <3>2 DEF SaveCall, DbRecord, Id0, Ids, TokenText
    <3> HIDE DEF r
    <3>4. dbRecords' \in [Ids -> DbRecord] /\ \A j \in Ids : dbRecords'[j] = IF j = i THEN r ELSE dbRecords[j]
      BY <3>1, <3>3 DEF FormTypes
    <3>5. QED
      BY <3>2, <3>3, <3>4 DEF TokensKnown, DomainsOK, SavedDomainOfZone
  <2>6. /\ dbRecords' \in [Ids -> DbRecord] /\ SavedDomainOfZone'
        /\ \A j \in Ids : dbRecords'[j].id # 0 => dbRecords'[j].token \in Tokens
        /\ \A j \in Ids : dbRecords[j].id # 0 => dbRecords'[j].id # 0
    <3>1. CASE c.id # 0 /\ StoreRecord(c, c.id)
      BY <2>3, <2>5, <3>1 DEF IsStored
    <3>2. CASE c.token # NoToken /\ \E i \in Ids : StoreRecord(c, i)
      BY <2>5, <3>2
    <3>3. CASE UNCHANGED dbRecords
      BY <3>3 DEF FormTypes, TokensKnown, DomainsOK, SavedDomainOfZone
    <3>4. QED
      BY <2>1, <3>1, <3>2, <3>3
  <2>7. \A j : IsStored(j) => IsStored(j)'
    BY <2>6 DEF IsStored
  <2>8. FormTypes'
    BY <2>1, <2>4, <2>6 DEF FormTypes
  <2>9. TokensKnown'
    BY <2>1, <2>3, <2>4, <2>6, <2>7 DEF TokensKnown
  <2>10. SavingOK'
    BY <1>2, <1>4, <2>1, <2>4 DEF SavingOK
  <2>11. DomainsOK'
    BY <2>1, <2>4, <2>6 DEF DomainsOK
  <2>12. QED
    BY <2>8, <2>9, <2>10, <2>11 DEF FormInv
<1>5. QED
  BY <1>1, <1>3, <1>4

LEMMA FormStep == FormInv /\ [FormNext]_formVars => FormInv'
<1> SUFFICES ASSUME FormInv, [FormNext]_formVars PROVE FormInv'
  OBVIOUS
<1>1. CASE OpenAdd \/ \E i \in Ids : OpenEdit(i)
  BY <1>1, FormOpens
<1>2. CASE \/ CancelForm \/ FormTimer
           \/ \E t \in TokenText : TypeToken(t)
           \/ \E z \in Zones : PickZone(z)
  BY <1>2, UserStep
<1>3. CASE Debounced \/ \E c \in zoneCalls : ShowZones(c) \/ ZonesFailed(c) \/ ServeZones(c)
  BY <1>3, ZonesStep
<1>4. CASE Save \/ \E c \in saveCalls : Saved(c) \/ ServeSave(c)
  BY <1>4, SaveStep
<1>5. CASE UNCHANGED formVars
  BY <1>5 DEF formVars, FormInv, FormTypes, TokensKnown, IsStored, SavingOK, DomainsOK,
              SavedDomainOfZone
<1>6. QED
  BY <1>1, <1>2, <1>3, <1>4, <1>5 DEF FormNext, TokenText

LEMMA FormInvariant == FormSpec => []FormInv
BY FormInitial, FormStep, PTL DEF FormSpec

\* No record is ever stored with the domain of another zone than its own, in whatever order the
\* answers for other tokens and other records arrive, whatever zones the tokens see.
THEOREM DomainOfZone == FormSpec => []SavedDomainOfZone
<1>1. FormInv => SavedDomainOfZone
  BY DEF FormInv, DomainsOK
<1>2. QED
  BY <1>1, FormInvariant, PTL

\* The fields of the form keep their types; saving says whether a save is under way.
THEOREM FormTyped == FormSpec => []FormTypeOK
<1>1. ASSUME FormInv PROVE FormTypeOK
  <2>1. saving <=> Cardinality(saveCalls) = 1
    <3>1. CASE saving
      <4>1. PICK c : saveCalls = {c}
        BY <1>1, <3>1 DEF FormInv, SavingOK
      <4>2. QED
        BY <3>1, <4>1, FS_Singleton
    <3>2. CASE ~saving
      <4>1. Cardinality(saveCalls) = 0
        BY <1>1, <3>2, FS_EmptySet DEF FormInv, SavingOK
      <4>2. QED
        BY <3>2, <4>1
    <3>3. QED
      BY <3>1, <3>2
  <2>2. {typed, emitted} \subseteq TokenText \union {Nothing}
    BY <1>1 DEF FormInv, FormTypes
  <2>3. {typed, emitted} \subseteq Tokens \union {NoToken, Nothing}
    BY <2>2 DEF TokenText
  <2>4. QED
    BY <1>1, <2>1, <2>3 DEF FormInv, FormTypes, SavingOK, Panels, FormRecord, Id0, Zone0,
                            TokenText, FormCounts, FormTypeOK
<1>2. QED
  BY <1>1, FormInvariant, PTL

---------------------------------------------------------------------------
(* The table of records *)

PageKinds == {"list", "issue", "refresh", "delete", "poll"}
RowStates == CertStates \union {"gone"}
RowsOf == UNION {[D -> RowStates] : D \in SUBSET RecordIds}
TableCall == [n : Nat, kind : PageKinds \union Lookups, id : RecordIds \union {"none", "all", "search"},
              attempt : 0 .. (maxAttempts - 1), status : {"sent", "ok", "failed"}, listed : RowsOf]
Poll == [id : RecordIds, attempt : 0 .. (maxAttempts - 1)]
Warning == [asks : {"issue", "delete"}, id : RecordIds]

TableTypes ==
  /\ stored \in [RecordIds -> RowStates] /\ issuances \subseteq RecordIds
  /\ rows \in RowsOf /\ issuing \subseteq RecordIds
  /\ loadingIps \in [Lookups -> SUBSET RecordIds] /\ shownIps \in [Lookups -> SUBSET RecordIds]
  /\ warning = NoWarning \/ warning \in Warning
  /\ polls \subseteq Poll /\ called \in 1 .. MaxCalls
  /\ calls \subseteq TableCall /\ \A c \in calls : c.kind # "list" => c.id \in RecordIds

TableInv == TableTypes /\ SpinnersEnd

LEMMA TableNumbers ==
  /\ maxAttempts \in Nat \ {0} /\ MaxCalls \in Nat \ {0} /\ 0 \in 0 .. (maxAttempts - 1)
  /\ \A k \in Lookups : k \notin PageKinds
BY TableBounds DEF TableBounds, PageKinds

LEMMA NoRows == <<>> \in RowsOf
<1>1. <<>> \in Seq(RowStates) /\ Len(<<>>) = 0
  BY EmptySeq
<1>2. <<>> \in [1 .. 0 -> RowStates]
  BY <1>1, LenProperties
<1>3. 1 .. 0 = {}
  OBVIOUS
<1>4. <<>> \in [{} -> RowStates] /\ {} \in SUBSET RecordIds
  BY <1>2, <1>3
<1>5. QED
  BY <1>4 DEF RowsOf

LEMMA SomeRows ==
  /\ \A r \in RowsOf : DOMAIN r \subseteq RecordIds
  /\ TableTypes => \A s : Listed(s) \in RowsOf
<1>1. \A r \in RowsOf : DOMAIN r \subseteq RecordIds
  BY DEF RowsOf
<1>2. ASSUME TableTypes, NEW s PROVE Listed(s) \in RowsOf
  <2> DEFINE found == {id \in RecordIds : stored[id] # "gone" /\ (s = "search" => id \in Matching)}
  <2>1. found \in SUBSET RecordIds
    OBVIOUS
  <2>2. Listed(s) = [id \in found |-> stored[id]]
    BY DEF Listed
  <2> HIDE DEF found
  <2>3. Listed(s) \in [found -> RowStates]
    BY <1>2, <2>1, <2>2 DEF TableTypes
  <2>4. QED
    BY <2>1, <2>3 DEF RowsOf
<1>3. QED
  BY <1>1, <1>2

LEMMA TableInitial == TableInit => TableInv
<1> SUFFICES ASSUME TableInit PROVE TableInv
  OBVIOUS
<1>1. calls = {[n |-> 1, kind |-> "list", id |-> "none", attempt |-> 0, status |-> "sent", listed |-> <<>>]}
      /\ called = 1
  BY DEF TableInit
<1>2. calls \subseteq TableCall /\ \A c \in calls : c.kind = "list"
  BY <1>1, TableNumbers, NoRows DEF TableCall, PageKinds
<1>3. called \in 1 .. MaxCalls
  BY <1>1, TableNumbers
<1>4. stored \in [RecordIds -> RowStates]
  BY DEF TableInit, RowStates, CertStates
<1>5. rows \in RowsOf
  BY NoRows DEF TableInit
<1>6. TableTypes
  BY <1>2, <1>3, <1>4, <1>5 DEF TableInit, TableTypes
<1>7. SpinnersEnd
  BY DEF TableInit, SpinnersEnd
<1>8. QED
  BY <1>6, <1>7 DEF TableInv

\* The page makes a call, in the place of one that is answered or besides all.
LEMMA CallMade ==
  ASSUME TableTypes, NEW kind \in PageKinds, NEW id \in RecordIds \union {"none", "all", "search"},
         kind # "list" => id \in RecordIds, NEW attempt \in 0 .. (maxAttempts - 1),
         NEW others, others \subseteq calls, Make(others, Call(kind, id, attempt))
  PROVE  /\ calls' \subseteq TableCall /\ \A c \in calls' : c.kind # "list" => c.id \in RecordIds
         /\ called' \in 1 .. MaxCalls /\ others \subseteq calls'
         /\ \E c \in calls' : c.kind = kind /\ c.id = id
<1> DEFINE call == Call(kind, id, attempt)
<1>1. calls' = others \union {call} /\ called < MaxCalls /\ called' = called + 1
  BY DEF Make
<1>2. called \in Nat /\ called + 1 \in 1 .. MaxCalls /\ called + 1 \in Nat
  BY <1>1, TableNumbers DEF TableTypes
<1>3. call \in TableCall /\ call.kind = kind /\ call.id = id
  BY <1>2, NoRows DEF Call, TableCall
<1> HIDE DEF call
<1>4. QED
  BY <1>1, <1>2, <1>3 DEF TableTypes

\* The user's clicks.
LEMMA ClickStep ==
  ASSUME TableInv,
         \/ \E search \in {"all", "search"} : Search(search)
         \/ \E id \in RecordIds : IssueCertificate(id) \/ Delete(id) \/ Refresh(id)
         \/ Confirm \/ DismissWarning
  PROVE  TableInv'
<1> TableTypes /\ SpinnersEnd
  BY DEF TableInv
<1>1. 0 \in 0 .. (maxAttempts - 1)
  BY TableNumbers
<1>2. ASSUME UNCHANGED <<stored, issuances, rows, lookupVars, polls>>,
             warning' = NoWarning \/ warning' \in Warning,
             UNCHANGED <<issuing, calls, called>>
      PROVE  TableInv'
  BY <1>2 DEF TableInv, TableTypes, SpinnersEnd, lookupVars
<1>3. ASSUME UNCHANGED <<stored, issuances, rows, lookupVars, polls>>,
             warning' = warning \/ warning' = NoWarning,
             NEW kind \in PageKinds, NEW id \in RecordIds \union {"none", "all", "search"},
             kind # "list" => id \in RecordIds, Make(calls, Call(kind, id, 0)),
             issuing' = issuing \/ (issuing' = issuing \union {id} /\ kind = "issue")
      PROVE  TableInv'
  <2>1. /\ calls' \subseteq TableCall /\ \A c \in calls' : c.kind # "list" => c.id \in RecordIds
        /\ called' \in 1 .. MaxCalls /\ calls \subseteq calls'
        /\ \E c \in calls' : c.kind = kind /\ c.id = id
    BY <1>1, <1>3, CallMade
  <2>2. issuing' \subseteq RecordIds
    BY <1>3 DEF TableTypes
  <2>3. TableTypes'
    BY <1>3, <2>1, <2>2 DEF TableTypes, lookupVars
  <2>4. SpinnersEnd'
    BY <1>3, <2>1 DEF SpinnersEnd, lookupVars
  <2>5. QED
    BY <2>3, <2>4 DEF TableInv
<1>4. ASSUME NEW search \in {"all", "search"}, Search(search) PROVE TableInv'
  BY <1>3, <1>4 DEF Search, Load, PageKinds
<1>5. ASSUME NEW id \in RecordIds, IssueCertificate(id) PROVE TableInv'
  <2>1. CASE rows[id] = "valid"
    <3>1. warning' \in Warning
      BY <1>5, <2>1 DEF IssueCertificate, Warning
    <3>2. QED
      BY <1>2, <1>5, <2>1, <3>1 DEF IssueCertificate
  <2>2. CASE rows[id] # "valid"
    BY <1>3, <1>5, <2>2 DEF IssueCertificate, PageKinds
  <2>3. QED
    BY <2>1, <2>2
<1>6. ASSUME NEW id \in RecordIds, Delete(id) PROVE TableInv'
  <2>1. warning' \in Warning
    BY <1>6 DEF Delete, Warning
  <2>2. QED
    BY <1>2, <1>6, <2>1 DEF Delete
<1>7. ASSUME NEW id \in RecordIds, Refresh(id) PROVE TableInv'
  BY <1>3, <1>7 DEF Refresh, PageKinds
<1>8. CASE Confirm
  <2>1. warning \in Warning
    BY <1>8 DEF Confirm, TableTypes
  <2>2. warning.asks \in PageKinds /\ warning.id \in RecordIds /\ warning.asks # "list"
    BY <2>1 DEF Warning, PageKinds
  <2>3. /\ UNCHANGED <<stored, issuances, rows, lookupVars, polls>> /\ warning' = NoWarning
        /\ Make(calls, Call(warning.asks, warning.id, 0))
        /\ issuing' = issuing \/ (issuing' = issuing \union {warning.id} /\ warning.asks = "issue")
    BY <1>8 DEF Confirm
  <2>4. QED
    BY <1>3, <2>2, <2>3
<1>9. CASE DismissWarning
  BY <1>2, <1>9 DEF DismissWarning
<1>10. QED
  BY <1>4, <1>5, <1>6, <1>7, <1>8, <1>9

\* The list arrives: two lookups are made for every row.
LEMMA ListShown == ASSUME TableInv, NEW c \in calls, ShowList(c) PROVE TableInv'
<1> TableTypes /\ SpinnersEnd
  BY DEF TableInv
<1> DEFINE lookup(kind, id) == [Call(kind, id, 0) EXCEPT !.n = c.n]
           made == {lookup(kind, id) : kind \in Lookups, id \in DOMAIN c.listed}
<1>1. /\ c.kind = "list" /\ rows' = c.listed /\ shownIps' = [k \in Lookups |-> {}]
      /\ loadingIps' = [k \in Lookups |-> loadingIps[k] \union DOMAIN c.listed]
      /\ calls' = (calls \ {c}) \union made
      /\ UNCHANGED <<stored, issuances, issuing, warning, polls, called>>
  BY DEF ShowList
<1>2. c.listed \in RowsOf /\ DOMAIN c.listed \subseteq RecordIds /\ c.n \in Nat
  BY SomeRows DEF TableTypes, TableCall
<1>3. ASSUME NEW kind \in Lookups, NEW id \in DOMAIN c.listed
      PROVE  /\ lookup(kind, id) \in TableCall /\ lookup(kind, id).kind = kind
             /\ lookup(kind, id).id = id
  <2>1. called + 1 \in Nat /\ 0 \in 0 .. (maxAttempts - 1)
    BY TableNumbers DEF TableTypes
  <2>2. QED
    BY <1>2, <2>1, NoRows DEF Call, TableCall
<1> HIDE DEF lookup
<1>4. /\ \A x \in made : x \in TableCall /\ x.id \in RecordIds
      /\ \A kind \in Lookups : \A id \in DOMAIN c.listed : \E x \in made : x.kind = kind /\ x.id = id
  BY <1>2, <1>3
<1> HIDE DEF made
<1>5. calls' \subseteq TableCall /\ \A x \in calls' : x.kind # "list" => x.id \in RecordIds
  BY <1>1, <1>4 DEF TableTypes
<1>6. loadingIps' \in [Lookups -> SUBSET RecordIds] /\ shownIps' \in [Lookups -> SUBSET RecordIds]
  BY <1>1, <1>2 DEF TableTypes
<1>7. TableTypes'
  BY <1>1, <1>2, <1>5, <1>6 DEF TableTypes
<1>8. ASSUME NEW k \in Lookups, NEW id \in loadingIps'[k]
      PROVE  \E x \in calls' : x.kind = k /\ x.id = id
  <2>1. CASE id \in DOMAIN c.listed
    BY <1>1, <1>4, <2>1
  <2>2. CASE id \in loadingIps[k]
    <3>1. PICK x \in calls : x.kind = k /\ x.id = id
      BY <2>2 DEF SpinnersEnd
    <3>2. x # c
      BY <1>1, <3>1, TableNumbers DEF PageKinds
    <3>3. QED
      BY <1>1, <3>1, <3>2
  <2>3. QED
    BY <1>1, <1>8, <2>1, <2>2
<1>9. SpinnersEnd'
  BY <1>1, <1>8 DEF SpinnersEnd
<1>10. QED
  BY <1>7, <1>9 DEF TableInv

\* A lookup ends, and with it its spinner.
LEMMA LookupEnded == ASSUME TableInv, NEW c \in calls, LookupEnds(c) PROVE TableInv'
<1> TableTypes /\ SpinnersEnd
  BY DEF TableInv
<1>1. /\ c.kind \in Lookups /\ calls' = calls \ {c}
      /\ loadingIps' = [loadingIps EXCEPT ![c.kind] = @ \ {c.id}]
      /\ shownIps' = [shownIps EXCEPT ![c.kind] = IF c.status = "ok" THEN @ \union {c.id} ELSE @]
      /\ UNCHANGED <<stored, issuances, rows, issuing, warning, polls, called>>
  BY DEF LookupEnds
<1>2. c.id \in RecordIds /\ c.kind # "issue" /\ c.kind # "list"
  BY <1>1, TableNumbers DEF TableTypes, PageKinds
<1>3. loadingIps' \in [Lookups -> SUBSET RecordIds] /\ shownIps' \in [Lookups -> SUBSET RecordIds]
  BY <1>1, <1>2 DEF TableTypes
<1>4. TableTypes'
  BY <1>1, <1>3 DEF TableTypes
<1>5. \A k \in Lookups : \A id \in loadingIps'[k] : id \in loadingIps[k] /\ ~(k = c.kind /\ id = c.id)
  BY <1>1 DEF TableTypes
<1>6. SpinnersEnd'
  BY <1>1, <1>2, <1>5 DEF SpinnersEnd
<1>7. QED
  BY <1>4, <1>6 DEF TableInv

\* The other answers of the page and its timers.
LEMMA AnswerStep ==
  ASSUME TableInv,
         \/ \E c \in calls : IssueAccepted(c) \/ Done(c) \/ Failed(c) \/ PollAnswered(c)
         \/ \E p \in polls : PollTimer(p)
  PROVE  TableInv'
<1> TableTypes /\ SpinnersEnd
  BY DEF TableInv
<1>1. 0 \in 0 .. (maxAttempts - 1)
  BY TableNumbers
\* A call of the page that is answered: if it issued a certificate, its spinner goes.
<1>2. ASSUME NEW c \in calls, c.kind \in PageKinds, calls \ {c} \subseteq calls',
             calls' \subseteq TableCall, \A x \in calls' : x.kind # "list" => x.id \in RecordIds,
             UNCHANGED <<stored, issuances, lookupVars, warning>>,
             rows' \in RowsOf, polls' \subseteq Poll, called' \in 1 .. MaxCalls,
             issuing' \subseteq issuing, c.kind = "issue" => c.id \notin issuing'
      PROVE  TableInv'
  <2>1. TableTypes'
    BY <1>2 DEF TableTypes, lookupVars
  <2>2. c.kind \notin Lookups
    BY <1>2, TableNumbers
  <2>3. SpinnersEnd'
    BY <1>2, <2>2 DEF SpinnersEnd, lookupVars
  <2>4. QED
    BY <2>1, <2>3 DEF TableInv
<1>3. ASSUME NEW c \in calls, c.kind \in PageKinds, Make(calls \ {c}, Call("list", "all", 0))
      PROVE  /\ calls' \subseteq TableCall /\ \A x \in calls' : x.kind # "list" => x.id \in RecordIds
             /\ called' \in 1 .. MaxCalls /\ calls \ {c} \subseteq calls'
  <2>1. "list" \in PageKinds
    BY DEF PageKinds
  <2> DEFINE others == calls \ {c}
  <2>2. others \subseteq calls
    OBVIOUS
  <2>3. Make(others, Call("list", "all", 0))
    BY <1>3
  <2> HIDE DEF others
  <2>4. /\ calls' \subseteq TableCall /\ \A x \in calls' : x.kind # "list" => x.id \in RecordIds
        /\ called' \in 1 .. MaxCalls /\ others \subseteq calls'
    BY <1>1, <2>1, <2>2, <2>3, CallMade
  <2>5. QED
    BY <2>4 DEF others
<1>4. ASSUME NEW c \in calls, IssueAccepted(c) PROVE TableInv'
  <2>1. /\ c.kind = "issue" /\ issuing' = issuing \ {c.id}
        /\ Make(calls \ {c}, Call("list", "all", 0))
        /\ polls' = polls \union {[id |-> c.id, attempt |-> 0]}
        /\ UNCHANGED <<stored, issuances, rows, lookupVars, warning>>
    BY <1>4 DEF IssueAccepted, Load
  <2>2. c.kind \in PageKinds /\ c.id \in RecordIds
    BY <2>1 DEF PageKinds, TableTypes
  <2>3. polls' \subseteq Poll
    BY <1>1, <2>1, <2>2 DEF TableTypes, Poll
  <2>4. rows' \in RowsOf
    BY <2>1 DEF TableTypes
  <2>5. QED
    BY <1>2, <1>3, <2>1, <2>2, <2>3, <2>4
<1>5. ASSUME NEW c \in calls, Done(c) PROVE TableInv'
  <2>1. /\ c.kind \in {"refresh", "delete"} /\ Make(calls \ {c}, Call("list", "all", 0))
        /\ UNCHANGED <<stored, issuances, rows, lookupVars, issuing, warning, polls>>
    BY <1>5 DEF Done, Load
  <2>2. c.kind \in PageKinds /\ c.kind # "issue"
    BY <2>1 DEF PageKinds
  <2>3. rows' \in RowsOf /\ polls' \subseteq Poll
    BY <2>1 DEF TableTypes
  <2>4. QED
    BY <1>2, <1>3, <2>1, <2>2, <2>3
<1>6. ASSUME NEW c \in calls, Failed(c) PROVE TableInv'
  <2>1. /\ c.kind \in PageKinds /\ calls' = calls \ {c}
        /\ issuing' = IF c.kind = "issue" THEN issuing \ {c.id} ELSE issuing
        /\ UNCHANGED <<stored, issuances, rows, lookupVars, warning, polls, called>>
    BY <1>6 DEF Failed, PageKinds
  <2>2. rows' \in RowsOf /\ polls' \subseteq Poll /\ called' \in 1 .. MaxCalls
        /\ calls' \subseteq TableCall /\ \A x \in calls' : x.kind # "list" => x.id \in RecordIds
    BY <2>1 DEF TableTypes
  <2>3. QED
    BY <1>2, <2>1, <2>2
<1>7. ASSUME NEW c \in calls, PollAnswered(c) PROVE TableInv'
  <2>1. /\ c.kind = "poll" /\ calls' = calls \ {c} /\ rows' \in {c.listed, rows}
        /\ polls' = polls \/ PollAgain(c)
        /\ UNCHANGED <<stored, issuances, lookupVars, issuing, warning, called>>
    BY <1>7 DEF PollAnswered
  <2>2. c.kind \in PageKinds /\ c.id \in RecordIds /\ c.listed \in RowsOf
        /\ c.attempt \in 0 .. (maxAttempts - 1)
    BY <2>1 DEF PageKinds, TableTypes, TableCall
  <2>3. c.attempt + 1 < maxAttempts => c.attempt + 1 \in 0 .. (maxAttempts - 1)
    BY <2>2, TableNumbers
  <2>4. polls' \subseteq Poll
    BY <2>1, <2>2, <2>3 DEF PollAgain, TableTypes, Poll
  <2>5. rows' \in RowsOf /\ called' \in 1 .. MaxCalls
        /\ calls' \subseteq TableCall /\ \A x \in calls' : x.kind # "list" => x.id \in RecordIds
    BY <2>1, <2>2 DEF TableTypes
  <2>6. QED
    BY <1>2, <2>1, <2>2, <2>4, <2>5
<1>8. ASSUME NEW p \in polls, PollTimer(p) PROVE TableInv'
  <2>1. /\ polls' = polls \ {p} /\ Make(calls, Call("poll", p.id, p.attempt))
        /\ UNCHANGED <<stored, issuances, rows, lookupVars, issuing, warning>>
    BY <1>8 DEF PollTimer
  <2>2. p.id \in RecordIds /\ p.attempt \in 0 .. (maxAttempts - 1) /\ "poll" \in PageKinds
    BY <1>8 DEF TableTypes, Poll, PageKinds
  <2>3. /\ calls' \subseteq TableCall /\ \A x \in calls' : x.kind # "list" => x.id \in RecordIds
        /\ called' \in 1 .. MaxCalls /\ calls \subseteq calls'
    BY <2>1, <2>2, CallMade
  <2>4. TableTypes'
    BY <2>1, <2>3 DEF TableTypes, lookupVars
  <2>5. SpinnersEnd'
    BY <2>1, <2>3 DEF SpinnersEnd, lookupVars
  <2>6. QED
    BY <2>4, <2>5 DEF TableInv
<1>9. QED
  BY <1>4, <1>5, <1>6, <1>7, <1>8

\* The server answers a call, or an issuance ends.
LEMMA ServerStep ==
  ASSUME TableInv, (\E c \in calls : ServeTable(c)) \/ \E id \in RecordIds : Issued(id)
  PROVE  TableInv'
<1> TableTypes /\ SpinnersEnd
  BY DEF TableInv
<1>1. ASSUME NEW c \in calls, ServeTable(c) PROVE TableInv'
  <2>1. PICK status \in {"failed", "ok"}, rs \in RowsOf : Answered(c, status, rs)
    BY <1>1, NoRows, SomeRows DEF ServeTable
  <2> DEFINE d == [c EXCEPT !.status = status, !.listed = rs]
  <2>2. c \in TableCall /\ calls' = (calls \ {c}) \union {d}
    BY <2>1 DEF Answered, TableTypes
  <2>3. d \in TableCall /\ d.kind = c.kind /\ d.id = c.id
    BY <2>2 DEF TableCall
  <2> HIDE DEF d
  <2>4. UNCHANGED <<rows, lookupVars, issuing, warning, polls, called>>
    BY <1>1 DEF ServeTable
  <2>5. ASSUME NEW id \in RecordIds, NEW r \in RowStates
        PROVE  [stored EXCEPT ![id] = r] \in [RecordIds -> RowStates]
    BY DEF TableTypes
  <2>6. c.kind # "list" => c.id \in RecordIds
    BY DEF TableTypes
  <2>7. stored' \in [RecordIds -> RowStates] /\ issuances' \subseteq RecordIds
    <3>1. CASE UNCHANGED <<stored, issuances>>
      BY <3>1 DEF TableTypes
    <3>2. CASE /\ c.kind = "issue" /\ issuances' = issuances \union {c.id}
               /\ stored' = [stored EXCEPT ![c.id] = IF @ = "none" THEN "pending" ELSE @]
      BY <2>6, <3>2 DEF TableTypes, RowStates, CertStates
    <3>3. CASE c.kind = "delete" /\ stored' = [stored EXCEPT ![c.id] = "gone"] /\ UNCHANGED issuances
      BY <2>6, <3>3 DEF TableTypes, RowStates
    <3>4. QED
      BY <1>1, <3>1, <3>2, <3>3 DEF ServeTable
  <2>8. TableTypes'
    BY <2>2, <2>3, <2>4, <2>6, <2>7 DEF TableTypes, lookupVars
  <2>9. SpinnersEnd'
    BY <2>2, <2>3, <2>4 DEF SpinnersEnd, lookupVars
  <2>10. QED
    BY <2>8, <2>9 DEF TableInv
<1>2. ASSUME NEW id \in RecordIds, Issued(id) PROVE TableInv'
  <2>1. /\ issuances' = issuances \ {id}
        /\ \E s \in {"valid", "failed"} : stored' = [stored EXCEPT ![id] = IF @ = "gone" THEN @ ELSE s]
        /\ UNCHANGED <<rows, lookupVars, issuing, warning, polls, calls, called>>
    BY <1>2 DEF Issued
  <2>2. stored' \in [RecordIds -> RowStates]
    BY <2>1 DEF TableTypes, RowStates, CertStates
  <2>3. TableTypes'
    BY <2>1, <2>2 DEF TableTypes, lookupVars
  <2>4. SpinnersEnd'
    BY <2>1 DEF SpinnersEnd, lookupVars
  <2>5. QED
    BY <2>3, <2>4 DEF TableInv
<1>3. QED
  BY <1>1, <1>2

LEMMA TableStep == TableInv /\ [TableNext]_tableVars => TableInv'
<1> SUFFICES ASSUME TableInv, [TableNext]_tableVars PROVE TableInv'
  OBVIOUS
<1>1. CASE \/ \E search \in {"all", "search"} : Search(search)
           \/ \E id \in RecordIds : IssueCertificate(id) \/ Delete(id) \/ Refresh(id)
           \/ Confirm \/ DismissWarning
  BY <1>1, ClickStep
<1>2. CASE \/ \E c \in calls : IssueAccepted(c) \/ Done(c) \/ Failed(c) \/ PollAnswered(c)
           \/ \E p \in polls : PollTimer(p)
  BY <1>2, AnswerStep
<1>3. CASE (\E c \in calls : ServeTable(c)) \/ \E id \in RecordIds : Issued(id)
  BY <1>3, ServerStep
<1>4. CASE \E c \in calls : ShowList(c) \/ LookupEnds(c)
  BY <1>4, ListShown, LookupEnded
<1>5. CASE UNCHANGED tableVars
  BY <1>5 DEF tableVars, lookupVars, TableInv, TableTypes, SpinnersEnd
<1>6. QED
  BY <1>1, <1>2, <1>3, <1>4, <1>5 DEF TableNext

LEMMA TableInvariant == TableSpec => []TableInv
BY TableInitial, TableStep, PTL DEF TableSpec

\* No spinner is left behind: each has a call under way that will remove it, for any records and
\* any number of lists that look the same record up.
THEOREM SpinnersStop == TableSpec => []SpinnersEnd
<1>1. TableInv => SpinnersEnd
  BY DEF TableInv
<1>2. QED
  BY <1>1, TableInvariant, PTL

\* The table keeps its types: no row, spinner or poll is of a record that was never there.
THEOREM TableTyped == TableSpec => []TableTypeOK
<1>1. ASSUME TableInv PROVE TableTypeOK
  <2>1. warning.asks \in {"nothing", "issue", "delete"}
    BY <1>1 DEF TableInv, TableTypes, NoWarning, Warning
  <2>2. DOMAIN rows \subseteq RecordIds /\ called \in 0 .. MaxCalls
    BY <1>1, SomeRows, TableNumbers DEF TableInv, TableTypes
  <2>3. QED
    BY <1>1, <2>1, <2>2 DEF TableInv, TableTypes, RowStates, Poll, TableTypeOK
<1>2. QED
  BY <1>1, TableInvariant, PTL

---------------------------------------------------------------------------
(* The configuration drawer *)

ConfigCall == [n : Nat, kind : {"get", "update"}, status : {"sent", "ok", "failed"},
               config : Configurations]

ConfigTypes ==
  /\ config \in Configurations /\ form \in Configurations
  /\ loadingConfig \in BOOLEAN /\ configCalls \subseteq ConfigCall
  /\ opens \in 0 .. MaxConfigOpens /\ edits \in 0 .. MaxEdits

\* One save at a time, and a drawer that closes at most twice.
ConfigSavingOK ==
  /\ configPanel \in Panels /\ savingConfig \in BOOLEAN
  /\ savingConfig => configPanel.timers <= MaxSlides
  /\ savingConfig <=> \E c \in configCalls : c.kind = "update"
  /\ \A c, d \in configCalls : c.kind = "update" /\ d.kind = "update" => c = d

\* Wherever the form's own values are, the schedule is empty or the user's.
FilledIn(x) == x.rest = "of the form" => x.cron \in Schedules \union {NoSchedule}
FilledOK ==
  /\ UnloadedFormRefused /\ FilledIn(config) /\ FilledIn(form)
  /\ \A c \in configCalls : FilledIn(c.config)

ConfigInv == ConfigTypes /\ ConfigSavingOK /\ FilledOK

LEMMA ConfigNumbers == MaxConfigOpens \in Nat /\ MaxEdits \in Nat
BY ConfigBounds DEF ConfigBounds

LEMMA FirstForm == FormDefaults \in Configurations /\ FilledIn(FormDefaults)
BY DEF FormDefaults, Configurations, FilledIn

LEMMA ConfigInitial == ConfigInit => ConfigInv
<1> SUFFICES ASSUME ConfigInit PROVE ConfigInv
  OBVIOUS
<1>1. config \in Configurations /\ FilledIn(config) /\ UnloadedFormRefused
  BY DEF ConfigInit, Configurations, FilledIn, UnloadedFormRefused
<1>2. ConfigTypes
  <2>1. /\ form = FormDefaults /\ loadingConfig = TRUE /\ configCalls = {}
        /\ opens = 0 /\ edits = 0
    BY DEF ConfigInit
  <2>2. opens \in 0 .. MaxConfigOpens /\ edits \in 0 .. MaxEdits
    BY <2>1, ConfigNumbers
  <2>3. QED
    BY <1>1, <2>1, <2>2, FirstForm DEF ConfigTypes
<1>3. ConfigSavingOK
  BY FreshDrawer DEF ConfigInit, ConfigSavingOK
<1>4. FilledOK
  BY <1>1, FirstForm DEF ConfigInit, FilledOK
<1>5. QED
  BY <1>2, <1>3, <1>4 DEF ConfigInv

\* The drawer opens and closes, the user edits and saves.
LEMMA ConfigUserStep ==
  ASSUME ConfigInv,
         \/ OpenConfig \/ CloseConfig \/ ConfigTimer \/ SaveConfig
         \/ \E s \in Schedules : Edit([form EXCEPT !.cron = s])
         \/ Edit([form EXCEPT !.rest = "edited"])
  PROVE  ConfigInv'
<1> ConfigTypes /\ ConfigSavingOK /\ FilledOK
  BY DEF ConfigInv
<1>1. CASE OpenConfig
  <2> DEFINE call == [n |-> opens, kind |-> "get", status |-> "sent", config |-> FormDefaults]
  <2>1. /\ opens < MaxConfigOpens /\ opens' = opens + 1 /\ loadingConfig' = TRUE
        /\ configPanel' = OpenedDrawer(configPanel) /\ configCalls' = configCalls \union {call}
        /\ UNCHANGED <<config, form, savingConfig, edits>>
    BY <1>1 DEF OpenConfig
  <2>2. opens' \in 0 .. MaxConfigOpens /\ opens \in Nat
    BY <2>1, ConfigNumbers DEF ConfigTypes
  <2>3. call \in ConfigCall /\ call.kind = "get" /\ FilledIn(call.config)
    BY <2>2, FirstForm DEF ConfigCall
  <2> HIDE DEF call
  <2>4. ConfigTypes'
    BY <2>1, <2>2, <2>3 DEF ConfigTypes
  <2>5. ConfigSavingOK'
    <3>1. configPanel' \in Panels /\ configPanel'.timers = configPanel.timers
      BY <2>1, DrawerOpens DEF ConfigSavingOK
    <3>2. \A c : c.kind = "update" => (c \in configCalls' <=> c \in configCalls)
      BY <2>1, <2>3
    <3>3. QED
      BY <2>1, <3>1, <3>2 DEF ConfigSavingOK
  <2>6. FilledOK'
    BY <2>1, <2>3 DEF FilledOK, FilledIn, UnloadedFormRefused
  <2>7. QED
    BY <2>4, <2>5, <2>6 DEF ConfigInv
<1>2. ASSUME UNCHANGED <<config, form, loadingConfig, savingConfig, configCalls, opens, edits>>,
             configPanel' \in Panels, configPanel'.timers <= MaxSlides
      PROVE  ConfigInv'
  BY <1>2 DEF ConfigInv, ConfigTypes, ConfigSavingOK, FilledOK, FilledIn, UnloadedFormRefused
<1>3. CASE CloseConfig
  <2>1. configPanel' \in Panels /\ configPanel'.timers <= MaxSlides
    BY <1>3, DrawerInReach DEF CloseConfig, ConfigSavingOK
  <2>2. QED
    BY <1>2, <1>3, <2>1 DEF CloseConfig
<1>4. CASE ConfigTimer
  <2>1. configPanel' \in Panels /\ configPanel'.timers <= MaxSlides
    BY <1>4, DrawerFires DEF ConfigTimer, ConfigSavingOK
  <2>2. QED
    BY <1>2, <1>4, <2>1 DEF ConfigTimer
<1>5. CASE SaveConfig
  <2> DEFINE call == [n |-> opens, kind |-> "update", status |-> "sent", config |-> form]
  <2>1. /\ savingConfig = FALSE /\ savingConfig' = TRUE /\ configPanel.timers <= MaxSlides
        /\ configCalls' = configCalls \union {call}
        /\ UNCHANGED <<config, configPanel, form, loadingConfig, opens, edits>>
    BY <1>5, DrawerInReach DEF SaveConfig, ConfigSavingOK
  <2>2. opens \in Nat
    BY ConfigNumbers DEF ConfigTypes
  <2>3. call \in ConfigCall /\ call.kind = "update" /\ FilledIn(call.config)
    BY <2>2 DEF ConfigCall, ConfigTypes, FilledOK
  <2> HIDE DEF call
  <2>4. ConfigTypes'
    BY <2>1, <2>3 DEF ConfigTypes
  <2>5. ConfigSavingOK'
    BY <2>1, <2>3 DEF ConfigSavingOK
  <2>6. FilledOK'
    BY <2>1, <2>3 DEF FilledOK, FilledIn, UnloadedFormRefused
  <2>7. QED
    BY <2>4, <2>5, <2>6 DEF ConfigInv
<1>6. ASSUME NEW changed \in Configurations, FilledIn(changed), Edit(changed) PROVE ConfigInv'
  <2>1. /\ edits' \in 0 .. MaxEdits /\ form' = changed
        /\ UNCHANGED <<config, configPanel, loadingConfig, savingConfig, configCalls, opens>>
    BY <1>6, ConfigNumbers DEF Edit, ConfigTypes
  <2>2. ConfigTypes' /\ ConfigSavingOK'
    BY <1>6, <2>1 DEF ConfigTypes, ConfigSavingOK
  <2>3. FilledOK'
    BY <1>6, <2>1 DEF FilledOK, FilledIn, UnloadedFormRefused
  <2>4. QED
    BY <2>2, <2>3 DEF ConfigInv
<1>7. ASSUME NEW s \in Schedules, Edit([form EXCEPT !.cron = s]) PROVE ConfigInv'
  <2> DEFINE changed == [form EXCEPT !.cron = s]
  <2>1. changed \in Configurations /\ FilledIn(changed)
    BY DEF ConfigTypes, Configurations, FilledIn
  <2>2. Edit(changed)
    BY <1>7
  <2> HIDE DEF changed
  <2>3. QED
    BY <1>6, <2>1, <2>2
<1>8. CASE Edit([form EXCEPT !.rest = "edited"])
  <2> DEFINE changed == [form EXCEPT !.rest = "edited"]
  <2>1. changed \in Configurations /\ FilledIn(changed)
    BY DEF ConfigTypes, Configurations, FilledIn
  <2>2. Edit(changed)
    BY <1>8
  <2> HIDE DEF changed
  <2>3. QED
    BY <1>6, <2>1, <2>2
<1>9. QED
  BY <1>1, <1>3, <1>4, <1>5, <1>7, <1>8

\* Answers arrive, and the server answers.
LEMMA ConfigCallStep ==
  ASSUME ConfigInv,
         \E c \in configCalls : \/ ConfigLoaded(c) \/ ConfigNotLoaded(c) \/ ConfigSaved(c)
                                \/ ServeGet(c) \/ ServeUpdate(c)
  PROVE  ConfigInv'
<1> ConfigTypes /\ ConfigSavingOK /\ FilledOK
  BY DEF ConfigInv
<1>1. ASSUME NEW c \in configCalls, ConfigLoaded(c) \/ ConfigNotLoaded(c) PROVE ConfigInv'
  <2>1. /\ c.kind = "get" /\ configCalls' = configCalls \ {c} /\ loadingConfig' = FALSE
        /\ form' \in {form, c.config}
        /\ UNCHANGED <<config, configPanel, savingConfig, opens, edits>>
    BY <1>1 DEF ConfigLoaded, ConfigNotLoaded
  <2>2. c.config \in Configurations /\ FilledIn(c.config)
    BY <1>1 DEF ConfigTypes, ConfigCall, FilledOK
  <2>3. ConfigTypes'
    BY <2>1, <2>2 DEF ConfigTypes
  <2>4. ConfigSavingOK'
    BY <2>1 DEF ConfigSavingOK
  <2>5. FilledOK'
    BY <2>1, <2>2 DEF FilledOK, FilledIn, UnloadedFormRefused
  <2>6. QED
    BY <2>3, <2>4, <2>5 DEF ConfigInv
<1>2. ASSUME NEW c \in configCalls, ConfigSaved(c) PROVE ConfigInv'
  <2>1. /\ c.kind = "update" /\ configCalls' = configCalls \ {c} /\ savingConfig' = FALSE
        /\ configPanel' = ClosingDrawer(configPanel) \/ configPanel' = configPanel
        /\ UNCHANGED <<config, form, loadingConfig, opens, edits>>
    BY <1>2 DEF ConfigSaved
  <2>2. configPanel.timers <= MaxSlides /\ configPanel \in Panels
    BY <1>2, <2>1 DEF ConfigSavingOK
  <2>3. configPanel' \in Panels
    BY <2>1, <2>2, DrawerCloses
  <2>4. \A d \in configCalls' : d.kind # "update"
    BY <1>2, <2>1 DEF ConfigSavingOK
  <2>5. ConfigTypes' /\ ConfigSavingOK'
    BY <2>1, <2>3, <2>4 DEF ConfigTypes, ConfigSavingOK
  <2>6. FilledOK'
    BY <2>1 DEF FilledOK, FilledIn, UnloadedFormRefused
  <2>7. QED
    BY <2>5, <2>6 DEF ConfigInv
\* A call is answered: it stays one of its kind.
<1>3. ASSUME NEW c \in configCalls, NEW d \in ConfigCall, d.kind = c.kind, FilledIn(d.config),
             configCalls' = (configCalls \ {c}) \union {d}, config' \in Configurations,
             FilledIn(config'), config'.rest = "of the form" => config'.cron \in Schedules,
             UNCHANGED <<configPanel, form, loadingConfig, savingConfig, opens, edits>>
      PROVE  ConfigInv'
  <2>1. ConfigTypes'
    BY <1>3 DEF ConfigTypes
  <2>2. ConfigSavingOK'
    <3>1. (\E x \in configCalls' : x.kind = "update") <=> (\E x \in configCalls : x.kind = "update")
      BY <1>3
    <3>2. \A x, y \in configCalls' : x.kind = "update" /\ y.kind = "update" => x = y
      BY <1>3 DEF ConfigSavingOK
    <3>3. QED
      BY <1>3, <3>1, <3>2 DEF ConfigSavingOK
  <2>3. FilledOK'
    BY <1>3 DEF FilledOK, FilledIn, UnloadedFormRefused
  <2>4. QED
    BY <2>1, <2>2, <2>3 DEF ConfigInv
<1>4. ASSUME NEW c \in configCalls
      PROVE  /\ c \in ConfigCall /\ FilledIn(c.config) /\ c.config \in Configurations
             /\ \A s \in {"ok", "failed"} : /\ [c EXCEPT !.status = s] \in ConfigCall
                                           /\ [c EXCEPT !.status = s].kind = c.kind
                                           /\ [c EXCEPT !.status = s].config = c.config
             /\ \A s \in {"ok", "failed"} : \A x \in Configurations :
                   /\ [c EXCEPT !.status = s, !.config = x] \in ConfigCall
                   /\ [c EXCEPT !.status = s, !.config = x].kind = c.kind
                   /\ [c EXCEPT !.status = s, !.config = x].config = x
  BY <1>4 DEF ConfigTypes, ConfigCall, FilledOK
<1>5. config \in Configurations /\ FilledIn(config)
      /\ (config.rest = "of the form" => config.cron \in Schedules)
  BY DEF ConfigTypes, FilledOK, UnloadedFormRefused
<1>6. ASSUME NEW c \in configCalls, ServeGet(c) PROVE ConfigInv'
  <2>1. /\ UNCHANGED <<config, configPanel, form, loadingConfig, savingConfig, opens, edits>>
        /\ \/ configCalls' = (configCalls \ {c}) \union {[c EXCEPT !.status = "ok", !.config = config]}
           \/ configCalls' = (configCalls \ {c}) \union {[c EXCEPT !.status = "failed"]}
    BY <1>6 DEF ServeGet
  <2> DEFINE d == [c EXCEPT !.status = "ok", !.config = config]
             e == [c EXCEPT !.status = "failed"]
  <2>2. d \in ConfigCall /\ d.kind = c.kind /\ FilledIn(d.config)
    BY <1>4, <1>5
  <2>3. e \in ConfigCall /\ e.kind = c.kind /\ FilledIn(e.config)
    BY <1>4
  <2> HIDE DEF d, e
  <2>4. \E x \in {d, e} : configCalls' = (configCalls \ {c}) \union {x}
    BY <2>1 DEF d, e
  <2>5. QED
    BY <1>3, <1>5, <2>1, <2>2, <2>3, <2>4
<1>7. ASSUME NEW c \in configCalls, ServeUpdate(c) PROVE ConfigInv'
  <2>1. /\ UNCHANGED <<configPanel, form, loadingConfig, savingConfig, opens, edits>>
        /\ \E s \in {"ok", "failed"} : configCalls' = (configCalls \ {c}) \union {[c EXCEPT !.status = s]}
        /\ (config' = c.config /\ c.config.cron # NoSchedule) \/ config' = config
    BY <1>7 DEF ServeUpdate, Valid
  <2>2. PICK s \in {"ok", "failed"} : configCalls' = (configCalls \ {c}) \union {[c EXCEPT !.status = s]}
    BY <2>1
  <2> DEFINE d == [c EXCEPT !.status = s]
  <2>3. d \in ConfigCall /\ d.kind = c.kind /\ FilledIn(d.config)
    BY <1>4
  <2>4. configCalls' = (configCalls \ {c}) \union {d}
    BY <2>2
  <2> HIDE DEF d
  <2>5. /\ config' \in Configurations /\ FilledIn(config')
        /\ config'.rest = "of the form" => config'.cron \in Schedules
    BY <1>4, <1>5, <2>1 DEF FilledIn
  <2>6. QED
    BY <1>3, <2>1, <2>3, <2>4, <2>5
<1>8. QED
  BY <1>1, <1>2, <1>6, <1>7

LEMMA ConfigStep == ConfigInv /\ [ConfigNext]_configVars => ConfigInv'
<1> SUFFICES ASSUME ConfigInv, [ConfigNext]_configVars PROVE ConfigInv'
  OBVIOUS
<1>1. CASE UNCHANGED configVars
  BY <1>1 DEF configVars, ConfigInv, ConfigTypes, ConfigSavingOK, FilledOK, FilledIn,
              UnloadedFormRefused
<1>2. QED
  BY <1>1, ConfigUserStep, ConfigCallStep DEF ConfigNext

LEMMA ConfigInvariant == ConfigSpec => []ConfigInv
BY ConfigInitial, ConfigStep, PTL DEF ConfigSpec

\* The values the form starts with never replace the configuration without a schedule of the
\* user's, however openings, answers, edits and saves fall together.
THEOREM FormRefused == ConfigSpec => []UnloadedFormRefused
<1>1. ConfigInv => UnloadedFormRefused
  BY DEF ConfigInv, FilledOK
<1>2. QED
  BY <1>1, ConfigInvariant, PTL

\* The drawer keeps its types; saving says whether an update is under way.
THEOREM ConfigTyped == ConfigSpec => []ConfigTypeOK
<1>1. ConfigInv => ConfigTypeOK
  BY DEF ConfigInv, ConfigTypes, ConfigSavingOK, Panels, ConfigTypeOK
<1>2. QED
  BY <1>1, ConfigInvariant, PTL

---------------------------------------------------------------------------
(* The tasks of a record *)

TaskId0 == TaskIds \union {0}
TypedHeaders == SUBSET TaskId0
TaskRow == [trigger : Triggers, cert : BOOLEAN]
StoredTask == [trigger : Triggers, headers : TypedHeaders, cert : BOOLEAN]
SentTask == [trigger : Triggers, headers : TypedHeaders, purpose : RecordPurposes, cert : BOOLEAN]
TaskForm == [id : TaskId0, purpose : RecordPurposes, trigger : Triggers, headers : TypedHeaders,
             cert : BOOLEAN]
TaskLists == UNION {[D -> TaskRow] : D \in SUBSET TaskIds}
TaskStores == UNION {[D -> StoredTask] : D \in SUBSET TaskIds}
TaskKinds == {"list", "upsert", "run", "delete"}
PageCall == [n : Nat, kind : TaskKinds, status : {"sent", "ok", "failed"}, id : TaskId0,
             purpose : RecordPurposes, task : TaskLists \union SentTask]
TaskCounts == [opened : 0 .. MaxTaskForms, called : 0 .. MaxTaskCalls, changed : 0 .. MaxChanges]

TasksTypes ==
  /\ tasks \in TaskStores /\ purpose \in RecordPurposes /\ listed \in TaskLists
  /\ taskForm \in TaskForm /\ taskCalls \subseteq PageCall /\ taskCounts \in TaskCounts
  /\ \A c \in taskCalls : IF c.kind = "upsert" THEN c.task \in SentTask ELSE c.task \in TaskLists

\* One save at a time, and a drawer that closes at most twice.
TaskSavingOK ==
  /\ taskPanel \in Panels /\ savingTask \in BOOLEAN
  /\ savingTask => taskPanel.timers <= MaxSlides
  /\ savingTask <=> \E c \in taskCalls : c.kind = "upsert"
  /\ \A c, d \in taskCalls : c.kind = "upsert" /\ d.kind = "upsert" => c = d

\* The headers in the form and on the way were typed for the task they are sent for.
TypedFor(headers, id) == headers = {} \/ headers = {id}
HeadersOK ==
  /\ HeadersKept /\ TypedFor(taskForm.headers, taskForm.id)
  /\ \A c \in taskCalls : c.kind = "upsert" => TypedFor(c.task.headers, c.id)

TasksInv == TasksTypes /\ TaskSavingOK /\ HeadersOK

LEMMA TaskNumbers ==
  MaxTaskForms \in Nat /\ MaxTaskCalls \in Nat \ {0} /\ MaxChanges \in Nat
BY TaskBounds DEF TaskBounds

LEMMA NoTasks == <<>> \in TaskLists
<1>1. <<>> \in Seq(TaskRow) /\ Len(<<>>) = 0
  BY EmptySeq
<1>2. <<>> \in [1 .. 0 -> TaskRow]
  BY <1>1, LenProperties
<1>3. 1 .. 0 = {}
  OBVIOUS
<1>4. <<>> \in [{} -> TaskRow] /\ {} \in SUBSET TaskIds
  BY <1>2, <1>3
<1>5. QED
  BY <1>4 DEF TaskLists

LEMMA ListsAndStores ==
  /\ \A l \in TaskLists : DOMAIN l \subseteq TaskIds /\ \A i \in DOMAIN l : l[i] \in TaskRow
  /\ \A s \in TaskStores : DOMAIN s \subseteq TaskIds /\ \A i \in DOMAIN s : s[i] \in StoredTask
  /\ \A D \in SUBSET TaskIds : [D -> TaskRow] \subseteq TaskLists
  /\ \A D \in SUBSET TaskIds : [D -> StoredTask] \subseteq TaskStores
BY DEF TaskLists, TaskStores

LEMMA Normalized ==
  ASSUME NEW t \in Triggers, NEW p \in RecordPurposes PROVE NormalizeTrigger(t, p) \in Triggers
BY DEF NormalizeTrigger, TriggerOptions, Triggers, RecordPurposes

LEMMA TasksInitial == TasksInit => TasksInv
<1> SUFFICES ASSUME TasksInit PROVE TasksInv
  OBVIOUS
<1> DEFINE first == [trigger |-> "both", headers |-> {1}, cert |-> TRUE]
           call == [n |-> 0, kind |-> "list", status |-> "sent", id |-> 0, purpose |-> purpose,
                    task |-> <<>>]
<1>1. /\ tasks = [x \in {1} |-> first] /\ purpose \in RecordPurposes /\ listed = <<>>
      /\ taskPanel = NewDrawer /\ savingTask = FALSE /\ taskCalls = {call}
      /\ taskForm = [id |-> 0, purpose |-> "both", trigger |-> "ip", headers |-> {}, cert |-> FALSE]
      /\ taskCounts = [opened |-> 0, called |-> 1, changed |-> 0]
  BY DEF TasksInit
<1>2. first \in StoredTask /\ first.headers = {1} /\ {1} \in SUBSET TaskIds
  BY DEF StoredTask, Triggers, TypedHeaders, TaskId0, TaskIds
<1> HIDE DEF first
<1>3. tasks \in [{1} -> StoredTask] /\ tasks \in TaskStores
  BY <1>1, <1>2, ListsAndStores
<1>4. call \in PageCall /\ call.kind = "list" /\ call.task \in TaskLists
  BY <1>1, NoTasks DEF PageCall, TaskKinds, TaskId0
<1> HIDE DEF call
<1>5. taskForm \in TaskForm /\ TypedFor(taskForm.headers, taskForm.id)
  BY <1>1 DEF TaskForm, TaskId0, RecordPurposes, Triggers, TypedHeaders, TypedFor
<1>6. taskCounts \in TaskCounts
  BY <1>1, TaskNumbers DEF TaskCounts
<1>7. TasksTypes
  BY <1>1, <1>3, <1>4, <1>5, <1>6, NoTasks DEF TasksTypes
<1>8. TaskSavingOK
  BY <1>1, <1>4, FreshDrawer DEF TaskSavingOK
<1>9. HeadersOK
  <2>1. HeadersKept
    BY <1>1, <1>2, <1>3 DEF HeadersKept
  <2>2. QED
    BY <1>1, <1>4, <1>5, <2>1 DEF HeadersOK
<1>10. QED
  BY <1>7, <1>8, <1>9 DEF TasksInv

\* The page makes a call, in the place of one that is answered or besides all.
LEMMA TaskCallMade ==
  ASSUME TasksTypes, NEW others, others \subseteq taskCalls,
         NEW p \in RecordPurposes, NEW kind \in TaskKinds, NEW id \in TaskId0,
         NEW task, IF kind = "upsert" THEN task \in SentTask ELSE task \in TaskLists,
         CallFor(p, others, kind, id, task)
  PROVE  /\ taskCounts' \in TaskCounts /\ taskCalls' \subseteq PageCall
         /\ \A c \in taskCalls' : IF c.kind = "upsert" THEN c.task \in SentTask ELSE c.task \in TaskLists
         /\ \E call : /\ taskCalls' = others \union {call}
                      /\ call.kind = kind /\ call.id = id /\ call.task = task
<1> DEFINE call == [n |-> taskCounts.called, kind |-> kind, status |-> "sent", id |-> id,
                    purpose |-> p, task |-> task]
<1>1. /\ taskCounts.called < MaxTaskCalls /\ taskCalls' = others \union {call}
      /\ taskCounts' = [taskCounts EXCEPT !.called = taskCounts.called + 1]
  BY DEF CallFor
<1>2. taskCounts.called \in Nat /\ taskCounts.called + 1 \in 0 .. MaxTaskCalls
  BY <1>1, TaskNumbers DEF TasksTypes, TaskCounts
<1>3. taskCounts' \in TaskCounts
  BY <1>1, <1>2 DEF TasksTypes, TaskCounts
<1>4. call \in PageCall /\ call.kind = kind /\ call.id = id /\ call.task = task
  BY <1>2 DEF PageCall
<1> HIDE DEF call
<1>5. QED
  BY <1>1, <1>3, <1>4 DEF TasksTypes

\* Calls other than a save come and go.
LEMMA TaskSavingKept ==
  ASSUME TaskSavingOK, savingTask' = savingTask, taskPanel' \in Panels,
         savingTask => taskPanel'.timers <= MaxSlides,
         \A c : c.kind = "upsert" => (c \in taskCalls' <=> c \in taskCalls)
  PROVE  TaskSavingOK'
BY DEF TaskSavingOK

\* The form is opened and closed, and the fields changed.
LEMMA TaskFormStep ==
  ASSUME TasksInv,
         \/ AddTask \/ CloseTaskForm \/ TaskFormTimer \/ SwitchCert
         \/ \E t \in Triggers : ChooseTrigger(t)
         \/ \E headers \in {{}, {taskForm.id}} : ChangeHeaders(headers)
         \/ \E id \in TaskIds : EditTask(id)
  PROVE  TasksInv'
<1> TasksTypes /\ TaskSavingOK /\ HeadersOK
  BY DEF TasksInv
<1>1. ASSUME UNCHANGED <<tasks, purpose, listed, savingTask, taskCalls>>,
             taskPanel' \in Panels, savingTask => taskPanel'.timers <= MaxSlides,
             taskForm' \in TaskForm, TypedFor(taskForm'.headers, taskForm'.id),
             taskCounts' \in TaskCounts
      PROVE  TasksInv'
  <2>1. TasksTypes'
    BY <1>1 DEF TasksTypes
  <2>2. TaskSavingOK'
    BY <1>1, TaskSavingKept
  <2>3. HeadersOK'
    BY <1>1 DEF HeadersOK, HeadersKept
  <2>4. QED
    BY <2>1, <2>2, <2>3 DEF TasksInv
<1>2. ASSUME NEW id \in TaskId0, NEW t \in Triggers, NEW cert \in BOOLEAN, OpenForRecord(id, t, cert)
      PROVE  TasksInv'
  <2> DEFINE u == NormalizeTrigger(t, purpose)
  <2>1. /\ taskForm' = [id |-> id, purpose |-> purpose, trigger |-> u, headers |-> {},
                        cert |-> cert /\ SupportsCertificate(u)]
        /\ taskPanel' = OpenedDrawer(taskPanel) /\ taskCounts.opened < MaxTaskForms
        /\ taskCounts' = [taskCounts EXCEPT !.opened = taskCounts.opened + 1]
        /\ UNCHANGED <<tasks, purpose, listed, savingTask, taskCalls>>
    BY <1>2 DEF OpenForRecord
  <2>2. u \in Triggers
    BY Normalized DEF TasksTypes
  <2> HIDE DEF u
  <2>3. (cert /\ SupportsCertificate(u)) \in BOOLEAN
    BY DEF SupportsCertificate
  <2>4. taskForm' \in TaskForm /\ TypedFor(taskForm'.headers, taskForm'.id)
    BY <2>1, <2>2, <2>3 DEF TasksTypes, TaskForm, TypedHeaders, TypedFor
  <2>5. taskCounts' \in TaskCounts
    <3>1. taskCounts.opened + 1 \in 0 .. MaxTaskForms
      BY <2>1, TaskNumbers DEF TasksTypes, TaskCounts
    <3>2. QED
      BY <2>1, <3>1 DEF TasksTypes, TaskCounts
  <2>6. taskPanel' \in Panels /\ taskPanel'.timers = taskPanel.timers
    BY <2>1, DrawerOpens DEF TaskSavingOK
  <2>7. QED
    BY <1>1, <2>1, <2>4, <2>5, <2>6 DEF TaskSavingOK
<1>3. CASE AddTask
  <2>1. 0 \in TaskId0 /\ "ip" \in Triggers
    BY DEF TaskId0, Triggers
  <2>2. QED
    BY <1>2, <1>3, <2>1 DEF AddTask
<1>4. ASSUME NEW id \in TaskIds, EditTask(id) PROVE TasksInv'
  <2>1. id \in TaskId0 /\ listed[id].trigger \in Triggers /\ listed[id].cert \in BOOLEAN
        /\ OpenForRecord(id, listed[id].trigger, listed[id].cert)
    BY <1>4, ListsAndStores DEF EditTask, TaskId0, TaskRow, TasksTypes
  <2>2. QED
    BY <1>2, <2>1
<1>5. ASSUME CloseTaskForm \/ TaskFormTimer PROVE TasksInv'
  <2>1. taskPanel' \in Panels /\ taskPanel'.timers <= MaxSlides
    BY <1>5, DrawerInReach, DrawerFires DEF CloseTaskForm, TaskFormTimer, TaskSavingOK
  <2>2. UNCHANGED <<tasks, purpose, listed, taskForm, savingTask, taskCalls, taskCounts>>
    BY <1>5 DEF CloseTaskForm, TaskFormTimer
  <2>3. QED
    BY <1>1, <2>1, <2>2 DEF TasksTypes, HeadersOK
<1>6. ASSUME NEW changed \in TaskForm, TypedFor(changed.headers, changed.id), ChangeField(changed)
      PROVE  TasksInv'
  <2>1. /\ taskForm' = changed /\ taskCounts.changed < MaxChanges
        /\ taskCounts' = [taskCounts EXCEPT !.changed = taskCounts.changed + 1]
        /\ UNCHANGED <<tasks, purpose, listed, taskPanel, savingTask, taskCalls>>
    BY <1>6 DEF ChangeField
  <2>2. taskCounts' \in TaskCounts
    <3>1. taskCounts.changed + 1 \in 0 .. MaxChanges
      BY <2>1, TaskNumbers DEF TasksTypes, TaskCounts
    <3>2. QED
      BY <2>1, <3>1 DEF TasksTypes, TaskCounts
  <2>3. QED
    BY <1>1, <1>6, <2>1, <2>2 DEF TaskSavingOK
<1>7. taskForm \in TaskForm /\ TypedFor(taskForm.headers, taskForm.id)
  BY DEF TasksTypes, HeadersOK
<1>8. CASE SwitchCert
  <2> DEFINE changed == [taskForm EXCEPT !.cert = ~@]
  <2>1. changed \in TaskForm /\ changed.headers = taskForm.headers /\ changed.id = taskForm.id
    BY <1>7 DEF TaskForm
  <2>2. ChangeField(changed)
    BY <1>8 DEF SwitchCert
  <2> HIDE DEF changed
  <2>3. QED
    BY <1>6, <1>7, <2>1, <2>2
<1>9. ASSUME NEW t \in Triggers, ChooseTrigger(t) PROVE TasksInv'
  <2> DEFINE changed == [taskForm EXCEPT !.trigger = t]
  <2>1. changed \in TaskForm /\ changed.headers = taskForm.headers /\ changed.id = taskForm.id
    BY <1>7 DEF TaskForm
  <2>2. ChangeField(changed)
    BY <1>9 DEF ChooseTrigger
  <2> HIDE DEF changed
  <2>3. QED
    BY <1>6, <1>7, <2>1, <2>2
<1>10. ASSUME NEW headers \in {{}, {taskForm.id}}, ChangeHeaders(headers) PROVE TasksInv'
  <2> DEFINE changed == [taskForm EXCEPT !.headers = headers]
  <2>1. headers \in TypedHeaders
    BY <1>7 DEF TaskForm, TypedHeaders
  <2>2. changed \in TaskForm /\ changed.headers = headers /\ changed.id = taskForm.id
    BY <1>7, <2>1 DEF TaskForm
  <2>3. ChangeField(changed)
    BY <1>10 DEF ChangeHeaders
  <2> HIDE DEF changed
  <2>4. TypedFor(changed.headers, changed.id)
    BY <2>2 DEF TypedFor
  <2>5. QED
    BY <1>6, <2>2, <2>3, <2>4
<1>11. QED
  BY <1>3, <1>4, <1>5, <1>8, <1>9, <1>10

\* The page makes its calls and gets their answers.
LEMMA TaskCallStep ==
  ASSUME TasksInv,
         \/ SaveTask
         \/ \E id \in TaskIds : RunOrRemove("run", id) \/ RunOrRemove("delete", id)
         \/ \E p \in RecordPurposes : ChangePurpose(p)
         \/ \E c \in taskCalls : TaskSaved(c) \/ TaskDone(c) \/ TaskCallFailed(c) \/ ListTasks(c)
  PROVE  TasksInv'
<1> TasksTypes /\ TaskSavingOK /\ HeadersOK
  BY DEF TasksInv
<1> DEFINE Typed(c) == IF c.kind = "upsert" THEN c.task \in SentTask ELSE c.task \in TaskLists
           Mine(c) == c.kind = "upsert" => TypedFor(c.task.headers, c.id)
<1>1. ASSUME UNCHANGED <<tasks, taskForm>>, purpose' \in RecordPurposes, listed' \in TaskLists,
             taskCounts' \in TaskCounts, taskCalls' \subseteq PageCall,
             \A c \in taskCalls' : Typed(c) /\ Mine(c), TaskSavingOK'
      PROVE  TasksInv'
  <2>1. TasksTypes'
    BY <1>1 DEF TasksTypes
  <2>2. HeadersOK'
    BY <1>1 DEF HeadersOK, HeadersKept
  <2>3. QED
    BY <1>1, <2>1, <2>2 DEF TasksInv
<1>2. \A c \in taskCalls : Typed(c) /\ Mine(c)
  BY DEF TasksTypes, HeadersOK
<1>3. taskCalls \subseteq PageCall /\ purpose \in RecordPurposes /\ listed \in TaskLists
      /\ taskCounts \in TaskCounts
  BY DEF TasksTypes
<1> HIDE DEF Mine
<1>4. CASE SaveTask
  <2>1. /\ taskPanel.timers <= MaxSlides /\ savingTask = FALSE /\ savingTask' = TRUE
        /\ CallFor(purpose, taskCalls, "upsert", taskForm.id, Payload)
        /\ UNCHANGED <<tasks, purpose, listed, taskPanel, taskForm>>
    BY <1>4, DrawerInReach DEF SaveTask, TaskCall, TaskSavingOK
  <2> DEFINE t == NormalizeTrigger(taskForm.trigger, taskForm.purpose)
  <2>2. taskForm \in TaskForm /\ t \in Triggers
    BY Normalized DEF TasksTypes, TaskForm
  <2>3. Payload = [trigger |-> t, headers |-> taskForm.headers, purpose |-> taskForm.purpose,
                   cert |-> taskForm.cert /\ SupportsCertificate(t)]
    BY DEF Payload
  <2> HIDE DEF t
  <2>4. (taskForm.cert /\ SupportsCertificate(t)) \in BOOLEAN
    BY DEF SupportsCertificate
  <2>5. Payload \in SentTask /\ Payload.headers = taskForm.headers
    BY <2>2, <2>3, <2>4 DEF TaskForm, SentTask
  <2>6. taskForm.id \in TaskId0 /\ "upsert" \in TaskKinds
    BY <2>2 DEF TaskForm, TaskKinds
  <2>7. /\ taskCounts' \in TaskCounts /\ taskCalls' \subseteq PageCall
        /\ \A c \in taskCalls' : Typed(c)
        /\ \E call : /\ taskCalls' = taskCalls \union {call}
                     /\ call.kind = "upsert" /\ call.id = taskForm.id /\ call.task = Payload
    BY <1>3, <2>1, <2>5, <2>6, TaskCallMade
  <2>8. PICK call : /\ taskCalls' = taskCalls \union {call}
                    /\ call.kind = "upsert" /\ call.id = taskForm.id /\ call.task = Payload
    BY <2>7
  <2>9. Mine(call)
    BY <2>5, <2>8 DEF Mine, HeadersOK
  <2>10. TaskSavingOK'
    BY <2>1, <2>8 DEF TaskSavingOK
  <2>11. \A c \in taskCalls' : Typed(c) /\ Mine(c)
    BY <1>2, <2>7, <2>8, <2>9
  <2>12. QED
    BY <1>1, <1>3, <2>1, <2>7, <2>10, <2>11
\* A call that is not a save, in the place of others that are answered.
<1>5. ASSUME NEW others, others \subseteq taskCalls, NEW p \in RecordPurposes,
             NEW kind \in TaskKinds \ {"upsert"}, NEW id \in TaskId0, CallFor(p, others, kind, id, <<>>)
      PROVE  /\ taskCounts' \in TaskCounts /\ taskCalls' \subseteq PageCall
             /\ \A c \in taskCalls' : Typed(c) /\ Mine(c)
             /\ \A c : c.kind = "upsert" => (c \in taskCalls' <=> c \in others)
  <2> DEFINE none == <<>>
  <2>0. none \in TaskLists /\ CallFor(p, others, kind, id, none) /\ kind \in TaskKinds
        /\ kind # "upsert"
    BY <1>5, NoTasks
  <2> HIDE DEF none
  <2>1. /\ taskCounts' \in TaskCounts /\ taskCalls' \subseteq PageCall
        /\ \A c \in taskCalls' : Typed(c)
        /\ \E call : /\ taskCalls' = others \union {call}
                     /\ call.kind = kind /\ call.id = id /\ call.task = none
    <3>1. IF kind = "upsert" THEN none \in SentTask ELSE none \in TaskLists
      BY <2>0
    <3>2. others \subseteq taskCalls
      BY <1>5
    <3>3. QED
      BY <2>0, <3>1, <3>2, TaskCallMade
  <2>2. PICK call : taskCalls' = others \union {call} /\ call.kind = kind
    BY <2>1
  <2>3. Mine(call)
    BY <2>2 DEF Mine
  <2>4. QED
    BY <1>2, <1>5, <2>1, <2>2, <2>3
<1>6. "list" \in TaskKinds \ {"upsert"} /\ "run" \in TaskKinds \ {"upsert"}
      /\ "delete" \in TaskKinds \ {"upsert"} /\ 0 \in TaskId0
      /\ \A c \in taskCalls : taskCalls \ {c} \subseteq taskCalls
  BY DEF TaskKinds, TaskId0
<1>7. ASSUME NEW id \in TaskIds, NEW kind \in {"run", "delete"}, RunOrRemove(kind, id) PROVE TasksInv'
  <2>1. /\ CallFor(purpose, taskCalls, kind, id, <<>>)
        /\ UNCHANGED <<tasks, purpose, listed, taskPanel, taskForm, savingTask>>
    BY <1>7 DEF RunOrRemove, TaskCall
  <2>2. id \in TaskId0 /\ kind \in TaskKinds \ {"upsert"}
    BY <1>6, <1>7 DEF TaskId0
  <2>3. /\ taskCounts' \in TaskCounts /\ taskCalls' \subseteq PageCall
        /\ \A c \in taskCalls' : Typed(c) /\ Mine(c)
        /\ \A c : c.kind = "upsert" => (c \in taskCalls' <=> c \in taskCalls)
    BY <1>3, <1>5, <2>1, <2>2
  <2>4. TaskSavingOK'
    BY <2>1, <2>3, TaskSavingKept DEF TaskSavingOK
  <2>5. QED
    BY <1>1, <1>3, <2>1, <2>3, <2>4
<1>8. ASSUME NEW p \in RecordPurposes, ChangePurpose(p) PROVE TasksInv'
  <2>1. /\ purpose' = p /\ CallFor(p, taskCalls, "list", 0, <<>>)
        /\ UNCHANGED <<tasks, listed, taskPanel, taskForm, savingTask>>
    BY <1>8 DEF ChangePurpose
  <2>2. /\ taskCounts' \in TaskCounts /\ taskCalls' \subseteq PageCall
        /\ \A c \in taskCalls' : Typed(c) /\ Mine(c)
        /\ \A c : c.kind = "upsert" => (c \in taskCalls' <=> c \in taskCalls)
    BY <1>5, <1>6, <2>1
  <2>3. TaskSavingOK'
    BY <2>1, <2>2, TaskSavingKept DEF TaskSavingOK
  <2>4. QED
    BY <1>1, <1>3, <2>1, <2>2, <2>3
<1>9. ASSUME NEW c \in taskCalls, c.kind = "upsert"
      PROVE  /\ savingTask /\ taskPanel \in Panels /\ taskPanel.timers <= MaxSlides
             /\ \A d \in taskCalls \ {c} : d.kind # "upsert"
  BY <1>9 DEF TaskSavingOK
<1>10. ASSUME NEW c \in taskCalls, TaskSaved(c) PROVE TasksInv'
  <2>1. /\ c.kind = "upsert" /\ savingTask' = FALSE /\ taskPanel' = ClosingDrawer(taskPanel)
        /\ CallFor(purpose, taskCalls \ {c}, "list", 0, <<>>)
        /\ UNCHANGED <<tasks, purpose, listed, taskForm>>
    BY <1>10 DEF TaskSaved, TaskCall
  <2> DEFINE others == taskCalls \ {c}
  <2>2. others \subseteq taskCalls /\ CallFor(purpose, others, "list", 0, <<>>)
        /\ \A d \in others : d.kind # "upsert"
    BY <1>9, <2>1
  <2> HIDE DEF others
  <2>3. /\ taskCounts' \in TaskCounts /\ taskCalls' \subseteq PageCall
        /\ \A x \in taskCalls' : Typed(x) /\ Mine(x)
        /\ \A x : x.kind = "upsert" => (x \in taskCalls' <=> x \in others)
    BY <1>3, <1>5, <1>6, <2>2
  <2>4. taskPanel' \in Panels
    BY <1>9, <2>1, DrawerCloses
  <2>5. TaskSavingOK'
    BY <2>1, <2>2, <2>3, <2>4 DEF TaskSavingOK
  <2>6. QED
    BY <1>1, <1>3, <2>1, <2>3, <2>5
<1>11. ASSUME NEW c \in taskCalls, TaskDone(c) PROVE TasksInv'
  <2>1. /\ c.kind # "upsert" /\ CallFor(purpose, taskCalls \ {c}, "list", 0, <<>>)
        /\ UNCHANGED <<tasks, purpose, listed, taskPanel, taskForm, savingTask>>
    BY <1>11 DEF TaskDone, TaskCall
  <2> DEFINE others == taskCalls \ {c}
  <2>2. others \subseteq taskCalls /\ CallFor(purpose, others, "list", 0, <<>>)
        /\ \A x : x.kind = "upsert" => (x \in others <=> x \in taskCalls)
    BY <2>1
  <2> HIDE DEF others
  <2>3. /\ taskCounts' \in TaskCounts /\ taskCalls' \subseteq PageCall
        /\ \A x \in taskCalls' : Typed(x) /\ Mine(x)
        /\ \A x : x.kind = "upsert" => (x \in taskCalls' <=> x \in taskCalls)
    BY <1>3, <1>5, <1>6, <2>2
  <2>4. TaskSavingOK'
    BY <2>1, <2>3, TaskSavingKept DEF TaskSavingOK
  <2>5. QED
    BY <1>1, <1>3, <2>1, <2>3, <2>4
<1>12. ASSUME NEW c \in taskCalls, TaskCallFailed(c) PROVE TasksInv'
  <2>1. /\ taskCalls' = taskCalls \ {c}
        /\ savingTask' = IF c.kind = "upsert" THEN FALSE ELSE savingTask
        /\ UNCHANGED <<tasks, purpose, listed, taskPanel, taskForm, taskCounts>>
    BY <1>12 DEF TaskCallFailed
  <2>2. TaskSavingOK'
    <3>1. CASE c.kind = "upsert"
      <4>1. savingTask' = FALSE /\ \A d \in taskCalls' : d.kind # "upsert"
        BY <1>9, <2>1, <3>1
      <4>2. QED
        BY <2>1, <4>1 DEF TaskSavingOK
    <3>2. CASE c.kind # "upsert"
      <4>1. savingTask' = savingTask
            /\ \A x : x.kind = "upsert" => (x \in taskCalls' <=> x \in taskCalls)
        BY <2>1, <3>2
      <4>2. QED
        BY <2>1, <4>1, TaskSavingKept DEF TaskSavingOK
    <3>3. QED
      BY <3>1, <3>2
  <2>3. taskCalls' \subseteq PageCall /\ \A x \in taskCalls' : Typed(x) /\ Mine(x)
    BY <1>2, <1>3, <2>1
  <2>4. QED
    BY <1>1, <1>3, <2>1, <2>2, <2>3
<1>13. ASSUME NEW c \in taskCalls, ListTasks(c) PROVE TasksInv'
  <2> DEFINE kept == {j \in DOMAIN c.task : TaskMatches(c.task[j].trigger, c.purpose)}
  <2>1. /\ c.kind = "list" /\ taskCalls' = taskCalls \ {c}
        /\ listed' = [i \in kept |-> c.task[i]]
        /\ UNCHANGED <<tasks, purpose, taskPanel, taskForm, savingTask, taskCounts>>
    BY <1>13 DEF ListTasks
  <2>2. c.task \in TaskLists
    BY <1>2, <2>1
  <2>3. kept \subseteq DOMAIN c.task /\ DOMAIN c.task \subseteq TaskIds
        /\ \A i \in DOMAIN c.task : c.task[i] \in TaskRow
    BY <2>2, ListsAndStores
  <2> HIDE DEF kept
  <2>4. listed' \in [kept -> TaskRow] /\ kept \in SUBSET TaskIds
    BY <2>1, <2>3
  <2>5. listed' \in TaskLists
    BY <2>4, ListsAndStores
  <2>6. \A x : x.kind = "upsert" => (x \in taskCalls' <=> x \in taskCalls)
    BY <2>1
  <2>7. TaskSavingOK'
    BY <2>1, <2>6, TaskSavingKept DEF TaskSavingOK
  <2>8. taskCalls' \subseteq PageCall /\ \A x \in taskCalls' : Typed(x) /\ Mine(x)
    BY <1>2, <1>3, <2>1
  <2>9. QED
    BY <1>1, <1>3, <2>1, <2>5, <2>7, <2>8
<1>14. QED
  BY <1>4, <1>7, <1>8, <1>10, <1>11, <1>12, <1>13

\* What the server stores is typed, and so are the headers of every task.
LEMMA TaskStored ==
  ASSUME TasksInv, NEW i \in TaskIds, NEW t \in StoredTask, tasks' = WithTask(i, t),
         t.headers = {i} \/ (i # 1 /\ t.headers \in {{}, {0}})
  PROVE  tasks' \in TaskStores /\ HeadersKept'
<1> TasksTypes /\ HeadersKept
  BY DEF TasksInv, HeadersOK
<1> DEFINE D == DOMAIN tasks \union {i}
<1>1. tasks' = [j \in D |-> IF j = i THEN t ELSE tasks[j]]
  BY DEF WithTask
<1>2. D \in SUBSET TaskIds /\ \A j \in D : j = i \/ j \in DOMAIN tasks
  BY ListsAndStores DEF TasksTypes
<1>3. \A j \in DOMAIN tasks : tasks[j] \in StoredTask
  BY ListsAndStores DEF TasksTypes
<1> HIDE DEF D
<1>4. tasks' \in [D -> StoredTask]
  BY <1>1, <1>2, <1>3
<1>5. tasks' \in TaskStores
  BY <1>2, <1>4, ListsAndStores
<1>6. \A j \in DOMAIN tasks' : (tasks'[j] = t /\ j = i) \/ (tasks'[j] = tasks[j] /\ j \in DOMAIN tasks)
  BY <1>1, <1>2
<1>7. HeadersKept'
  BY <1>6 DEF HeadersKept
<1>8. QED
  BY <1>5, <1>7

\* A call is answered: it stays one of its kind, for its task.
LEMMA TaskAnswered ==
  ASSUME TasksInv, NEW c \in taskCalls, NEW status \in {"ok", "failed"}, NEW task,
         TaskAnswer(c, status, task),
         IF c.kind = "upsert" THEN task = c.task ELSE task \in TaskLists,
         tasks' \in TaskStores, HeadersKept',
         UNCHANGED <<purpose, listed, taskPanel, taskForm, savingTask, taskCounts>>
  PROVE  TasksInv'
<1> TasksTypes /\ TaskSavingOK /\ HeadersOK
  BY DEF TasksInv
<1> DEFINE d == [c EXCEPT !.status = status, !.task = task]
<1>1. taskCalls' = (taskCalls \ {c}) \union {d}
  BY DEF TaskAnswer
<1>2. c \in PageCall /\ (IF c.kind = "upsert" THEN c.task \in SentTask ELSE c.task \in TaskLists)
  BY DEF TasksTypes
<1>3. d \in PageCall /\ d.kind = c.kind /\ d.id = c.id /\ d.task = task
  BY <1>2 DEF PageCall
<1> HIDE DEF d
<1>4. taskCalls' \subseteq PageCall
      /\ \A x \in taskCalls' : IF x.kind = "upsert" THEN x.task \in SentTask ELSE x.task \in TaskLists
  BY <1>1, <1>2, <1>3 DEF TasksTypes
<1>5. TasksTypes'
  BY <1>4 DEF TasksTypes
<1>6. TaskSavingOK'
  <2>1. (\E x \in taskCalls' : x.kind = "upsert") <=> (\E x \in taskCalls : x.kind = "upsert")
    BY <1>1, <1>3
  <2>2. \A x, y \in taskCalls' : x.kind = "upsert" /\ y.kind = "upsert" => x = y
    BY <1>1, <1>3 DEF TaskSavingOK
  <2>3. QED
    BY <2>1, <2>2 DEF TaskSavingOK
<1>7. \A x \in taskCalls' : x.kind = "upsert" => TypedFor(x.task.headers, x.id)
  BY <1>1, <1>3 DEF HeadersOK
<1>8. HeadersOK'
  BY <1>7 DEF HeadersOK
<1>9. QED
  BY <1>5, <1>6, <1>8 DEF TasksInv

\* The server handles a call.
LEMMA TaskServed == ASSUME TasksInv, NEW c \in taskCalls, ServeTask(c) PROVE TasksInv'
<1> TasksTypes /\ TaskSavingOK /\ HeadersOK
  BY DEF TasksInv
<1>1. UNCHANGED <<purpose, listed, taskPanel, taskForm, savingTask, taskCounts>>
  BY DEF ServeTask
<1>2. c \in PageCall /\ (IF c.kind = "upsert" THEN c.task \in SentTask ELSE c.task \in TaskLists)
      /\ (c.kind = "upsert" => TypedFor(c.task.headers, c.id))
  BY DEF TasksTypes, HeadersOK
<1>3. tasks \in TaskStores /\ HeadersKept /\ DOMAIN tasks \subseteq TaskIds
      /\ \A i \in DOMAIN tasks : tasks[i] \in StoredTask
  BY ListsAndStores DEF TasksTypes, HeadersOK
<1>4. CASE TaskAnswer(c, "failed", c.task) /\ UNCHANGED tasks
  <2>1. tasks' \in TaskStores /\ HeadersKept'
    BY <1>3, <1>4 DEF HeadersKept
  <2>2. QED
    BY <1>1, <1>2, <1>4, <2>1, TaskAnswered
<1>5. ASSUME c.kind = "upsert" PROVE c.task \in SentTask /\ TypedFor(c.task.headers, c.id)
  BY <1>2, <1>5
<1>6. CASE /\ c.kind = "upsert" /\ c.id \in DOMAIN tasks
           /\ tasks' = WithTask(c.id, Upserted(c))
           /\ TaskAnswer(c, "ok", c.task)
  <2>1. c.id \in TaskIds /\ c.id # 0 /\ tasks[c.id] \in StoredTask
    BY <1>3, <1>6 DEF TaskIds
  <2>2. Upserted(c) = [trigger |-> c.task.trigger, cert |-> c.task.cert,
                       headers |-> IF c.task.headers = {} THEN tasks[c.id].headers ELSE c.task.headers]
    BY <2>1 DEF Upserted
  <2>3. Upserted(c) \in StoredTask
    BY <1>5, <1>6, <2>1, <2>2 DEF SentTask, StoredTask
  <2>4. \/ Upserted(c).headers = {c.id}
        \/ c.id # 1 /\ Upserted(c).headers \in {{}, {0}}
    BY <1>3, <1>5, <1>6, <2>2 DEF TypedFor, HeadersKept
  <2>5. tasks' \in TaskStores /\ HeadersKept'
    BY <1>6, <2>1, <2>3, <2>4, TaskStored
  <2>6. QED
    BY <1>1, <1>6, <2>5, TaskAnswered
<1>7. CASE /\ c.kind = "upsert" /\ c.id = 0
           /\ \E i \in TaskIds \ (DOMAIN tasks \cup {1}) : tasks' = WithTask(i, Upserted(c))
           /\ TaskAnswer(c, "ok", c.task)
  <2>1. PICK i \in TaskIds : i # 1 /\ tasks' = WithTask(i, Upserted(c))
    BY <1>7
  <2>2. Upserted(c) = [trigger |-> c.task.trigger, cert |-> c.task.cert, headers |-> c.task.headers]
    BY <1>7 DEF Upserted
  <2>3. Upserted(c) \in StoredTask
    BY <1>5, <1>7, <2>2 DEF SentTask, StoredTask
  <2>4. Upserted(c).headers \in {{}, {0}}
    BY <1>5, <1>7, <2>2 DEF TypedFor
  <2>5. tasks' \in TaskStores /\ HeadersKept'
    BY <2>1, <2>3, <2>4, TaskStored
  <2>6. QED
    BY <1>1, <1>7, <2>5, TaskAnswered
<1>8. CASE /\ c.kind = "list"
           /\ TaskAnswer(c, "ok", [i \in DOMAIN tasks |-> [trigger |-> tasks[i].trigger, cert |-> tasks[i].cert]])
           /\ UNCHANGED tasks
  <2> DEFINE l == [i \in DOMAIN tasks |-> [trigger |-> tasks[i].trigger, cert |-> tasks[i].cert]]
  <2>1. l \in [DOMAIN tasks -> TaskRow]
    BY <1>3 DEF StoredTask, TaskRow
  <2>2. l \in TaskLists /\ TaskAnswer(c, "ok", l)
    BY <1>3, <1>8, <2>1, ListsAndStores
  <2> HIDE DEF l
  <2>3. tasks' \in TaskStores /\ HeadersKept'
    BY <1>3, <1>8 DEF HeadersKept
  <2>4. QED
    BY <1>1, <1>8, <2>2, <2>3, TaskAnswered
<1>9. CASE /\ c.kind = "run" /\ c.id \in DOMAIN tasks
           /\ TaskAnswer(c, "ok", <<>>) /\ UNCHANGED tasks
  <2>1. tasks' \in TaskStores /\ HeadersKept'
    BY <1>3, <1>9 DEF HeadersKept
  <2>2. QED
    BY <1>1, <1>9, <2>1, NoTasks, TaskAnswered
<1>10. CASE /\ c.kind = "delete"
            /\ tasks' = [i \in DOMAIN tasks \ {c.id} |-> tasks[i]]
            /\ TaskAnswer(c, "ok", <<>>)
  <2> DEFINE D == DOMAIN tasks \ {c.id}
  <2>1. D \in SUBSET TaskIds /\ D \subseteq DOMAIN tasks /\ tasks' = [i \in D |-> tasks[i]]
    BY <1>3, <1>10
  <2> HIDE DEF D
  <2>2. tasks' \in [D -> StoredTask]
    BY <1>3, <2>1
  <2>3. tasks' \in TaskStores
    BY <2>1, <2>2, ListsAndStores
  <2>4. HeadersKept'
    BY <1>3, <2>1 DEF HeadersKept
  <2>5. QED
    BY <1>1, <1>10, <2>3, <2>4, NoTasks, TaskAnswered
<1>11. QED
  BY <1>4, <1>6, <1>7, <1>8, <1>9, <1>10 DEF ServeTask

LEMMA TasksStep == TasksInv /\ [TasksNext]_taskVars => TasksInv'
<1> SUFFICES ASSUME TasksInv, [TasksNext]_taskVars PROVE TasksInv'
  OBVIOUS
<1>1. CASE \/ AddTask \/ CloseTaskForm \/ TaskFormTimer \/ SwitchCert
           \/ \E t \in Triggers : ChooseTrigger(t)
           \/ \E headers \in {{}, {taskForm.id}} : ChangeHeaders(headers)
           \/ \E id \in TaskIds : EditTask(id)
  BY <1>1, TaskFormStep
<1>2. CASE \/ SaveTask
           \/ \E id \in TaskIds : RunOrRemove("run", id) \/ RunOrRemove("delete", id)
           \/ \E p \in RecordPurposes : ChangePurpose(p)
           \/ \E c \in taskCalls : TaskSaved(c) \/ TaskDone(c) \/ TaskCallFailed(c) \/ ListTasks(c)
  BY <1>2, TaskCallStep
<1>3. CASE \E c \in taskCalls : ServeTask(c)
  BY <1>3, TaskServed
<1>4. CASE UNCHANGED taskVars
  BY <1>4 DEF taskVars, TasksInv, TasksTypes, TaskSavingOK, HeadersOK, HeadersKept
<1>5. QED
  BY <1>1, <1>2, <1>3, <1>4 DEF TasksNext

LEMMA TasksInvariant == TasksSpec => []TasksInv
BY TasksInitial, TasksStep, PTL DEF TasksSpec

\* A task keeps its headers, which the page never sees, through edits that type none, and never
\* gets those typed for another, however many forms are opened, left and saved.
THEOREM HeadersStay == TasksSpec => []HeadersKept
<1>1. TasksInv => HeadersKept
  BY DEF TasksInv, HeadersOK
<1>2. QED
  BY <1>1, TasksInvariant, PTL

\* The page and the form keep their types; saving says whether a save is under way.
THEOREM TasksTyped == TasksSpec => []TasksTypeOK
<1>1. ASSUME TasksInv PROVE TasksTypeOK
  <2>1. DOMAIN tasks \subseteq TaskIds /\ DOMAIN listed \subseteq TaskIds
    BY <1>1, ListsAndStores DEF TasksInv, TasksTypes
  <2>2. QED
    BY <1>1, <2>1 DEF TasksInv, TasksTypes, TaskSavingOK, Panels, TaskForm, TaskId0, TypedHeaders,
                      TaskCounts, TasksTypeOK
<1>2. QED
  BY <1>1, TasksInvariant, PTL
=============================================================================
