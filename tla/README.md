# HDNS in TLA+

HDNS is a dynamic-DNS and certificate daemon for zones hosted at Hetzner: a Go backend, a Go
worker that installs certificates on target machines, and an Angular frontend.  This directory
holds TLA+ models of its concurrent core and of the browser client, TLC configurations that check them on small instances,
and TLAPS proofs of what holds for every instance.

Run everything from this directory: `tlc -workers 2 -config X.cfg M` for a run of `PROJECT.json`,
`tlapm M.tla` for the proofs of each module named `...Proofs`.

## 1. Inventory

| Part | Code | State | Operations | What is hard |
|---|---|---|---|---|
| Certificates | `backend/pkg/dns/certificate.go` | `sync.Map pending`, tables `certificates`, `certificate_jobs`, four PEM files per record | StartIssuance, RenewCertificates, runIssuance | manual and scheduled issuance of one record, deletion under an open order, statements and writes that fail, restarts |
| ACME | `dns/acme.go`, TXT part of `dns/hetzner.go` | `account.key`, `account.json`, TXT RRsets, values of each provider | obtainCertificate, Present, CleanUp | concurrent orders share an account and may share an RRset; files torn by a crash |
| Dynamic DNS | `dns/address.go`, `dns/service.go`, `dns/hetzner.go` | tables `addresses`, `records`; A RRsets | UpdateAddress, Refresh, RefreshRecord, UpdateRecord, DeleteRecord | cron and API interleave statement by statement; Hetzner and database are updated separately |
| Consensus | `dns/address.go:103-189` | none | resolveWithConsensus, pickConsensusCandidate | thresholds, ties, too few answers |
| Tasks | `tasks/task.go` | `tasks`, `task_runs` | FireTasks, RunTask, loadCertificateMaterial | files read one by one while they are replaced; runs left open |
| Mail | `mail/mail.go` | manager, `lastSentAt` | Start, Stop, Restart, SendReport | cooldown stamped before the send; manager used after the unlock |
| Configuration, scheduler | `config/config.go`, `cmd/main.go`, `dns/service.go:19-52` | configuration, cron entries | UpdateConfig, OnChange, Restart | lost updates, concurrent restarts |
| API | `web/api/*.go` | none of its own | record, address, certificate, task, zone, log handlers | the callers of all of the above |
| Database | `database/*.go`, `migrations/*.sql` | schema | Setup, migrations, queries | keys and foreign keys act as guards |
| DNS lookup | `dns/resolver.go` | none | Resolve | fan-out with a timeout |
| Worker | `worker/pkg/*` | certificate files, services | webhook, Execute, save, restartService, FortiOS upload | concurrent webhooks, chains that stop half way |
| Frontend streams | `services/api/api.service.ts`, `address-card`, `app.ts`, `log-drawer`, `pages/overview` (all under `frontend/src/app`) | signals, one reconnecting websocket per stream | stream, send, close; open, cleanupStream; startResolve, stopResolve | reconnections, messages lost without a socket, pages left while calls are under way |
| Frontend notifications | `services/notify/notify.service.ts`, loading interceptor, containers | stack of messages, request counter | message, error, loading, dismiss | timers of messages that are gone, overlapping requests |
| Frontend tables and forms | `records-table`, `record-form`, `config`, `task-form` drawers, `components/drawer` | forms, signals, calls under way | load, save, issue, poll, open, close | answers in any order, one form for many records, drawers reopened while they slide out |
| Frontend messages | `global/model/api.ts` | none | encode, decode, toJSON, fromJSON | unknown fields, nested lengths, 64-bit numbers |

How the parts meet: the cron entries `ddns-refresh` and `cert-renew` and the API handlers call
`dns`; `dns` writes the tables, calls Hetzner and the CA, and fires tasks; a task reads the PEM
files and posts them to a worker; `Refresh` ends in a mail report; a configuration change restarts
the scheduler, the mail manager or the web server.  The browser client calls the API with one POST
per method and follows addresses, log lines and DNS answers on websockets, whose server side starts
a handler with the first message of a connection.  `database.HDNS().Query(f)` puts the statements
of `f` under one error but in no transaction, so in every model each SQL statement is a step.

What makes each part correct: one issuance per record at a time, files and row of a certificate
agree, a slot is always given back, due certificates are renewed (certificates); a challenge is
published when it is validated and removed afterwards, key and registration match (ACME); one
current address, records follow the public address, every update is announced to the IP tasks
(dynamic DNS); the answer with the required agreement wins (consensus); every run is closed
(tasks); at most one mail per severity and window, failures never delayed (mail); the running
schedule is that of the last configuration (configuration); a service runs on the files of one
delivery (worker); a page holds one stream, shows what is current after any reconnection, and saves
what belongs to the record its form shows (frontend).  The list of hazards with their lines is in `PROJECT.json`.

## 2. Modules

| Module | Models | EXTENDS / instance of |
|---|---|---|
| `IssuancePromise` | what readers of a certificate may rely on: slots and installed certificates | - |
| `AddressPromise` | what readers of a record may rely on: known addresses, and IP tasks owed and paid | - |
| `StreamPromise` | what the reader of a streaming page may rely on: one stream at a time | - |
| `CertIssuance` | certificates, jobs, files, slots, the certificate trigger | implements `IssuancePromise` |
| `CertIssuanceProofs` | theorems about slots, jobs and the refinement | `CertIssuance`, `TLAPS` |
| `CertMaterialProofs` | theorems about files, rows and deliveries of `CertIssuance` | `CertIssuanceProofs` |
| `AcmeOrder` | the inside of `obtainCertificate`, which `CertIssuance` has as `ObtainOk`/`ObtainFail` | - |
| `AcmeOrderProofs` | theorems about `AcmeOrder` | `AcmeOrder`, `TLAPS` |
| `DdnsRefresh` | addresses, records, A RRsets, the IP trigger | implements `AddressPromise` |
| `DdnsRefreshProofs` | theorems about `DdnsRefresh` | `DdnsRefresh`, `TLAPS` |
| `AddressConsensus` | the votes of the resolvers and the choice among them | - |
| `ConfigServices` | a configuration change and the restarts it starts | - |
| `MailReports` | the mails about refreshes: settings, cooldown, sending | - |
| `TaskDelivery` | one webhook task from trigger to restarted service, in HDNS and in the worker | - |
| `ServicesProofs` | theorems about the four modules above | these four, `TLAPS` |
| `ApiStream` | a reconnecting websocket stream, as a value with operators | - |
| `Filter` | `Array.prototype.filter` | - |
| `Drawer` | the side panel of every form, as a value with operators | - |
| `AddressStreams` | address card and toolbar with `StreamAddress` | `ApiStream` |
| `LogDrawer` | the log drawer with `StreamLog` | `ApiStream`, `Drawer`; implements `StreamPromise` |
| `RecordOverview` | the overview page's record and resolve stream | `ApiStream`, `Filter`; implements `StreamPromise` |
| `Notifications` | messages, their timers, the loading bar | `Filter` |
| `StreamsProofs` | theorems about the four pages above | `MCFrontendStreams`, `TLAPS` |
| `RecordForm` | the record form with `GetZones`, `UpsertRecord` | `Drawer` |
| `RecordsTable` | the records table with lookups, issuing and polling | - |
| `ConfigDrawer` | the configuration drawer with `GetConfig`, `UpdateConfig` | `Drawer` |
| `RecordTasks` | the overview page's tasks, the task form and the task handlers | `Drawer` |
| `FormsProofs` | theorems about the four forms and tables above | these four, `TLAPS` |
| `CompositionProofs` | theorems about the composition of forms, tables and services | `MCFormsServices`, `FormsProofs`, `ServicesProofs` |
| `ApiMessages` | schema and codec of the RPC messages | - |
| `MCCertIssuance`, `MCAcmeOrder`, `MCDdnsRefresh`, `MCRecordForm` | instances for TLC | the module after `MC` |
| `MCFrontendStreams`, `MCFormsServices` | several modules in one run (see Runs) | the modules they check |
| `MCFormsMessages` | the run `forms_services`, with the codec beside the parts | `MCFormsServices`, `ApiMessages` |

An action is named after the function it models, or after the statement where a function is
several steps.  A definition marked `mutant:` in its comment is not part of a specification: it is
the form of the next definition with a plausible bug, used to test that a property can fail.

### CertIssuance

A process is a goroutine; `pc` is the next statement it runs.  `pending` is the `sync.Map`,
`cert` and `job` the two tables (`due`: `not_after` lies in the renewal window), `files[d]` the four
files of a directory, each the id of the job that wrote it.  `StartIssuance` / `RenewCertificates` /
`RenewPick` are the entry points; `Reserve` is `pending.LoadOrStore`; `Prepare`, `Ensure`,
`CreateJob`, `ObtainOk`, `WriteFile`, `Persist`, `CloseOk`, `FireTasks`, `ReadFile`, `Deliver`,
`Release` follow `runIssuance` and the functions it calls, with a failing form wherever the code
has an error path.  The environment deletes records (rows cascade), changes purposes, toggles ACME
and restarts the process; a restart empties `pending` and forgets the goroutines.  `orphan` and
`torn` are history variables: jobs whose closing statement never ran, and records whose files or
failure mark were cut off by a fault.

### AcmeOrder

Issuers are records whose slot is taken.  `loadOrCreateUser` and `newACMEClient` are seven steps
because `os.WriteFile` truncates before it writes; a key is named by the issuer that generated it.
`todo` holds the challenges left in the present, solve and clean-up phase of the lego library,
`values` is `provider.values`, `txt` the RRsets.  `upsertTXTRecord` looks up and then creates or
overwrites, so it may be refused.  The order of the phases, and that clean-up runs after every
failure, is lego's (external); `Solve` is the CA's.

### DdnsRefresh

`stored` and `current` are the rows of `addresses` (by pair, ids are not told apart), `link` is
`records.address_id`, `rrset` the A RRset at Hetzner.  `Resolve` .. `Reselect` are `UpdateAddress`;
`ListRecords` .. `EndRefresh` are `Refresh`; `FetchRecord`, `FindRRSet`, `PutRRSet`, `SaveLink`,
`FireTasks` are one record; `kind` says which caller runs them.  The record list of `Refresh` is
the snapshot the code takes.  AAAA records do not exist in the code; IPv6 only takes part in the
pair.  History variables: `silent` (updated, not announced since), `lost` (the update met a fault),
`onRequest` (last updated by the API's RefreshRecord), `overlapped` (two UpdateAddress calls ran at
the same time).

### The browser client

`ApiStream` is what `ApiService.stream` returns: its phase, what waits to be sent, the request the
server has, and what is on the wire.  Each page's module holds such values (`feed`, `logStreams`,
`resolveStreams`) and applies the operators in its own steps, so the three users differ only where
the code does: the address card and the overview page send their request in `connect$`, the log
drawer right after it subscribes.  `Drawer` is the panel in the same way: `close()` starts a timer
each time it is called and the timer disposes whatever is open when it fires.  What is in a drawer
can be used until it is disposed, also while it slides out (`InReach`), and the buttons behind it are
reached with the keyboard, so forms are opened again while they are shown.

A call is a record in a set (`loads`, `calls`, `zoneCalls`, `saveCalls`, `configCalls`,
`taskCalls`): made by a page, answered by a `Serve...` action with what the server holds then, and
handled by the page later, in any order.  `setTimeout`, `debounceTime` and `distinctUntilChanged`
are explicit: `toastTimers`, `polls`, `typed`, `emitted`.  A form keeps its values when its drawer
is closed, because the component lives on; `ConfigDrawer` and `RecordTasks` are about that.
`RecordsTable!Done` is the success callback of both refreshRecord and deleteRecord.

`ApiMessages` has the fields of all 24 messages and one generic reader and writer instead of 24
generated ones: `frames` is the stack of `decode` calls, a token is a tag with its content, and
an input is any message of `Samples` with a field of a newer version in front.  The pages post plain
objects and do not call the codec; it is what the repository ships for the binary form.  A
second occurrence of an optional message replaces the first, as in the generated code.

### AddressConsensus, ConfigServices, MailReports, TaskDelivery

`Ask` is one turn of the loop over the resolvers with the outcome chosen freely; `Visit` is one
turn over the map `counts`, whose order Go leaves open.  `ConfigServices` has a record for each
goroutine that `OnChange` started, with the statement it is at; the scheduler's three calls
interleave freely, while `mail.Start` holds its mutex from the look at the configuration to the
assignment (`mu`).  `MailReports` follows a report from the settings through the cooldown
(`AllowBySeverity`, one step because of the mutex) to the goroutine that sends it; `passed` and
`silenced` are history, `managerOn` changes as `ConfigServices` allows it to.  `TaskDelivery` has one run as two halves, `step` in HDNS and `worker` in the
worker: the caller may give up (`Timeout`) or be stopped while the handler goes on, and the
files are written one by one, each of which a kill may cut off (`Torn`).  `overlapped` is a history
variable: two handlers of the task were at work at once.

## 3. Runs

| Run | Question | Instance | Result |
|---|---|---|---|
| `cert_issuance` | do slots, rows, jobs, files and deliveries stay consistent, and is `IssuancePromise` implemented? | 2 records, 2 goroutines, 2 jobs, 2 faults, 2 refused orders | holds |
| `cert_live` | is every slot given back and every due certificate renewed? | 1 record, 2 goroutines, 6 jobs, 1 fault, 1 refused order | holds |
| `cert_shared_dir` | does a valid row always have its own files? | the records `@` and `*` of one zone | violated |
| `acme_order` | challenges published and removed, account files consistent, the account key kept? | 2 issuers, 1 account, 3 challenges on 2 names, 3 orders, 2 faults | holds |
| `acme_shared_name` | is a challenge published when it is validated? | the records `@` and `*` of one zone | violated |
| `ddns_refresh` | one current address, and is `AddressPromise` implemented: nothing made-up published, every update announced? | dual stack, 1 record, cron and API, 1 move, 1 fault, 2 requests | holds |
| `ddns_live` | do records reach the public address and stay there? | IPv4 only, 2 records, 1 move, 1 fault, 1 request | holds |
| `ddns_dual_stack` | the same on a dual-stack host | 2 moves, no fault | violated |
| `ddns_trigger_ip` | is every A record update announced? | no fault, API RefreshRecord | violated |
| `frontend_streams` | does every page hold one stream, in order and up to date, through reconnections? do messages and the loading bar go? is `StreamPromise` implemented? | see below | holds |
| `forms_services` | do forms save what belongs to their record? one address, services as configured, deliveries whole? is a message read as it was written, whatever a newer version adds? | see below | holds |
| `token_loads_zones` | does a typed token always load zones? | 2 records, 2 openings of the form, 1 typed token | violated |

`frontend_streams` and `forms_services` each check several modules that share no variable.  The
variable `active` chooses one of them at the start; the others rest in an initial state.  In `forms_services`
the codec joins them (`MCFormsMessages`, `codec`): the parts rest while a message is read, and it rests while they run.  A run
explores the union of the parts' state spaces, and each invariant is about one part:

| Property | Part | Says |
|---|---|---|
| `BadgeIsHonest`, `AddressFollowed` | `AddressStreams` | Live means an open socket; a displayed page ends up with the current address |
| `LinesInOrder`, `LogPromiseKept` | `LogDrawer` | at most one stream runs; no line is shown twice or out of order; a stream that was left is over for ever |
| `RowsOfThisResolve`, `ResolvePromiseKept`, `EveryServerAnswers` | `RecordOverview` | one stream, rows of this stream only, also across loads; all servers answer in the end |
| `LoadingWhileInFlight`, `ToastsGo` | `Notifications` | the bar is on exactly while requests are in flight; no message stays |
| `SavedDomainOfZone` | `RecordForm` | a record's domain is its zone's name, whatever answers arrive while the user selects |
| `SpinnersEnd` | `RecordsTable` | every spinner has a call under way that will end it |
| `UnloadedFormRefused` | `ConfigDrawer` | the form's own defaults never replace the configuration |
| `HeadersKept` | `RecordTasks` | headers stay with their task, though the form never sees them |
| `ConsensusPick` | `AddressConsensus` | the address is a function of the answers |
| `ServicesFollowConfig` | `ConfigServices` | after the restarts the services are as configured |
| `ReportsPaced` | `MailReports` | one mail per severity and window; a success never holds a failure back |
| `DeliveredWhole` | `TaskDelivery` | success means completed; the service runs on one delivery's files |
| `MessagesIntact` | `ApiMessages` | every decoder reads its own part of the input; a message survives the wire and JSON, a number beyond the safe range is an error |
| `StreamsTypeOK`, `PartsTypeOK` | all but `ApiMessages` | types |

The five violated runs are disagreements between a sentence of the repository and its code; each
is described under "findings" in `PROJECT.json`:

* `certificateDir` strips `*.`, so `@` and `*` of one zone write to one directory.
* Each issuance has a provider of its own, so aggregation of challenges stops at the record.
* `UpdateAddress` clears the current row before an insert that `unique_address` refuses when a
  dual-stack host gets an earlier pair back; nothing recovers from that.
* The API's `RefreshRecord` updates the A record without firing IP tasks.
* Editing a record replaces the form's token group; the subscription that loads zones stays with
  the old one, so a token typed afterwards to add a record loads nothing.

Other places where a sentence and the code differ, met while modelling and not given a run:

* `global/services/api/api.service.ts:285` says of a message that could not be sent that it
  "will retry on reconnect"; without a socket nobody listens to `outgoing$` and it is gone
  (`ApiStream!Sent`).
* The comment on `streamLog` in `global/model/api.ts` says that it streams issuance log lines and replays
  a stored log; `StreamLog` sends every line the server logs after it started (`LogDrawer!Write`).
* `tasks/task.go:52` says that `RunTask` runs a task "without persisting its result"; it calls
  `UpdateTaskResult` (`TaskDelivery!UpdateTaskResult`).
* `records-table.component.ts:225-229` has a text for a search without a match in an `@else if` that
  repeats the condition of its `@if`, so it is never shown.

### Bounds, and why they are enough

* Two goroutines: the mutual exclusion of `pending`, and every check-then-act pair in
  `UpdateAddress` and the RRset upserts, is between two actors; a third repeats the second.
* Two records: one to interfere with and one to be left alone.  Jobs: `cert_issuance` lets two
  issuances run in any overlap; `cert_live` needs spare ids so that a renewal may fail and be
  tried again (`SpareJobs` keeps the environment from asking for more than the bound can serve).
* Faults are counted (`MaxFaults`), each at any step: a first one tears something, a second one
  meets the recovery.  `MaxRefusals` counts orders the CA refuses.
* One move of the address exercises every path of `UpdateAddress`; two are needed to come back to
  an earlier address.  Two requests let two API calls overlap the cron entry one after another.
* Three challenges: two share a name inside one order (domain and wildcard), the third belongs to
  another order of the same account.  Three orders: one of the two issuers comes back after the
  account exists.
* `frontend_streams`: the current address changes up to three times and two connections break, so a
  page misses a change while it is offline and another while it connects.  The log drawer is
  opened three times, which lets two abandoned streams coexist with a new one; three lines with
  `maxLines` 2 reach the cut.  Three loads of the overview page, of which one may answer late and
  one fail; two servers.  Four messages with two visible: one is pushed out, one comes when the
  stack is full.  Two requests overlap.
* `forms_services`: the record form is opened twice (edit then add is the shortest way from one
  group to the other), with two calls for zones to overtake one another and two changes of the token,
  so that one can be typed and cleared again.  A drawer is acted on while fewer than two of its timers run
  (`MaxSlides`): one has the user close a drawer that slides out already, and the answer of a save adds a third.  One record and four calls
  in the table: an issue, the list after it, a poll and a lookup of the list in between.
  Three openings of the configuration drawer, two edits.  Two forms and three calls on tasks.  Five
  resolvers over three addresses give ties of two with one left over, and ties of one with errors.
  Two configuration changes overlap all their restarts.
  Three reports (two of a severity with another between them) and a cooldown of two minutes.  Two deliveries, one stop.
* `MessagesIntact`: `ApiMessages` has no constants.  The samples are each of the 24 messages empty, full and
  with one field set, with four kinds of additions; an enumeration also gets one value that this version does
  not know, which JSON turns into `UNRECOGNIZED`; messages nest three deep, which is the depth of the schema.
  Writer and reader share one `Schema`, so a field number that is wrong on one side only would not be seen.
* Symmetry is used for goroutines and records in `cert_issuance` and for addresses in
  `ddns_refresh`, which are only compared; the liveness runs use none.

`CHECK_DEADLOCK FALSE` is set where the bound on orders ends every behaviour (`acme_order`,
`acme_shared_name`) in the runs of the client, where a user may stop and the bounds on
openings and calls end every behaviour, and where a message has been read.

### Fairness

`CertIssuance!FairSpec`: a goroutine that can take a step takes one (every SQL, HTTP and ACME call
returns, or times out into its error path), and the renewal scan comes back for ever, which is the
cron entry `cert-renew` and the scan at startup.  No fairness on requests, deletions or faults.
`DdnsRefresh!FairSpec`: the cron entry `ddns-refresh` fires for ever and goroutines move on;
requests, moves and faults need never happen.  `AddressFairness`, `OverviewFairness` and
`NotifyFairness`: a timer that was started fires, a socket that is being opened opens or fails,
a message in transit is delivered, and a handler that has something to send sends it, which browser
and event loop give.  Nothing is assumed of users, calls or failures; the liveness properties
hold because failures are finitely many (`MaxBreaks`, `MaxOvBreaks`), and are stated for pages that
stay displayed.  All are weak fairness per goroutine, which a Go
scheduler gives.

## 4. Proofs

Eight modules, seven about a group of components and one about a composition, each for any value of the constants that satisfies
the named assumptions of the modules it is about (`tlapm CertMaterialProofs.tla` and so on;
TLC evaluates the assumptions on every run).  They say that bounds are numbers, that the
names of kinds, states and error values are told apart from records, addresses and tokens, and
that every record has a directory, every issuer an account and every challenge a name and an owner;
nothing about how many there are.

| Theorem | Says | Rests on |
|---|---|---|
| **`CertIssuanceProofs`** | | |
| `TypeCorrect`, `IssuanceExclusive`, `SlotMapExact` | `TypeOK`, `OneIssuancePerRecord`, `SlotsExact` | `SlotInv` |
| `RunningJobsAreRun` | `RunningJobHasRunner` | `JobsOK` |
| `ImplementsPromise` | `Spec => PromiseKept`, the refinement of `IssuancePromise` | `SlotInv`, `RowsOK` |
| **`CertMaterialProofs`** | | |
| `ServedMaterial`, `OwnMaterialDelivered` | `ServedMaterialConsistent`, `DeliversOwnMaterial`, both under `OwnDirs` | `DiskOK`, `ServedOK` |
| `SuccessIsInstalled` | `SuccessMeansInstalled`, of every step | `InstallOK` |
| **`AcmeOrderProofs`** | | |
| `TypeCorrect` | `TypeOK` | `WorksOnOwn` |
| `FilesMatch`, `OwnAccountUsed` | `AccountFilesMatch`, `OrdersUseOwnAccount` | `AccountOK` |
| `ChallengesArePublished` | `ChallengesPublished`, under `OwnNames` | `PublishedOK` |
| `NothingLeft` | `NothingLeftBehind` | `LeftoverOK` |
| `KeyKept` | `AccountKeyKept`, of every step | `AccountOK` |
| **`DdnsRefreshProofs`** | | |
| `TypeCorrect` | `TypeOK` | `Knows` |
| `OneCurrent` | `OneCurrentAddress` | `AddressOK` |
| `PublishedStored` | `PublishedIsStored` | `RowsOK` |
| `UpdatesAnnounced` | `UpdateIsAnnounced` | `AnnouncedOK` |
| `ImplementsAddressPromise` | `Spec => AddressPromiseKept`, the refinement of `AddressPromise` | `Knows`, `PublishedOK`, `FireOK` |
| `AddressPromiseSuffices` | `AddressPromise` keeps `DebtsAreHeld` and `ShownIsKnown` | inductive |
| **`ServicesProofs`** | | |
| `ConsensusIsPick` | `ConsensusPick` | `CountsOK`, `OrderOK`, `LoopOK`, `ChosenOK` |
| `ServicesFollow` | `ServicesFollowConfig` | `SchedulerFollows`, `MutexHeld`, `MailFollows` |
| `WholeDeliveries` | `DeliveredWhole` | `RecordedOK`, `AloneOK` |
| `ReportsArePaced` | `ReportsPaced` | `SentOK`, `StampsOK`, `PacedOK` |
| **`StreamsProofs`** | | |
| `BadgeHonest` | `BadgeIsHonest` | inductive with the types |
| `LoadingHonest` | `LoadingWhileInFlight` | `LoadingOK` |
| `OneLog`, `LinesOrdered` | `OneLogStream`, `LinesInOrder` | `LogOthersEnded`, `LogOrder` |
| `OneResolve`, `RowsOfResolve` | `OneResolveStream`, `RowsOfThisResolve` | `PageOthersEnded`, `RowsOK`, `CallsOK` |
| `LogKeepsPromise` | `LogSpec => LogPromiseKept`, a refinement of `StreamPromise` | `LogHeld` |
| `PageKeepsPromise` | `OverviewSpec => ResolvePromiseKept`, the other one | `PageHeld` |
| `StreamsTyped`, `PagesCorrect` | types, and all of the above, of the composed specification | the ones above |
| **`FormsProofs`** | | |
| `DomainOfZone` | `SavedDomainOfZone` | `TokensKnown`, `SavingOK`, `DomainsOK` |
| `SpinnersStop` | `SpinnersEnd` | inductive with the types |
| `FormRefused` | `UnloadedFormRefused` | `ConfigSavingOK`, `FilledOK` |
| `HeadersStay` | `HeadersKept` | `TaskSavingOK`, `HeadersOK` |
| **`CompositionProofs`** | | |
| `PartsBehave` | the composition implements the specification of each of its eight parts | - |
| `PartsTyped` | `PartsTypeOK` | `PartsBehave` and the types of the parts |
| `PartsCorrect` | the eight invariants of `forms_services`, of the composition | `PartsBehave` and their theorems |

`ServicesProofs` and `FormsProofs` also prove the types of their parts (`ServicesTyped`, `DeliveryTyped`,
`ReportsTyped`, `ConsensusTyped`, `FormTyped`, `TableTyped`, `ConfigTyped`, `TasksTyped`).
`PublishedIsStored`, `UpdateIsAnnounced`, `OneLogStream` and `OneResolveStream` are proved and in no run of
their own: what a run would tell of them, the promises `AddressPromiseKept`, `LogPromiseKept` and
`ResolvePromiseKept` say of every step.
Theorems about a part of `frontend_streams` or `forms_services` are of that part's own
specification.  That the composition in such a run is no other thing is proved too: `StreamsStep` and
`PartsBehave` say that each of its steps is one of the chosen part and a stutter of every other.

### Two assumptions about the installation

`OwnDirs` says that no two records have the same certificate directory, `OwnNames` that no two issuers
have challenges of one TXT name.  The code guarantees neither: the records `@` and `*` of one
zone break both, and `cert_shared_dir` and `acme_shared_name` are the runs in which the two
properties then fail.  They are hypotheses of the three theorems that need them, not assumptions
of the modules, and hold in every installation without such a pair.

### The arguments

*Slots.*  `OneIssuancePerRecord` is not inductive: `Reserve` admits a goroutine because its
record is not in `pending`, so the invariant must say that `pending` is *exactly* the records
being issued (`SlotsExact`), and `Release` keeps that equality only because no other goroutine
holds the same record.  With `TypeOK` and `LocalsOK` (a goroutine inside the slot has a record) they
form `SlotInv`.  `JobsOK`: a goroutine has no job before `createJob`, afterwards its job belongs to
its record, and past the closing statement the job is closed or recorded in `orphan`; so closing one
job never closes another's.  The refinement needs `RowsOK` (a row that does not exist has no
certificate), so that an update which matches nothing maps to a stutter.

*Files.*  The slot makes the goroutine that writes a directory the only one to do so, if
directories are not shared; hence `DiskOK`: what it has written, and later what its task has read, is
its own.  `ServedOK` then says that a valid row agrees with the files unless its goroutine is
between the first file and the row, or a fault has torn them.  `InstallOK` is the order of row
and job: at `closeOk` the row already has the job's certificate, and a running job has a row.

*ACME.*  The files of an account are written key first and for the key that was written.
Issuers of one account may load, register and save it at the same time; all of them use the key that is
on disk.  `HandsOK` keeps what each knows of the files at each of the seven steps; `OneCreator` says that at
most one is about to write a key, which is what two that found no key file at the same time break (`raced`).  `PublishedOK` and `LeftoverOK` follow a
value from `present` to its clean-up: it is in the RRset, about to be, or failed; and a value in an
RRset is still in `todo` of its issuer, or another one of its name is, since `CleanUp` deletes the
whole RRset.

*Dynamic DNS.*  Each property is about what a goroutine has in hand while others run:
inside `UpdateAddress` the one that is to insert has emptied `current` (`AddressOK`); a goroutine
that uses a row uses a stored one, and at `save` one with an IPv4, since Hetzner has refused the
other (`RowsOK`); an update that is not announced has a goroutine at `save` or `fire` (`AnnouncedOK`).

*Published addresses.*  `AddressPromise` is what is left of `DdnsRefresh` for one who sees records and
tasks but neither goroutines nor the database: addresses become known, a known one is published, which
leaves the record owing its IP tasks, and the debt is in hand (`InHand`: a goroutine at `save` or `fire`),
paid, or given up with a reason.  Every step maps to one of these or a stutter; `PutRRSet`
is `Publish`, and a goroutine that stops or fails at `save` is `GiveUp`.  Besides the rows in use (`RowsOK`,
without which a published address could be one that is not stored) it needs that a manual refresh never
gets to the step that fires tasks (`FireOK`).

*Account keys.*  `AccountKeyKept` is about two moments far apart: an issuer decides to write a key
when it finds none and writes it steps later.  Its inductive core is in `HandsOK`: an issuer that is
about to write, and is the only one of its account to be so, still finds no key.

*Consensus.*  `counts` and `firstSeen` are determined by `answers` (`firstSeen` counts successful answers
only, which orders addresses as their first answers do: `OrderOK`); `best` beats every address visited
(`LoopOK`), whatever the order of the visits.  For any number of resolvers.

*Restarts.*  A scheduler that is stopped, or has no renewal though ACME is on, has a restart ahead
that repairs it; a mail manager that runs against the configuration has a restart ahead of its
stop.  Since `Start` looks at the configuration inside the mutex, the holder is the only one that can
create a manager (`MutexHeld`).

*Mails.*  `StampsOK` ties the two stamps to what has passed: a success's stamp is that of the last success
unless a failure came later and reset it.  *Deliveries.*  A handler that is alone has written the
files up to where it is (`AloneOK`).

*Pages.*  Every stream that the page does not hold has ended, with nothing on its wire: that is
stronger than the property, which speaks of the running ones only, and it is what lets a late message be excluded.
`LogOrder` relates the wire to the list: what is under way is newer than what is displayed.  `StreamPromise`
sees of a page its streams and its display only; for it the stream that a page holds must also never be
one that has ended (`LogHeld`, `PageHeld`), so that it is exactly the running one: a page that is left, or loads
again, is an `End` or a `Begin`, and everything a connection does is a stutter.  The removal
of a toast and the replacement of a row are `Array.prototype.filter`; the lemma `FilterKeepsOrder`
about `Filter!Filtered` serves both.  `CallsOK` bounds streams by answers.

*Forms.*  One form serves many records, so the invariants say which record a value in it comes from:
the selected zone is among those offered or is the record's (`DomainsOK`); the form's own values come
with an empty schedule, or one the user typed (`FilledOK`); headers in the form and in each call
were typed for the task they go to (`HeadersOK`).  At most `MaxSlides` timers of a drawer run while a save is
under way, so the one its answer starts is the last (`SavingOK`).

Each preservation proof has one step per action; actions that leave the subject alone go through a
lemma on quiet steps (`DiskQuietStep`, `AccountQuiet`, `PublishedQuiet`, `AnnouncedQuiet`, ...) stated once.

### What is only model-checked, and why

* Liveness: `SlotEventuallyFree`, `DueIsRenewed`, `KeepsInSync`, `AddressFollowed`, `EveryServerAnswers`, `ToastsGo`.
  Fairness and ENABLED are outside the prover.
* `MessagesIntact` (`ApiTypeOK`, `WireRoundTrip`, `JsonRoundTrip`): encoding and decoding are recursive over nested messages, so
  that a statement for all messages is an induction over data, and `ApiMessages` has RECURSIVE operators,
  with which the prover has no SMT backend.  `ApiTypeOK` is no exception: that a reader stays inside its
  part of the input holds because the lengths in it are those `Encode` has written.
* The five violated runs: each refutes a sentence on one instance, and that is all there is to show.

### What the proofs changed in the models

`RecordsTable` needed `Lookups` to be told apart from the kinds of its calls (with a lookup named `list`
its properties fail); `RecordsTable`, `RecordTasks` and `RecordOverview` need positive bounds on calls, because the first
call is made in the initial state, and `AddressStreams` two addresses; `ConsensusPick` needs addresses that are neither
the empty answer nor the states of the loop.  `filter` became an operator of its own (`Filter`)
instead of `SelectSeq`, and the empty field values got names (`NoToken`, `NoSchedule`).

## 5. Not modelled

* Parsing, templating, encryption, formats of a download, HTTP: data, not control.  In the
  client: templates, styles, sorting, stepper focus, copy to the clipboard.
* The restart of the web server and of logging on a configuration
  change, renaming of records, the exec and FortiOS actions, the fan-out of `resolver.go`, the
  address history drawer: each is listed with its component in `PROJECT.json`.
* A log stream after a reconnection: the drawer sends its request once, so the stream is silent; the
  module has it and no property speaks of it, as no document promises that the log goes on.
* The late answer that starts a resolve stream after the overview page is gone, the poll that
  takes the old certificate's "valid" for the new one, and the schedule that an older restart
  registers last are all reachable in the models; no sentence of the repository excludes them, so
  they are hazards with a note and not properties.
* Restoring of the state a crash leaves: the code has none, so jobs stay `running`
  (excused by `orphan` in `RunningJobHasRunner`).
* Two issuers that generate a key for one account at the same time: the model contains it, and in it key and
  registration may differ for ever; the account properties exclude such accounts (`raced`) and no others.
* What keeps an empty address from being published after the API has resolved without IPv4: HDNS does not
  look, Hetzner refuses it (`Accepted`, external).
* Generated code (`database/schema`, protobuf), migrations (run before everything else).

## 6. Plan

Every safety property that a passing run checks has a theorem, except `MessagesIntact`; the
liveness properties stay with TLC.  What could follow:

1. The composition of the IP trigger with an issuance (both fire tasks of one record), checked first.
2. Renaming of records and change of token in `DdnsRefresh`, where a refresh goes on with the record it
   has listed.
3. The inside of `obtainCertificate` as a component of `CertIssuance`: `AcmeOrder` shown to implement the two
   steps `ObtainOk` and `ObtainFail`.
