--------------------------- MODULE CertIssuance ---------------------------
(***************************************************************************)
(* Certificate issuance of the HDNS backend (backend/pkg/dns/certificate.go*)
(* with the tasks it fires): manual requests, scheduled renewal runs, the  *)
(* per-record slot in the sync.Map `pending`, the certificates and         *)
(* certificate_jobs tables, the four PEM files of a record, and the        *)
(* delivery of those files to the record's webhook task.                   *)
(*                                                                         *)
(* A process is a goroutine: an API request that became a background       *)
(* issuance, or one run of RenewCertificates.  A step is one SQL           *)
(* statement, one operation on `pending`, one file, or one ACME order.     *)
(* A select and the insert after it are one step where no other process    *)
(* can change what they see in between.                                    *)
(***************************************************************************)
EXTENDS Naturals, FiniteSets

CONSTANTS
  Records,    \* ids of rows of the records table (never reused)
  Jobs,       \* ids of rows of certificate_jobs, ascending; also names what a job issued
  Procs,      \* goroutines
  Dirs,       \* directories under <data>/certs
  DirOf,      \* certificateDir: the directory of each record
  None,       \* no record, no job, no certificate
  MaxFaults,  \* bound: crashes, lost SQL statements and disk errors in a behaviour
  MaxRefusals,\* bound: ACME orders that end in failed jobs
  SpareJobs   \* bound: job ids left to renewals; no manual request, no expiry below it

ASSUME ConstantsAssumption ==
  /\ DirOf \in [Records -> Dirs]
  /\ None \notin Records
  /\ Jobs \subseteq Nat
  /\ None \notin Jobs
  /\ MaxFaults \in Nat
  /\ MaxRefusals \in Nat
  /\ SpareJobs \in Nat

VARIABLES
  live,      \* records table: the rows that exist
  doesCert,  \* records whose purpose includes certificates
  acme,      \* config ACME.Enabled
  pending,   \* the sync.Map: records whose slot is taken
  cert,      \* certificates table, one row per record at most
  job,       \* certificate_jobs table
  files,     \* the PEM files of each directory
  pc, rec, mine, src, todo, at, seen,   \* the goroutines
  faults,    \* crashes, lost statements and disk errors so far
  orphan,    \* history: jobs whose closing statement never ran
  torn       \* history: records whose file writes or failure mark were cut off

tables == <<live, doesCert, acme, cert, job>>
locals == <<rec, mine, src, todo, at, seen>>
ghosts == <<faults, orphan, torn>>
vars == <<live, doesCert, acme, pending, cert, job, files,
          pc, rec, mine, src, todo, at, seen, faults, orphan, torn>>

---------------------------------------------------------------------------
\* cert.pem, chain.pem, fullchain.pem, privkey.pem, in the order they are written and read
PemFiles == 1 .. 4
LastFile == 4

Serial == Jobs \union {None}
NoRow  == [status |-> "none", serial |-> None, due |-> FALSE]
PendingRow == [status |-> "pending", serial |-> None, due |-> FALSE]
CertRow == [status : {"none", "pending", "valid", "failed"},
            serial : Serial, due : BOOLEAN]
JobRow == [status : {"unused", "running", "success", "failed", "deleted"},
           rec : Records \union {None}]

\* Between reserving the slot and releasing it.
Critical == {"prepare", "ensure", "createJob", "obtain", "write", "persist",
             "markFailed", "closeFailed", "closeOk", "fire", "read", "deliver",
             "release"}
Outside  == {"idle", "reserve", "next"}

TypeOK ==
  /\ live \subseteq Records
  /\ doesCert \subseteq Records
  /\ acme \in BOOLEAN
  /\ pending \subseteq Records
  /\ cert \in [Records -> CertRow]
  /\ job \in [Jobs -> JobRow]
  /\ files \in [Dirs -> [PemFiles -> Serial]]
  /\ pc \in [Procs -> Critical \union Outside]
  /\ rec \in [Procs -> Records \union {None}]
  /\ mine \in [Procs -> Serial]
  /\ src \in [Procs -> {"manual", "scheduled"}]
  /\ todo \in [Procs -> SUBSET Records]
  /\ at \in [Procs -> PemFiles]
  /\ seen \in [Procs -> [PemFiles -> Serial]]
  /\ faults \in 0 .. MaxFaults
  /\ orphan \subseteq Jobs
  /\ torn \subseteq Records

Empty == [f \in PemFiles |-> None]

\* First start: the user has created the records, nothing is issued yet.
Init ==
  /\ live = Records
  /\ doesCert = Records
  /\ acme = TRUE
  /\ pending = {}
  /\ cert = [r \in Records |-> NoRow]
  /\ job = [j \in Jobs |-> [status |-> "unused", rec |-> None]]
  /\ files = [d \in Dirs |-> Empty]
  /\ pc = [p \in Procs |-> "idle"]
  /\ rec = [p \in Procs |-> None]
  /\ mine = [p \in Procs |-> None]
  /\ src = [p \in Procs |-> "manual"]
  /\ todo = [p \in Procs |-> {}]
  /\ at = [p \in Procs |-> 1]
  /\ seen = [p \in Procs |-> Empty]
  /\ faults = 0
  /\ orphan = {}
  /\ torn = {}

Goto(p, from, to) ==
  /\ pc[p] = from
  /\ pc' = [pc EXCEPT ![p] = to]

\* Where a goroutine continues once it is done with one record.
After(p) == IF src[p] = "manual" THEN "idle" ELSE "next"

JobsIn(status) == {j \in Jobs : job[j].status = status}

\* The bound under which the environment asks for more certificates.
Room == Cardinality(JobsIn("unused")) > SpareJobs

\* A statement fails although its row exists (connection lost), or a file write does.
Fault ==
  /\ faults < MaxFaults
  /\ faults' = faults + 1

---------------------------------------------------------------------------
(* Entry points *)

\* StartIssuance: load the record, check its purpose.  Errors return at once.
StartIssuance(p, r) ==
  /\ Goto(p, "idle", "reserve")
  /\ Room
  /\ r \in live \intersect doesCert
  /\ rec' = [rec EXCEPT ![p] = r]
  /\ src' = [src EXCEPT ![p] = "manual"]
  /\ UNCHANGED <<tables, pending, files, mine, todo, at, seen, ghosts>>

\* mutant: the renewal query selects valid rows only, so a failed renewal is the last
RenewValidOnly(p) ==
  /\ Goto(p, "idle", "next")
  /\ acme
  /\ src' = [src EXCEPT ![p] = "scheduled"]
  /\ todo' = [todo EXCEPT ![p] =
                {r \in Records : cert[r].status = "valid" /\ cert[r].due}]
  /\ UNCHANGED <<tables, pending, files, rec, mine, at, seen, ghosts>>

\* RenewCertificates: one select lists the certificates due for renewal.
RenewCertificates(p) ==
  /\ Goto(p, "idle", "next")
  /\ acme
  /\ src' = [src EXCEPT ![p] = "scheduled"]
  /\ todo' = [todo EXCEPT ![p] =
                {r \in Records : cert[r].serial # None /\ cert[r].due}]
  /\ UNCHANGED <<tables, pending, files, rec, mine, at, seen, ghosts>>

\* The loop body up to issueForRecord: the record is read again, and skipped when it is
\* gone, no longer wants a certificate, or cannot be read.
RenewPick(p, r) ==
  /\ r \in todo[p]
  /\ todo' = [todo EXCEPT ![p] = @ \ {r}]
  /\ \/ /\ r \in live \intersect doesCert
        /\ Goto(p, "next", "reserve")
        /\ rec' = [rec EXCEPT ![p] = r]
        /\ UNCHANGED faults
     \/ /\ \/ r \notin live \intersect doesCert /\ UNCHANGED faults
           \/ Fault
        /\ Goto(p, "next", "next")
        /\ UNCHANGED rec
  /\ UNCHANGED <<tables, pending, files, mine, src, at, seen, orphan, torn>>

RenewEnd(p) ==
  /\ todo[p] = {}
  /\ Goto(p, "next", "idle")
  /\ UNCHANGED <<tables, pending, files, locals, ghosts>>

---------------------------------------------------------------------------
(* The per-record slot *)

\* mutant: the slot is taken without looking at it
ReservedUnchecked(p) == acme

Reserved(p) ==
  /\ acme
  /\ rec[p] \notin pending

\* ACME.Enabled and pending.LoadOrStore.
Reserve(p) ==
  /\ pc[p] = "reserve"
  /\ \/ /\ Reserved(p)
        /\ Goto(p, "reserve", IF src[p] = "manual" THEN "prepare" ELSE "ensure")
        /\ pending' = pending \union {rec[p]}
        /\ UNCHANGED rec
     \/ /\ ~Reserved(p)
        /\ Goto(p, "reserve", After(p))
        /\ rec' = [rec EXCEPT ![p] = None]
        /\ UNCHANGED pending
  /\ UNCHANGED <<tables, files, mine, src, todo, at, seen, ghosts>>

\* mutant: the error returns before the job exists forget the slot
ReleaseForgotten(p) ==
  /\ Goto(p, "release", After(p))
  /\ pending' = IF mine[p] = None THEN pending ELSE pending \ {rec[p]}
  /\ rec' = [rec EXCEPT ![p] = None]
  /\ mine' = [mine EXCEPT ![p] = None]
  /\ seen' = [seen EXCEPT ![p] = Empty]
  /\ UNCHANGED <<tables, files, src, todo, at, ghosts>>

\* pending.Delete, deferred by the goroutine or run on StartIssuance's error path.
Release(p) ==
  /\ Goto(p, "release", After(p))
  /\ pending' = pending \ {rec[p]}
  /\ rec' = [rec EXCEPT ![p] = None]
  /\ mine' = [mine EXCEPT ![p] = None]
  /\ seen' = [seen EXCEPT ![p] = Empty]
  /\ UNCHANGED <<tables, files, src, todo, at, ghosts>>

---------------------------------------------------------------------------
(* runIssuance *)

\* ensureCertificateRow: keep the existing row as it is, or insert a pending one; the
\* foreign key refuses the insert when the record is gone.
EnsureRow(p, from, to) ==
  /\ pc[p] = from
  /\ LET r == rec[p] IN
       \/ /\ cert[r].status # "none"
          /\ Goto(p, from, to)
          /\ UNCHANGED <<cert, faults>>
       \/ /\ cert[r].status = "none"
          /\ r \in live
          /\ Goto(p, from, to)
          /\ cert' = [cert EXCEPT ![r] = PendingRow]
          /\ UNCHANGED faults
       \/ /\ \/ r \notin live /\ UNCHANGED faults
             \/ Fault
          /\ Goto(p, from, "release")
          /\ UNCHANGED cert
  /\ UNCHANGED <<live, doesCert, acme, pending, job, files, locals, orphan, torn>>

\* in StartIssuance, before it returns to the UI
Prepare(p) == EnsureRow(p, "prepare", "ensure")
\* at the head of runIssuance
Ensure(p)  == EnsureRow(p, "ensure", "createJob")

\* createCertificateJob; the foreign key refuses it when the record is gone.
CreateJob(p) ==
  /\ pc[p] = "createJob"
  /\ \/ \E j \in JobsIn("unused") :
          /\ \A k \in JobsIn("unused") : j <= k
          /\ rec[p] \in live
          /\ Goto(p, "createJob", "obtain")
          /\ job' = [job EXCEPT ![j] = [status |-> "running", rec |-> rec[p]]]
          /\ mine' = [mine EXCEPT ![p] = j]
          /\ UNCHANGED faults
     \/ /\ \/ rec[p] \notin live /\ UNCHANGED faults
           \/ Fault
        /\ Goto(p, "createJob", "release")
        /\ UNCHANGED <<job, mine>>
  /\ UNCHANGED <<live, doesCert, acme, cert, pending, files, rec, src, todo, at, seen,
                 orphan, torn>>

\* obtainCertificate: the order is open while pc = "obtain".
ObtainOk(p) ==
  /\ Goto(p, "obtain", "write")
  /\ at' = [at EXCEPT ![p] = 1]
  /\ UNCHANGED <<tables, pending, files, rec, mine, src, todo, seen, ghosts>>

\* mutant: a plain return where the code calls fail(err)
ObtainFailReturns(p) ==
  /\ Goto(p, "obtain", "release")
  /\ Cardinality(JobsIn("failed")) < MaxRefusals
  /\ UNCHANGED <<tables, pending, files, locals, ghosts>>

ObtainFail(p) ==
  /\ Goto(p, "obtain", "markFailed")
  /\ Cardinality(JobsIn("failed")) < MaxRefusals
  /\ UNCHANGED <<tables, pending, files, locals, ghosts>>

\* writeCertificateFiles: one os.WriteFile after the other.
WriteFile(p) ==
  /\ Goto(p, "write", IF at[p] = LastFile THEN "persist" ELSE "write")
  /\ files' = [files EXCEPT ![DirOf[rec[p]]][at[p]] = mine[p]]
  /\ at' = [at EXCEPT ![p] = IF @ = LastFile THEN 1 ELSE @ + 1]
  /\ UNCHANGED <<tables, pending, rec, mine, src, todo, seen, ghosts>>

\* mutant: a disk error closes the job but leaves the certificate row valid
WriteFailUnmarked(p) ==
  /\ Fault
  /\ Goto(p, "write", "closeFailed")
  /\ at' = [at EXCEPT ![p] = 1]
  /\ UNCHANGED <<tables, pending, files, rec, mine, src, todo, seen, orphan, torn>>

\* Disk error, at any of the four files: the ones before it stay replaced.
WriteFail(p) ==
  /\ Fault
  /\ Goto(p, "write", "markFailed")
  /\ at' = [at EXCEPT ![p] = 1]
  /\ UNCHANGED <<tables, pending, files, rec, mine, src, todo, seen, orphan, torn>>

\* mutant: the slot ends with the update, and the tasks run outside it
PersistReleases(p) ==
  /\ Goto(p, "persist", "closeOk")
  /\ cert' = [cert EXCEPT ![rec[p]] =
                IF @.status = "none" THEN @
                ELSE [status |-> "valid", serial |-> mine[p], due |-> FALSE]]
  /\ torn' = torn \ {rec[p]}
  /\ pending' = pending \ {rec[p]}
  /\ UNCHANGED <<live, doesCert, acme, job, files, locals, faults, orphan>>

\* parseLeafCertificate and UpdateCertificate; on a row deleted meanwhile the update
\* matches nothing and succeeds.
Persist(p) ==
  /\ Goto(p, "persist", "closeOk")
  /\ cert' = [cert EXCEPT ![rec[p]] =
                IF @.status = "none" THEN @
                ELSE [status |-> "valid", serial |-> mine[p], due |-> FALSE]]
  /\ torn' = torn \ {rec[p]}
  /\ UNCHANGED <<live, doesCert, acme, pending, job, files, locals, faults, orphan>>

\* mutant: the error of UpdateCertificate is dropped
PersistFailIgnored(p) ==
  /\ Fault
  /\ Goto(p, "persist", "closeOk")
  /\ UNCHANGED <<tables, pending, files, locals, orphan, torn>>

PersistFail(p) ==
  /\ Fault
  /\ Goto(p, "persist", "markFailed")
  /\ UNCHANGED <<tables, pending, files, locals, orphan, torn>>

\* setCertificateFailed: only the status changes; its own failure is only logged.
MarkFailed(p) ==
  /\ Goto(p, "markFailed", "closeFailed")
  /\ \/ /\ cert' = [cert EXCEPT ![rec[p]].status = IF @ = "none" THEN @ ELSE "failed"]
        /\ UNCHANGED <<faults, torn>>
     \/ /\ Fault
        /\ torn' = torn \union {rec[p]}
        /\ UNCHANGED cert
  /\ UNCHANGED <<live, doesCert, acme, pending, job, files, locals, orphan>>

\* finishCertificateJob; its failure is only logged, and the job stays running.
CloseJob(p, from, outcome, to) ==
  /\ Goto(p, from, to)
  /\ \/ /\ job' = [job EXCEPT ![mine[p]].status = IF @ = "running" THEN outcome ELSE @]
        /\ UNCHANGED <<faults, orphan>>
     \/ /\ Fault
        /\ orphan' = orphan \union {mine[p]}
        /\ UNCHANGED job
  /\ UNCHANGED <<live, doesCert, acme, cert, pending, files, locals, torn>>

\* mutant: a status the column does not have
CloseFailedMisnamed(p) == CloseJob(p, "closeFailed", "error", "release")

CloseFailed(p) == CloseJob(p, "closeFailed", "failed", "release")
CloseOk(p)     == CloseJob(p, "closeOk", "success", "fire")

---------------------------------------------------------------------------
(* FireTasks(TriggerCert), inside the slot: one webhook task *)

\* List the tasks (none when the record is gone), load the certificate row.
FireTasks(p) ==
  /\ Goto(p, "fire", IF rec[p] \in live /\ cert[rec[p]].serial # None
                     THEN "read" ELSE "release")
  /\ UNCHANGED <<tables, pending, files, locals, ghosts>>

\* loadCertificateMaterial: one os.ReadFile after the other.
ReadFile(p) ==
  /\ Goto(p, "read", IF at[p] = LastFile THEN "deliver" ELSE "read")
  /\ seen' = [seen EXCEPT ![p][at[p]] = files[DirOf[rec[p]]][at[p]]]
  /\ at' = [at EXCEPT ![p] = IF @ = LastFile THEN 1 ELSE @ + 1]
  /\ UNCHANGED <<tables, pending, files, rec, mine, src, todo, ghosts>>

\* The tasks, the certificate row or a file cannot be read: logged, the issuance is done.
FireFail(p) ==
  /\ Fault
  /\ Goto(p, "fire", "release") \/ Goto(p, "read", "release")
  /\ at' = [at EXCEPT ![p] = 1]
  /\ UNCHANGED <<tables, pending, files, rec, mine, src, todo, seen, orphan, torn>>

\* The webhook request; its outcome does not matter to the issuance.
Deliver(p) ==
  /\ Goto(p, "deliver", "release")
  /\ UNCHANGED <<tables, pending, files, locals, ghosts>>

---------------------------------------------------------------------------
(* The rest of the backend *)

\* API DeleteRecord: the row goes, certificates and certificate_jobs cascade.
DeleteRecord(r) ==
  /\ r \in live
  /\ live' = live \ {r}
  /\ cert' = [cert EXCEPT ![r] = NoRow]
  /\ job' = [j \in Jobs |-> IF job[j].rec = r THEN [job[j] EXCEPT !.status = "deleted"]
                            ELSE job[j]]
  /\ UNCHANGED <<doesCert, acme, pending, files, pc, locals, ghosts>>

\* API UpsertRecord on an existing record changes its purpose.
ChangePurpose(r) ==
  /\ r \in live
  /\ doesCert' = IF r \in doesCert THEN doesCert \ {r} ELSE doesCert \union {r}
  /\ UNCHANGED <<live, acme, cert, job, pending, files, pc, locals, ghosts>>

\* API UpdateConfig switches ACME on or off.
ToggleACME ==
  /\ acme' = ~acme
  /\ UNCHANGED <<live, doesCert, cert, job, pending, files, pc, locals, ghosts>>

\* Time passes: not_after enters the renewal window.
EnterWindow(r) ==
  /\ cert[r].serial # None
  /\ ~cert[r].due
  /\ Room
  /\ cert' = [cert EXCEPT ![r].due = TRUE]
  /\ UNCHANGED <<live, doesCert, acme, job, pending, files, pc, locals, ghosts>>

Holders == {p \in Procs : pc[p] \in Critical}

\* The process stops (crash, kill, shutdown: nothing waits for the goroutines) and starts.
Crash ==
  /\ Fault
  /\ \E p \in Procs : pc[p] # "idle"
  /\ pending' = {}
  /\ orphan' = orphan \union {j \in Jobs : job[j].status = "running"}
  /\ torn' = torn \union {rec[p] : p \in {q \in Holders :
                                      pc[q] \in {"write", "persist", "markFailed"}}}
  /\ pc' = [p \in Procs |-> "idle"]
  /\ rec' = [p \in Procs |-> None]
  /\ mine' = [p \in Procs |-> None]
  /\ src' = [p \in Procs |-> "manual"]
  /\ todo' = [p \in Procs |-> {}]
  /\ at' = [p \in Procs |-> 1]
  /\ seen' = [p \in Procs |-> Empty]
  /\ UNCHANGED <<tables, files>>

---------------------------------------------------------------------------
Renew(p) == RenewCertificates(p) \/ RenewEnd(p) \/ \E r \in Records : RenewPick(p, r)

Issue(p) ==
  \/ Reserve(p) \/ Release(p)
  \/ Prepare(p) \/ Ensure(p) \/ CreateJob(p)
  \/ ObtainOk(p) \/ ObtainFail(p) \/ WriteFile(p) \/ WriteFail(p)
  \/ Persist(p) \/ PersistFail(p) \/ MarkFailed(p) \/ CloseFailed(p) \/ CloseOk(p)
  \/ FireTasks(p) \/ ReadFile(p) \/ FireFail(p) \/ Deliver(p)

Environment ==
  \/ \E r \in Records : DeleteRecord(r) \/ ChangePurpose(r) \/ EnterWindow(r)
  \/ ToggleACME
  \/ Crash

Next ==
  \/ \E p \in Procs : Renew(p) \/ Issue(p) \/ \E r \in Records : StartIssuance(p, r)
  \/ Environment

Spec == Init /\ [][Next]_vars

\* The cron entry and the startup scan come back for ever; a goroutine that can take a
\* step takes one (every ACME, HTTP and SQL call returns).
FairSpec == Spec /\ \A p \in Procs : WF_vars(Renew(p)) /\ WF_vars(Issue(p))

---------------------------------------------------------------------------
(* Properties *)

\* No two goroutines run an issuance of the same record, whatever mix of manual requests,
\* renewal runs and restarts: the reason `pending` exists (certificate.go:25-27).
OneIssuancePerRecord ==
  \A p, q \in Holders : p # q => rec[p] # rec[q]

\* The slot map holds exactly the records being issued: no error path leaks a slot, which
\* would block the record until a restart, and none frees the slot of another goroutine.
SlotsExact == pending = {rec[p] : p \in Holders}

\* A job shown as running is run by a goroutine that holds the record's slot, unless its
\* closing statement was lost to a crash or a database error.
RunningJobHasRunner ==
  \A j \in Jobs \ orphan :
    job[j].status = "running" =>
      \E p \in Holders : mine[p] = j /\ rec[p] = job[j].rec

\* Every certificate reported valid, outside an issuance, has the four files of one and the
\* same issuance on disk: the private key matches the certificate (writeCertificateFiles).
ServedMaterialConsistent ==
  \A r \in live \ (pending \union torn) :
    cert[r].status = "valid" =>
      \A f \in PemFiles : files[DirOf[r]][f] = cert[r].serial

\* What the certificate trigger sends to a webhook is the issuance that fired it, whole
\* (tasks/task.go:328, "the four PEM files produced by a certificate issuance").
DeliversOwnMaterial ==
  \A p \in Procs :
    pc[p] = "deliver" => \A f \in PemFiles : seen[p][f] = mine[p]

\* A job turns to success only when its certificate is the one the record serves.
SuccessMeansInstalled ==
  [][\A j \in Jobs :
       (job[j].status # "success" /\ job'[j].status = "success") =>
          /\ cert'[job[j].rec].status = "valid"
          /\ cert'[job[j].rec].serial = j]_vars

\* The certificate a record serves changes only inside the slot (or with the record).
Promise == INSTANCE IssuancePromise
             WITH busy <- pending, Serials <- Jobs,
                  installed <- [r \in Records |-> cert[r].serial]
PromiseKept == Promise!Spec

\* No issuance keeps its slot for ever: the record can always be issued again.
SlotEventuallyFree == \A r \in Records : r \in pending ~> r \notin pending

\* A certificate that entered its renewal window is renewed, however many orders and
\* statements fail on the way, unless the user deletes the record, its purpose or ACME.
DueIsRenewed ==
  \A r \in Records :
    cert[r].due ~> \/ ~cert[r].due
                   \/ r \notin live \intersect doesCert
                   \/ ~acme
=============================================================================
