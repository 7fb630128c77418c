--------------------------- MODULE ConfigServices ---------------------------
(***************************************************************************)
(* A change of the configuration and the services that follow it: the      *)
(* OnChange handler (cmd/main.go) starts goroutines that restart the       *)
(* scheduler (pkg/dns/service.go) and the mail manager (pkg/mail/mail.go). *)
(*                                                                         *)
(* Changes come by UpdateConfig only.  Its request carries every part kept *)
(* here, so the write replaces them; what it read before matters to parts  *)
(* that the file alone sets.  go-core's scheduler and mail manager are     *)
(* external: registering a task replaces the one of its name, Start and    *)
(* Stop make running true and false.                                       *)
(***************************************************************************)
EXTENDS Naturals

CONSTANTS
    Crons,          \* refresh schedules
    MaxUpdates      \* bound: how often the configuration is changed

ASSUME ServicesBounds == MaxUpdates \in Nat

Unread == "unread"

VARIABLES
    app,            \* config.Get(): refresh cron, acme.enabled, notifications
    updates,
    cronTasks,      \* the scheduler's entries: the cron of ddns-refresh, cert-renew
    schedulerOn,    \* it is running
    dnsRestarts,    \* dns.Restart goroutines: where they are, the cron they read
    mailManager,    \* "none" or "running"
    mailRestarts,   \* mail.Restart goroutines
    mu              \* the update whose mail.Restart is inside Start, 0 for none

dnsVars == <<cronTasks, schedulerOn, dnsRestarts>>
mailVars == <<mailManager, mailRestarts, mu>>
servicesVars == <<app, updates, dnsVars, mailVars>>

App == [cron: Crons, acme: BOOLEAN, notify: BOOLEAN]

\* After Start of both services, with the configuration of the file.
ServicesInit ==
    /\ app \in App
    /\ updates = 0
    /\ cronTasks = [refresh |-> app.cron, renew |-> app.acme] /\ schedulerOn = TRUE
    /\ mailManager = IF app.notify THEN "running" ELSE "none"
    /\ dnsRestarts = {} /\ mailRestarts = {} /\ mu = 0

-----------------------------------------------------------------------------
(* config.Write and OnChange.                                              *)

\* One goroutine for each condition that holds: two for a change of both cron
\* and acme.enabled.
UpdateConfig(new) ==
    /\ updates < MaxUpdates
    /\ updates' = updates + 1
    /\ app' = new
    /\ dnsRestarts' = dnsRestarts
         \cup {[n |-> updates', for |-> f, at |-> "stop", cron |-> Unread] :
                 f \in {g \in {"cron", "acme"} : new[g] # app[g]}}
    /\ mailRestarts' = mailRestarts
         \cup IF new.notify # app.notify THEN {[n |-> updates', at |-> "stop"]} ELSE {}
    /\ UNCHANGED <<cronTasks, schedulerOn, mailManager, mu>>

-----------------------------------------------------------------------------
(* dns.Restart: Stop, RegisterCronTask twice, Start, without a lock.       *)

Goes(r, at) ==
    dnsRestarts' = (dnsRestarts \ {r}) \cup {[r EXCEPT !.at = at, !.cron = Unread]}

SchedulerStop(r) ==
    /\ r.at = "stop"
    /\ schedulerOn' = FALSE
    /\ Goes(r, "read")
    /\ UNCHANGED <<app, updates, cronTasks, mailVars>>

\* The schedule is read before the call that registers it.
ReadCron(r) ==
    /\ r.at = "read"
    /\ dnsRestarts' = (dnsRestarts \ {r}) \cup {[r EXCEPT !.at = "refresh", !.cron = app.cron]}
    /\ UNCHANGED <<app, updates, cronTasks, schedulerOn, mailVars>>

RegisterRefresh(r) ==
    /\ r.at = "refresh"
    /\ cronTasks' = [cronTasks EXCEPT !.refresh = r.cron]
    /\ Goes(r, "renew")
    /\ UNCHANGED <<app, updates, schedulerOn, mailVars>>

\* Only registered, never taken out.
RegisterRenew(r) ==
    /\ r.at = "renew"
    /\ cronTasks' = [cronTasks EXCEPT !.renew = @ \/ app.acme]
    /\ Goes(r, "start")
    /\ UNCHANGED <<app, updates, schedulerOn, mailVars>>

SchedulerStart(r) ==
    /\ r.at = "start"
    /\ schedulerOn' = TRUE
    /\ dnsRestarts' = dnsRestarts \ {r}
    /\ UNCHANGED <<app, updates, cronTasks, mailVars>>

-----------------------------------------------------------------------------
(* mail.Restart: Stop and Start, each under the mutex.                     *)

MailStop(r) ==
    /\ r.at = "stop" /\ mu = 0
    /\ mailManager' = "none"
    /\ mailRestarts' = (mailRestarts \ {r}) \cup {[r EXCEPT !.at = "start"]}
    /\ UNCHANGED <<app, updates, dnsVars, mu>>

\* mutant: the configuration is looked at before the mutex is taken.
MailCheckUnlocked(r) ==
    /\ r.at = "start" /\ mailManager = "none" /\ app.notify
    /\ mailRestarts' = (mailRestarts \ {r}) \cup {[r EXCEPT !.at = "create"]}
    /\ UNCHANGED <<app, updates, dnsVars, mailManager, mu>>

\* Start holds the mutex from its look at the configuration to the assignment.
MailCheck(r) ==
    /\ r.at = "start" /\ mu = 0 /\ mailManager = "none" /\ app.notify
    /\ mu' = r.n
    /\ mailRestarts' = (mailRestarts \ {r}) \cup {[r EXCEPT !.at = "create"]}
    /\ UNCHANGED <<app, updates, dnsVars, mailManager>>

MailNotStarted(r) ==
    /\ r.at = "start" /\ mu = 0 /\ (mailManager = "running" \/ ~app.notify)
    /\ mailRestarts' = mailRestarts \ {r}
    /\ UNCHANGED <<app, updates, dnsVars, mailManager, mu>>

MailStart(r) ==
    /\ r.at = "create"
    /\ mailManager' = "running"
    /\ mu' = 0
    /\ mailRestarts' = mailRestarts \ {r}
    /\ UNCHANGED <<app, updates, dnsVars>>

ServicesNext ==
    \/ \E new \in App \ {app} : UpdateConfig(new)
    \/ \E r \in dnsRestarts :
          \/ SchedulerStop(r) \/ ReadCron(r) \/ RegisterRefresh(r) \/ RegisterRenew(r)
          \/ SchedulerStart(r)
    \/ \E r \in mailRestarts : MailStop(r) \/ MailCheck(r) \/ MailNotStarted(r) \/ MailStart(r)

ServicesSpec == ServicesInit /\ [][ServicesNext]_servicesVars

-----------------------------------------------------------------------------
ServicesTypeOK ==
    /\ app \in App /\ updates \in 0..MaxUpdates
    /\ cronTasks \in [refresh: Crons, renew: BOOLEAN] /\ schedulerOn \in BOOLEAN
    /\ mailManager \in {"none", "running"} /\ mu \in 0..MaxUpdates
    /\ mu # 0 => \E r \in mailRestarts : r.n = mu /\ r.at = "create"

\* However restarts of several changes overlap (main.go:53-63 starts them as
\* goroutines), once they are over the scheduler runs, the renewal is scheduled
\* if ACME is on, and the mail manager is there exactly if notifications are.
ServicesFollowConfig ==
    /\ dnsRestarts = {} => schedulerOn /\ (app.acme => cronTasks.renew)
    /\ mailRestarts = {} => (mailManager = "running" <=> app.notify)
=============================================================================
