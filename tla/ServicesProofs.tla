--------------------------- MODULE ServicesProofs ---------------------------
(***************************************************************************)
(* Theorems about four services: the consensus about the public address    *)
(* (AddressConsensus), the restarts that follow a change of the            *)
(* configuration (ConfigServices), the delivery of a webhook task          *)
(* (TaskDelivery) and the mails about refreshes (MailReports).  They share *)
(* no state; each theorem is about the specification of one of them, for   *)
(* every value of its constants.                                           *)
(***************************************************************************)
EXTENDS AddressConsensus, ConfigServices, TaskDelivery, MailReports,
        FiniteSetTheorems, SequenceTheorems, TLAPS

---------------------------------------------------------------------------
(* Restarts after a change of the configuration *)

DnsRestart == [n : Nat, for : {"cron", "acme"}, at : {"stop", "read", "refresh", "renew", "start"},
               cron : Crons \union {Unread}]
MailRestart == [n : Nat \ {0}, at : {"stop", "start", "create"}]

RestartTypes ==
  /\ app \in App /\ updates \in 0 .. MaxUpdates
  /\ cronTasks \in [refresh : Crons, renew : BOOLEAN] /\ schedulerOn \in BOOLEAN
  /\ dnsRestarts \subseteq DnsRestart
  /\ \A r \in dnsRestarts : r.at = "refresh" => r.cron \in Crons
  /\ mailManager \in {"none", "running"} /\ mu \in 0 .. MaxUpdates
  /\ mailRestarts \subseteq MailRestart

\* A scheduler that is stopped, or lacks a renewal it should have, has a restart ahead that
\* starts it, or has yet to register the renewal.
BeforeRenew == {"stop", "read", "refresh", "renew"}
SchedulerFollows ==
  /\ dnsRestarts = {} => schedulerOn
  /\ app.acme => cronTasks.renew \/ \E r \in dnsRestarts : r.at \in BeforeRenew

\* The mutex is held by the one restart that has seen notifications enabled.
MutexHeld ==
  /\ \A r \in mailRestarts : r.n <= updates
  /\ \A r, s \in mailRestarts : r.n = s.n => r = s
  /\ \A r \in mailRestarts : r.at = "create" => mu = r.n
  /\ mu # 0 => \E r \in mailRestarts : r.n = mu /\ r.at = "create"

\* A manager that is missing has a restart ahead.  One that runs against the configuration,
\* or is about to, has one ahead that has not stopped it yet.
MailFollows ==
  /\ app.notify /\ mailManager = "none" => mailRestarts # {}
  /\ ~app.notify /\ (mailManager = "running" \/ mu # 0) =>
       \E r \in mailRestarts : r.at = "stop"

RestartInv == RestartTypes /\ SchedulerFollows /\ MutexHeld /\ MailFollows

LEMMA RestartInit == ServicesInit => RestartInv
BY ServicesBounds
DEF ServicesBounds, ServicesInit, RestartInv, RestartTypes, SchedulerFollows, MutexHeld,
    MailFollows, App

\* What one step of a restart leaves of the restarts.
LEMMA DnsRestartMoves ==
  ASSUME RestartTypes, NEW r \in dnsRestarts, NEW at \in {"read", "renew", "start"}, Goes(r, at)
  PROVE  /\ dnsRestarts' \subseteq DnsRestart /\ dnsRestarts' # {}
         /\ \A s \in dnsRestarts' : s.at = "refresh" => s.cron \in Crons
         /\ \A s \in dnsRestarts : s # r => s \in dnsRestarts'
         /\ \E s \in dnsRestarts' : s.at = at
<1> DEFINE moved == [r EXCEPT !.at = at, !.cron = Unread]
<1>1. moved \in DnsRestart /\ moved.at = at /\ at # "refresh"
  BY DEF RestartTypes, DnsRestart
<1>2. dnsRestarts' = (dnsRestarts \ {r}) \union {moved}
  BY DEF Goes
<1> HIDE DEF moved
<1>3. QED
  BY <1>1, <1>2 DEF RestartTypes

LEMMA MailRestartMoves ==
  ASSUME RestartTypes, NEW r \in mailRestarts, NEW at \in {"start", "create"},
         mailRestarts' = (mailRestarts \ {r}) \union {[r EXCEPT !.at = at]}
  PROVE  /\ mailRestarts' \subseteq MailRestart /\ mailRestarts' # {}
         /\ \A s \in mailRestarts' : \/ s \in mailRestarts /\ s # r
                                     \/ s.n = r.n /\ s.at = at
         /\ \A s, t \in mailRestarts' :
              s \notin mailRestarts \ {r} /\ t \notin mailRestarts \ {r} => s = t
         /\ \A s \in mailRestarts : s # r => s \in mailRestarts'
         /\ \E s \in mailRestarts' : s.n = r.n /\ s.at = at
<1> DEFINE moved == [r EXCEPT !.at = at]
<1>1. moved \in MailRestart /\ moved.at = at /\ moved.n = r.n
  BY DEF RestartTypes, MailRestart
<1>2. mailRestarts' = (mailRestarts \ {r}) \union {moved}
  OBVIOUS
<1> HIDE DEF moved
<1>3. QED
  BY <1>1, <1>2 DEF RestartTypes

LEMMA RestartStep == RestartInv /\ [ServicesNext]_servicesVars => RestartInv'
<1> SUFFICES ASSUME RestartInv, [ServicesNext]_servicesVars PROVE RestartInv'
  OBVIOUS
<1> RestartTypes /\ SchedulerFollows /\ MutexHeld /\ MailFollows
  BY DEF RestartInv
<1>1. ASSUME NEW new \in App, UpdateConfig(new) PROVE RestartInv'
  <2> DEFINE dns == {[n |-> updates', for |-> f, at |-> "stop", cron |-> Unread] :
                       f \in {g \in {"cron", "acme"} : new[g] # app[g]}}
             mail == IF new.notify # app.notify THEN {[n |-> updates', at |-> "stop"]} ELSE {}
  <2>1. /\ updates' = updates + 1 /\ updates' \in 1 .. MaxUpdates /\ app' = new
        /\ dnsRestarts' = dnsRestarts \union dns /\ mailRestarts' = mailRestarts \union mail
        /\ UNCHANGED <<cronTasks, schedulerOn, mailManager, mu>>
    BY <1>1, ServicesBounds DEF UpdateConfig, RestartTypes, ServicesBounds
  <2>2. /\ dns \subseteq DnsRestart /\ \A s \in dns : s.at = "stop"
        /\ new.acme # app.acme => dns # {}
    <3>1. updates' \in Nat
      BY <2>1
    <3>2. ASSUME NEW f \in {"cron", "acme"}
          PROVE  /\ [n |-> updates', for |-> f, at |-> "stop", cron |-> Unread] \in DnsRestart
                 /\ [n |-> updates', for |-> f, at |-> "stop", cron |-> Unread].at = "stop"
      BY <3>1 DEF DnsRestart
    <3>3. new.acme # app.acme => "acme" \in {g \in {"cron", "acme"} : new[g] # app[g]}
      OBVIOUS
    <3>4. QED
      BY <3>2, <3>3
  <2>3. /\ mail \subseteq MailRestart /\ \A s \in mail : s.at = "stop" /\ s.n = updates'
        /\ \A s, t \in mail : s = t
        /\ new.notify # app.notify => \E s \in mail : s.at = "stop"
    <3> DEFINE fresh == [n |-> updates', at |-> "stop"]
    <3>1. updates' \in Nat \ {0}
      BY <2>1
    <3>2. fresh \in MailRestart /\ fresh.at = "stop" /\ fresh.n = updates'
      BY <3>1 DEF MailRestart
    <3>3. mail = IF new.notify # app.notify THEN {fresh} ELSE {}
      OBVIOUS
    <3> HIDE DEF fresh, mail
    <3>4. QED
      BY <3>2, <3>3
  <2> HIDE DEF dns, mail
  <2>4. RestartTypes'
    BY <2>1, <2>2, <2>3 DEF RestartTypes
  <2>5. SchedulerFollows'
    BY <2>1, <2>2 DEF SchedulerFollows, BeforeRenew, RestartTypes, App
  <2>6. MutexHeld'
    <3>1. \A r \in mailRestarts : r.n \in Nat /\ updates \in Nat /\ r.n < updates'
      BY <2>1 DEF MutexHeld, RestartTypes, MailRestart
    <3>2. QED
      BY <2>1, <2>3, <3>1 DEF MutexHeld
  <2>7. MailFollows'
    BY <2>1, <2>3 DEF MailFollows, RestartTypes, App
  <2>8. QED
    BY <2>4, <2>5, <2>6, <2>7 DEF RestartInv
<1>2. ASSUME NEW r \in dnsRestarts, UNCHANGED <<app, updates, mailVars>>,
             RestartTypes', SchedulerFollows'
      PROVE  RestartInv'
  BY <1>2 DEF RestartInv, MutexHeld, MailFollows, mailVars
<1>3. ASSUME NEW r \in dnsRestarts, SchedulerStop(r) PROVE RestartInv'
  <2>1. Goes(r, "read") /\ UNCHANGED <<app, updates, cronTasks, mailVars>> /\ schedulerOn' = FALSE
    BY <1>3 DEF SchedulerStop
  <2>2. RestartTypes'
    BY <2>1, DnsRestartMoves DEF RestartTypes, mailVars
  <2>3. SchedulerFollows'
    BY <2>1, DnsRestartMoves DEF SchedulerFollows, BeforeRenew
  <2>4. QED
    BY <1>2, <2>1, <2>2, <2>3
<1>4. ASSUME NEW r \in dnsRestarts, ReadCron(r) PROVE RestartInv'
  <2> DEFINE moved == [r EXCEPT !.at = "refresh", !.cron = app.cron]
  <2>1. moved \in DnsRestart /\ moved.at = "refresh" /\ moved.cron \in Crons
    BY DEF RestartTypes, DnsRestart, App
  <2>2. /\ dnsRestarts' = (dnsRestarts \ {r}) \union {moved}
        /\ UNCHANGED <<app, updates, cronTasks, schedulerOn, mailVars>>
    BY <1>4 DEF ReadCron
  <2> HIDE DEF moved
  <2>3. RestartTypes'
    BY <2>1, <2>2 DEF RestartTypes, mailVars
  <2>4. SchedulerFollows'
    BY <2>1, <2>2 DEF SchedulerFollows, BeforeRenew
  <2>5. QED
    BY <1>2, <2>2, <2>3, <2>4
<1>5. ASSUME NEW r \in dnsRestarts, RegisterRefresh(r) PROVE RestartInv'
  <2>1. /\ r.at = "refresh" /\ Goes(r, "renew") /\ UNCHANGED <<app, updates, schedulerOn, mailVars>>
        /\ cronTasks' = [cronTasks EXCEPT !.refresh = r.cron]
    BY <1>5 DEF RegisterRefresh
  <2>2. cronTasks' \in [refresh : Crons, renew : BOOLEAN] /\ cronTasks'.renew = cronTasks.renew
    BY <2>1 DEF RestartTypes
  <2>3. RestartTypes'
    BY <2>1, <2>2, DnsRestartMoves DEF RestartTypes, mailVars
  <2>4. SchedulerFollows'
    BY <2>1, <2>2, DnsRestartMoves DEF SchedulerFollows, BeforeRenew
  <2>5. QED
    BY <1>2, <2>1, <2>3, <2>4
<1>6. ASSUME NEW r \in dnsRestarts, RegisterRenew(r) PROVE RestartInv'
  <2>1. /\ Goes(r, "start") /\ UNCHANGED <<app, updates, schedulerOn, mailVars>>
        /\ cronTasks' = [cronTasks EXCEPT !.renew = @ \/ app.acme]
    BY <1>6 DEF RegisterRenew
  <2>2. /\ cronTasks' \in [refresh : Crons, renew : BOOLEAN]
        /\ cronTasks'.renew = (cronTasks.renew \/ app.acme)
    BY <2>1 DEF RestartTypes, App
  <2>3. RestartTypes'
    BY <2>1, <2>2, DnsRestartMoves DEF RestartTypes, mailVars
  <2>4. SchedulerFollows'
    BY <2>1, <2>2, DnsRestartMoves DEF SchedulerFollows
  <2>5. QED
    BY <1>2, <2>1, <2>3, <2>4
<1>7. ASSUME NEW r \in dnsRestarts, SchedulerStart(r) PROVE RestartInv'
  <2>1. /\ r.at = "start" /\ schedulerOn' = TRUE /\ dnsRestarts' = dnsRestarts \ {r}
        /\ UNCHANGED <<app, updates, cronTasks, mailVars>>
    BY <1>7 DEF SchedulerStart
  <2>2. RestartTypes'
    BY <2>1 DEF RestartTypes, mailVars
  <2>3. SchedulerFollows'
    BY <2>1 DEF SchedulerFollows, BeforeRenew
  <2>4. QED
    BY <1>2, <2>1, <2>2, <2>3
<1>8. ASSUME UNCHANGED <<app, updates, dnsVars>>, RestartTypes', MutexHeld', MailFollows'
      PROVE  RestartInv'
  BY <1>8 DEF RestartInv, SchedulerFollows, dnsVars
<1>9. ASSUME NEW r \in mailRestarts, MailStop(r) PROVE RestartInv'
  <2>1. /\ r.at = "stop" /\ mu = 0 /\ mailManager' = "none"
        /\ mailRestarts' = (mailRestarts \ {r}) \union {[r EXCEPT !.at = "start"]}
        /\ UNCHANGED <<app, updates, dnsVars, mu>>
    BY <1>9 DEF MailStop
  <2>2. RestartTypes'
    BY <2>1, MailRestartMoves DEF RestartTypes, dnsVars
  <2>3. MutexHeld'
    BY <2>1, MailRestartMoves DEF MutexHeld
  <2>4. MailFollows'
    BY <2>1, MailRestartMoves DEF MailFollows
  <2>5. QED
    BY <1>8, <2>1, <2>2, <2>3, <2>4
<1>10. ASSUME NEW r \in mailRestarts, MailCheck(r) PROVE RestartInv'
  <2>1. /\ r.at = "start" /\ mu = 0 /\ mu' = r.n /\ app.notify
        /\ mailRestarts' = (mailRestarts \ {r}) \union {[r EXCEPT !.at = "create"]}
        /\ UNCHANGED <<app, updates, dnsVars, mailManager>>
    BY <1>10 DEF MailCheck
  <2>2. r.n \in 1 .. MaxUpdates
    <3>1. r.n \in Nat /\ r.n # 0 /\ updates \in 0 .. MaxUpdates
      BY DEF RestartTypes, MailRestart
    <3>2. r.n <= updates
      BY DEF MutexHeld
    <3>3. QED
      BY <3>1, <3>2, ServicesBounds DEF ServicesBounds
  <2>3. RestartTypes'
    BY <2>1, <2>2, MailRestartMoves DEF RestartTypes, dnsVars
  <2>4. MutexHeld'
    <3>1. \A s \in mailRestarts : s.at # "create"
      BY <2>1 DEF MutexHeld, RestartTypes, MailRestart
    <3>2. QED
      BY <2>1, <2>2, <3>1, MailRestartMoves DEF MutexHeld
  <2>5. MailFollows'
    BY <2>1, MailRestartMoves DEF MailFollows
  <2>6. QED
    BY <1>8, <2>1, <2>3, <2>4, <2>5
<1>11. ASSUME NEW r \in mailRestarts, MailNotStarted(r) PROVE RestartInv'
  <2>1. /\ r.at = "start" /\ mu = 0 /\ (mailManager = "running" \/ ~app.notify)
        /\ mailRestarts' = mailRestarts \ {r}
        /\ UNCHANGED <<app, updates, dnsVars, mailManager, mu>>
    BY <1>11 DEF MailNotStarted
  <2>2. RestartTypes' /\ MutexHeld'
    BY <2>1 DEF RestartTypes, MutexHeld, dnsVars
  <2>3. MailFollows'
    BY <2>1 DEF MailFollows
  <2>4. QED
    BY <1>8, <2>1, <2>2, <2>3
<1>12. ASSUME NEW r \in mailRestarts, MailStart(r) PROVE RestartInv'
  <2>1. /\ r.at = "create" /\ mailManager' = "running" /\ mu' = 0
        /\ mailRestarts' = mailRestarts \ {r}
        /\ UNCHANGED <<app, updates, dnsVars>>
    BY <1>12 DEF MailStart
  <2>2. mu = r.n /\ mu # 0
    BY <2>1 DEF MutexHeld, RestartTypes, MailRestart
  <2>3. RestartTypes'
    BY <2>1, ServicesBounds DEF RestartTypes, dnsVars, ServicesBounds
  <2>4. MutexHeld'
    BY <2>1, <2>2 DEF MutexHeld
  <2>5. MailFollows'
    BY <2>1, <2>2 DEF MailFollows
  <2>6. QED
    BY <1>8, <2>1, <2>3, <2>4, <2>5
<1>13. ASSUME UNCHANGED servicesVars PROVE RestartInv'
  BY <1>13
  DEF servicesVars, dnsVars, mailVars, RestartInv, RestartTypes, SchedulerFollows, MutexHeld,
      MailFollows
<1>14. QED
  BY <1>1, <1>3, <1>4, <1>5, <1>6, <1>7, <1>9, <1>10, <1>11, <1>12, <1>13 DEF ServicesNext

LEMMA RestartInvariant == ServicesSpec => []RestartInv
BY RestartInit, RestartStep, PTL DEF ServicesSpec

\* The restarts keep their types, and the mutex of the mail manager has one holder.
THEOREM ServicesTyped == ServicesSpec => []ServicesTypeOK
<1>1. RestartInv => ServicesTypeOK
  BY DEF RestartInv, RestartTypes, MutexHeld, ServicesTypeOK
<1>2. QED
  BY <1>1, RestartInvariant, PTL

\* However many changes of the configuration follow each other, and however their restarts
\* overlap, the last one to end leaves the scheduler running, with the renewal if ACME is on,
\* and the mail manager as the configuration wants it.
THEOREM ServicesFollow == ServicesSpec => []ServicesFollowConfig
<1>1. RestartInv => ServicesFollowConfig
  BY DEF RestartInv, RestartTypes, SchedulerFollows, MailFollows, ServicesFollowConfig
<1>2. QED
  BY <1>1, RestartInvariant, PTL

---------------------------------------------------------------------------
(* The delivery of a task *)

LEMMA FilesFacts == DOMAIN Files = {1, 2} /\ Len(Files) = 2
BY DEF Files

\* A result is only ever recorded of a handler that came to its end.
RecordedOK ==
  \A r \in Runs :
    /\ outcome[r] = "ok" => worker[r] = "done"
    /\ row[r] = "success" => worker[r] = "done"
    /\ worker[r] = "none" => written[r] = 0

\* A handler that is alone has written the files up to where it is.
AloneOK ==
  ~overlapped =>
    /\ \A r, q \in Runs : Handling(r) /\ Handling(q) => r = q
    /\ \A r \in Runs : Handling(r) => \A i \in {1, 2} : i <= written[r] => files[i] = r
    /\ \E r \in Runs \union {0} : \A i \in {1, 2} : service[i] = r

DeliveryInv == DeliveryTypeOK /\ RecordedOK /\ AloneOK

LEMMA DeliveryTypes ==
  DeliveryTypeOK <=>
    /\ step \in [Runs -> {"idle", "event", "test", "finish", "ended"}]
    /\ row \in [Runs -> {"none", "running", "success", "failed"}]
    /\ outcome \in [Runs -> {"none", "ok", "error"}]
    /\ worker \in [Runs -> {"none", "busy", "done", "failed"}]
    /\ written \in [Runs -> 0 .. 2]
    /\ cancelled \subseteq Runs /\ lastResult \in 0 .. MaxRuns
    /\ files \in [{1, 2} -> 0 .. Torn] /\ service \in [{1, 2} -> 0 .. Torn]
BY FilesFacts DEF DeliveryTypeOK

LEMMA DeliveryInitial == DeliveryInit => DeliveryInv
<1> SUFFICES ASSUME DeliveryInit PROVE DeliveryInv
  OBVIOUS
<1>1. DeliveryTypeOK
  <2>1. 0 \in 0 .. Torn /\ 0 \in 0 .. MaxRuns
    BY DeliveryBounds DEF DeliveryBounds, Torn
  <2>2. files = [i \in {1, 2} |-> 0] /\ service = [i \in {1, 2} |-> 0]
    BY FilesFacts DEF DeliveryInit
  <2>3. QED
    BY <2>1, <2>2, DeliveryTypes DEF DeliveryInit
<1>2. RecordedOK
  BY DEF DeliveryInit, RecordedOK
<1>3. AloneOK
  <2>1. service = [i \in {1, 2} |-> 0]
    BY FilesFacts DEF DeliveryInit
  <2>2. QED
    BY <2>1 DEF DeliveryInit, AloneOK, Handling
<1>4. QED
  BY <1>1, <1>2, <1>3 DEF DeliveryInv

\* A step of HDNS leaves the worker alone, or the worker's files and handlers.
LEMMA WorkerUntouched ==
  ASSUME AloneOK, UNCHANGED <<worker, written, files, service, overlapped>> PROVE AloneOK'
BY DEF AloneOK, Handling

LEMMA DeliveryStep == DeliveryInv /\ [DeliveryNext]_deliveryVars => DeliveryInv'
<1> SUFFICES ASSUME DeliveryInv, [DeliveryNext]_deliveryVars PROVE DeliveryInv'
  OBVIOUS
<1> DeliveryTypeOK /\ RecordedOK /\ AloneOK
  BY DEF DeliveryInv
<1>t. /\ step \in [Runs -> {"idle", "event", "test", "finish", "ended"}]
      /\ row \in [Runs -> {"none", "running", "success", "failed"}]
      /\ outcome \in [Runs -> {"none", "ok", "error"}]
      /\ worker \in [Runs -> {"none", "busy", "done", "failed"}]
      /\ written \in [Runs -> 0 .. 2]
      /\ cancelled \subseteq Runs /\ lastResult \in 0 .. MaxRuns
      /\ files \in [{1, 2} -> 0 .. Torn] /\ service \in [{1, 2} -> 0 .. Torn]
  BY DeliveryTypes
<1>r. \A r \in Runs : r \in 0 .. Torn /\ r \in 0 .. MaxRuns /\ Torn \in 0 .. Torn
  BY DeliveryBounds DEF DeliveryBounds, Torn, Runs
<1>1. ASSUME NEW r \in Runs, FireTask(r) PROVE DeliveryInv'
  <2>1. DeliveryTypeOK'
    BY <1>1, <1>t, FilesFacts DEF DeliveryTypeOK, FireTask, workerVars
  <2>2. RecordedOK' /\ AloneOK'
    BY <1>1, <1>t, WorkerUntouched DEF FireTask, workerVars, RecordedOK
  <2>3. QED
    BY <2>1, <2>2 DEF DeliveryInv
<1>2. ASSUME NEW r \in Runs, RunTask(r) PROVE DeliveryInv'
  <2>1. DeliveryTypeOK'
    BY <1>2, <1>t, FilesFacts DEF DeliveryTypeOK, RunTask, workerVars
  <2>2. RecordedOK' /\ AloneOK'
    BY <1>2, <1>t, WorkerUntouched DEF RunTask, workerVars, RecordedOK
  <2>3. QED
    BY <2>1, <2>2 DEF DeliveryInv
<1>3. ASSUME NEW r \in Runs, CallWorker(r) PROVE DeliveryInv'
  <2>1. DeliveryTypeOK'
    BY <1>3, <1>t, FilesFacts DEF DeliveryTypeOK, CallWorker
  <2>2. RecordedOK'
    BY <1>3, <1>t DEF CallWorker, RecordedOK
  <2>3. CASE worker' = worker /\ overlapped' = overlapped
    BY <1>3, <2>1, <2>2, <2>3, WorkerUntouched DEF CallWorker, DeliveryInv
  <2>4. CASE /\ worker' = [worker EXCEPT ![r] = "busy"]
             /\ overlapped' = (overlapped \/ \E q \in Runs : Handling(q))
    <3>1. written[r] = 0 /\ UNCHANGED <<written, files, service>>
      BY <1>3 DEF CallWorker, RecordedOK
    <3>2. AloneOK'
      <4> SUFFICES ASSUME ~overlapped' PROVE AloneOK'
        BY DEF AloneOK
      <4>1. ~overlapped /\ \A q \in Runs : ~Handling(q)
        BY <2>4
      <4>2. \A q \in Runs : Handling(q)' <=> q = r
        BY <1>t, <2>4, <4>1 DEF Handling
      <4>3. \A i \in {1, 2} : ~(i <= written'[r])
        BY <3>1
      <4>4. QED
        BY <3>1, <4>1, <4>2, <4>3 DEF AloneOK
    <3>3. QED
      BY <2>1, <2>2, <3>2 DEF DeliveryInv
  <2>5. QED
    BY <1>3, <2>3, <2>4 DEF CallWorker
<1>4. ASSUME NEW r \in Runs, Response(r) PROVE DeliveryInv'
  <2>1. DeliveryTypeOK'
    BY <1>4, <1>t, FilesFacts DEF DeliveryTypeOK, Response, workerVars
  <2>2. RecordedOK' /\ AloneOK'
    BY <1>4, <1>t, WorkerUntouched DEF Response, workerVars, RecordedOK
  <2>3. QED
    BY <2>1, <2>2 DEF DeliveryInv
<1>5. ASSUME NEW r \in Runs, Timeout(r) PROVE DeliveryInv'
  <2>1. DeliveryTypeOK'
    BY <1>5, <1>t, FilesFacts DEF DeliveryTypeOK, Timeout
  <2>2. RecordedOK' /\ AloneOK'
    BY <1>5, <1>t, WorkerUntouched DEF Timeout, RecordedOK
  <2>3. QED
    BY <2>1, <2>2 DEF DeliveryInv
<1>6. ASSUME NEW r \in Runs, UpdateTaskResult(r) PROVE DeliveryInv'
  <2>1. DeliveryTypeOK'
    BY <1>6, <1>t, <1>r, FilesFacts DEF DeliveryTypeOK, UpdateTaskResult, workerVars
  <2>2. RecordedOK' /\ AloneOK'
    BY <1>6, <1>t, WorkerUntouched DEF UpdateTaskResult, workerVars, RecordedOK
  <2>3. QED
    BY <2>1, <2>2 DEF DeliveryInv
<1>7. ASSUME NEW r \in Runs, FinishTaskRun(r) PROVE DeliveryInv'
  <2>1. DeliveryTypeOK'
    BY <1>7, <1>t, FilesFacts DEF DeliveryTypeOK, FinishTaskRun, workerVars
  <2>2. RecordedOK' /\ AloneOK'
    BY <1>7, <1>t, WorkerUntouched DEF FinishTaskRun, workerVars, RecordedOK
  <2>3. QED
    BY <2>1, <2>2 DEF DeliveryInv
<1>8. ASSUME StopHdns PROVE DeliveryInv'
  <2>1. DeliveryTypeOK'
    BY <1>8, <1>t, FilesFacts DEF DeliveryTypeOK, StopHdns
  <2>2. RecordedOK' /\ AloneOK'
    BY <1>8, <1>t, WorkerUntouched DEF StopHdns, RecordedOK
  <2>3. QED
    BY <2>1, <2>2 DEF DeliveryInv
<1>9. ASSUME NEW r \in Runs, SaveFile(r) PROVE DeliveryInv'
  <2>1. /\ Handling(r) /\ written[r] < 2
        /\ files' = [files EXCEPT ![written[r] + 1] = r]
        /\ written' = [written EXCEPT ![r] = @ + 1]
        /\ UNCHANGED <<hdnsVars, worker, cancelled, service, overlapped>>
    BY <1>9, FilesFacts DEF SaveFile, Saving
  <2>2. written[r] + 1 \in {1, 2} /\ written[r] \in Nat
    BY <2>1, <1>t
  <2>3. DeliveryTypeOK'
    BY <2>1, <2>2, <1>t, <1>r, FilesFacts DEF DeliveryTypeOK, hdnsVars
  <2>4. RecordedOK'
    BY <2>1, <1>t DEF RecordedOK, Handling, hdnsVars
  <2>5. AloneOK'
    <3> SUFFICES ASSUME ~overlapped' PROVE AloneOK'
      BY DEF AloneOK
    <3>1. \A q \in Runs : Handling(q)' => q = r
      BY <2>1 DEF AloneOK, Handling
    <3>2. ASSUME NEW i \in {1, 2}, i <= written'[r] PROVE files'[i] = r
      <4>1. i = written[r] + 1 \/ i <= written[r]
        BY <2>1, <2>2, <3>2, <1>t
      <4>2. QED
        BY <2>1, <2>2, <4>1, <1>t DEF AloneOK
    <3>3. QED
      BY <2>1, <3>1, <3>2 DEF AloneOK
  <2>6. QED
    BY <2>3, <2>4, <2>5 DEF DeliveryInv
<1>10. ASSUME NEW r \in Runs, worker[r] = "busy", worker' = [worker EXCEPT ![r] = "failed"],
              UNCHANGED <<hdnsVars, written, cancelled, overlapped>>,
              files' \in [{1, 2} -> 0 .. Torn], service' \in {service, files},
              service' = files => AllSaved(r)
       PROVE  DeliveryInv'
  <2>1. DeliveryTypeOK'
    BY <1>10, <1>t, FilesFacts DEF DeliveryTypeOK, hdnsVars
  <2>2. RecordedOK'
    BY <1>10, <1>t DEF RecordedOK, hdnsVars
  <2>3. AloneOK'
    <3> SUFFICES ASSUME ~overlapped' PROVE AloneOK'
      BY DEF AloneOK
    <3>1. \A q \in Runs : ~Handling(q)'
      BY <1>10, <1>t DEF AloneOK, Handling
    <3>2. CASE service' = service
      BY <1>10, <3>1, <3>2 DEF AloneOK
    <3>3. CASE service' = files /\ AllSaved(r)
      <4>1. written[r] = 2 /\ Handling(r)
        BY <3>3, FilesFacts DEF AllSaved
      <4>2. \A i \in {1, 2} : files[i] = r
        BY <1>10, <4>1 DEF AloneOK
      <4>3. QED
        BY <3>1, <3>3, <4>2 DEF AloneOK
    <3>4. QED
      BY <1>10, <3>2, <3>3
  <2>4. QED
    BY <2>1, <2>2, <2>3 DEF DeliveryInv
<1>11. ASSUME NEW r \in Runs, SaveFails(r) PROVE DeliveryInv'
  <2>1. files' \in [{1, 2} -> 0 .. Torn]
    <3>1. written[r] + 1 \in {1, 2}
      BY <1>11, <1>t, FilesFacts DEF SaveFails, Saving
    <3>2. QED
      BY <1>11, <1>t, <1>r, <3>1 DEF SaveFails, MayTear
  <2>2. worker[r] = "busy" /\ worker' = [worker EXCEPT ![r] = "failed"] /\ service' = service
        /\ UNCHANGED <<hdnsVars, written, cancelled, overlapped>>
    BY <1>11 DEF SaveFails, Saving, Handling
  <2>3. DeliveryTypeOK'
    BY <2>1, <2>2, <1>t, FilesFacts DEF DeliveryTypeOK, hdnsVars
  <2>4. RecordedOK'
    BY <2>2, <1>t DEF RecordedOK, hdnsVars
  <2>5. AloneOK'
    BY <2>2, <1>t DEF AloneOK, Handling
  <2>6. QED
    BY <2>3, <2>4, <2>5 DEF DeliveryInv
<1>12. ASSUME NEW r \in Runs, RestartFails(r) PROVE DeliveryInv'
  BY <1>10, <1>12, <1>t DEF RestartFails, AllSaved, Handling
<1>13. ASSUME NEW r \in Runs, RestartService(r) PROVE DeliveryInv'
  <2>1. /\ Handling(r) /\ written[r] = 2 /\ service' = files
        /\ worker' = [worker EXCEPT ![r] = "done"]
        /\ UNCHANGED <<hdnsVars, written, cancelled, files, overlapped>>
    BY <1>13, FilesFacts DEF RestartService, AllSaved
  <2>2. DeliveryTypeOK'
    BY <2>1, <1>t, FilesFacts DEF DeliveryTypeOK, hdnsVars
  <2>3. RecordedOK'
    BY <2>1, <1>t DEF RecordedOK, Handling, hdnsVars
  <2>4. AloneOK'
    <3> SUFFICES ASSUME ~overlapped' PROVE AloneOK'
      BY DEF AloneOK
    <3>1. \A q \in Runs : ~Handling(q)'
      BY <2>1, <1>t DEF AloneOK, Handling
    <3>2. \A i \in {1, 2} : files[i] = r
      BY <2>1 DEF AloneOK
    <3>3. QED
      BY <2>1, <3>1, <3>2 DEF AloneOK
  <2>5. QED
    BY <2>2, <2>3, <2>4 DEF DeliveryInv
<1>14. ASSUME StopWorker PROVE DeliveryInv'
  <2>1. /\ worker' = [r \in Runs |-> IF Handling(r) THEN "failed" ELSE worker[r]]
        /\ UNCHANGED <<hdnsVars, written, cancelled, service, overlapped>>
    BY <1>14 DEF StopWorker
  <2>2. files' \in [{1, 2} -> 0 .. Torn]
    <3>1. PICK cut : files' = [i \in {1, 2} |-> IF \E r \in cut : written[r] + 1 = i THEN Torn
                                                ELSE files[i]]
      BY <1>14, FilesFacts DEF StopWorker
    <3>2. Torn \in 0 .. Torn
      BY DeliveryBounds DEF DeliveryBounds, Torn
    <3>3. QED
      BY <3>1, <3>2, <1>t
  <2>3. worker' \in [Runs -> {"none", "busy", "done", "failed"}]
    BY <2>1, <1>t
  <2>4. DeliveryTypeOK'
    BY <2>1, <2>2, <2>3, <1>t, FilesFacts DEF DeliveryTypeOK, hdnsVars
  <2>5. RecordedOK'
    BY <2>1, <1>t DEF RecordedOK, Handling, hdnsVars
  <2>6. \A q \in Runs : ~Handling(q)'
    BY <2>1, <1>t DEF Handling
  <2>7. AloneOK'
    BY <2>1, <2>6 DEF AloneOK
  <2>8. QED
    BY <2>4, <2>5, <2>7 DEF DeliveryInv
<1>15. ASSUME UNCHANGED deliveryVars PROVE DeliveryInv'
  <2>1. DeliveryTypeOK'
    BY <1>15, <1>t, FilesFacts DEF DeliveryTypeOK, deliveryVars
  <2>2. RecordedOK' /\ AloneOK'
    BY <1>15, WorkerUntouched DEF deliveryVars, RecordedOK
  <2>3. QED
    BY <2>1, <2>2 DEF DeliveryInv
<1>16. QED
  BY <1>1, <1>2, <1>3, <1>4, <1>5, <1>6, <1>7, <1>8, <1>9, <1>11, <1>12, <1>13, <1>14, <1>15
  DEF DeliveryNext

LEMMA DeliveryInvariant == DeliverySpec => []DeliveryInv
BY DeliveryInitial, DeliveryStep, PTL DEF DeliverySpec

\* Runs, their rows and the service's files keep their types.
THEOREM DeliveryTyped == DeliverySpec => []DeliveryTypeOK
<1>1. DeliveryInv => DeliveryTypeOK
  BY DEF DeliveryInv
<1>2. QED
  BY <1>1, DeliveryInvariant, PTL

\* A run recorded as a success has completed all its actions, and a service whose deliveries
\* do not overlap never runs on a mixture of two of them or on a file cut off, whatever fails,
\* times out or is killed on either side.
THEOREM WholeDeliveries == DeliverySpec => []DeliveredWhole
<1>1. DeliveryInv => DeliveredWhole
  BY FilesFacts DEF DeliveryInv, RecordedOK, AloneOK, DeliveredWhole
<1>2. QED
  BY <1>1, DeliveryInvariant, PTL

---------------------------------------------------------------------------
(* Mails about refreshes *)

Report == [n : Nat, sev : Severities, at : {"allow", "manager", "send"}]
Pass == [n : Nat, sev : Severities, minute : Nat]

ReportTypes ==
  /\ settings \in [enabled : BOOLEAN, onSuccess : BOOLEAN, cooldown : Cooldowns]
  /\ minute \in 0 .. MaxMinutes
  /\ lastSentAt \in [Severities -> Never .. MaxMinutes]
  /\ managerOn \in BOOLEAN /\ reported \in 0 .. MaxReports
  /\ reports \subseteq Report
  /\ passed \in Seq(Pass)

\* Only a report that passed is sent.
SentOK ==
  /\ mails \subseteq {passed[i].n : i \in DOMAIN passed}
  /\ \A r \in reports : r.at # "allow" => \E i \in DOMAIN passed : passed[i].n = r.n

\* The stamps stand for what passed: that of the failures is their last, that of the
\* successes is theirs, unless a failure has made room since.
StampsOK ==
  /\ \A i \in DOMAIN passed : passed[i].minute <= minute
  /\ \A i \in DOMAIN passed :
       passed[i].sev = "failure" => passed[i].minute <= lastSentAt["failure"]
  /\ \A i \in DOMAIN passed :
       passed[i].sev = "success" =>
         \/ passed[i].minute <= lastSentAt["success"]
         \/ \E k \in i .. Len(passed) : passed[k].sev = "failure"
  /\ lastSentAt["failure"] # Never =>
       \E i \in DOMAIN passed :
         passed[i].sev = "failure" /\ passed[i].minute = lastSentAt["failure"]

\* Two that passed are a window apart, whether or not they were sent.
Apart(i, j) ==
  \/ passed[j].minute - passed[i].minute >= settings.cooldown
  \/ passed[i].sev = "success" /\ \E k \in i .. j : passed[k].sev = "failure"

PacedOK ==
  /\ \A i, j \in DOMAIN passed : i < j /\ passed[i].sev = passed[j].sev => Apart(i, j)
  /\ \A m \in silenced : \E i \in DOMAIN passed :
       /\ passed[i].sev = "failure"
       /\ passed[i].minute <= m /\ m - passed[i].minute < settings.cooldown

ReportsInv ==
  ReportTypes /\ SentOK /\ (settings.cooldown > 0 => StampsOK /\ PacedOK)

LEMMA ReportsInitial == ReportsInit => ReportsInv
<1> SUFFICES ASSUME ReportsInit PROVE ReportsInv
  OBVIOUS
<1>1. ReportTypes
  <2>1. settings \in [enabled : BOOLEAN, onSuccess : BOOLEAN, cooldown : Cooldowns]
    BY DEF ReportsInit
  <2>2. lastSentAt \in [Severities -> Never .. MaxMinutes]
    BY ReportBounds DEF ReportsInit, ReportBounds, Never
  <2>3. passed \in Seq(Pass)
    BY DEF ReportsInit
  <2>4. QED
    BY <2>1, <2>2, <2>3, ReportBounds DEF ReportsInit, ReportTypes, ReportBounds
<1>2. SentOK /\ StampsOK /\ PacedOK
  BY DEF ReportsInit, SentOK, StampsOK, PacedOK, Never, Severities
<1>3. QED
  BY <1>1, <1>2 DEF ReportsInv

LEMMA CooldownIsNat == ASSUME ReportTypes PROVE settings.cooldown \in Nat
BY ReportBounds DEF ReportTypes, ReportBounds

LEMMA PassedFields ==
  ASSUME ReportTypes
  PROVE  \A i \in DOMAIN passed :
           passed[i] \in Pass /\ passed[i].minute \in Nat /\ passed[i].sev \in Severities
<1>1. passed \in Seq(Pass) /\ DOMAIN passed = 1 .. Len(passed)
  BY DEF ReportTypes
<1>2. \A i \in DOMAIN passed : passed[i] \in Pass
  BY <1>1
<1>3. QED
  BY <1>2 DEF Pass

\* What Append leaves of the sequence.
LEMMA PassedGrows ==
  ASSUME ReportTypes, NEW e \in Pass, passed' = Append(passed, e)
  PROVE  /\ passed' \in Seq(Pass) /\ Len(passed) \in Nat /\ Len(passed') = Len(passed) + 1
         /\ DOMAIN passed = 1 .. Len(passed) /\ DOMAIN passed' = 1 .. Len(passed')
         /\ \A i \in 1 .. Len(passed) : passed'[i] = passed[i] /\ passed[i] \in Pass
         /\ passed'[Len(passed')] = e
BY DEF ReportTypes

\* A step that lets no report pass and holds none back.
LEMMA NothingPasses ==
  ASSUME ReportsInv, ReportTypes',
         UNCHANGED <<lastSentAt, passed, silenced>>,
         settings'.cooldown = settings.cooldown, minute <= minute',
         mails' \subseteq mails \union {r.n : r \in {q \in reports : q.at # "allow"}},
         \A r \in reports' : r.at # "allow" =>
            \E q \in reports : q.at # "allow" /\ q.n = r.n
  PROVE  ReportsInv'
<1>1. SentOK'
  BY DEF ReportsInv, SentOK
<1>2. ASSUME settings'.cooldown > 0 PROVE StampsOK' /\ PacedOK'
  <2>1. StampsOK /\ PacedOK
    BY <1>2 DEF ReportsInv
  <2>2. StampsOK'
    <3>1. \A i \in DOMAIN passed : passed[i].minute \in Nat
      BY PassedFields DEF ReportsInv
    <3>2. minute \in Int /\ minute' \in Int
      BY DEF ReportsInv, ReportTypes
    <3>3. \A i \in DOMAIN passed : passed[i].minute <= minute'
      BY <2>1, <3>1, <3>2 DEF StampsOK
    <3>4. QED
      BY <2>1, <3>3 DEF StampsOK
  <2>3. PacedOK'
    BY <2>1 DEF PacedOK, Apart
  <2>4. QED
    BY <2>2, <2>3
<1>3. QED
  BY <1>1, <1>2 DEF ReportsInv

\* allowBySeverity lets a report pass.
LEMMA OnePasses ==
  ASSUME ReportsInv, NEW r \in reports, r.at = "allow", Cool(lastSentAt[r.sev]),
         lastSentAt' = Stamped(r.sev),
         passed' = Append(passed, [n |-> r.n, sev |-> r.sev, minute |-> minute]),
         UNCHANGED <<silenced, settings, minute>>, settings.cooldown > 0
  PROVE  StampsOK' /\ PacedOK'
<1> DEFINE e == [n |-> r.n, sev |-> r.sev, minute |-> minute]
           N == Len(passed')
<1>1. /\ ReportTypes /\ StampsOK /\ PacedOK /\ settings.cooldown \in Nat
      /\ r \in Report /\ r.sev \in Severities /\ minute \in Nat
  BY CooldownIsNat DEF ReportsInv, ReportTypes, Report
<1>2. e \in Pass /\ e.n = r.n /\ e.sev = r.sev /\ e.minute = minute
  BY <1>1 DEF Pass, Report
<1>3. passed' = Append(passed, e)
  OBVIOUS
<1> HIDE DEF e
<1>4. /\ Len(passed) \in Nat /\ N = Len(passed) + 1
      /\ DOMAIN passed = 1 .. Len(passed) /\ DOMAIN passed' = 1 .. N
      /\ \A i \in 1 .. Len(passed) : passed'[i] = passed[i] /\ passed[i] \in Pass
      /\ passed'[N] = e
  BY <1>1, <1>2, <1>3, PassedGrows
<1> HIDE DEF N
<1>5. /\ \A i \in 1 .. Len(passed) : passed[i].minute \in Nat /\ passed[i].sev \in Severities
      /\ \A i \in 1 .. N : i \in 1 .. Len(passed) \/ i = N
      /\ N \in 1 .. N
  BY <1>4 DEF Pass
<1>6. /\ lastSentAt \in [Severities -> Never .. MaxMinutes]
      /\ lastSentAt["failure"] \in Int /\ lastSentAt["success"] \in Int
      /\ lastSentAt[r.sev] \in Int
  BY <1>1, ReportBounds DEF ReportTypes, ReportBounds, Severities, Never
<1>7. \/ r.sev = "failure" /\ lastSentAt'["failure"] = minute /\ lastSentAt'["success"] = Never
      \/ /\ r.sev = "success" /\ lastSentAt'["success"] = minute
         /\ lastSentAt'["failure"] = lastSentAt["failure"]
  BY <1>1, <1>6 DEF Stamped, Severities
<1>8. lastSentAt[r.sev] = Never \/ minute - lastSentAt[r.sev] >= settings.cooldown
  BY <1>1 DEF Cool
<1>9. StampsOK'
  <2>1. \A i \in DOMAIN passed' : passed'[i].minute <= minute'
    BY <1>1, <1>2, <1>4, <1>5 DEF StampsOK
  <2>2. ASSUME NEW i \in DOMAIN passed', passed'[i].sev = "failure"
        PROVE  passed'[i].minute <= lastSentAt'["failure"]
    <3>1. CASE i = N
      BY <1>1, <1>2, <1>4, <1>7, <2>2, <3>1
    <3>2. CASE i \in 1 .. Len(passed)
      <4>1. passed[i].minute <= lastSentAt["failure"] /\ passed[i].minute <= minute
        BY <1>1, <1>4, <2>2, <3>2 DEF StampsOK
      <4>2. QED
        BY <1>4, <1>7, <3>2, <4>1
    <3>3. QED
      BY <1>4, <1>5, <3>1, <3>2
  <2>3. ASSUME NEW i \in DOMAIN passed', passed'[i].sev = "success"
        PROVE  \/ passed'[i].minute <= lastSentAt'["success"]
               \/ \E k \in i .. Len(passed') : passed'[k].sev = "failure"
    <3>1. CASE r.sev = "failure"
      <4>1. passed'[N].sev = "failure" /\ N \in i .. Len(passed')
        BY <1>2, <1>4, <3>1, <2>3 DEF N
      <4>2. QED
        BY <4>1
    <3>2. CASE r.sev = "success"
      <4>1. passed'[i].minute <= minute
        BY <2>1
      <4>2. QED
        BY <1>7, <3>2, <4>1
    <3>3. QED
      BY <1>1, <3>1, <3>2 DEF Severities
  <2>4. ASSUME lastSentAt'["failure"] # Never
        PROVE  \E i \in DOMAIN passed' :
                 passed'[i].sev = "failure" /\ passed'[i].minute = lastSentAt'["failure"]
    <3>1. CASE r.sev = "failure"
      BY <1>2, <1>4, <1>5, <1>7, <3>1
    <3>2. CASE r.sev = "success"
      <4>1. PICK i \in DOMAIN passed :
              passed[i].sev = "failure" /\ passed[i].minute = lastSentAt["failure"]
        BY <1>1, <1>7, <2>4, <3>2 DEF StampsOK
      <4>2. i \in DOMAIN passed' /\ passed'[i] = passed[i]
        BY <1>4
      <4>3. QED
        BY <1>7, <3>2, <4>1, <4>2
    <3>3. QED
      BY <1>1, <3>1, <3>2 DEF Severities
  <2>5. QED
    BY <2>1, <2>2, <2>3, <2>4 DEF StampsOK
<1>10. PacedOK'
  <2>1. ASSUME NEW i \in DOMAIN passed', NEW j \in DOMAIN passed', i < j,
               passed'[i].sev = passed'[j].sev
        PROVE  Apart(i, j)'
    <3>1. i \in 1 .. Len(passed) /\ i \in DOMAIN passed /\ i \in Nat /\ j \in Nat
      BY <1>4, <2>1
    <3>2. CASE j \in 1 .. Len(passed)
      <4>1. Apart(i, j)
        BY <1>1, <1>4, <2>1, <3>1, <3>2 DEF PacedOK
      <4>2. passed'[i] = passed[i] /\ passed'[j] = passed[j]
        BY <1>4, <3>1, <3>2
      <4>3. \A k \in i .. j : k \in 1 .. Len(passed)
        BY <3>1, <3>2, <1>4
      <4>4. \A k \in i .. j : passed'[k] = passed[k]
        BY <1>4, <4>3
      <4>5. QED
        BY <4>1, <4>2, <4>4 DEF Apart
    <3>3. CASE j = N
      <4>1. passed[i].sev = r.sev /\ passed'[i] = passed[i] /\ passed'[j].minute = minute
        BY <1>2, <1>4, <2>1, <3>1, <3>3
      <4>2. CASE \E k \in i .. Len(passed) : passed[k].sev = "failure" /\ r.sev = "success"
        <5>1. PICK k \in i .. Len(passed) : passed[k].sev = "failure"
          BY <4>2
        <5>2. k \in i .. j /\ passed'[k] = passed[k]
          BY <1>4, <3>1, <3>3
        <5>3. QED
          BY <4>1, <4>2, <5>1, <5>2 DEF Apart
      <4>3. CASE passed[i].minute <= lastSentAt[r.sev]
        <5>1. passed[i].minute \in Nat
          BY <1>5, <3>1
        <5>2. lastSentAt[r.sev] # Never
          BY <1>6, <4>3, <5>1 DEF Never
        <5>3. minute - passed[i].minute >= settings.cooldown
          BY <1>1, <1>6, <1>8, <4>3, <5>1, <5>2
        <5>4. QED
          BY <4>1, <5>3 DEF Apart
      <4>4. QED
        BY <1>1, <3>1, <4>1, <4>2, <4>3 DEF StampsOK, Severities
    <3>4. QED
      BY <1>4, <1>5, <2>1, <3>2, <3>3
  <2>2. ASSUME NEW m \in silenced'
        PROVE  \E i \in DOMAIN passed' :
                 /\ passed'[i].sev = "failure"
                 /\ passed'[i].minute <= m /\ m - passed'[i].minute < settings'.cooldown
    <3>1. PICK i \in DOMAIN passed :
            /\ passed[i].sev = "failure"
            /\ passed[i].minute <= m /\ m - passed[i].minute < settings.cooldown
      BY <1>1 DEF PacedOK
    <3>2. i \in DOMAIN passed' /\ passed'[i] = passed[i]
      BY <1>4
    <3>3. QED
      BY <3>1, <3>2
  <2>3. QED
    BY <2>1, <2>2 DEF PacedOK
<1>11. QED
  BY <1>9, <1>10

LEMMA ReportsStep == ReportsInv /\ [ReportsNext]_reportVars => ReportsInv'
<1> SUFFICES ASSUME ReportsInv, [ReportsNext]_reportVars PROVE ReportsInv'
  OBVIOUS
<1> ReportTypes /\ SentOK /\ settings.cooldown \in Nat
  BY CooldownIsNat DEF ReportsInv
<1>m. minute \in Int /\ minute <= minute
  BY DEF ReportTypes
<1>1. ASSUME NEW sev \in Severities, SendReport(sev) PROVE ReportsInv'
  <2> DEFINE fresh == [n |-> reported', sev |-> sev, at |-> "allow"]
  <2>1. /\ reported' \in 0 .. MaxReports /\ reported' \in Nat
        /\ reports' \subseteq reports \union {fresh}
        /\ UNCHANGED <<settings, minute, lastSentAt, managerOn, historyVars>>
    BY <1>1, ReportBounds DEF SendReport, ReportTypes, ReportBounds
  <2>2. fresh \in Report /\ fresh.at = "allow"
    BY <2>1 DEF Report
  <2> HIDE DEF fresh
  <2>3. ReportTypes'
    BY <2>1, <2>2 DEF ReportTypes, historyVars
  <2>4. QED
    BY <1>m, <2>1, <2>2, <2>3, NothingPasses DEF historyVars
<1>2. ASSUME NEW r \in reports, AllowBySeverity(r), Cool(lastSentAt[r.sev]) PROVE ReportsInv'
  <2> DEFINE moved == [r EXCEPT !.at = "manager"]
             e == [n |-> r.n, sev |-> r.sev, minute |-> minute]
  <2>1. /\ r.at = "allow" /\ lastSentAt' = Stamped(r.sev)
        /\ reports' = (reports \ {r}) \union {moved}
        /\ passed' = Append(passed, e)
        /\ UNCHANGED <<silenced, settings, minute, managerOn, reported, mails>>
    BY <1>2 DEF AllowBySeverity
  <2>2. /\ r \in Report /\ moved \in Report /\ moved.n = r.n
        /\ e \in Pass /\ e.n = r.n
    <3>1. r \in Report
      BY DEF ReportTypes
    <3>2. moved \in Report /\ moved.n = r.n
      BY <3>1 DEF Report
    <3>3. minute \in Nat
      BY DEF ReportTypes
    <3>4. e \in Pass /\ e.n = r.n
      BY <3>1, <3>3 DEF Report, Pass
    <3>5. QED
      BY <3>1, <3>2, <3>4
  <2>3. settings.cooldown > 0 => StampsOK' /\ PacedOK'
    BY <1>2, <2>1, OnePasses
  <2> HIDE DEF moved, e
  <2>4. /\ passed' \in Seq(Pass) /\ DOMAIN passed \subseteq DOMAIN passed'
        /\ \A i \in DOMAIN passed : passed'[i] = passed[i]
        /\ \E i \in DOMAIN passed' : passed'[i].n = r.n
    BY <2>1, <2>2, PassedGrows
  <2>5. ReportTypes'
    <3>1. lastSentAt' \in [Severities -> Never .. MaxMinutes]
      <4>1. minute \in Never .. MaxMinutes /\ Never \in Never .. MaxMinutes
        BY ReportBounds DEF ReportTypes, ReportBounds, Never
      <4>2. QED
        BY <2>1, <4>1 DEF Stamped, ReportTypes
    <3>2. QED
      BY <2>1, <2>2, <2>4, <3>1 DEF ReportTypes
  <2>6. SentOK'
    <3>1. mails' \subseteq {passed'[i].n : i \in DOMAIN passed'}
      BY <2>1, <2>4 DEF SentOK
    <3>2. \A s \in reports' : s.at # "allow" => \E i \in DOMAIN passed' : passed'[i].n = s.n
      BY <2>1, <2>2, <2>4 DEF SentOK
    <3>3. QED
      BY <3>1, <3>2 DEF SentOK
  <2>7. QED
    BY <2>1, <2>3, <2>5, <2>6 DEF ReportsInv
<1>3. ASSUME NEW r \in reports, AllowBySeverity(r), ~Cool(lastSentAt[r.sev]) PROVE ReportsInv'
  <2>1. /\ reports' = reports \ {r}
        /\ silenced' = silenced \union (IF r.sev = "failure" THEN {minute} ELSE {})
        /\ UNCHANGED <<lastSentAt, passed, settings, minute, managerOn, reported, mails>>
    BY <1>3 DEF AllowBySeverity
  <2>2. ReportTypes' /\ SentOK'
    BY <2>1 DEF ReportTypes, SentOK
  <2>3. ASSUME settings.cooldown > 0 PROVE StampsOK' /\ PacedOK'
    <3>1. StampsOK /\ PacedOK
      BY <2>3 DEF ReportsInv
    <3>2. StampsOK'
      BY <2>1, <3>1 DEF StampsOK
    <3>3. ASSUME NEW m \in silenced' \ silenced
          PROVE  \E i \in DOMAIN passed :
                   /\ passed[i].sev = "failure"
                   /\ passed[i].minute <= m /\ m - passed[i].minute < settings.cooldown
      <4>1. r.sev = "failure" /\ m = minute
        BY <2>1, <3>3
      <4>2. lastSentAt["failure"] # Never /\ ~(minute - lastSentAt["failure"] >= settings.cooldown)
        BY <1>3, <4>1 DEF Cool
      <4>3. PICK i \in DOMAIN passed :
              passed[i].sev = "failure" /\ passed[i].minute = lastSentAt["failure"]
        BY <3>1, <4>2 DEF StampsOK
      <4>4. passed[i].minute <= minute /\ passed[i].minute \in Int
        BY <3>1, PassedFields DEF StampsOK
      <4>5. minute - passed[i].minute < settings.cooldown
        BY <1>m, <4>2, <4>3, <4>4
      <4>6. QED
        BY <4>1, <4>3, <4>4, <4>5
    <3>4. PacedOK'
      BY <2>1, <3>1, <3>3 DEF PacedOK, Apart
    <3>5. QED
      BY <3>2, <3>4
  <2>4. QED
    BY <2>1, <2>2, <2>3 DEF ReportsInv
<1>4. ASSUME NEW r \in reports, TakeManager(r) PROVE ReportsInv'
  <2> DEFINE moved == [r EXCEPT !.at = "send"]
  <2>1. /\ r.at = "manager" /\ reports' \subseteq reports \union {moved}
        /\ UNCHANGED <<settings, minute, lastSentAt, managerOn, reported, historyVars>>
    BY <1>4 DEF TakeManager
  <2>2. moved \in Report /\ moved.n = r.n
    BY DEF ReportTypes, Report
  <2> HIDE DEF moved
  <2>3. ReportTypes'
    BY <2>1, <2>2 DEF ReportTypes, historyVars
  <2>4. QED
    BY <1>m, <2>1, <2>2, <2>3, NothingPasses DEF historyVars
<1>5. ASSUME NEW r \in reports, SendMail(r) PROVE ReportsInv'
  <2>1. /\ r.at = "send" /\ reports' = reports \ {r} /\ mails' \subseteq mails \union {r.n}
        /\ UNCHANGED <<settings, minute, lastSentAt, managerOn, reported, passed, silenced>>
    BY <1>5 DEF SendMail
  <2>2. ReportTypes'
    BY <2>1 DEF ReportTypes
  <2>3. QED
    BY <1>m, <2>1, <2>2, NothingPasses
<1>6. ASSUME NEW new \in [enabled : BOOLEAN, onSuccess : BOOLEAN, cooldown : Cooldowns],
             ChangeSettings(new)
      PROVE  ReportsInv'
  <2>1. ReportTypes'
    BY <1>6 DEF ChangeSettings, ReportTypes, historyVars
  <2>2. QED
    BY <1>6, <1>m, <2>1, NothingPasses DEF ChangeSettings, historyVars
<1>7. ASSUME StopManager \/ StartManager \/ UNCHANGED reportVars PROVE ReportsInv'
  <2>1. UNCHANGED <<settings, minute, lastSentAt, reports, reported, historyVars>>
        /\ managerOn' \in BOOLEAN
    BY <1>7 DEF StopManager, StartManager, reportVars, ReportTypes
  <2>2. ReportTypes'
    BY <2>1 DEF ReportTypes, historyVars
  <2>3. QED
    BY <1>m, <2>1, <2>2, NothingPasses DEF historyVars
<1>8. ASSUME MinutePasses PROVE ReportsInv'
  <2>1. /\ minute' \in 0 .. MaxMinutes /\ minute <= minute'
        /\ UNCHANGED <<settings, lastSentAt, managerOn, reports, reported, historyVars>>
    BY <1>8, ReportBounds DEF MinutePasses, ReportTypes, ReportBounds
  <2>2. ReportTypes'
    BY <2>1 DEF ReportTypes, historyVars
  <2>3. QED
    BY <2>1, <2>2, NothingPasses DEF historyVars
<1>9. QED
  BY <1>1, <1>2, <1>3, <1>4, <1>5, <1>6, <1>7, <1>8 DEF ReportsNext

LEMMA ReportsInvariant == ReportsSpec => []ReportsInv
BY ReportsInitial, ReportsStep, PTL DEF ReportsSpec

\* Settings, stamps and reports keep their types, and what was sent had passed.
THEOREM ReportsTyped == ReportsSpec => []ReportsTypeOK
<1>1. ReportsInv => ReportsTypeOK
  BY DEF ReportsInv, ReportTypes, SentOK, ReportsTypeOK
<1>2. QED
  BY <1>1, ReportsInvariant, PTL

\* Two mails of one severity are a cooldown apart, or successes with a failure between them,
\* and only an earlier failure holds a failure back: for any number of refreshes that end at
\* a time, any cooldown and any restart of the mail manager.
THEOREM ReportsArePaced == ReportsSpec => []ReportsPaced
<1>1. ReportsInv => ReportsPaced
  <2> SUFFICES ASSUME ReportsInv, settings.cooldown > 0 PROVE ReportsPaced
    BY DEF ReportsPaced
  <2>1. PacedOK
    BY DEF ReportsInv
  <2>2. QED
    BY <2>1 DEF PacedOK, Apart, ReportsPaced
<1>2. QED
  BY <1>1, ReportsInvariant, PTL

---------------------------------------------------------------------------
(* The consensus about the address *)

\* No answer.  Left unexpanded where the provers calculate: they do no arithmetic in an
\* obligation that holds an empty string.
NoAddress == ""
Outcomes == Candidates \union {NoAddress}
First(a, i) == i \in DOMAIN answers /\ answers[i] = a /\ \A j \in 1 .. (i - 1) : answers[j] # a

ConsensusTypes ==
  /\ answers \in Seq(Outcomes) /\ Len(answers) <= Resolvers
  /\ counts \in [Candidates -> Nat]
  /\ firstSeen \in [Candidates -> Nat]
  /\ unvisited \subseteq Candidates
  /\ best.count \in Int /\ best.firstSeen \in Int
  /\ selected \in Candidates \union {"asking", "picking", NoAddress}
  /\ \A a \in Candidates : firstSeen[a] <= Resolvers

\* The map of the votes agrees with the answers.
CountsOK ==
  /\ \A a \in Candidates : counts[a] = Votes(a)
  /\ \A i \in DOMAIN answers : answers[i] # NoAddress => counts[answers[i]] > 0
  /\ \A a \in Seen : \E i : First(a, i)

\* firstSeen orders the addresses as their first answers do: it counts only the successful
\* ones, which is enough.
OrderOK ==
  /\ \A a \in Seen : firstSeen[a] < Successful
  /\ \A a, b \in Seen : \A i, j : First(a, i) /\ First(b, j) /\ i < j =>
       firstSeen[a] < firstSeen[b]

Beats(b, a) == counts[a] < counts[b] \/ (counts[a] = counts[b] /\ firstSeen[b] < firstSeen[a])

\* The loop has the best of those it has visited, in whatever order.
Untouched == best.addr = NoAddress /\ best.count = -1
LoopOK ==
  /\ selected = "asking" => Untouched /\ unvisited = {}
  /\ selected = "picking" =>
       /\ unvisited \subseteq Seen /\ Seen # {}
       /\ \/ Untouched /\ unvisited = Seen
          \/ /\ best.addr \in Seen \ unvisited
             /\ best.count = counts[best.addr] /\ best.firstSeen = firstSeen[best.addr]
             /\ \A a \in (Seen \ unvisited) \ {best.addr} : Beats(best.addr, a)

ChosenOK ==
  selected \notin {"asking", "picking"} =>
    IF Seen = {} THEN selected = NoAddress
    ELSE selected \in Seen /\ \A a \in Seen \ {selected} : Beats(selected, a)

ConsensusInv == ConsensusTypes /\ CountsOK /\ OrderOK /\ LoopOK /\ ChosenOK

LEMMA ResolversNat == Resolvers \in Nat
BY ConsensusConstants DEF ConsensusConstants

LEMMA NoAddressNames == NoAddress # "asking" /\ NoAddress # "picking"
BY DEF NoAddress

LEMMA CandidateNames == \A a \in Candidates : a # NoAddress /\ a # "asking" /\ a # "picking"
BY ConsensusConstants DEF ConsensusConstants, NoAddress

LEMMA Lengths ==
  ASSUME ConsensusTypes
  PROVE  /\ Len(answers) \in Nat /\ DOMAIN answers = 1 .. Len(answers)
         /\ \A i \in 1 .. Len(answers) : answers[i] \in Outcomes
         /\ IsFiniteSet(1 .. Len(answers)) /\ Cardinality(1 .. Len(answers)) <= Len(answers)
<1> answers \in Seq(Outcomes)
  BY DEF ConsensusTypes
<1>1. Len(answers) \in Nat /\ DOMAIN answers = 1 .. Len(answers)
  BY LenProperties
<1>2. IsFiniteSet(1 .. Len(answers)) /\ Cardinality(1 .. Len(answers)) <= Len(answers)
  BY <1>1, FS_Interval
<1>3. \A i \in 1 .. Len(answers) : answers[i] \in Outcomes
  BY LenProperties
<1>4. QED
  BY <1>1, <1>2, <1>3

\* The number of answers of some kind.
LEMMA VotesAreNat ==
  ASSUME ConsensusTypes
  PROVE  /\ \A a : Votes(a) \in Nat /\ Votes(a) <= Resolvers
         /\ Successful \in Nat /\ Successful <= Resolvers
<1>1. ASSUME NEW T \in SUBSET (1 .. Len(answers))
      PROVE  Cardinality(T) \in Nat /\ Cardinality(T) <= Resolvers
  <2>1. IsFiniteSet(T) /\ Cardinality(T) <= Cardinality(1 .. Len(answers))
    BY Lengths, FS_Subset
  <2>2. Cardinality(T) \in Nat /\ Cardinality(1 .. Len(answers)) \in Nat
    BY <2>1, Lengths, FS_CardinalityType
  <2>3. QED
    <3>1. Len(answers) <= Resolvers /\ Len(answers) \in Nat /\ Resolvers \in Nat
          /\ Cardinality(1 .. Len(answers)) <= Len(answers)
      BY Lengths, ResolversNat DEF ConsensusTypes
    <3>2. QED
      BY <2>1, <2>2, <3>1
<1>2. \A a : {i \in DOMAIN answers : answers[i] = a} \in SUBSET (1 .. Len(answers))
  BY Lengths
<1>3. {i \in DOMAIN answers : answers[i] # NoAddress} \in SUBSET (1 .. Len(answers))
  BY Lengths
<1>4. \A a : Votes(a) \in Nat /\ Votes(a) <= Resolvers
  BY <1>1, <1>2 DEF Votes
<1>5. Successful \in Nat /\ Successful <= Resolvers
  BY <1>1, <1>3 DEF Successful, NoAddress
<1>6. QED
  BY <1>4, <1>5

LEMMA FirstIsUnique ==
  ASSUME ConsensusTypes, NEW a, NEW i, NEW j, First(a, i), First(a, j) PROVE i = j
BY Lengths DEF First

LEMMA FirstVoteIs ==
  ASSUME ConsensusTypes, NEW a, NEW i, First(a, i) PROVE FirstVote(a) = i
<1>1. \A j : First(a, j) => j = i
  BY FirstIsUnique
<1>2. FirstVote(a) = CHOOSE j \in DOMAIN answers : First(a, j)
  BY DEF FirstVote, First
<1>3. QED
  BY <1>1, <1>2 DEF First

\* Two addresses were never seen first at the same time.
LEMMA SeenApart ==
  ASSUME ConsensusTypes, CountsOK, OrderOK, NEW a \in Seen, NEW b \in Seen, a # b
  PROVE  firstSeen[a] # firstSeen[b]
<1>1. PICK i, j : First(a, i) /\ First(b, j)
  BY DEF CountsOK
<1>2. i \in Nat /\ j \in Nat /\ i # j
  BY <1>1, Lengths DEF First
<1>3. firstSeen[a] \in Nat /\ firstSeen[b] \in Nat
  BY DEF ConsensusTypes, Seen
<1>4. firstSeen[a] < firstSeen[b] \/ firstSeen[b] < firstSeen[a]
  BY <1>1, <1>2 DEF OrderOK
<1>5. QED
  BY <1>3, <1>4

\* One more answer.
LEMMA OneMoreAnswer ==
  ASSUME ConsensusTypes, NEW o \in Outcomes, answers' = Append(answers, o),
         Len(answers) < Resolvers
  PROVE  /\ answers' \in Seq(Outcomes) /\ Len(answers') <= Resolvers
         /\ DOMAIN answers' = 1 .. (Len(answers) + 1)
         /\ answers'[Len(answers) + 1] = o
         /\ \A i \in 1 .. Len(answers) : answers'[i] = answers[i]
         /\ \A a : Votes(a)' = IF a = o THEN Votes(a) + 1 ELSE Votes(a)
         /\ Successful' = IF o = NoAddress THEN Successful ELSE Successful + 1
<1> DEFINE N == Len(answers) + 1
<1>1. /\ answers' \in Seq(Outcomes) /\ Len(answers') = N /\ DOMAIN answers' = 1 .. N
      /\ answers'[N] = o /\ \A i \in 1 .. Len(answers) : answers'[i] = answers[i]
      /\ Len(answers) \in Nat /\ N \notin 1 .. Len(answers)
  <2> answers \in Seq(Outcomes)
    BY DEF ConsensusTypes
  <2>1. Len(answers) \in Nat /\ DOMAIN answers = 1 .. Len(answers)
    BY LenProperties
  <2>2. /\ answers' \in Seq(Outcomes) /\ Len(answers') = N /\ answers'[N] = o
        /\ \A i \in 1 .. Len(answers) : answers'[i] = answers[i]
    BY AppendProperties
  <2>3. DOMAIN answers' = 1 .. N
    BY <2>2, LenProperties
  <2>4. QED
    BY <2>1, <2>2, <2>3
<1>2. Len(answers') <= Resolvers
  <2>1. Len(answers') = Len(answers) + 1 /\ Len(answers) \in Nat
    BY <1>1
  <2>2. QED
    BY <2>1, ResolversNat
<1>3. \A i \in 1 .. N : i \in 1 .. Len(answers) \/ i = N
  BY <1>1
<1>4. N \in 1 .. N /\ \A i \in 1 .. Len(answers) : i \in 1 .. N
  BY <1>1
<1>5. ASSUME NEW a PROVE Votes(a)' = IF a = o THEN Votes(a) + 1 ELSE Votes(a)
  <2> DEFINE S == {i \in DOMAIN answers : answers[i] = a}
             T == {i \in DOMAIN answers' : answers'[i] = a}
  <2>1. IsFiniteSet(S) /\ N \notin S
    <3>1. S \in SUBSET (1 .. Len(answers))
      BY Lengths
    <3>2. QED
      BY <3>1, <1>1, Lengths, FS_Subset
  <2>2. CASE a = o
    <3>1. T = S \union {N}
      BY <1>1, <1>3, <1>4, <2>2, Lengths
    <3>2. Cardinality(T) = Cardinality(S) + 1
      BY <2>1, <3>1, FS_AddElement
    <3>3. QED
      BY <2>2, <3>2 DEF Votes
  <2>3. CASE a # o
    <3>1. T = S
      BY <1>1, <1>3, <1>4, <2>3, Lengths
    <3>2. QED
      BY <2>3, <3>1 DEF Votes
  <2>4. QED
    BY <2>2, <2>3
<1>6. Successful' = IF o = NoAddress THEN Successful ELSE Successful + 1
  <2> DEFINE S == {i \in DOMAIN answers : answers[i] # NoAddress}
             T == {i \in DOMAIN answers' : answers'[i] # NoAddress}
  <2>1. IsFiniteSet(S) /\ N \notin S
    <3>1. S \in SUBSET (1 .. Len(answers))
      BY Lengths
    <3>2. QED
      BY <3>1, <1>1, Lengths, FS_Subset
  <2>2. CASE o # NoAddress
    <3>1. T = S \union {N}
      BY <1>1, <1>3, <1>4, <2>2, Lengths
    <3>2. Cardinality(T) = Cardinality(S) + 1
      BY <2>1, <3>1, FS_AddElement
    <3>3. QED
      BY <2>2, <3>2 DEF Successful, NoAddress
  <2>3. CASE o = NoAddress
    <3>1. T = S
      BY <1>1, <1>3, <1>4, <2>3, Lengths
    <3>2. QED
      BY <2>3, <3>1 DEF Successful, NoAddress
  <2>4. QED
    BY <2>2, <2>3
<1>7. QED
  BY <1>1, <1>2, <1>5, <1>6

LEMMA ConsensusInitial == ConsensusInit => ConsensusInv
<1> SUFFICES ASSUME ConsensusInit PROVE ConsensusInv
  OBVIOUS
<1>0. /\ answers = <<>> /\ unvisited = {} /\ counts = [a \in Candidates |-> 0]
      /\ firstSeen = [a \in Candidates |-> 0] /\ selected \in {NoAddress, "asking"}
      /\ best.addr = NoAddress /\ best.count = -1 /\ best.firstSeen = 0
  BY DEF ConsensusInit, NoAddress
<1>1. ConsensusTypes
  <2>1. answers \in Seq(Outcomes) /\ Len(answers) = 0
    BY <1>0, EmptySeq
  <2>2. Len(answers) <= Resolvers
    BY <2>1, ResolversNat
  <2>3. counts \in [Candidates -> Nat] /\ firstSeen \in [Candidates -> Nat]
    BY <1>0
  <2>4. best.count \in Int /\ best.firstSeen \in Int
    BY <1>0
  <2>5. \A a \in Candidates : firstSeen[a] <= Resolvers
    BY <1>0, ResolversNat
  <2>6. QED
    BY <1>0, <2>1, <2>2, <2>3, <2>4, <2>5 DEF ConsensusTypes
<1>2. Seen = {} /\ answers = <<>> /\ DOMAIN answers = {}
  <2>1. \A a \in Candidates : counts[a] = 0
    BY <1>0
  <2>2. Seen = {}
    BY <2>1 DEF Seen
  <2>3. DOMAIN answers = {}
    BY <1>0
  <2>4. QED
    BY <1>0, <2>2, <2>3
<1>3. \A a : Votes(a) = 0
  <2>1. \A a : {i \in DOMAIN answers : answers[i] = a} = {}
    BY <1>2
  <2>2. QED
    BY <2>1, FS_EmptySet DEF Votes
<1>4. CountsOK /\ OrderOK
  <2>1. \A a \in Candidates : counts[a] = 0
    BY <1>0
  <2>2. QED
    BY <1>2, <1>3, <2>1 DEF CountsOK, OrderOK
<1>5. LoopOK /\ ChosenOK
  <2>1. Untouched /\ unvisited = {}
    BY <1>0 DEF Untouched
  <2>2. selected = NoAddress \/ selected = "asking"
    BY <1>0
  <2>3. QED
    BY <1>2, <2>1, <2>2, NoAddressNames DEF LoopOK, ChosenOK
<1>6. QED
  BY <1>1, <1>4, <1>5 DEF ConsensusInv

\* A resolver fails: the votes stay as they are.
LEMMA FailedAnswer ==
  ASSUME ConsensusInv, selected = "asking", Len(answers) < Resolvers,
         answers' = Append(answers, NoAddress), UNCHANGED <<counts, firstSeen, unvisited, best, selected>>
  PROVE  ConsensusInv'
<1> ConsensusTypes /\ CountsOK /\ OrderOK /\ LoopOK
  BY DEF ConsensusInv
<1>1. NoAddress \in Outcomes /\ NoAddress \notin Candidates
  BY CandidateNames DEF Outcomes
<1>2. ConsensusTypes'
  BY <1>1, OneMoreAnswer DEF ConsensusTypes
<1>3. Seen' = Seen /\ Seen \subseteq Candidates /\ Successful' = Successful
      /\ \A a \in Candidates : Votes(a)' = Votes(a)
  BY <1>1, OneMoreAnswer DEF Seen
<1>4. \A a \in Candidates : \A i : First(a, i)' <=> First(a, i)
  <2> SUFFICES ASSUME NEW a \in Candidates, NEW i PROVE First(a, i)' <=> First(a, i)
    OBVIOUS
  <2>1. /\ DOMAIN answers' = 1 .. (Len(answers) + 1) /\ DOMAIN answers = 1 .. Len(answers)
        /\ Len(answers) \in Nat /\ answers'[Len(answers) + 1] # a
        /\ \A j \in 1 .. Len(answers) : answers'[j] = answers[j]
    BY <1>1, OneMoreAnswer, Lengths
  <2>2. ASSUME First(a, i)' PROVE First(a, i)
    <3>1. i \in 1 .. (Len(answers) + 1) /\ answers'[i] = a /\ \A j \in 1 .. (i - 1) : answers'[j] # a
      BY <2>1, <2>2 DEF First
    <3>2. i # Len(answers) + 1
      BY <2>1, <3>1
    <3>3. i \in 1 .. Len(answers) /\ \A j \in 1 .. (i - 1) : j \in 1 .. Len(answers)
      BY <2>1, <3>1, <3>2
    <3>4. QED
      BY <2>1, <3>1, <3>3 DEF First
  <2>3. ASSUME First(a, i) PROVE First(a, i)'
    <3>1. i \in 1 .. Len(answers) /\ answers[i] = a /\ \A j \in 1 .. (i - 1) : answers[j] # a
      BY <2>1, <2>3 DEF First
    <3>2. i \in 1 .. (Len(answers) + 1) /\ \A j \in 1 .. (i - 1) : j \in 1 .. Len(answers)
      BY <2>1, <3>1
    <3>3. QED
      BY <2>1, <3>1, <3>2 DEF First
  <2>4. QED
    BY <2>2, <2>3
<1>5. CountsOK'
  <2>1. \A i \in DOMAIN answers' : answers'[i] # NoAddress => i \in DOMAIN answers /\ answers'[i] = answers[i]
    <3>1. /\ DOMAIN answers' = 1 .. (Len(answers) + 1) /\ DOMAIN answers = 1 .. Len(answers)
          /\ Len(answers) \in Nat /\ answers'[Len(answers) + 1] = NoAddress
          /\ \A i \in 1 .. Len(answers) : answers'[i] = answers[i]
      BY <1>1, OneMoreAnswer, Lengths
    <3>2. \A i \in 1 .. (Len(answers) + 1) : i \in 1 .. Len(answers) \/ i = Len(answers) + 1
      BY <3>1
    <3>3. QED
      BY <3>1, <3>2
  <2>2. QED
    BY <1>3, <1>4, <2>1 DEF CountsOK
<1>6. OrderOK'
  BY <1>3, <1>4 DEF OrderOK
<1>7. LoopOK' /\ ChosenOK'
  BY DEF LoopOK, ChosenOK, Untouched
<1>8. QED
  BY <1>2, <1>5, <1>6, <1>7 DEF ConsensusInv

\* A resolver answers with an address.
LEMMA GoodAnswer ==
  ASSUME ConsensusInv, selected = "asking", Len(answers) < Resolvers, NEW c \in Candidates,
         answers' = Append(answers, c),
         firstSeen' = IF c \in Seen THEN firstSeen ELSE [firstSeen EXCEPT ![c] = Successful],
         counts' = [counts EXCEPT ![c] = @ + 1], UNCHANGED <<unvisited, best, selected>>
  PROVE  ConsensusInv'
<1> DEFINE N == Len(answers) + 1
<1> ConsensusTypes /\ CountsOK /\ OrderOK /\ LoopOK
  BY DEF ConsensusInv
<1>1. c \in Outcomes /\ c # NoAddress
  BY CandidateNames DEF Outcomes
<1>2. /\ answers' \in Seq(Outcomes) /\ Len(answers') <= Resolvers
      /\ DOMAIN answers' = 1 .. N /\ answers'[N] = c
      /\ \A i \in 1 .. Len(answers) : answers'[i] = answers[i]
      /\ \A a : Votes(a)' = IF a = c THEN Votes(a) + 1 ELSE Votes(a)
      /\ Successful' = Successful + 1 /\ Successful \in Nat
      /\ DOMAIN answers = 1 .. Len(answers) /\ Len(answers) \in Nat
  BY <1>1, OneMoreAnswer, Lengths, VotesAreNat
<1>3. /\ counts \in [Candidates -> Nat] /\ firstSeen \in [Candidates -> Nat]
      /\ \A a \in Candidates : counts'[a] = IF a = c THEN counts[a] + 1 ELSE counts[a]
      /\ \A a \in Candidates : firstSeen'[a] = IF a = c /\ c \notin Seen THEN Successful
                                               ELSE firstSeen[a]
  BY DEF ConsensusTypes
<1>4. ConsensusTypes'
  <2>1. counts' \in [Candidates -> Nat] /\ firstSeen' \in [Candidates -> Nat]
    BY <1>2, <1>3
  <2>2. \A a \in Candidates : firstSeen'[a] <= Resolvers
    <3>1. Successful <= Resolvers
      BY VotesAreNat
    <3>2. QED
      BY <1>3, <3>1 DEF ConsensusTypes
  <2>3. QED
    BY <1>2, <2>1, <2>2 DEF ConsensusTypes
<1>5. Seen' = Seen \union {c} /\ Seen \subseteq Candidates
  BY <1>3 DEF Seen
<1>6. \A a \in Candidates : \A i : First(a, i) => First(a, i)'
  BY <1>2 DEF First
<1>7. ASSUME NEW a \in Seen, NEW i, First(a, i)' PROVE First(a, i)
  <2>1. PICK k : First(a, k)
    BY DEF CountsOK
  <2>2. First(a, k)' /\ k \in 1 .. Len(answers)
    BY <1>2, <1>5, <1>6, <2>1 DEF First
  <2>3. i = k
    BY <1>2, <1>7, <2>2 DEF First
  <2>4. QED
    BY <2>1, <2>3
<1>8. ASSUME c \notin Seen PROVE \A i : First(c, i)' <=> i = N
  <2>1. \A i \in 1 .. Len(answers) : answers[i] # c
    BY <1>1, <1>2, <1>3, <1>8 DEF CountsOK, Seen
  <2>2. \A i \in 1 .. Len(answers) : answers'[i] # c
    BY <1>2, <2>1
  <2>3. ASSUME NEW i, i = N PROVE First(c, i)'
    <3>1. \A j \in 1 .. (i - 1) : j \in 1 .. Len(answers)
      BY <1>2, <2>3
    <3>2. i \in DOMAIN answers' /\ answers'[i] = c
      BY <1>2, <2>3
    <3>3. QED
      BY <2>2, <3>1, <3>2 DEF First
  <2>4. ASSUME NEW i, First(c, i)' PROVE i = N
    <3>1. i \in 1 .. N /\ i \notin 1 .. Len(answers)
      BY <1>2, <2>2, <2>4 DEF First
    <3>2. QED
      BY <1>2, <3>1
  <2>5. QED
    BY <2>3, <2>4
<1>9. CountsOK'
  <2>1. \A a \in Candidates : counts'[a] = Votes(a)'
    BY <1>2, <1>3 DEF CountsOK
  <2>2. ASSUME NEW i \in DOMAIN answers', answers'[i] # NoAddress PROVE counts'[answers'[i]] > 0
    <3>1. CASE i = N
      BY <1>2, <1>3, <3>1
    <3>2. CASE i \in 1 .. Len(answers)
      <4>1. answers'[i] = answers[i] /\ counts[answers[i]] > 0 /\ answers[i] \in Candidates
        BY <1>2, <2>2, <3>2, Lengths DEF CountsOK, Outcomes
      <4>2. counts[answers[i]] \in Nat
        BY <1>3, <4>1
      <4>3. QED
        BY <1>3, <4>1, <4>2
    <3>3. i \in 1 .. N /\ Len(answers) \in Nat
      BY <1>2, <2>2
    <3>4. i = N \/ i \in 1 .. Len(answers)
      BY <3>3
    <3>5. QED
      BY <3>1, <3>2, <3>4
  <2>3. \A a \in Seen' : \E i : First(a, i)'
    BY <1>5, <1>6, <1>8 DEF CountsOK
  <2>4. QED
    BY <2>1, <2>2, <2>3 DEF CountsOK
<1>10. OrderOK'
  <2>1. \A a \in Seen : firstSeen[a] \in Nat /\ firstSeen'[a] = firstSeen[a] /\ firstSeen[a] < Successful
    BY <1>3, <1>5 DEF OrderOK
  <2>2. \A a \in Seen' : firstSeen'[a] < Successful'
    BY <1>2, <1>3, <1>5, <2>1
  <2>3. ASSUME NEW a \in Seen', NEW b \in Seen', NEW i, NEW j, First(a, i)', First(b, j)', i < j
        PROVE  firstSeen'[a] < firstSeen'[b]
    <3>1. CASE a \in Seen /\ b \in Seen
      BY <1>7, <2>1, <2>3, <3>1 DEF OrderOK
    <3>2. CASE a \in Seen /\ b = c /\ c \notin Seen
      BY <1>3, <2>1, <3>2
    <3>3. CASE a = c /\ c \notin Seen
      <4>1. i = N /\ j \in 1 .. N
        BY <1>2, <1>8, <2>3, <3>3 DEF First
      <4>2. QED
        BY <1>2, <2>3, <4>1
    <3>4. QED
      BY <1>5, <3>1, <3>2, <3>3
  <2>4. QED
    BY <2>2, <2>3 DEF OrderOK
<1>11. LoopOK' /\ ChosenOK'
  BY DEF LoopOK, ChosenOK, Untouched
<1>12. QED
  BY <1>4, <1>9, <1>10, <1>11 DEF ConsensusInv

\* A step that leaves the answers and what was counted of them.
LEMMA SameAnswers ==
  ASSUME ConsensusInv, UNCHANGED <<answers, counts, firstSeen>>
  PROVE  CountsOK' /\ OrderOK' /\ Seen' = Seen
         /\ \A a, b : Beats(a, b)' <=> Beats(a, b)
BY DEF ConsensusInv, CountsOK, OrderOK, Seen, Votes, First, Successful, Beats

\* The loop visits one more address.
LEMMA OneMoreVisit ==
  ASSUME ConsensusInv, NEW a \in unvisited, Visit(a) PROVE ConsensusInv'
<1> ConsensusTypes /\ CountsOK /\ OrderOK /\ LoopOK
  BY DEF ConsensusInv
<1>1. /\ selected = "picking" /\ unvisited' = unvisited \ {a}
      /\ UNCHANGED <<answers, counts, firstSeen, selected>>
      /\ a \in Seen /\ a \in Candidates /\ a # NoAddress
  BY CandidateNames DEF Visit, LoopOK, Seen
<1>2. /\ \A b \in Seen : counts[b] \in Nat /\ counts[b] > 0 /\ firstSeen[b] \in Nat
  BY DEF Seen, ConsensusTypes
<1>3. CASE Better(a)
  <2>1. best'.addr = a /\ best'.count = counts[a] /\ best'.firstSeen = firstSeen[a]
    BY <1>3 DEF Visit
  <2>2. ConsensusTypes'
    <3>1. best'.count \in Int /\ best'.firstSeen \in Int
      BY <1>1, <1>2, <2>1
    <3>2. QED
      BY <1>1, <3>1 DEF ConsensusTypes
  <2>3. \A b \in (Seen \ unvisited) : Beats(a, b)
    <3>1. CASE Untouched /\ unvisited = Seen
      BY <3>1
    <3>2. CASE /\ best.addr \in Seen \ unvisited
               /\ best.count = counts[best.addr] /\ best.firstSeen = firstSeen[best.addr]
               /\ \A b \in (Seen \ unvisited) \ {best.addr} : Beats(best.addr, b)
      <4>1. Beats(a, best.addr)
        BY <1>3, <3>2 DEF Better, Beats
      <4>2. ASSUME NEW b \in Seen, Beats(best.addr, b) PROVE Beats(a, b)
        <5>1. /\ counts[a] \in Nat /\ firstSeen[a] \in Nat /\ counts[b] \in Nat /\ firstSeen[b] \in Nat
              /\ counts[best.addr] \in Nat /\ firstSeen[best.addr] \in Nat
          BY <1>1, <1>2, <3>2
        <5>2. QED
          BY <4>1, <4>2, <5>1 DEF Beats
      <4>3. QED
        BY <3>2, <4>1, <4>2
    <3>3. QED
      BY <1>1, <3>1, <3>2 DEF LoopOK
  <2>4. LoopOK'
    BY <1>1, <2>1, <2>3, SameAnswers DEF LoopOK
  <2>5. QED
    BY <1>1, <2>2, <2>4, SameAnswers DEF ConsensusInv, ChosenOK
<1>4. CASE ~Better(a)
  <2>1. best' = best
    BY <1>4 DEF Visit
  <2>2. ~Untouched
    <3>1. ~(counts[a] > best.count) /\ counts[a] \in Nat
      BY <1>1, <1>2, <1>4 DEF Better
    <3>2. QED
      BY <3>1 DEF Untouched
  <2>3. /\ best.addr \in Seen \ unvisited
        /\ best.count = counts[best.addr] /\ best.firstSeen = firstSeen[best.addr]
        /\ \A b \in (Seen \ unvisited) \ {best.addr} : Beats(best.addr, b)
    BY <1>1, <2>2 DEF LoopOK
  <2>4. Beats(best.addr, a)
    <3>1. firstSeen[a] # firstSeen[best.addr]
      BY <1>1, <2>3, SeenApart
    <3>2. QED
      <4>1. /\ ~(counts[a] > counts[best.addr])
            /\ ~(counts[a] = counts[best.addr] /\ firstSeen[a] < firstSeen[best.addr])
        BY <1>4, <2>3 DEF Better
      <4>2. /\ counts[a] \in Nat /\ firstSeen[a] \in Nat
            /\ counts[best.addr] \in Nat /\ firstSeen[best.addr] \in Nat
        BY <1>1, <1>2, <2>3
      <4>3. QED
        BY <3>1, <4>1, <4>2 DEF Beats
  <2>5. LoopOK'
    BY <1>1, <2>1, <2>3, <2>4, SameAnswers DEF LoopOK
  <2>6. ConsensusTypes'
    BY <1>1, <2>1 DEF ConsensusTypes
  <2>7. QED
    BY <1>1, <2>5, <2>6, SameAnswers DEF ConsensusInv, ChosenOK
<1>5. QED
  BY <1>3, <1>4

LEMMA ConsensusStep == ConsensusInv /\ [ConsensusNext]_consensusVars => ConsensusInv'
<1> SUFFICES ASSUME ConsensusInv, [ConsensusNext]_consensusVars PROVE ConsensusInv'
  OBVIOUS
<1> ConsensusTypes /\ LoopOK /\ ChosenOK
  BY DEF ConsensusInv
<1>1. CASE Ask
  BY <1>1, FailedAnswer, GoodAnswer DEF Ask, NoAddress
<1>2. CASE AskedAll
  <2>1. /\ selected = "asking" /\ selected' = IF Seen = {} THEN NoAddress ELSE "picking"
        /\ unvisited' = Seen /\ UNCHANGED <<answers, counts, firstSeen, best>>
    BY <1>2 DEF AskedAll, NoAddress
  <2>2. ConsensusTypes'
    BY <2>1 DEF ConsensusTypes, Seen
  <2>3. Seen' = Seen /\ Untouched /\ Untouched'
    BY <2>1, SameAnswers DEF LoopOK, Untouched
  <2>4. LoopOK' /\ ChosenOK'
    <3>1. CASE Seen = {}
      BY <2>1, <2>3, <3>1, NoAddressNames DEF LoopOK, ChosenOK
    <3>2. CASE Seen # {}
      BY <2>1, <2>3, <3>2 DEF LoopOK, ChosenOK
    <3>3. QED
      BY <3>1, <3>2
  <2>5. QED
    BY <2>1, <2>2, <2>4, SameAnswers DEF ConsensusInv
<1>3. CASE Picked
  <2>1. /\ selected = "picking" /\ unvisited = {} /\ selected' = best.addr
        /\ UNCHANGED <<answers, counts, firstSeen, unvisited, best>>
    BY <1>3 DEF Picked
  <2>2. best.addr \in Seen /\ \A a \in Seen \ {best.addr} : Beats(best.addr, a)
    BY <2>1 DEF LoopOK
  <2>3. best.addr \in Candidates /\ best.addr \notin {"asking", "picking"}
    BY <2>2, CandidateNames DEF Seen
  <2>4. ConsensusTypes'
    BY <2>1, <2>3 DEF ConsensusTypes
  <2>5. LoopOK' /\ ChosenOK'
    BY <2>1, <2>2, <2>3, SameAnswers DEF LoopOK, ChosenOK
  <2>6. QED
    BY <2>1, <2>4, <2>5, SameAnswers DEF ConsensusInv
<1>4. ASSUME NEW a \in unvisited, Visit(a) PROVE ConsensusInv'
  BY <1>4, OneMoreVisit
<1>5. CASE UNCHANGED consensusVars
  <2>1. UNCHANGED <<answers, counts, firstSeen, unvisited, best, selected>>
    BY <1>5 DEF consensusVars
  <2>2. ConsensusTypes'
    BY <2>1 DEF ConsensusTypes
  <2>3. LoopOK' /\ ChosenOK'
    BY <2>1, SameAnswers DEF LoopOK, ChosenOK, Untouched
  <2>4. QED
    BY <2>1, <2>2, <2>3, SameAnswers DEF ConsensusInv
<1>6. QED
  BY <1>1, <1>2, <1>3, <1>4, <1>5 DEF ConsensusNext

LEMMA ConsensusInvariant == ConsensusSpec => []ConsensusInv
BY ConsensusInitial, ConsensusStep, PTL DEF ConsensusSpec

LEMMA ChosenIsPicked == ConsensusInv => ConsensusPick
<1> SUFFICES ASSUME ConsensusInv, selected \notin {"asking", "picking"} PROVE ConsensusPick
  BY DEF ConsensusPick
<1> ConsensusTypes /\ CountsOK /\ OrderOK /\ ChosenOK
  BY DEF ConsensusInv
<1>1. CASE Seen = {}
  <2>1. \A i \in DOMAIN answers : answers[i] = NoAddress
    BY <1>1, Lengths DEF CountsOK, Seen, Outcomes
  <2>2. QED
    BY <1>1, <2>1 DEF ChosenOK, ConsensusPick, NoAddress
<1>2. CASE Seen # {}
  <2>1. selected \in Seen /\ \A a \in Seen \ {selected} : Beats(selected, a)
    BY <1>2 DEF ChosenOK
  <2>2. PICK i : First(selected, i)
    BY <2>1 DEF CountsOK
  <2>3. selected \in Candidates /\ selected # NoAddress /\ counts[selected] > 0
    BY <2>1, CandidateNames DEF Seen
  <2>4. \E k \in DOMAIN answers : answers[k] # NoAddress
    BY <2>2, <2>3 DEF First
  <2>5. ASSUME NEW a \in Candidates \ {selected}
        PROVE  \/ Votes(a) < Votes(selected)
               \/ Votes(a) = Votes(selected) /\ FirstVote(selected) < FirstVote(a)
    <3>1. /\ Votes(a) = counts[a] /\ Votes(selected) = counts[selected]
          /\ counts[a] \in Nat /\ counts[selected] \in Nat
      BY <2>3 DEF CountsOK, ConsensusTypes
    <3>2. CASE a \notin Seen
      <4>1. ~(counts[a] > 0)
        BY <3>2 DEF Seen
      <4>2. QED
        BY <2>3, <3>1, <4>1
    <3>3. CASE a \in Seen /\ counts[a] = counts[selected]
      <4>1. PICK j : First(a, j)
        BY <3>3 DEF CountsOK
      <4>2. i \in Nat /\ j \in Nat /\ i # j
        BY <2>2, <4>1, Lengths DEF First
      <4>3. firstSeen[selected] < firstSeen[a] /\ firstSeen[a] \in Nat /\ firstSeen[selected] \in Nat
        <5>1. Beats(selected, a) /\ ~(counts[a] < counts[selected])
          BY <2>1, <3>1, <3>3
        <5>2. firstSeen[a] \in Nat /\ firstSeen[selected] \in Nat
          BY <2>3 DEF ConsensusTypes
        <5>3. QED
          BY <5>1, <5>2 DEF Beats
      <4>4. ~(j < i)
        BY <2>1, <2>2, <3>3, <4>1, <4>3 DEF OrderOK
      <4>5. FirstVote(selected) = i /\ FirstVote(a) = j
        BY <2>2, <4>1, FirstVoteIs
      <4>6. QED
        BY <3>1, <3>3, <4>2, <4>4, <4>5
    <3>4. CASE a \in Seen /\ counts[a] # counts[selected]
      BY <2>1, <3>1, <3>4 DEF Beats
    <3>5. QED
      BY <3>2, <3>3, <3>4
  <2>6. QED
    BY <2>3, <2>4, <2>5 DEF ConsensusPick, NoAddress
<1>3. QED
  BY <1>1, <1>2

\* The votes and what the loop keeps of them have their types; none counts more resolvers
\* than there are.
THEOREM ConsensusTyped == ConsensusSpec => []ConsensusTypeOK
<1>1. ConsensusInv => ConsensusTypeOK
  <2> SUFFICES ASSUME ConsensusInv PROVE ConsensusTypeOK
    OBVIOUS
  <2> ConsensusTypes /\ CountsOK /\ OrderOK
    BY DEF ConsensusInv
  <2>1. counts \in [Candidates -> 0 .. Resolvers]
    <3>1. \A a \in Candidates : counts[a] \in Nat /\ counts[a] <= Resolvers
      BY VotesAreNat DEF CountsOK
    <3>2. \A a \in Candidates : counts[a] \in 0 .. Resolvers
      BY <3>1, ResolversNat
    <3>3. QED
      BY <3>2 DEF ConsensusTypes
  <2>2. firstSeen \in [Candidates -> 0 .. Resolvers]
    <3>1. \A a \in Candidates : firstSeen[a] \in Nat /\ firstSeen[a] <= Resolvers
      BY DEF ConsensusTypes
    <3>2. \A a \in Candidates : firstSeen[a] \in 0 .. Resolvers
      BY <3>1, ResolversNat
    <3>3. QED
      BY <3>2 DEF ConsensusTypes
  <2>3. answers \in Seq(Candidates \cup {""}) /\ Len(answers) <= Resolvers
    BY DEF ConsensusTypes, Outcomes, NoAddress
  <2>4. QED
    BY <2>1, <2>2, <2>3 DEF ConsensusTypes, ConsensusTypeOK, NoAddress
<1>2. QED
  BY <1>1, ConsensusInvariant, PTL

\* The address that is published is the one with most votes, the earliest of several, in
\* whatever order the map of the votes is walked: for any number of resolvers and addresses.
THEOREM ConsensusIsPick == ConsensusSpec => []ConsensusPick
BY ChosenIsPicked, ConsensusInvariant, PTL

=============================================================================
