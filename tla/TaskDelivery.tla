---------------------------- MODULE TaskDelivery ----------------------------
(***************************************************************************)
(* One webhook task from its trigger to the service that uses the          *)
(* certificate: runTask and RunTask of HDNS (pkg/tasks/task.go), the       *)
(* worker's handler (handler/webhook.go) and its actions (task/executor.go,*)
(* cert.go, service.go), a cert_save followed by a service_restart.        *)
(*                                                                         *)
(* Every run delivers material of its own, named by the run.  Runs are     *)
(* independent of each other: the events of a record and the user's tests  *)
(* come from different goroutines, and the worker serves every request at  *)
(* once.  Authorization and the payload's form are the handler's error.    *)
(***************************************************************************)
EXTENDS Naturals, Sequences

CONSTANTS
    MaxRuns,        \* bound: how often the task is run
    MaxStops        \* bound: how often HDNS or the worker is stopped or killed

ASSUME DeliveryBounds == MaxRuns \in Nat /\ MaxStops \in Nat

Files == <<"cert", "key">>      \* the order in which cert_save writes them
Runs == 1..MaxRuns
Torn == MaxRuns + 1         \* content that no run delivered: a file cut off

VARIABLES
    step,           \* step[r]: where run r is in HDNS
    row,            \* row[r]: the status of its task_runs row, "none" without one
    outcome,        \* outcome[r]: of the webhook call, "none", "ok" or "error"
    worker,         \* worker[r]: "none", its handler is "busy", or how it ended
    written,        \* written[r]: how many files its cert_save has written
    cancelled,      \* runs whose caller is gone: the handler's context is cancelled
    files,          \* files[f]: the run whose material file f has, 0 before
    service,        \* what the service read when it was started last
    lastResult,     \* the run the task's last_status is of
    overlapped,     \* history: two handlers were writing or restarting at once
    stops

deliveryVars ==
    <<step, row, outcome, worker, written, cancelled, files, service, lastResult, overlapped, stops>>
hdnsVars == <<step, row, outcome, lastResult>>
workerVars == <<worker, written, cancelled, files, service, overlapped>>

Handling(r) == worker[r] = "busy"
Saving(r) == Handling(r) /\ written[r] < Len(Files)
AllSaved(r) == Handling(r) /\ written[r] = Len(Files)

DeliveryInit ==
    /\ step = [r \in Runs |-> "idle"] /\ row = [r \in Runs |-> "none"]
    /\ outcome = row /\ worker = row
    /\ written = [r \in Runs |-> 0]
    /\ cancelled = {} /\ lastResult = 0 /\ overlapped = FALSE /\ stops = 0
    /\ files = [i \in DOMAIN Files |-> 0] /\ service = files

-----------------------------------------------------------------------------
(* HDNS.                                                                   *)

\* runTask first inserts the run; without a row it goes on all the same.
FireTask(r) ==
    /\ step[r] = "idle"
    /\ step' = [step EXCEPT ![r] = "event"]
    /\ \E status \in {"running", "none"} : row' = [row EXCEPT ![r] = status]
    /\ UNCHANGED <<outcome, lastResult, workerVars, stops>>

\* RunTask, from the API, keeps no run.
RunTask(r) ==
    /\ step[r] = "idle"
    /\ step' = [step EXCEPT ![r] = "test"]
    /\ UNCHANGED <<row, outcome, lastResult, workerVars, stops>>

\* executeTask: the request reaches the worker, or there is no connection.
CallWorker(r) ==
    /\ step[r] \in {"event", "test"} /\ outcome[r] = "none" /\ worker[r] = "none"
    /\ \/ /\ worker' = [worker EXCEPT ![r] = "busy"]
          /\ overlapped' = (overlapped \/ \E q \in Runs : Handling(q))
          /\ UNCHANGED <<step, outcome>>
       \/ /\ outcome' = [outcome EXCEPT ![r] = "error"]
          /\ UNCHANGED <<step, worker, overlapped>>
    /\ UNCHANGED <<row, lastResult, written, cancelled, files, service, stops>>

\* The response: 200 for a handler that came to its end, 4xx and 5xx are errors.
Response(r) ==
    /\ outcome[r] = "none" /\ worker[r] \in {"done", "failed"} /\ step[r] # "ended"
    /\ outcome' = [outcome EXCEPT ![r] = IF worker[r] = "done" THEN "ok" ELSE "error"]
    /\ UNCHANGED <<step, row, lastResult, workerVars, stops>>

\* requestTimeout: the client gives up, whatever the worker is doing.
Timeout(r) ==
    /\ outcome[r] = "none" /\ worker[r] # "none"
    /\ step[r] # "ended"
    /\ outcome' = [outcome EXCEPT ![r] = "error"]
    /\ cancelled' = cancelled \cup {r}
    /\ UNCHANGED <<step, row, lastResult, worker, written, files, service, overlapped, stops>>

\* UpdateTaskResult, whose error is only logged.  RunTask is over then.
UpdateTaskResult(r) ==
    /\ step[r] \in {"event", "test"} /\ outcome[r] # "none"
    /\ step' = [step EXCEPT ![r] = IF @ = "event" THEN "finish" ELSE "ended"]
    /\ lastResult' \in {r, lastResult}
    /\ UNCHANGED <<row, outcome, workerVars, stops>>

\* FinishTaskRun of the run that was inserted; an error leaves it running.
FinishTaskRun(r) ==
    /\ step[r] = "finish"
    /\ step' = [step EXCEPT ![r] = "ended"]
    /\ \/ row[r] # "none"
          /\ row' = [row EXCEPT ![r] = IF outcome[r] = "ok" THEN "success" ELSE "failed"]
       \/ UNCHANGED row
    /\ UNCHANGED <<outcome, lastResult, workerVars, stops>>

\* HDNS stops: its runs are gone, their connections closed.
StopHdns ==
    /\ stops < MaxStops
    /\ stops' = stops + 1
    /\ step' = [r \in Runs |-> IF step[r] = "idle" THEN "idle" ELSE "ended"]
    /\ cancelled' = cancelled \cup {r \in Runs : outcome[r] = "none" /\ worker[r] # "none"}
    /\ UNCHANGED <<row, outcome, lastResult, worker, written, files, service, overlapped>>

-----------------------------------------------------------------------------
(* The worker.                                                             *)

\* mutant: an error of cert_save is logged and the chain goes on.
SaveFailsUnnoticed(r) ==
    /\ Saving(r)
    /\ written' = [written EXCEPT ![r] = Len(Files)]
    /\ UNCHANGED <<hdnsVars, worker, cancelled, files, service, overlapped, stops>>

\* save, file by file; it does not look at the context.
SaveFile(r) ==
    /\ Saving(r)
    /\ files' = [files EXCEPT ![written[r] + 1] = r]
    /\ written' = [written EXCEPT ![r] = @ + 1]
    /\ UNCHANGED <<hdnsVars, worker, cancelled, service, overlapped, stops>>

\* The file being written is truncated first; it may stay so.
MayTear(r) == {files, [files EXCEPT ![written[r] + 1] = Torn]}

\* A file that cannot be written, or material the payload lacks: Execute returns.
SaveFails(r) ==
    /\ Saving(r)
    /\ files' \in MayTear(r)
    /\ worker' = [worker EXCEPT ![r] = "failed"]
    /\ UNCHANGED <<hdnsVars, written, cancelled, service, overlapped, stops>>

\* restartService runs under the request's context.
RestartService(r) ==
    /\ AllSaved(r) /\ r \notin cancelled
    /\ service' = files
    /\ worker' = [worker EXCEPT ![r] = "done"]
    /\ UNCHANGED <<hdnsVars, written, cancelled, files, overlapped, stops>>

\* The command fails or is killed with the context, before or after its effect.
RestartFails(r) ==
    /\ AllSaved(r)
    /\ service' \in {service, files}
    /\ worker' = [worker EXCEPT ![r] = "failed"]
    /\ UNCHANGED <<hdnsVars, written, cancelled, files, overlapped, stops>>

\* The worker is killed: any number of the writes under way are cut off.
StopWorker ==
    /\ stops < MaxStops
    /\ stops' = stops + 1
    /\ worker' = [r \in Runs |-> IF Handling(r) THEN "failed" ELSE worker[r]]
    /\ \E cut \in SUBSET {r \in Runs : Saving(r)} :
          files' = [i \in DOMAIN Files |-> IF \E r \in cut : written[r] + 1 = i THEN Torn ELSE files[i]]
    /\ UNCHANGED <<hdnsVars, written, cancelled, service, overlapped>>

DeliveryNext ==
    \/ \E r \in Runs :
          \/ FireTask(r) \/ RunTask(r) \/ CallWorker(r) \/ Response(r) \/ Timeout(r)
          \/ UpdateTaskResult(r) \/ FinishTaskRun(r)
          \/ SaveFile(r) \/ SaveFails(r) \/ RestartService(r) \/ RestartFails(r)
    \/ StopHdns \/ StopWorker

DeliverySpec == DeliveryInit /\ [][DeliveryNext]_deliveryVars

-----------------------------------------------------------------------------
DeliveryTypeOK ==
    /\ step \in [Runs -> {"idle", "event", "test", "finish", "ended"}]
    /\ row \in [Runs -> {"none", "running", "success", "failed"}]
    /\ outcome \in [Runs -> {"none", "ok", "error"}]
    /\ worker \in [Runs -> {"none", "busy", "done", "failed"}]
    /\ written \in [Runs -> 0..Len(Files)]
    /\ cancelled \subseteq Runs /\ lastResult \in 0..MaxRuns
    /\ files \in [DOMAIN Files -> 0..Torn] /\ service \in [DOMAIN Files -> 0..Torn]

\* A run is recorded as a success only if every action of it was completed, and
\* as long as no two deliveries were handled at once the service never runs on
\* files of two of them, or on one cut off: a save that failed half way is not
\* followed by the restart, and the next delivery writes all files again
\* (executor.go:27).
DeliveredWhole ==
    /\ \A r \in Runs : row[r] = "success" => worker[r] = "done"
    /\ ~overlapped => \E r \in Runs \cup {0} : \A i \in DOMAIN Files : service[i] = r
=============================================================================
