---------------------------- MODULE RecordTasks -----------------------------
(***************************************************************************)
(* The tasks on the overview page of a record (pages/overview), the form   *)
(* they are edited in (drawers/task-form) and the task handlers of the     *)
(* server (pkg/web/api/task.go).                                           *)
(*                                                                         *)
(* A task is its trigger, its headers and whether the certificate is in    *)
(* the body; the server sends everything but the headers.  Headers are the *)
(* ids of the tasks the user had in mind when typing them, 0 for a new one.*)
(***************************************************************************)
EXTENDS Drawer, FiniteSets

CONSTANTS
    MaxTaskForms,   \* bound: how often the form is opened
    MaxTaskCalls,   \* bound: how many calls the page makes
    MaxChanges      \* bound: how often a field is changed

ASSUME TaskBounds == MaxTaskForms \in Nat /\ MaxTaskCalls \in Nat \ {0} /\ MaxChanges \in Nat

RecordPurposes == {"ddns", "cert", "both"}
Triggers == {"ip", "cert", "both"}
TaskIds == {1, 2}           \* bound: task 1 is stored at first, task 2 may be created

\* TRIGGER_OPTIONS, as getTriggerOptionsForRecord filters them; the first one of
\* all is "ip".
TriggerOptions(purpose) ==
    CASE purpose = "ddns" -> {"ip"} [] purpose = "cert" -> {"cert"} [] OTHER -> Triggers

\* taskMatchesRecordPurpose: what the page lists.
TaskMatches(trigger, purpose) == purpose = "both" \/ TriggerOptions(purpose) = {trigger}

SupportsCertificate(trigger) == trigger \in {"cert", "both"}

NormalizeTrigger(trigger, purpose) ==
    IF trigger \in TriggerOptions(purpose) THEN trigger
    ELSE IF "ip" \in TriggerOptions(purpose) THEN "ip" ELSE "cert"

VARIABLES
    tasks,          \* stored: id -> trigger, headers, cert
    purpose,        \* of the record the page has
    listed,         \* the signal tasks: id -> trigger, cert
    taskPanel,      \* the drawer
    taskForm,       \* the form: id, purpose of the record, trigger, headers, cert
    savingTask,
    taskCalls,      \* calls under way
    taskCounts      \* how often: opened, called, changed

taskVars == <<tasks, purpose, listed, taskPanel, taskForm, savingTask, taskCalls, taskCounts>>

TasksInit ==
    /\ tasks = [i \in {1} |-> [trigger |-> "both", headers |-> {1}, cert |-> TRUE]]
    /\ purpose \in RecordPurposes
    /\ listed = <<>>
    /\ taskPanel = NewDrawer
    /\ taskForm = [id |-> 0, purpose |-> "both", trigger |-> "ip", headers |-> {}, cert |-> FALSE]
    /\ savingTask = FALSE
    /\ taskCalls = {[n |-> 0, kind |-> "list", status |-> "sent", id |-> 0, purpose |-> purpose, task |-> <<>>]}
    /\ taskCounts = [opened |-> 0, called |-> 1, changed |-> 0]

CallFor(p, without, kind, id, task) ==
    /\ taskCounts.called < MaxTaskCalls
    /\ taskCounts' = [taskCounts EXCEPT !.called = @ + 1]
    /\ taskCalls' = without \cup
          {[n |-> taskCounts.called, kind |-> kind, status |-> "sent", id |-> id, purpose |-> p, task |-> task]}

TaskCall(without, kind, id, task) == CallFor(purpose, without, kind, id, task)

-----------------------------------------------------------------------------
(* The page and its form.                                                  *)

\* mutant: the header rows of the form are not reset.
OpenWithHeaders(id, trigger, cert) ==
    /\ taskCounts.opened < MaxTaskForms
    /\ taskCounts' = [taskCounts EXCEPT !.opened = @ + 1]
    /\ LET t == NormalizeTrigger(trigger, purpose)
       IN taskForm' = [id |-> id, purpose |-> purpose, trigger |-> t, headers |-> taskForm.headers,
                       cert |-> cert /\ SupportsCertificate(t)]
    /\ taskPanel' = OpenedDrawer(taskPanel)
    /\ UNCHANGED <<tasks, purpose, listed, savingTask, taskCalls>>

\* openForRecord, of addTask and editTask, also while the drawer is shown: the form
\* is reset to the task, its trigger to one the record allows, its headers to an
\* empty row.
OpenForRecord(id, trigger, cert) ==
    /\ taskCounts.opened < MaxTaskForms
    /\ taskCounts' = [taskCounts EXCEPT !.opened = @ + 1]
    /\ LET t == NormalizeTrigger(trigger, purpose)
       IN taskForm' = [id |-> id, purpose |-> purpose, trigger |-> t, headers |-> {},
                       cert |-> cert /\ SupportsCertificate(t)]
    /\ taskPanel' = OpenedDrawer(taskPanel)
    /\ UNCHANGED <<tasks, purpose, listed, savingTask, taskCalls>>

AddTask == OpenForRecord(0, "ip", FALSE)
EditTask(id) == id \in DOMAIN listed /\ OpenForRecord(id, listed[id].trigger, listed[id].cert)

CloseTaskForm ==
    /\ InReach(taskPanel)
    /\ taskPanel' = ClosingDrawer(taskPanel)
    /\ UNCHANGED <<tasks, purpose, listed, taskForm, savingTask, taskCalls, taskCounts>>

TaskFormTimer ==
    /\ taskPanel.timers > 0
    /\ taskPanel' = TimerFired(taskPanel)
    /\ UNCHANGED <<tasks, purpose, listed, taskForm, savingTask, taskCalls, taskCounts>>

\* The user chooses a trigger, switches the certificate on or off, fills in or
\* removes a header row.  The switch is there when the trigger supports it; the
\* form keeps its value when it is hidden.
ChangeField(changed) ==
    /\ InReach(taskPanel) /\ changed # taskForm /\ taskCounts.changed < MaxChanges
    /\ taskCounts' = [taskCounts EXCEPT !.changed = @ + 1]
    /\ taskForm' = changed
    /\ UNCHANGED <<tasks, purpose, listed, taskPanel, savingTask, taskCalls>>

ChooseTrigger(t) == t \in TriggerOptions(taskForm.purpose) /\ ChangeField([taskForm EXCEPT !.trigger = t])
SwitchCert == SupportsCertificate(taskForm.trigger) /\ ChangeField([taskForm EXCEPT !.cert = ~@])
ChangeHeaders(headers) == ChangeField([taskForm EXCEPT !.headers = headers])

\* buildPayload.
Payload ==
    LET t == NormalizeTrigger(taskForm.trigger, taskForm.purpose)
    IN [trigger |-> t, headers |-> taskForm.headers, purpose |-> taskForm.purpose,
        cert |-> taskForm.cert /\ SupportsCertificate(t)]

SaveTask ==
    /\ InReach(taskPanel) /\ ~savingTask
    /\ savingTask' = TRUE
    /\ TaskCall(taskCalls, "upsert", taskForm.id, Payload)
    /\ UNCHANGED <<tasks, purpose, listed, taskPanel, taskForm>>

\* The answer: onSave loads the tasks again, the drawer closes.
TaskSaved(c) ==
    /\ c.kind = "upsert" /\ c.status = "ok"
    /\ savingTask' = FALSE
    /\ TaskCall(taskCalls \ {c}, "list", 0, <<>>)
    /\ taskPanel' = ClosingDrawer(taskPanel)
    /\ UNCHANGED <<tasks, purpose, listed, taskForm>>

RunOrRemove(kind, id) ==
    /\ id \in DOMAIN listed
    /\ TaskCall(taskCalls, kind, id, <<>>)
    /\ UNCHANGED <<tasks, purpose, listed, taskPanel, taskForm, savingTask>>

\* runTask and deleteTask load the tasks when they are done.
TaskDone(c) ==
    /\ c.kind \in {"run", "delete"} /\ c.status = "ok"
    /\ TaskCall(taskCalls \ {c}, "list", 0, <<>>)
    /\ UNCHANGED <<tasks, purpose, listed, taskPanel, taskForm, savingTask>>

TaskCallFailed(c) ==
    /\ c.status = "failed"
    /\ taskCalls' = taskCalls \ {c}
    /\ savingTask' = IF c.kind = "upsert" THEN FALSE ELSE savingTask
    /\ UNCHANGED <<tasks, purpose, listed, taskPanel, taskForm, taskCounts>>

\* loadTasksAndCertificate filters by the record the page had when it was called.
ListTasks(c) ==
    /\ c.kind = "list" /\ c.status = "ok"
    /\ taskCalls' = taskCalls \ {c}
    /\ listed' = [i \in {j \in DOMAIN c.task : TaskMatches(c.task[j].trigger, c.purpose)} |-> c.task[i]]
    /\ UNCHANGED <<tasks, purpose, taskPanel, taskForm, savingTask, taskCounts>>

\* loadRecord brings the record with another purpose, and loads the tasks again.
ChangePurpose(p) ==
    /\ p # purpose
    /\ purpose' = p
    /\ CallFor(p, taskCalls, "list", 0, <<>>)
    /\ UNCHANGED <<tasks, listed, taskPanel, taskForm, savingTask>>

-----------------------------------------------------------------------------
(* The server.                                                             *)

TaskAnswer(c, status, task) ==
    taskCalls' = (taskCalls \ {c}) \cup {[c EXCEPT !.status = status, !.task = task]}

\* UpsertTask: headers are replaced when there are any, kept when there are none.
Upserted(c) ==
    [trigger |-> c.task.trigger, cert |-> c.task.cert,
     headers |-> IF c.id # 0 /\ c.task.headers = {} THEN tasks[c.id].headers ELSE c.task.headers]

\* CreateTask and UpdateTask, by id.
WithTask(i, t) == [j \in DOMAIN tasks \cup {i} |-> IF j = i THEN t ELSE tasks[j]]

ServeTask(c) ==
    /\ c.status = "sent"
    /\ \/ TaskAnswer(c, "failed", c.task) /\ UNCHANGED tasks
       \/ /\ c.kind = "upsert" /\ c.id \in DOMAIN tasks
          /\ tasks' = WithTask(c.id, Upserted(c))
          /\ TaskAnswer(c, "ok", c.task)
       \/ /\ c.kind = "upsert" /\ c.id = 0
          /\ \E i \in TaskIds \ (DOMAIN tasks \cup {1}) : tasks' = WithTask(i, Upserted(c))
          /\ TaskAnswer(c, "ok", c.task)
       \/ /\ c.kind = "list"
          /\ TaskAnswer(c, "ok", [i \in DOMAIN tasks |-> [trigger |-> tasks[i].trigger, cert |-> tasks[i].cert]])
          /\ UNCHANGED tasks
       \/ /\ c.kind = "run" /\ c.id \in DOMAIN tasks
          /\ TaskAnswer(c, "ok", <<>>) /\ UNCHANGED tasks
       \/ /\ c.kind = "delete"
          /\ tasks' = [i \in DOMAIN tasks \ {c.id} |-> tasks[i]]
          /\ TaskAnswer(c, "ok", <<>>)
    /\ UNCHANGED <<purpose, listed, taskPanel, taskForm, savingTask, taskCounts>>

TasksNext ==
    \/ AddTask \/ CloseTaskForm \/ TaskFormTimer \/ SwitchCert \/ SaveTask
    \/ \E t \in Triggers : ChooseTrigger(t)
    \/ \E headers \in {{}, {taskForm.id}} : ChangeHeaders(headers)
    \/ \E id \in TaskIds : EditTask(id) \/ RunOrRemove("run", id) \/ RunOrRemove("delete", id)
    \/ \E p \in RecordPurposes : ChangePurpose(p)
    \/ \E c \in taskCalls :
          TaskSaved(c) \/ TaskDone(c) \/ TaskCallFailed(c) \/ ListTasks(c) \/ ServeTask(c)

TasksSpec == TasksInit /\ [][TasksNext]_taskVars

-----------------------------------------------------------------------------
TasksTypeOK ==
    /\ DOMAIN tasks \subseteq TaskIds /\ DOMAIN listed \subseteq TaskIds
    /\ purpose \in RecordPurposes /\ taskPanel \in DrawerType(MaxSlides + 1)
    /\ taskForm \in [id: TaskIds \cup {0}, purpose: RecordPurposes, trigger: Triggers,
                     headers: SUBSET (TaskIds \cup {0}), cert: BOOLEAN]
    /\ savingTask <=> \E c \in taskCalls : c.kind = "upsert"
    /\ taskCounts \in [opened: 0..MaxTaskForms, called: 0..MaxTaskCalls, changed: 0..MaxChanges]

\* A task keeps its headers, which the page never gets to see, through edits
\* that do not type any, and never gets those typed for another task, in
\* whatever order forms are opened, left and saved.
HeadersKept ==
    \A i \in DOMAIN tasks : tasks[i].headers \in {{i}} \cup (IF i = 1 THEN {} ELSE {{}, {0}})
=============================================================================
