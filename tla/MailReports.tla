----------------------------- MODULE MailReports ------------------------------
(***************************************************************************)
(* The mails about refreshes: SendReport and allowBySeverity               *)
(* (pkg/mail/mail.go), called at the end of Refresh (pkg/dns/service.go).  *)
(* Several refreshes may end at a time, and the manager may be restarted   *)
(* at any step (ConfigServices.tla says when it is).                       *)
(*                                                                         *)
(* Time is a number of minutes, each of them as long as the actions of a   *)
(* behaviour make it.  A report is its severity; recipients are part of    *)
(* the settings, an empty list counts as disabled.                         *)
(***************************************************************************)
EXTENDS Integers, Sequences

CONSTANTS
    Cooldowns,      \* cooldown_minutes of the configurations checked
    MaxReports,     \* bound: how many refreshes end with a report
    MaxMinutes      \* bound: minutes that pass

ASSUME ReportBounds ==
    /\ Cooldowns \subseteq Nat
    /\ MaxReports \in Nat /\ MaxMinutes \in Nat

Severities == {"failure", "success"}
Never == -1      \* not a minute: no entry

VARIABLES
    settings,       \* notifications: enabled, onSuccess, cooldown
    minute,         \* time.Now()
    lastSentAt,     \* lastSentAt[sev]: a minute, Never without an entry
    managerOn,      \* manager # nil
    reports,        \* SendReport calls and sending goroutines under way
    reported,       \* how many there were
    mails,          \* history: the mails sent
    passed,         \* history: the reports that passed the cooldown, in order
    silenced        \* history: failures that did not

historyVars == <<mails, passed, silenced>>
reportVars ==
    <<settings, minute, lastSentAt, managerOn, reports, reported, historyVars>>

ReportsInit ==
    /\ settings \in [enabled: {TRUE}, onSuccess: {TRUE}, cooldown: Cooldowns]
    /\ minute = 0 /\ lastSentAt = [sev \in Severities |-> Never]
    /\ managerOn = TRUE
    /\ reports = {} /\ reported = 0
    /\ mails = {} /\ passed = <<>> /\ silenced = {}

-----------------------------------------------------------------------------
(* SendReport.                                                             *)

\* A refresh ends: no report when the settings are against it.
SendReport(sev) ==
    /\ reported < MaxReports
    /\ reported' = reported + 1
    /\ reports' = reports \cup
          IF settings.enabled /\ (sev = "success" => settings.onSuccess)
          THEN {[n |-> reported', sev |-> sev, at |-> "allow"]} ELSE {}
    /\ UNCHANGED <<settings, minute, lastSentAt, managerOn, historyVars>>

\* A failure makes room for the success that follows it.
Stamped(sev) ==
    IF sev = "failure" /\ settings.cooldown > 0
    THEN [lastSentAt EXCEPT ![sev] = minute, !["success"] = Never]
    ELSE [lastSentAt EXCEPT ![sev] = minute]

Cool(last) == settings.cooldown = 0 \/ last = Never \/ minute - last >= settings.cooldown

\* mutant: a report of the other severity counts for the cooldown as well.
AllowByAnySeverity(r) ==
    /\ r.at = "allow"
    /\ IF \A sev \in Severities : Cool(lastSentAt[sev])
       THEN /\ lastSentAt' = Stamped(r.sev)
            /\ reports' = (reports \ {r}) \cup {[r EXCEPT !.at = "manager"]}
            /\ passed' = Append(passed, [n |-> r.n, sev |-> r.sev, minute |-> minute])
            /\ UNCHANGED silenced
       ELSE /\ reports' = reports \ {r}
            /\ silenced' = silenced \cup (IF r.sev = "failure" THEN {minute} ELSE {})
            /\ UNCHANGED <<lastSentAt, passed>>
    /\ UNCHANGED <<settings, minute, managerOn, reported, mails>>

\* allowBySeverity, under the mutex: the look and the stamp are one step.
AllowBySeverity(r) ==
    /\ r.at = "allow"
    /\ IF Cool(lastSentAt[r.sev])
       THEN /\ lastSentAt' = Stamped(r.sev)
            /\ reports' = (reports \ {r}) \cup {[r EXCEPT !.at = "manager"]}
            /\ passed' = Append(passed, [n |-> r.n, sev |-> r.sev, minute |-> minute])
            /\ UNCHANGED silenced
       ELSE /\ reports' = reports \ {r}
            /\ silenced' = silenced \cup (IF r.sev = "failure" THEN {minute} ELSE {})
            /\ UNCHANGED <<lastSentAt, passed>>
    /\ UNCHANGED <<settings, minute, managerOn, reported, mails>>

\* The manager is taken under the mutex and used after it; without one the
\* report is gone, and its stamp stays.
TakeManager(r) ==
    /\ r.at = "manager"
    /\ reports' = (reports \ {r}) \cup
          IF managerOn THEN {[r EXCEPT !.at = "send"]} ELSE {}
    /\ UNCHANGED <<settings, minute, lastSentAt, managerOn, reported, historyVars>>

\* The goroutine that sends, by a manager that may have been stopped since.
SendMail(r) ==
    /\ r.at = "send"
    /\ reports' = reports \ {r}
    /\ mails' \in {mails, mails \cup {r.n}}
    /\ UNCHANGED <<settings, minute, lastSentAt, managerOn, reported, passed, silenced>>

-----------------------------------------------------------------------------
(* Its surroundings.                                                       *)

\* mail.Stop and mail.Start, of a restart.
StopManager ==
    /\ managerOn
    /\ managerOn' = FALSE
    /\ UNCHANGED <<settings, minute, lastSentAt, reports, reported, historyVars>>

StartManager ==
    /\ ~managerOn /\ settings.enabled
    /\ managerOn' = TRUE
    /\ UNCHANGED <<settings, minute, lastSentAt, reports, reported, historyVars>>

\* The cooldown of a behaviour stays what it was at first.
ChangeSettings(new) ==
    /\ new # settings /\ new.cooldown = settings.cooldown
    /\ settings' = new
    /\ UNCHANGED <<minute, lastSentAt, managerOn, reports, reported, historyVars>>

MinutePasses ==
    /\ minute < MaxMinutes
    /\ minute' = minute + 1
    /\ UNCHANGED <<settings, lastSentAt, managerOn, reports, reported, historyVars>>

ReportsNext ==
    \/ \E sev \in Severities : SendReport(sev)
    \/ \E r \in reports : AllowBySeverity(r) \/ TakeManager(r) \/ SendMail(r)
    \/ \E new \in [enabled: BOOLEAN, onSuccess: BOOLEAN, cooldown: Cooldowns] : ChangeSettings(new)
    \/ StopManager \/ StartManager \/ MinutePasses

ReportsSpec == ReportsInit /\ [][ReportsNext]_reportVars

-----------------------------------------------------------------------------
ReportsTypeOK ==
    /\ settings \in [enabled: BOOLEAN, onSuccess: BOOLEAN, cooldown: Cooldowns]
    /\ minute \in 0..MaxMinutes
    /\ lastSentAt \in [Severities -> Never..MaxMinutes]
    /\ managerOn \in BOOLEAN /\ reported \in 0..MaxReports
    /\ mails \subseteq {passed[i].n : i \in DOMAIN passed}
    /\ \A r \in reports : r.at # "allow" => \E i \in DOMAIN passed : passed[i].n = r.n

\* "At most one mail per severity per CooldownMinutes window.  A failure mail
\* always flushes the success-cooldown" (mail.go:156-158): two mails of one
\* severity were let through a window apart, or are successes with a failure
\* between them; and a failure is held back by an earlier failure only, never by a
\* success, however many refreshes end at a time and whenever the manager restarts.
ReportsPaced ==
    settings.cooldown > 0 =>
        /\ \A i, j \in DOMAIN passed :
              i < j /\ passed[i].sev = passed[j].sev /\ {passed[i].n, passed[j].n} \subseteq mails =>
                 \/ passed[j].minute - passed[i].minute >= settings.cooldown
                 \/ /\ passed[i].sev = "success"
                    /\ \E k \in i..j : passed[k].sev = "failure"
        /\ \A m \in silenced : \E i \in DOMAIN passed :
              /\ passed[i].sev = "failure"
              /\ passed[i].minute <= m /\ m - passed[i].minute < settings.cooldown
=============================================================================
