---------------------------- MODULE RecordsTable ----------------------------
(***************************************************************************)
(* The table of records on the home page (sections/records-table), with    *)
(* what the server answers it: GetRecords, IssueCertificate, DeleteRecord  *)
(* and the two lookups of a record's address.  Calls are handled one at a  *)
(* time, with what the server holds then; answers come in any order.       *)
(*                                                                         *)
(* Every record does DDNS and has a certificate; its state is that of the  *)
(* certificate row: "none", "pending", "valid", "failed", or "gone" for a  *)
(* record that is deleted.                                                 *)
(***************************************************************************)
EXTENDS Naturals, FiniteSets, TLC

CONSTANTS
    RecordIds,      \* ids of records
    Matching,       \* those a search finds
    Lookups,        \* the two lookups of an address, "hetzner" and "resolved"
    maxAttempts,    \* pollCertificate's maxAttempts (20)
    MaxCalls        \* bound: how many calls the page makes, besides lookups

ASSUME TableBounds ==
    /\ Matching \subseteq RecordIds
    /\ Lookups \cap {"list", "issue", "refresh", "delete", "poll"} = {}
    /\ maxAttempts \in Nat \ {0} /\ MaxCalls \in Nat \ {0}

CertStates == {"none", "pending", "valid", "failed"}

VARIABLES
    stored,         \* what the server holds: id -> state or "gone"
    issuances,      \* ids of which an issuance runs in the background
    rows,           \* the signal records: id -> state, of those listed
    issuing,        \* the signal: ids
    loadingIps,     \* loadingHetzner and loadingResolved: ids of each lookup
    shownIps,       \* hetznerIps and resolvedIps: ids an address is shown for
    warning,        \* the open dialog: what it confirms, of which record
    polls,          \* timers of pollCertificate: id and attempt
    calls,          \* calls under way
    called          \* how many were made, lookups not counted

lookupVars == <<loadingIps, shownIps>>
tableVars == <<stored, issuances, rows, issuing, lookupVars, warning, polls, calls, called>>

NoWarning == [asks |-> "nothing", id |-> "none"]

TableInit ==
    /\ stored \in [RecordIds -> {"none", "valid"}] /\ issuances = {}
    /\ rows = <<>> /\ warning = NoWarning /\ polls = {}
    /\ issuing = {} /\ loadingIps = [k \in Lookups |-> {}] /\ shownIps = [k \in Lookups |-> {}]
    /\ calls = {[n |-> 1, kind |-> "list", id |-> "none", attempt |-> 0, status |-> "sent", listed |-> <<>>]}
    /\ called = 1

\* Lookups have the number of the list they belong to.
Call(kind, id, attempt) ==
    [n |-> called + 1, kind |-> kind, id |-> id, attempt |-> attempt, status |-> "sent", listed |-> <<>>]

Make(without, c) == /\ called < MaxCalls /\ called' = called + 1
                    /\ calls' = without \cup {c}

\* load(search); the id of the call is "search" when there is a term.
Load(without, search) == Make(without, Call("list", search, 0))

-----------------------------------------------------------------------------
(* The user.                                                               *)

\* Typing in the search field, clearing it, or the record form's onSave, which
\* loads all records whatever the field holds.
Search(search) ==
    /\ warning = NoWarning
    /\ Load(calls, search)
    /\ UNCHANGED <<stored, issuances, rows, lookupVars, issuing, warning, polls>>

\* The menu's entry is disabled while the record is being issued.  One that is
\* valid is issued again only after a warning.
IssueCertificate(id) ==
    /\ warning = NoWarning /\ id \in DOMAIN rows /\ id \notin issuing
    /\ IF rows[id] = "valid"
       THEN /\ warning' = [asks |-> "issue", id |-> id]
            /\ UNCHANGED <<issuing, calls, called>>
       ELSE /\ issuing' = issuing \cup {id}
            /\ Make(calls, Call("issue", id, 0))
            /\ UNCHANGED warning
    /\ UNCHANGED <<stored, issuances, rows, lookupVars, polls>>

Delete(id) ==
    /\ warning = NoWarning /\ id \in DOMAIN rows
    /\ warning' = [asks |-> "delete", id |-> id]
    /\ UNCHANGED <<stored, issuances, rows, lookupVars, issuing, polls, calls, called>>

\* handleButton: the button's handler, then the dialog closes.
Confirm ==
    /\ warning # NoWarning
    /\ warning' = NoWarning
    /\ issuing' = IF warning.asks = "issue" THEN issuing \cup {warning.id} ELSE issuing
    /\ Make(calls, Call(warning.asks, warning.id, 0))
    /\ UNCHANGED <<stored, issuances, rows, lookupVars, polls>>

DismissWarning ==
    /\ warning # NoWarning
    /\ warning' = NoWarning
    /\ UNCHANGED <<stored, issuances, rows, lookupVars, issuing, polls, calls, called>>

Refresh(id) ==
    /\ warning = NoWarning /\ id \in DOMAIN rows
    /\ Make(calls, Call("refresh", id, 0))
    /\ UNCHANGED <<stored, issuances, rows, lookupVars, issuing, warning, polls>>

-----------------------------------------------------------------------------
(* Answers and timers.                                                     *)

\* The list: all addresses are forgotten and looked up again, two calls a row.
ShowList(c) ==
    /\ c.kind = "list" /\ c.status = "ok"
    /\ rows' = c.listed
    /\ shownIps' = [k \in Lookups |-> {}]
    /\ loadingIps' = [k \in Lookups |-> loadingIps[k] \cup DOMAIN c.listed]
    /\ calls' = (calls \ {c}) \cup
          {[Call(kind, id, 0) EXCEPT !.n = c.n] : kind \in Lookups, id \in DOMAIN c.listed}
    /\ UNCHANGED <<stored, issuances, issuing, warning, polls, called>>

\* mutant: the error callback leaves the spinner.
LookupForgotten(c) ==
    /\ c.kind \in Lookups /\ c.status # "sent"
    /\ calls' = calls \ {c}
    /\ IF c.status = "ok"
       THEN /\ loadingIps' = [loadingIps EXCEPT ![c.kind] = @ \ {c.id}]
            /\ shownIps' = [shownIps EXCEPT ![c.kind] = @ \cup {c.id}]
       ELSE UNCHANGED lookupVars
    /\ UNCHANGED <<stored, issuances, rows, issuing, warning, polls, called>>

\* loadHetznerIp and loadResolvedIp, answered or failed.
LookupEnds(c) ==
    /\ c.kind \in Lookups /\ c.status # "sent"
    /\ calls' = calls \ {c}
    /\ loadingIps' = [loadingIps EXCEPT ![c.kind] = @ \ {c.id}]
    /\ shownIps' = [shownIps EXCEPT ![c.kind] = IF c.status = "ok" THEN @ \cup {c.id} ELSE @]
    /\ UNCHANGED <<stored, issuances, rows, issuing, warning, polls, called>>

\* doIssueCertificate: the list is loaded, the certificate is polled.
IssueAccepted(c) ==
    /\ c.kind = "issue" /\ c.status = "ok"
    /\ issuing' = issuing \ {c.id}
    /\ Load(calls \ {c}, "all")
    /\ polls' = polls \cup {[id |-> c.id, attempt |-> 0]}
    /\ UNCHANGED <<stored, issuances, rows, lookupVars, warning>>

\* refreshRecord and deleteRecord load the list.
Done(c) ==
    /\ c.kind \in {"refresh", "delete"} /\ c.status = "ok"
    /\ Load(calls \ {c}, "all")
    /\ UNCHANGED <<stored, issuances, rows, lookupVars, issuing, warning, polls>>

Failed(c) ==
    /\ c.kind \in {"list", "issue", "refresh", "delete"} /\ c.status = "failed"
    /\ calls' = calls \ {c}
    /\ issuing' = IF c.kind = "issue" THEN issuing \ {c.id} ELSE issuing
    /\ UNCHANGED <<stored, issuances, rows, lookupVars, warning, polls, called>>

\* pollCertificate: its timer, and the call it makes.
PollTimer(p) ==
    /\ p.attempt < maxAttempts
    /\ polls' = polls \ {p}
    /\ Make(calls, Call("poll", p.id, p.attempt))
    /\ UNCHANGED <<stored, issuances, rows, lookupVars, issuing, warning>>

\* After a list that still says pending, or does not have the certificate, and
\* after a failed call, the next attempt is due, until there were maxAttempts.
PollAgain(c) ==
    polls' = IF c.attempt + 1 < maxAttempts
             THEN polls \cup {[id |-> c.id, attempt |-> c.attempt + 1]} ELSE polls

PollAnswered(c) ==
    /\ c.kind = "poll" /\ c.status # "sent"
    /\ calls' = calls \ {c}
    /\ rows' = IF c.status = "ok" THEN c.listed ELSE rows
    /\ IF c.status = "ok" /\ c.id \in DOMAIN c.listed /\ c.listed[c.id] \notin {"none", "pending"}
       THEN UNCHANGED polls ELSE PollAgain(c)
    /\ UNCHANGED <<stored, issuances, lookupVars, issuing, warning, called>>

-----------------------------------------------------------------------------
(* The server.                                                             *)

Listed(search) ==
    LET found == {id \in RecordIds : stored[id] # "gone" /\ (search = "search" => id \in Matching)}
    IN [id \in found |-> stored[id]]

Answered(c, status, listed) ==
    calls' = (calls \ {c}) \cup {[c EXCEPT !.status = status, !.listed = listed]}

ServeTable(c) ==
    /\ c.status = "sent"
    /\ \/ Answered(c, "failed", <<>>) /\ UNCHANGED <<stored, issuances>>
       \/ /\ c.kind \in {"list", "poll"}
          /\ Answered(c, "ok", Listed(c.id)) /\ UNCHANGED <<stored, issuances>>
       \/ /\ c.kind \in Lookups \cup {"refresh"} /\ stored[c.id] # "gone"
          /\ Answered(c, "ok", <<>>) /\ UNCHANGED <<stored, issuances>>
       \/ /\ c.kind = "issue" /\ stored[c.id] # "gone" /\ c.id \notin issuances
          /\ issuances' = issuances \cup {c.id}
          /\ stored' = [stored EXCEPT ![c.id] = IF @ = "none" THEN "pending" ELSE @]
          /\ Answered(c, "ok", <<>>)
       \/ /\ c.kind = "delete" /\ stored[c.id] # "gone"
          /\ stored' = [stored EXCEPT ![c.id] = "gone"]
          /\ Answered(c, "ok", <<>>) /\ UNCHANGED issuances
    /\ UNCHANGED <<rows, lookupVars, issuing, warning, polls, called>>

Issued(id) ==
    /\ id \in issuances
    /\ issuances' = issuances \ {id}
    /\ stored' \in {[stored EXCEPT ![id] = IF @ = "gone" THEN @ ELSE status] : status \in {"valid", "failed"}}
    /\ UNCHANGED <<rows, lookupVars, issuing, warning, polls, calls, called>>

TableNext ==
    \/ \E search \in {"all", "search"} : Search(search)
    \/ \E id \in RecordIds : IssueCertificate(id) \/ Delete(id) \/ Refresh(id) \/ Issued(id)
    \/ Confirm \/ DismissWarning
    \/ \E c \in calls : \/ ShowList(c) \/ LookupEnds(c) \/ IssueAccepted(c) \/ Done(c) \/ Failed(c)
                        \/ PollAnswered(c) \/ ServeTable(c)
    \/ \E p \in polls : PollTimer(p)

TableSpec == TableInit /\ [][TableNext]_tableVars

-----------------------------------------------------------------------------
TableTypeOK ==
    /\ stored \in [RecordIds -> CertStates \cup {"gone"}] /\ issuances \subseteq RecordIds
    /\ DOMAIN rows \subseteq RecordIds
    /\ issuing \subseteq RecordIds
    /\ loadingIps \in [Lookups -> SUBSET RecordIds] /\ shownIps \in [Lookups -> SUBSET RecordIds]
    /\ warning.asks \in {"nothing", "issue", "delete"}
    /\ polls \subseteq [id: RecordIds, attempt: 0..(maxAttempts - 1)]
    /\ called \in 0..MaxCalls

\* A spinner always has a call under way that will remove it: two lists may
\* have looked the same record up, and any of the calls may fail.
SpinnersEnd ==
    /\ \A k \in Lookups : \A id \in loadingIps[k] : \E c \in calls : c.kind = k /\ c.id = id
    /\ \A id \in issuing : \E c \in calls : c.kind = "issue" /\ c.id = id
=============================================================================
