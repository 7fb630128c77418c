---------------------------- MODULE DdnsRefresh ----------------------------
(***************************************************************************)
(* Dynamic DNS of the HDNS backend: UpdateAddress keeps the addresses      *)
(* table (dns/address.go), Refresh, RefreshRecord and UpdateRecord bring   *)
(* the A RRsets at Hetzner in line with it (dns/service.go,                *)
(* dns/hetzner.go), and the API handlers of web/api/record.go and          *)
(* web/api/address.go do the same on request.                              *)
(*                                                                         *)
(* A process is a goroutine running one of these.  A step is one SQL       *)
(* statement or one call to Hetzner: database.HDNS().Query groups          *)
(* statements under one error, it does not isolate them.                   *)
(*                                                                         *)
(* Rows of addresses that hold the same pair (possible when one side is    *)
(* NULL) are one element of `stored`: ids are not told apart.              *)
(***************************************************************************)
EXTENDS Naturals, FiniteSets

CONSTANTS
  Records,    \* ids of rows of the records table
  Ddns,       \* those whose purpose includes DDNS
  IPv4s,      \* addresses the provider may assign
  IPv6s,      \* the same for IPv6; {} on a host without IPv6 resolvers
  None,       \* SQL NULL, no address, no row
  Absent,     \* no A RRset
  Foreign,    \* an A RRset somebody else wrote
  Cron,       \* goroutines of the ddns-refresh cron entry
  Callers,    \* goroutines of API requests
  MaxMoves,   \* bound: changes of the public address or of an RRset by others
  MaxFaults,  \* bound: failed calls and process restarts
  MaxRequests \* bound: API requests

Procs == Cron \union Callers

ASSUME ConstantsAssumption ==
  /\ Ddns \subseteq Records
  /\ None \notin IPv4s \union IPv6s \union Records
  /\ Absent \notin IPv4s \union {None, Foreign}
  /\ Foreign \notin IPv4s \union {None}
  /\ MaxMoves \in Nat /\ MaxFaults \in Nat
  /\ MaxRequests \in Nat

VARIABLES
  public,     \* the address pair the host really has
  stored,     \* addresses table: the pairs it has rows for
  current,    \* the pairs with a row whose column current is TRUE
  live,       \* records table: the rows that exist
  link,       \* records.address_id, as the pair it refers to
  rrset,      \* the A RRset of each record at Hetzner
  pc, kind, got, cur, rec, todo, found,   \* the goroutines
  moves, faults, requests,
  silent,     \* history: records whose A RRset was updated and no IP task fired since
  lost,       \* history: records whose update met a failed call or a restart
  onRequest,  \* history: records last updated by API RefreshRecord
  overlapped  \* history: two UpdateAddress calls ran at the same time

tables == <<stored, current, live, link>>
locals == <<kind, got, cur, rec, todo, found>>
history == <<silent, lost, onRequest, overlapped>>
vars == <<public, stored, current, live, link, rrset, pc, kind, got, cur, rec, todo, found,
          moves, faults, requests, silent, lost, onRequest, overlapped>>

---------------------------------------------------------------------------
Pair == [v4 : IPv4s \union {None}, v6 : IPv6s \union {None}]
Kinds == {"refresh", "address", "record", "upsert", "delete"}
Unresolved == [v4 |-> None, v6 |-> None]   \* also NULL where a pair is referred to

InUpdateAddress == {"resolve", "select", "reset", "create", "reselect"}
InRecord == {"fetch", "find", "put", "save", "fire"}
Steps == InUpdateAddress \union InRecord \union
         {"idle", "current", "list", "pick", "lookup", "drop", "erase"}

\* The steps at which a goroutine works on a record of its own.
HasRecord == InRecord \union {"current", "lookup", "drop", "erase"}

TypeOK ==
  /\ public \in Pair
  /\ stored \subseteq Pair /\ current \subseteq stored
  /\ live \subseteq Records
  /\ link \in [Records -> Pair]
  /\ rrset \in [Records -> IPv4s \union {Absent, Foreign}]
  /\ pc \in [Procs -> Steps]
  /\ kind \in [Procs -> Kinds]
  /\ got \in [Procs -> Pair]
  /\ cur \in [Procs -> Pair]
  /\ rec \in [Procs -> Records \union {None}]
  /\ \A p \in Procs : pc[p] \in HasRecord => rec[p] \in Records
  /\ todo \in [Procs -> SUBSET Records]
  /\ found \in [Procs -> BOOLEAN]
  /\ moves \in 0 .. MaxMoves /\ faults \in 0 .. MaxFaults /\ requests \in 0 .. MaxRequests
  /\ silent \subseteq Records /\ lost \subseteq Records /\ onRequest \subseteq Records
  /\ overlapped \in BOOLEAN

\* HDNS starts for the first time; the records exist, their RRsets are anybody's.
Init ==
  /\ public \in [v4 : IPv4s, v6 : IF IPv6s = {} THEN {None} ELSE IPv6s]
  /\ stored = {} /\ current = {}
  /\ live = Records
  /\ link = [r \in Records |-> Unresolved]
  /\ rrset \in [Records -> {Absent, Foreign}]
  /\ pc = [p \in Procs |-> "idle"]
  /\ kind = [p \in Procs |-> "refresh"]
  /\ got = [p \in Procs |-> Unresolved]
  /\ cur = [p \in Procs |-> Unresolved]
  /\ rec = [p \in Procs |-> None]
  /\ todo = [p \in Procs |-> {}]
  /\ found = [p \in Procs |-> FALSE]
  /\ moves = 0 /\ faults = 0 /\ requests = 0
  /\ silent = {} /\ lost = {} /\ onRequest = {}
  /\ overlapped = FALSE

At(p, from) == pc[p] = from

\* The goroutine moves on, or returns and forgets its locals.
Goto(p, to) ==
  /\ pc' = [pc EXCEPT ![p] = to]
  /\ UNCHANGED <<kind, got, cur, rec, todo, found>>

Return(p) ==
  /\ pc' = [pc EXCEPT ![p] = "idle"]
  /\ kind' = [kind EXCEPT ![p] = "refresh"]
  /\ got' = [got EXCEPT ![p] = Unresolved]
  /\ cur' = [cur EXCEPT ![p] = Unresolved]
  /\ rec' = [rec EXCEPT ![p] = None]
  /\ todo' = [todo EXCEPT ![p] = {}]
  /\ found' = [found EXCEPT ![p] = FALSE]

\* Done with one record: a refresh takes the next one, a request is over.
Leave(p) ==
  IF kind[p] = "refresh"
  THEN /\ pc' = [pc EXCEPT ![p] = "pick"]
       /\ rec' = [rec EXCEPT ![p] = None]
       /\ found' = [found EXCEPT ![p] = FALSE]
       /\ UNCHANGED <<kind, got, cur, todo>>
  ELSE Return(p)

Fault ==
  /\ faults < MaxFaults
  /\ faults' = faults + 1

IPv4Of(p) == cur[p].v4

---------------------------------------------------------------------------
(* Entry points *)

StartRefresh(p) ==
  /\ p \in Cron
  /\ At(p, "idle")
  /\ Goto(p, "resolve")
  /\ overlapped' = (overlapped \/ \E q \in Procs : pc[q] \in InUpdateAddress)
  /\ UNCHANGED <<public, tables, rrset, moves, requests, faults, silent, lost, onRequest>>

\* API RefreshAddress, RefreshRecord, UpsertRecord (which calls dns.RefreshRecord) and
\* DeleteRecord, the last three after reading the record.
StartRequest(p, k, r) ==
  /\ p \in Callers
  /\ At(p, "idle")
  /\ requests < MaxRequests
  /\ requests' = requests + 1
  /\ IF k = "address" THEN r = None ELSE r \in live
  /\ k = "upsert" => r \in Ddns
  /\ \E to \in (CASE k \in {"address", "record"} -> {"resolve"}
                  [] k = "upsert" -> {"current"}
                  [] k = "delete" -> {"lookup", "erase"}) :
       pc' = [pc EXCEPT ![p] = to]
  /\ kind' = [kind EXCEPT ![p] = k]
  /\ rec' = [rec EXCEPT ![p] = r]
  /\ overlapped' = (overlapped \/ (k \in {"address", "record"} /\
                                   \E q \in Procs : pc[q] \in InUpdateAddress))
  /\ UNCHANGED <<public, tables, rrset, got, cur, todo, found, moves, faults,
                 silent, lost, onRequest>>

---------------------------------------------------------------------------
(* UpdateAddress *)

\* resolve(): both families; a fault makes a family fail or answer an old address.
\* Without any address UpdateAddress fails.
Resolve(p) ==
  /\ At(p, "resolve")
  /\ \E seen \in Pair :
       /\ \/ seen = public /\ UNCHANGED faults
          \/ seen # public /\ Fault
       /\ IF seen = Unresolved THEN Return(p)
          ELSE /\ pc' = [pc EXCEPT ![p] = "select"]
               /\ got' = [got EXCEPT ![p] = seen]
               /\ UNCHANGED <<kind, cur, rec, todo, found>>
  /\ UNCHANGED <<public, tables, rrset, moves, requests, history>>

AfterUpdateAddress(p) ==
  CASE kind[p] = "refresh" -> "list"
    [] kind[p] = "address" -> "idle"
    [] OTHER -> "find"

\* mutant: RefreshAddress goes on to publish the row, as RefreshRecord does
ReturnToRecord(p, row) ==
  /\ pc' = [pc EXCEPT ![p] = IF kind[p] = "refresh" THEN "list" ELSE "find"]
  /\ cur' = [cur EXCEPT ![p] = row]
  /\ UNCHANGED <<kind, got, rec, todo, found>>

\* UpdateAddress returns a row.
ReturnAddress(p, row) ==
  IF kind[p] = "address" THEN Return(p)
  ELSE /\ pc' = [pc EXCEPT ![p] = AfterUpdateAddress(p)]
       /\ cur' = [cur EXCEPT ![p] = row]
       /\ UNCHANGED <<kind, got, rec, todo, found>>

\* GetCurrentAddress, LIMIT 1 without an order: any current row, or none.
Select(p) ==
  /\ At(p, "select")
  /\ \/ got[p] \in current /\ ReturnAddress(p, got[p])
     \/ current \ {got[p]} # {} /\ Goto(p, "reset")
     \/ current = {} /\ Goto(p, "reset")
  /\ UNCHANGED <<public, tables, rrset, moves, requests, faults, history>>

\* mutant: the old row stays current
ResetForgotten(p) ==
  /\ At(p, "reset")
  /\ Goto(p, "create")
  /\ UNCHANGED <<public, tables, rrset, moves, requests, faults, history>>

ResetCurrentAddresses(p) ==
  /\ At(p, "reset")
  /\ Goto(p, "create")
  /\ current' = {}
  /\ UNCHANGED <<public, stored, live, link, rrset, moves, requests, faults, history>>

\* UNIQUE KEY (ipv4, ipv6): a NULL never conflicts.
Conflict(pair) ==
  /\ pair.v4 # None /\ pair.v6 # None
  /\ pair \in stored

CreateAddress(p) ==
  /\ At(p, "create")
  /\ \/ /\ ~Conflict(got[p])
        /\ stored' = stored \union {got[p]}
        /\ current' = current \union {got[p]}
        /\ Goto(p, "reselect")
        /\ UNCHANGED faults
     \/ /\ \/ Conflict(got[p]) /\ UNCHANGED faults
           \/ Fault
        /\ Return(p)
        /\ UNCHANGED <<stored, current>>
  /\ UNCHANGED <<public, live, link, rrset, moves, requests, history>>

\* GetCurrentAddress again; another UpdateAddress may have reset the row in between.
Reselect(p) ==
  /\ At(p, "reselect")
  /\ \/ \E row \in current : ReturnAddress(p, row)
     \/ current = {} /\ Return(p)
  /\ UNCHANGED <<public, tables, rrset, moves, requests, faults, history>>

---------------------------------------------------------------------------
(* Refresh: all records *)

ListRecords(p) ==
  /\ At(p, "list")
  /\ pc' = [pc EXCEPT ![p] = "pick"]
  /\ todo' = [todo EXCEPT ![p] = live \intersect Ddns]
  /\ UNCHANGED <<public, tables, rrset, kind, got, cur, rec, found, moves, requests, faults, history>>

\* A refresh whose address has no IPv4 counts the record as failed and goes on.
PickRecord(p, r) ==
  /\ At(p, "pick")
  /\ r \in todo[p]
  /\ todo' = [todo EXCEPT ![p] = @ \ {r}]
  /\ IF IPv4Of(p) = None
     THEN UNCHANGED <<pc, rec>>
     ELSE /\ pc' = [pc EXCEPT ![p] = "fetch"]
          /\ rec' = [rec EXCEPT ![p] = r]
  /\ UNCHANGED <<public, tables, rrset, kind, got, cur, found, moves, requests, faults, history>>

EndRefresh(p) ==
  /\ At(p, "pick")
  /\ todo[p] = {}
  /\ Return(p)
  /\ UNCHANGED <<public, tables, rrset, moves, requests, faults, history>>

\* dns.RefreshRecord: the current address, which must have an IPv4.
LoadCurrent(p) ==
  /\ At(p, "current")
  /\ \/ \E row \in current :
          IF row.v4 = None THEN Return(p)
          ELSE /\ pc' = [pc EXCEPT ![p] = "fetch"]
               /\ cur' = [cur EXCEPT ![p] = row]
               /\ UNCHANGED <<kind, got, rec, todo, found>>
     \/ current = {} /\ Return(p)
  /\ UNCHANGED <<public, tables, rrset, moves, requests, faults, history>>

---------------------------------------------------------------------------
(* One record: FetchRecord, UpdateRecord, FireTasks *)

\* mutant: the record counts as unchanged when the database says so
FetchFromDatabase(p) ==
  /\ At(p, "fetch")
  /\ \/ link[rec[p]] = cur[p] /\ Leave(p) /\ UNCHANGED faults
     \/ link[rec[p]] # cur[p] /\ Goto(p, "find") /\ UNCHANGED faults
     \/ Fault /\ Leave(p)
  /\ UNCHANGED <<public, tables, rrset, moves, requests, history>>

FetchRecord(p) ==
  /\ At(p, "fetch")
  /\ \/ rrset[rec[p]] = IPv4Of(p) /\ Leave(p) /\ UNCHANGED faults
     \/ rrset[rec[p]] # IPv4Of(p) /\ Goto(p, "find") /\ UNCHANGED faults
     \/ Fault /\ Leave(p)
  /\ UNCHANGED <<public, tables, rrset, moves, requests, history>>

\* upsertResourceRecordSet looks the RRset up ...
FindRRSet(p) ==
  /\ At(p, "find")
  /\ \/ /\ pc' = [pc EXCEPT ![p] = "put"]
        /\ found' = [found EXCEPT ![p] = rrset[rec[p]] # Absent]
        /\ UNCHANGED <<kind, got, cur, rec, todo, faults>>
     \/ Fault /\ Leave(p)
  /\ UNCHANGED <<public, tables, rrset, moves, requests, history>>

\* ... and then creates or overwrites what it saw; Hetzner refuses to create what exists,
\* to set what does not, and a record without a value.
Accepted(p) ==
  /\ found[p] = (rrset[rec[p]] # Absent)
  /\ IPv4Of(p) # None

PutRRSet(p) ==
  /\ At(p, "put")
  /\ \/ /\ Accepted(p)
        /\ rrset' = [rrset EXCEPT ![rec[p]] = IPv4Of(p)]
        /\ silent' = silent \union {rec[p]}
        /\ onRequest' = IF kind[p] = "record" THEN onRequest \union {rec[p]}
                        ELSE onRequest \ {rec[p]}
        /\ \/ Goto(p, "save") /\ UNCHANGED <<faults, lost>>
           \/ Fault /\ Leave(p) /\ lost' = lost \union {rec[p]}   \* the answer is lost
     \/ /\ \/ ~Accepted(p) /\ UNCHANGED faults
           \/ Fault
        /\ Leave(p)
        /\ UNCHANGED <<rrset, silent, onRequest, lost>>
  /\ UNCHANGED <<public, tables, moves, requests, overlapped>>

\* mutant: only the cron refresh fires the IP tasks
SaveLinkCronFires(p) ==
  /\ At(p, "save")
  /\ \/ /\ link' = [link EXCEPT ![rec[p]] = IF rec[p] \in live THEN cur[p] ELSE Unresolved]
        /\ IF kind[p] = "refresh" THEN Goto(p, "fire") ELSE Leave(p)
        /\ UNCHANGED <<faults, lost>>
     \/ /\ Fault
        /\ Leave(p)
        /\ lost' = lost \union {rec[p]}
        /\ UNCHANGED link
  /\ UNCHANGED <<public, stored, current, live, rrset, moves, requests, silent, onRequest, overlapped>>

\* UpdateRecordAddress; no row matches when the record is gone.
SaveLink(p) ==
  /\ At(p, "save")
  /\ \/ /\ link' = [link EXCEPT ![rec[p]] = IF rec[p] \in live THEN cur[p] ELSE Unresolved]
        /\ IF kind[p] = "record" THEN Leave(p) ELSE Goto(p, "fire")
        /\ UNCHANGED <<faults, lost>>
     \/ /\ Fault
        /\ Leave(p)
        /\ lost' = lost \union {rec[p]}
        /\ UNCHANGED link
  /\ UNCHANGED <<public, stored, current, live, rrset, moves, requests, silent, onRequest, overlapped>>

FireTasks(p) ==
  /\ At(p, "fire")
  /\ Leave(p)
  /\ silent' = silent \ {rec[p]}
  /\ lost' = lost \ {rec[p]}
  /\ UNCHANGED <<public, tables, rrset, moves, requests, faults, onRequest, overlapped>>

---------------------------------------------------------------------------
(* API DeleteRecord, with or without delete_from_hetzner *)

\* A missing RRset is an error, and the record stays.
LookupRRSet(p) ==
  /\ At(p, "lookup")
  /\ \/ rrset[rec[p]] # Absent /\ Goto(p, "drop") /\ UNCHANGED faults
     \/ rrset[rec[p]] = Absent /\ Return(p) /\ UNCHANGED faults
     \/ Fault /\ Return(p)
  /\ UNCHANGED <<public, tables, rrset, moves, requests, history>>

DropRRSet(p) ==
  /\ At(p, "drop")
  /\ \/ /\ rrset[rec[p]] # Absent
        /\ rrset' = [rrset EXCEPT ![rec[p]] = Absent]
        /\ Goto(p, "erase")
     \/ rrset[rec[p]] = Absent /\ Return(p) /\ UNCHANGED rrset
  /\ UNCHANGED <<public, tables, moves, requests, faults, history>>

EraseRecord(p) ==
  /\ At(p, "erase")
  /\ live' = live \ {rec[p]}
  /\ link' = [link EXCEPT ![rec[p]] = Unresolved]
  /\ Return(p)
  /\ UNCHANGED <<public, stored, current, rrset, moves, requests, faults, history>>

---------------------------------------------------------------------------
(* The world *)

Move == moves < MaxMoves /\ moves' = moves + 1

\* The provider assigns another address.
AddressChanges ==
  /\ Move
  /\ \E ip \in IPv4s \ {public.v4} : public' = [public EXCEPT !.v4 = ip]
  /\ UNCHANGED <<tables, rrset, pc, locals, faults, requests, history>>

\* Somebody edits the RRset in the Hetzner console.
ForeignEdit(r) ==
  /\ Move
  /\ rrset' = [rrset EXCEPT ![r] = Foreign]
  /\ UNCHANGED <<public, tables, pc, locals, faults, requests, history>>

\* The backend stops and its supervisor starts it again.
Restart ==
  /\ Fault
  /\ \E p \in Procs : pc[p] # "idle"
  /\ pc' = [p \in Procs |-> "idle"]
  /\ kind' = [p \in Procs |-> "refresh"]
  /\ got' = [p \in Procs |-> Unresolved]
  /\ cur' = [p \in Procs |-> Unresolved]
  /\ rec' = [p \in Procs |-> None]
  /\ todo' = [p \in Procs |-> {}]
  /\ found' = [p \in Procs |-> FALSE]
  /\ lost' = lost \union {rec[p] : p \in {q \in Procs : pc[q] \in {"save", "fire"}}}
  /\ UNCHANGED <<public, tables, rrset, moves, requests, silent, onRequest, overlapped>>

---------------------------------------------------------------------------
Step(p) ==
  \/ Resolve(p) \/ Select(p) \/ ResetCurrentAddresses(p) \/ CreateAddress(p) \/ Reselect(p)
  \/ ListRecords(p) \/ EndRefresh(p) \/ \E r \in Records : PickRecord(p, r)
  \/ LoadCurrent(p) \/ FetchRecord(p) \/ FindRRSet(p) \/ PutRRSet(p) \/ SaveLink(p)
  \/ FireTasks(p) \/ LookupRRSet(p) \/ DropRRSet(p) \/ EraseRecord(p)

Next ==
  \/ \E p \in Procs :
       \/ Step(p)
       \/ StartRefresh(p)
       \/ \E k \in Kinds \ {"refresh"}, r \in Records \union {None} : StartRequest(p, k, r)
  \/ AddressChanges
  \/ \E r \in Records : ForeignEdit(r)
  \/ Restart

Spec == Init /\ [][Next]_vars

\* The cron entry fires for ever, and a goroutine that can take a step takes one: every
\* HTTP and SQL call returns.  Requests, moves and faults need never happen.
FairSpec ==
  /\ Spec
  /\ \A p \in Cron : WF_vars(StartRefresh(p))
  /\ \A p \in Procs : WF_vars(Step(p))

---------------------------------------------------------------------------
(* Properties *)

\* GetCurrentAddress (LIMIT 1) has one row to choose from, as long as no two UpdateAddress
\* calls overlap: the reset and the insert belong together.
OneCurrentAddress == overlapped \/ Cardinality(current) <= 1

\* Every address a record is shown with is one the table holds an IPv4 for, and a value
\* HDNS publishes at Hetzner is the IPv4 of a stored address, never an empty or made-up one.
PublishedIsStored ==
  \A r \in Records :
    /\ rrset[r] \in {Absent, Foreign} \union {row.v4 : row \in stored}
    /\ link[r] # Unresolved => link[r].v4 # None /\ link[r] \in stored

\* An A record HDNS updated had its IP tasks fired, or is about to: only a failed call or a
\* restart between the two, or the manual refresh of the API, leaves it unannounced.
UpdateIsAnnounced ==
  \A r \in silent \ (lost \union onRequest) :
    \E p \in Procs : rec[p] = r /\ pc[p] \in {"save", "fire"}

\* What a reader of the records sees of this module, and what AddressPromise says of it: no
\* step publishes or links an address outside the table, fires the tasks of a record that
\* has no update in hand, or lets an update go unannounced without one of the reasons.
InHand == {rec[p] : p \in {q \in Procs : pc[q] \in {"save", "fire"} /\ kind[q] # "record"}}

Promise == INSTANCE AddressPromise WITH
  known <- {row.v4 : row \in stored} \ {None},
  shown <- rrset,
  linked <- [r \in Records |-> link[r].v4],
  held <- InHand,
  forgiven <- lost \union onRequest

AddressPromiseKept == Promise!Spec

\* tasks/task.go:34, "TriggerIP fires tasks when a record's A record (IP) is updated", with
\* no failure to excuse it.
TriggerIPFires ==
  faults = 0 =>
    \A r \in silent : \E p \in Procs : rec[p] = r /\ pc[p] \in {"save", "fire"}

\* README.md:7, "keeps your A/AAAA records in sync with your current public IP address":
\* once the address and the RRsets are left alone, every record follows for good.
InSync == \A r \in live \intersect Ddns : rrset[r] = public.v4
KeepsInSync == <>[]InSync
=============================================================================
