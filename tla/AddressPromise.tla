--------------------------- MODULE AddressPromise ---------------------------
(***************************************************************************)
(* What dynamic DNS promises to whoever reads a record at Hetzner or in    *)
(* the UI, free of goroutines, SQL and HTTP: a published address is one    *)
(* HDNS has learnt, publishing one leaves the record owing its IP tasks,   *)
(* and the debt is kept in hand until it is paid or given up for a reason  *)
(* that is written down.  Tasks never fire for a record nobody holds an    *)
(* update of.  DdnsRefresh is shown to implement this module.              *)
(***************************************************************************)
CONSTANTS Records, IPv4s,
          None,     \* no address
          Absent,   \* no A RRset
          Foreign   \* an A RRset somebody else wrote

VARIABLES known,    \* the IPv4 addresses HDNS has stored
          shown,    \* the A RRset of each record
          linked,   \* the address each record has in the UI
          silent,   \* records updated and not announced since
          held,     \* records whose update somebody is about to announce
          forgiven  \* records whose announcement may be missing: a failed call, a restart,
                    \* or the manual refresh of the API

vars == <<known, shown, linked, silent, held, forgiven>>

Init ==
  /\ known = {}
  /\ shown \in [Records -> {Absent, Foreign}]
  /\ linked = [r \in Records |-> None]
  /\ silent = {} /\ held = {} /\ forgiven = {}

Learn(ip) ==
  /\ known' = known \union {ip}
  /\ UNCHANGED <<shown, linked, silent, held, forgiven>>

\* With a debt that is kept, or one that is given up at once.
Publish(r, ip) ==
  /\ ip \in known
  /\ shown' = [shown EXCEPT ![r] = ip]
  /\ silent' = silent \union {r}
  /\ \/ held' = held \union {r} /\ forgiven' \in {forgiven, forgiven \ {r}}
     \/ held' = held /\ forgiven' = forgiven \union {r}
  /\ UNCHANGED <<known, linked>>

Link(r, ip) ==
  /\ ip \in known \union {None}
  /\ linked' = [linked EXCEPT ![r] = ip]
  /\ UNCHANGED <<known, shown, silent, held, forgiven>>

\* Another update of the record may still be in hand.
Announce(r) ==
  /\ r \in held
  /\ silent' = silent \ {r}
  /\ held' \in {held, held \ {r}}
  /\ forgiven' \in {forgiven, forgiven \ {r}}
  /\ UNCHANGED <<known, shown, linked>>

\* A debt leaves the hands that held it only together with its reason.
GiveUp(rs) ==
  /\ held' \subseteq held /\ held \subseteq held' \union rs
  /\ forgiven' = forgiven \union rs
  /\ UNCHANGED <<known, shown, linked, silent>>

\* The RRset is withdrawn by a request, or edited by somebody else.
Replace(r, value) ==
  /\ value \in {Absent, Foreign}
  /\ shown' = [shown EXCEPT ![r] = value]
  /\ UNCHANGED <<known, linked, silent, held, forgiven>>

Next ==
  \/ \E ip \in IPv4s : Learn(ip)
  \/ \E r \in Records : Announce(r)
  \/ \E r \in Records, ip \in IPv4s \union {None} : Publish(r, ip) \/ Link(r, ip)
  \/ \E r \in Records, value \in {Absent, Foreign} : Replace(r, value)
  \/ \E rs \in SUBSET Records : GiveUp(rs)

Spec == Init /\ [][Next]_vars

---------------------------------------------------------------------------
\* No update is forgotten: what is not announced is in hand or has its reason.
DebtsAreHeld == silent \ forgiven \subseteq held

\* Nobody is sent to an address HDNS never had.
ShownIsKnown ==
  \A r \in Records : /\ shown[r] \in known \union {Absent, Foreign}
                     /\ linked[r] \in known \union {None}
=============================================================================
