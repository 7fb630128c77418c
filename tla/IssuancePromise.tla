-------------------------- MODULE IssuancePromise --------------------------
(***************************************************************************)
(* What the certificate subsystem promises to everything that reads a      *)
(* certificate (tasks, downloads, the UI), free of goroutines, SQL and     *)
(* files: at most one issuance per record at a time, and the installed     *)
(* certificate of a record changes only inside an issuance of that record. *)
(* CertIssuance is shown to implement this module.                         *)
(***************************************************************************)
CONSTANTS Records,  \* ids of rows of the records table
          Serials,  \* issued certificates
          None      \* "no certificate installed"

VARIABLES busy,      \* records with an issuance in progress
          installed  \* the certificate each record serves

vars == <<busy, installed>>

Init ==
  /\ busy = {}
  /\ installed = [r \in Records |-> None]

Begin(r) ==
  /\ r \notin busy
  /\ busy' = busy \union {r}
  /\ UNCHANGED installed

Install(r, s) ==
  /\ r \in busy
  /\ installed' = [installed EXCEPT ![r] = s]
  /\ UNCHANGED busy

End(r) ==
  /\ r \in busy
  /\ busy' = busy \ {r}
  /\ UNCHANGED installed

\* The record, and with it the certificate, is removed by the user.
Drop(r) ==
  /\ installed' = [installed EXCEPT ![r] = None]
  /\ UNCHANGED busy

\* The process stops: every issuance in progress is over, nothing installed is lost.
Restart ==
  /\ busy' = {}
  /\ UNCHANGED installed

Next ==
  \/ \E r \in Records : Begin(r) \/ End(r) \/ Drop(r)
  \/ \E r \in Records, s \in Serials : Install(r, s)
  \/ Restart

Spec == Init /\ [][Next]_vars
=============================================================================
