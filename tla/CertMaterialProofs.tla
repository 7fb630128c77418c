------------------------ MODULE CertMaterialProofs ------------------------
(***************************************************************************)
(* Theorems about the certificates that CertIssuance installs: the files   *)
(* on disk, the row that describes them, what is sent to the webhook, and  *)
(* the job that reports it.                                                *)
(*                                                                         *)
(* They rest on the slot (CertIssuanceProofs): the goroutine that writes   *)
(* the files of a record is the only one, so what it has written stays     *)
(* until it is done.  Two records that share a directory break this        *)
(* (certificateDir strips "*."): the theorems about files assume that the  *)
(* records have directories of their own.                                  *)
(***************************************************************************)
EXTENDS CertIssuanceProofs

OwnDirs == \A r, s \in Records : DirOf[r] = DirOf[s] => r = s

\* The steps at which files and row of a certificate may differ, those at which all files
\* are written, and those at which the next file to handle is the first.
Installing == {"write", "persist", "markFailed"}
OnDisk == {"persist", "closeOk", "fire", "read", "deliver"}
AtFirst == {"persist", "closeOk", "fire"}

---------------------------------------------------------------------------
(* What an issuance has written so far, and what its task has read, is its own. *)

DiskOK ==
  \A p \in Procs :
    /\ pc[p] = "write" => \A f \in PemFiles : f < at[p] => files[DirOf[rec[p]]][f] = mine[p]
    /\ pc[p] \in OnDisk => \A f \in PemFiles : files[DirOf[rec[p]]][f] = mine[p]
    /\ pc[p] \in AtFirst => at[p] = 1
    /\ pc[p] = "read" => \A f \in PemFiles : f < at[p] => seen[p][f] = mine[p]
    /\ pc[p] = "deliver" => \A f \in PemFiles : seen[p][f] = mine[p]

\* A step that writes no file and lets no goroutine reach a step that relies on them.
DiskQuiet ==
  /\ files' = files
  /\ \A q \in Procs : pc'[q] \in OnDisk \union {"write"} =>
        /\ pc'[q] = pc[q] /\ rec'[q] = rec[q] /\ mine'[q] = mine[q]
        /\ at'[q] = at[q] /\ seen'[q] = seen[q]

LEMMA DiskQuietStep == DiskOK /\ DiskQuiet => DiskOK'
BY DEF DiskOK, DiskQuiet, OnDisk, AtFirst

\* Two goroutines at work on files are at work on different directories.
LEMMA OtherDirectory ==
  ASSUME OwnDirs, SlotInv, NEW p \in Procs, NEW q \in Procs, p # q,
         pc[p] \in Critical, pc[q] \in Critical
  PROVE  DirOf[rec[p]] # DirOf[rec[q]]
BY DEF OwnDirs, SlotInv, OneIssuancePerRecord, Holders, LocalsOK, HasRecord

LEMMA DiskStep == ASSUME OwnDirs PROVE SlotInv /\ DiskOK /\ [Next]_vars => DiskOK'
<1> SUFFICES ASSUME SlotInv, DiskOK, [Next]_vars PROVE DiskOK'
  OBVIOUS
<1> TypeOK /\ LocalsOK
  BY DEF SlotInv
<1> USE DEF TypeOK, Critical, Outside, tables, locals, ghosts, Goto, After
<1>1. ASSUME NEW p \in Procs, NEW r \in Records, StartIssuance(p, r) PROVE DiskOK'
  BY <1>1, DiskQuietStep DEF DiskQuiet, OnDisk, StartIssuance
<1>2. ASSUME NEW p \in Procs, NEW r \in Records, RenewPick(p, r) PROVE DiskOK'
  BY <1>2, DiskQuietStep DEF DiskQuiet, OnDisk, RenewPick, Fault
<1>3. ASSUME NEW p \in Procs, RenewCertificates(p) PROVE DiskOK'
  BY <1>3, DiskQuietStep DEF DiskQuiet, OnDisk, RenewCertificates
<1>4. ASSUME NEW p \in Procs, RenewEnd(p) PROVE DiskOK'
  BY <1>4, DiskQuietStep DEF DiskQuiet, OnDisk, RenewEnd
<1>5. ASSUME NEW p \in Procs, Reserve(p) PROVE DiskOK'
  BY <1>5, DiskQuietStep DEF DiskQuiet, OnDisk, Reserve
<1>6. ASSUME NEW p \in Procs, Release(p) PROVE DiskOK'
  BY <1>6, DiskQuietStep DEF DiskQuiet, OnDisk, Release
<1>7. ASSUME NEW p \in Procs, Prepare(p) PROVE DiskOK'
  BY <1>7, DiskQuietStep DEF DiskQuiet, OnDisk, Prepare, EnsureRow
<1>8. ASSUME NEW p \in Procs, Ensure(p) PROVE DiskOK'
  BY <1>8, DiskQuietStep DEF DiskQuiet, OnDisk, Ensure, EnsureRow
<1>9. ASSUME NEW p \in Procs, CreateJob(p) PROVE DiskOK'
  BY <1>9, DiskQuietStep DEF DiskQuiet, OnDisk, CreateJob
<1>10. ASSUME NEW p \in Procs, ObtainOk(p) PROVE DiskOK'
  <2>1. /\ pc' = [pc EXCEPT ![p] = "write"] /\ at' = [at EXCEPT ![p] = 1]
        /\ UNCHANGED <<files, rec, mine, seen>>
    BY <1>10 DEF ObtainOk
  <2>2. \A f \in PemFiles : ~(f < 1)
    BY DEF PemFiles
  <2>3. QED
    BY <2>1, <2>2 DEF DiskOK, OnDisk, AtFirst
<1>11. ASSUME NEW p \in Procs, ObtainFail(p) PROVE DiskOK'
  BY <1>11, DiskQuietStep DEF DiskQuiet, OnDisk, ObtainFail
<1>12. ASSUME NEW p \in Procs, WriteFile(p) PROVE DiskOK'
  <2> DEFINE d == DirOf[rec[p]]
  <2>1. /\ pc[p] = "write" /\ rec[p] \in Records /\ d \in Dirs /\ at[p] \in PemFiles
        /\ UNCHANGED <<rec, mine, seen>>
    BY <1>12, ConstantsAssumption DEF WriteFile, LocalsOK, HasRecord, ConstantsAssumption
  <2>2. /\ \A f \in PemFiles : files'[d][f] = IF f = at[p] THEN mine[p] ELSE files[d][f]
        /\ \A e \in Dirs \ {d} : files'[e] = files[e]
    BY <1>12, <2>1 DEF WriteFile
  <2>3. ASSUME NEW q \in Procs, q # p, pc'[q] \in OnDisk \union {"write"}
        PROVE  /\ pc'[q] = pc[q] /\ at'[q] = at[q]
               /\ files'[DirOf[rec[q]]] = files[DirOf[rec[q]]]
    <3>1. pc'[q] = pc[q] /\ at'[q] = at[q]
      BY <1>12, <2>3 DEF WriteFile
    <3>2. DirOf[rec[q]] # d
      BY <2>1, <2>3, <3>1, OtherDirectory DEF OnDisk
    <3>3. DirOf[rec[q]] \in Dirs
      BY <2>3, <3>1, ConstantsAssumption
      DEF OnDisk, LocalsOK, HasRecord, ConstantsAssumption
    <3>4. QED
      BY <2>2, <3>1, <3>2, <3>3
  <2>4. CASE at[p] = LastFile
    <3>1. pc'[p] = "persist" /\ at'[p] = 1
      BY <1>12, <2>4 DEF WriteFile
    <3>2. \A f \in PemFiles : f = at[p] \/ f < at[p]
      BY <2>4 DEF PemFiles, LastFile
    <3>3. \A f \in PemFiles : files'[d][f] = mine[p]
      BY <2>1, <2>2, <3>2 DEF DiskOK
    <3>4. QED
      BY <2>1, <2>3, <3>1, <3>3 DEF DiskOK, OnDisk, AtFirst
  <2>5. CASE at[p] # LastFile
    <3>1. pc'[p] = "write" /\ at'[p] = at[p] + 1
      BY <1>12, <2>5 DEF WriteFile
    <3>2. \A f \in PemFiles : f < at[p] + 1 => f = at[p] \/ f < at[p]
      BY <2>1 DEF PemFiles
    <3>3. \A f \in PemFiles : f < at'[p] => files'[d][f] = mine[p]
      BY <2>1, <2>2, <3>1, <3>2 DEF DiskOK
    <3>4. QED
      BY <2>1, <2>3, <3>1, <3>3 DEF DiskOK, OnDisk, AtFirst
  <2>6. QED
    BY <2>4, <2>5
<1>13. ASSUME NEW p \in Procs, WriteFail(p) PROVE DiskOK'
  BY <1>13, DiskQuietStep DEF DiskQuiet, OnDisk, WriteFail, Fault
<1>14. ASSUME NEW p \in Procs, Persist(p) PROVE DiskOK'
  BY <1>14 DEF Persist, DiskOK, OnDisk, AtFirst
<1>15. ASSUME NEW p \in Procs, PersistFail(p) PROVE DiskOK'
  BY <1>15, DiskQuietStep DEF DiskQuiet, OnDisk, PersistFail, Fault
<1>16. ASSUME NEW p \in Procs, MarkFailed(p) PROVE DiskOK'
  BY <1>16, DiskQuietStep DEF DiskQuiet, OnDisk, MarkFailed, Fault
<1>17. ASSUME NEW p \in Procs, CloseFailed(p) PROVE DiskOK'
  BY <1>17, DiskQuietStep DEF DiskQuiet, OnDisk, CloseFailed, CloseJob
<1>18. ASSUME NEW p \in Procs, CloseOk(p) PROVE DiskOK'
  BY <1>18 DEF CloseOk, CloseJob, DiskOK, OnDisk, AtFirst
<1>19. ASSUME NEW p \in Procs, FireTasks(p) PROVE DiskOK'
  <2>1. \A f \in PemFiles : ~(f < 1)
    BY DEF PemFiles
  <2>2. QED
    BY <1>19, <2>1 DEF FireTasks, DiskOK, OnDisk, AtFirst
<1>20. ASSUME NEW p \in Procs, ReadFile(p) PROVE DiskOK'
  <2>1. /\ pc[p] = "read" /\ at[p] \in PemFiles /\ UNCHANGED <<files, rec, mine>>
        /\ \A q \in Procs \ {p} : pc'[q] = pc[q] /\ at'[q] = at[q] /\ seen'[q] = seen[q]
    BY <1>20 DEF ReadFile
  <2>2. \A f \in PemFiles : seen'[p][f] = IF f = at[p] THEN files[DirOf[rec[p]]][f] ELSE seen[p][f]
    BY <1>20, <2>1 DEF ReadFile
  <2>3. \A f \in PemFiles : files[DirOf[rec[p]]][f] = mine[p]
    BY <2>1 DEF DiskOK, OnDisk
  <2>4. CASE at[p] = LastFile
    <3>1. pc'[p] = "deliver"
      BY <1>20, <2>4 DEF ReadFile
    <3>2. \A f \in PemFiles : f = at[p] \/ f < at[p]
      BY <2>4 DEF PemFiles, LastFile
    <3>3. \A f \in PemFiles : seen'[p][f] = mine[p]
      BY <2>1, <2>2, <2>3, <3>2 DEF DiskOK
    <3>4. QED
      BY <2>1, <2>3, <3>1, <3>3 DEF DiskOK, OnDisk, AtFirst
  <2>5. CASE at[p] # LastFile
    <3>1. pc'[p] = "read" /\ at'[p] = at[p] + 1
      BY <1>20, <2>5 DEF ReadFile
    <3>2. \A f \in PemFiles : f < at[p] + 1 => f = at[p] \/ f < at[p]
      BY <2>1 DEF PemFiles
    <3>3. \A f \in PemFiles : f < at'[p] => seen'[p][f] = mine[p]
      BY <2>1, <2>2, <2>3, <3>1, <3>2 DEF DiskOK
    <3>4. QED
      BY <2>1, <2>3, <3>1, <3>3 DEF DiskOK, OnDisk, AtFirst
  <2>6. QED
    BY <2>4, <2>5
<1>21. ASSUME NEW p \in Procs, FireFail(p) PROVE DiskOK'
  BY <1>21, DiskQuietStep DEF DiskQuiet, OnDisk, FireFail, Fault
<1>22. ASSUME NEW p \in Procs, Deliver(p) PROVE DiskOK'
  BY <1>22, DiskQuietStep DEF DiskQuiet, OnDisk, Deliver
<1>23. ASSUME NEW r \in Records, DeleteRecord(r) PROVE DiskOK'
  BY <1>23, DiskQuietStep DEF DiskQuiet, OnDisk, DeleteRecord
<1>24. ASSUME NEW r \in Records, ChangePurpose(r) PROVE DiskOK'
  BY <1>24, DiskQuietStep DEF DiskQuiet, OnDisk, ChangePurpose
<1>25. ASSUME NEW r \in Records, EnterWindow(r) PROVE DiskOK'
  BY <1>25, DiskQuietStep DEF DiskQuiet, OnDisk, EnterWindow
<1>26. ASSUME ToggleACME PROVE DiskOK'
  BY <1>26, DiskQuietStep DEF DiskQuiet, OnDisk, ToggleACME
<1>27. ASSUME Crash PROVE DiskOK'
  BY <1>27, DiskQuietStep DEF DiskQuiet, OnDisk, Crash
<1>28. ASSUME UNCHANGED vars PROVE DiskOK'
  BY <1>28, DiskQuietStep DEF DiskQuiet, OnDisk, vars
<1>29. QED
  BY <1>1, <1>2, <1>3, <1>4, <1>5, <1>6, <1>7, <1>8, <1>9, <1>10, <1>11, <1>12, <1>13,
     <1>14,
       <1>15, <1>16, <1>17, <1>18, <1>19, <1>20, <1>21, <1>22, <1>23, <1>24, <1>25, <1>26,
       <1>27, <1>28
     DEF Next, Renew, Issue, Environment

---------------------------------------------------------------------------
(* Outside the steps at which it is replaced, a valid certificate is the one on disk. *)

ServedAt(r) ==
  cert[r].status = "valid" =>
    \/ \A f \in PemFiles : files[DirOf[r]][f] = cert[r].serial
    \/ \E p \in Procs : rec[p] = r /\ pc[p] \in Installing

ServedOK == \A r \in Records \ torn : ServedAt(r)

\* A step that writes no file, makes no row valid and ends no installation.
ServedQuiet ==
  /\ files' = files /\ torn \subseteq torn'
  /\ \A r \in Records : cert'[r].status = "valid" =>
        cert[r].status = "valid" /\ cert'[r].serial = cert[r].serial
  /\ \A q \in Procs : pc[q] \in Installing => pc'[q] \in Installing /\ rec'[q] = rec[q]

LEMMA ServedQuietStep == ServedOK /\ ServedQuiet => ServedOK'
BY DEF ServedOK, ServedAt, ServedQuiet

\* setCertificateFailed: the row of the record is not valid afterwards, or it is marked torn.
LEMMA MarkFailedEffect ==
  ASSUME TypeOK, NEW p \in Procs, rec[p] \in Records, MarkFailed(p)
  PROVE  /\ \A r \in Records \ {rec[p]} : cert'[r] = cert[r]
         /\ \/ cert' = cert /\ torn' = torn \union {rec[p]}
            \/ /\ torn' = torn
               /\ cert'[rec[p]].status = "failed" \/ cert'[rec[p]].status = "none"
               /\ cert'[rec[p]].status = "none" => cert[rec[p]].status = "none"
<1> DEFINE old == cert[rec[p]]
           row == [old EXCEPT !.status = IF @ = "none" THEN @ ELSE "failed"]
<1>1. old \in CertRow
  BY DEF TypeOK
<1>2. row.status = IF old.status = "none" THEN "none" ELSE "failed"
  BY <1>1 DEF CertRow
<1>3. \/ cert' = [cert EXCEPT ![rec[p]] = row] /\ torn' = torn
      \/ cert' = cert /\ torn' = torn \union {rec[p]}
  BY DEF MarkFailed
<1> HIDE DEF row
<1>4. \A r \in Records \ {rec[p]} : cert'[r] = cert[r]
  BY <1>3 DEF TypeOK
<1>5. CASE cert' = [cert EXCEPT ![rec[p]] = row] /\ torn' = torn
  <2>1. cert'[rec[p]] = row
    BY <1>5 DEF TypeOK
  <2>2. QED
    BY <1>2, <1>4, <1>5, <2>1
<1>6. QED
  BY <1>3, <1>4, <1>5

\* Time changes when a certificate is due, nothing else of its row.
LEMMA EnterWindowEffect ==
  ASSUME TypeOK, NEW r \in Records, EnterWindow(r)
  PROVE  \A s \in Records : cert'[s].status = cert[s].status /\ cert'[s].serial = cert[s].serial
<1> DEFINE row == [cert[r] EXCEPT !.due = TRUE]
<1>1. cert[r] \in CertRow
  BY DEF TypeOK
<1>2. row.status = cert[r].status /\ row.serial = cert[r].serial
  BY <1>1 DEF CertRow
<1>3. cert' = [cert EXCEPT ![r] = row]
  BY DEF EnterWindow
<1> HIDE DEF row
<1>4. QED
  BY <1>2, <1>3 DEF TypeOK

LEMMA ServedStep == ASSUME OwnDirs PROVE SlotInv /\ DiskOK /\ ServedOK /\ [Next]_vars => ServedOK'
<1> SUFFICES ASSUME SlotInv, DiskOK, ServedOK, [Next]_vars PROVE ServedOK'
  OBVIOUS
<1> TypeOK /\ LocalsOK
  BY DEF SlotInv
<1> USE DEF TypeOK, Critical, Outside, tables, locals, ghosts, Goto, After
<1>1. ASSUME NEW p \in Procs, NEW r \in Records, StartIssuance(p, r) PROVE ServedOK'
  BY <1>1, ServedQuietStep DEF ServedQuiet, Installing, StartIssuance
<1>2. ASSUME NEW p \in Procs, NEW r \in Records, RenewPick(p, r) PROVE ServedOK'
  BY <1>2, ServedQuietStep DEF ServedQuiet, Installing, RenewPick, Fault
<1>3. ASSUME NEW p \in Procs, RenewCertificates(p) PROVE ServedOK'
  BY <1>3, ServedQuietStep DEF ServedQuiet, Installing, RenewCertificates
<1>4. ASSUME NEW p \in Procs, RenewEnd(p) PROVE ServedOK'
  BY <1>4, ServedQuietStep DEF ServedQuiet, Installing, RenewEnd
<1>5. ASSUME NEW p \in Procs, Reserve(p) PROVE ServedOK'
  BY <1>5, ServedQuietStep DEF ServedQuiet, Installing, Reserve
<1>6. ASSUME NEW p \in Procs, Release(p) PROVE ServedOK'
  BY <1>6, ServedQuietStep DEF ServedQuiet, Installing, Release
<1>7. ASSUME NEW p \in Procs, Prepare(p) PROVE ServedOK'
  <2>1. UNCHANGED <<files, rec, torn>> /\ (cert' = cert \/ cert' = [cert EXCEPT ![rec[p]] = PendingRow])
    BY <1>7 DEF Prepare, EnsureRow
  <2>2. \A r \in Records : cert'[r] = cert[r] \/ cert'[r].status = "pending"
    BY <2>1 DEF PendingRow
  <2>3. QED
    BY <1>7, <2>1, <2>2, ServedQuietStep DEF ServedQuiet, Installing, Prepare, EnsureRow
<1>8. ASSUME NEW p \in Procs, Ensure(p) PROVE ServedOK'
  <2>1. UNCHANGED <<files, rec, torn>> /\ (cert' = cert \/ cert' = [cert EXCEPT ![rec[p]] = PendingRow])
    BY <1>8 DEF Ensure, EnsureRow
  <2>2. \A r \in Records : cert'[r] = cert[r] \/ cert'[r].status = "pending"
    BY <2>1 DEF PendingRow
  <2>3. QED
    BY <1>8, <2>1, <2>2, ServedQuietStep DEF ServedQuiet, Installing, Ensure, EnsureRow
<1>9. ASSUME NEW p \in Procs, CreateJob(p) PROVE ServedOK'
  BY <1>9, ServedQuietStep DEF ServedQuiet, Installing, CreateJob, Fault
<1>10. ASSUME NEW p \in Procs, ObtainOk(p) PROVE ServedOK'
  BY <1>10, ServedQuietStep DEF ServedQuiet, Installing, ObtainOk
<1>11. ASSUME NEW p \in Procs, ObtainFail(p) PROVE ServedOK'
  BY <1>11, ServedQuietStep DEF ServedQuiet, Installing, ObtainFail
<1>12. ASSUME NEW p \in Procs, WriteFile(p) PROVE ServedOK'
  <2> DEFINE d == DirOf[rec[p]]
  <2>1. /\ pc[p] = "write" /\ rec[p] \in Records /\ d \in Dirs
        /\ UNCHANGED <<cert, torn, rec>>
        /\ \A q \in Procs : pc[q] \in Installing => pc'[q] \in Installing
        /\ \A e \in Dirs \ {d} : files'[e] = files[e]
    BY <1>12, ConstantsAssumption
    DEF WriteFile, LocalsOK, HasRecord, Installing, ConstantsAssumption
  <2>2. \A r \in Records \ {rec[p]} : files'[DirOf[r]] = files[DirOf[r]]
    BY <2>1, ConstantsAssumption DEF OwnDirs, ConstantsAssumption
  <2>3. pc[p] \in Installing /\ pc'[p] \in Installing
    BY <1>12, <2>1 DEF WriteFile, Installing
  <2>4. ASSUME NEW r \in Records \ torn', cert'[r].status = "valid" PROVE ServedAt(r)'
    <3>1. CASE r = rec[p]
      BY <2>1, <2>3, <3>1 DEF ServedAt
    <3>2. CASE r # rec[p]
      <4>1. ServedAt(r)
        BY <2>1, <2>4 DEF ServedOK
      <4>2. QED
        BY <2>1, <2>2, <2>4, <3>2, <4>1 DEF ServedAt
    <3>3. QED
      BY <3>1, <3>2
  <2>5. QED
    BY <2>4 DEF ServedOK, ServedAt
<1>13. ASSUME NEW p \in Procs, WriteFail(p) PROVE ServedOK'
  BY <1>13, ServedQuietStep DEF ServedQuiet, Installing, WriteFail, Fault
<1>14. ASSUME NEW p \in Procs, Persist(p) PROVE ServedOK'
  <2>1. /\ pc[p] = "persist" /\ rec[p] \in Records /\ UNCHANGED <<files, rec, mine>>
        /\ \A q \in Procs \ {p} : pc'[q] = pc[q]
        /\ torn' = torn \ {rec[p]}
        /\ \A r \in Records \ {rec[p]} : cert'[r] = cert[r]
    BY <1>14 DEF Persist, LocalsOK, HasRecord
  <2>2. cert'[rec[p]].status = "valid" => cert'[rec[p]].serial = mine[p] \/ cert[rec[p]].status = "none"
    BY <1>14, <2>1 DEF Persist
  <2>3. cert'[rec[p]].status = "valid" => cert'[rec[p]].serial = mine[p]
    BY <1>14, <2>1, <2>2 DEF Persist
  <2>4. \A f \in PemFiles : files[DirOf[rec[p]]][f] = mine[p]
    BY <2>1 DEF DiskOK, OnDisk
  <2>5. ASSUME NEW r \in Records \ torn', cert'[r].status = "valid" PROVE ServedAt(r)'
    <3>1. CASE r = rec[p]
      BY <2>1, <2>3, <2>4, <2>5, <3>1 DEF ServedAt
    <3>2. CASE r # rec[p]
      <4>1. ServedAt(r) /\ cert'[r] = cert[r]
        BY <2>1, <2>5, <3>2 DEF ServedOK
      <4>2. QED
        BY <2>1, <2>5, <3>2, <4>1 DEF ServedAt
    <3>3. QED
      BY <3>1, <3>2
  <2>6. QED
    BY <2>5 DEF ServedOK, ServedAt
<1>15. ASSUME NEW p \in Procs, PersistFail(p) PROVE ServedOK'
  BY <1>15, ServedQuietStep DEF ServedQuiet, Installing, PersistFail, Fault
<1>16. ASSUME NEW p \in Procs, MarkFailed(p) PROVE ServedOK'
  <2>1. /\ pc[p] = "markFailed" /\ rec[p] \in Records /\ UNCHANGED <<files, rec>>
        /\ \A q \in Procs \ {p} : pc'[q] = pc[q]
    BY <1>16 DEF MarkFailed, LocalsOK, HasRecord
  <2>2. /\ \A r \in Records \ {rec[p]} : cert'[r] = cert[r]
        /\ torn \subseteq torn'
        /\ cert'[rec[p]].status # "valid" \/ rec[p] \in torn'
    BY <1>16, <2>1, MarkFailedEffect
  <2>3. ASSUME NEW r \in Records \ torn', cert'[r].status = "valid" PROVE ServedAt(r)'
    <3>1. r # rec[p] /\ r \notin torn /\ cert'[r] = cert[r]
      BY <2>2, <2>3
    <3>2. ServedAt(r)
      BY <2>3, <3>1 DEF ServedOK
    <3>3. QED
      BY <2>1, <2>3, <3>1, <3>2 DEF ServedAt
  <2>4. QED
    BY <2>3 DEF ServedOK, ServedAt
<1>17. ASSUME NEW p \in Procs, CloseFailed(p) PROVE ServedOK'
  BY <1>17, ServedQuietStep DEF ServedQuiet, Installing, CloseFailed, CloseJob
<1>18. ASSUME NEW p \in Procs, CloseOk(p) PROVE ServedOK'
  BY <1>18, ServedQuietStep DEF ServedQuiet, Installing, CloseOk, CloseJob
<1>19. ASSUME NEW p \in Procs, FireTasks(p) PROVE ServedOK'
  BY <1>19, ServedQuietStep DEF ServedQuiet, Installing, FireTasks
<1>20. ASSUME NEW p \in Procs, ReadFile(p) PROVE ServedOK'
  BY <1>20, ServedQuietStep DEF ServedQuiet, Installing, ReadFile
<1>21. ASSUME NEW p \in Procs, FireFail(p) PROVE ServedOK'
  BY <1>21, ServedQuietStep DEF ServedQuiet, Installing, FireFail, Fault
<1>22. ASSUME NEW p \in Procs, Deliver(p) PROVE ServedOK'
  BY <1>22, ServedQuietStep DEF ServedQuiet, Installing, Deliver
<1>23. ASSUME NEW r \in Records, DeleteRecord(r) PROVE ServedOK'
  <2>1. UNCHANGED <<files, torn, pc, rec>> /\ cert' = [cert EXCEPT ![r] = NoRow]
    BY <1>23 DEF DeleteRecord
  <2>2. QED
    BY <2>1, ServedQuietStep DEF ServedQuiet, NoRow
<1>24. ASSUME NEW r \in Records, ChangePurpose(r) PROVE ServedOK'
  BY <1>24, ServedQuietStep DEF ServedQuiet, Installing, ChangePurpose
<1>25. ASSUME NEW r \in Records, EnterWindow(r) PROVE ServedOK'
  <2>1. UNCHANGED <<files, torn, pc, rec>>
    BY <1>25 DEF EnterWindow
  <2>2. QED
    BY <1>25, <2>1, EnterWindowEffect, ServedQuietStep DEF ServedQuiet
<1>26. ASSUME ToggleACME PROVE ServedOK'
  BY <1>26, ServedQuietStep DEF ServedQuiet, Installing, ToggleACME
<1>27. ASSUME Crash PROVE ServedOK'
  <2>1. /\ UNCHANGED <<files, cert>> /\ torn \subseteq torn'
        /\ \A q \in Procs : pc[q] \in Installing => rec[q] \in torn'
    BY <1>27 DEF Crash, Holders, Installing
  <2>2. QED
    BY <2>1 DEF ServedOK, ServedAt
<1>28. ASSUME UNCHANGED vars PROVE ServedOK'
  BY <1>28, ServedQuietStep DEF ServedQuiet, Installing, vars
<1>29. QED
  BY <1>1, <1>2, <1>3, <1>4, <1>5, <1>6, <1>7, <1>8, <1>9, <1>10, <1>11, <1>12, <1>13,
     <1>14,
       <1>15, <1>16, <1>17, <1>18, <1>19, <1>20, <1>21, <1>22, <1>23, <1>24, <1>25, <1>26,
       <1>27, <1>28
     DEF Next, Renew, Issue, Environment

MaterialInv == SlotInv /\ DiskOK /\ ServedOK

LEMMA MaterialInvariant == ASSUME OwnDirs PROVE Spec => []MaterialInv
<1>1. Init => DiskOK /\ ServedOK
  BY DEF Init, DiskOK, ServedOK, ServedAt, OnDisk, AtFirst, NoRow
<1>2. SlotInv /\ DiskOK /\ ServedOK /\ [Next]_vars => (DiskOK /\ ServedOK)'
  BY DiskStep, ServedStep
<1>3. QED
  BY <1>1, <1>2, SlotInvariant, PTL DEF Spec, MaterialInv

\* Whatever fails on the way, a certificate reported valid outside an issuance has the four
\* files of one issuance on disk, if no other record has the same directory
\* (writeCertificateFiles).
THEOREM ServedMaterial == ASSUME OwnDirs PROVE Spec => []ServedMaterialConsistent
<1>1. MaterialInv => ServedMaterialConsistent
  <2> SUFFICES ASSUME MaterialInv, NEW r \in live \ (pending \union torn), cert[r].status = "valid"
               PROVE  \A f \in PemFiles : files[DirOf[r]][f] = cert[r].serial
    BY DEF ServedMaterialConsistent
  <2>1. r \in Records /\ ServedAt(r)
    BY DEF MaterialInv, SlotInv, TypeOK, ServedOK
  <2>2. \A p \in Procs : pc[p] \in Installing => rec[p] # r
    BY DEF MaterialInv, SlotInv, SlotsExact, Holders, Installing, Critical
  <2>3. QED
    BY <2>1, <2>2 DEF ServedAt
<1>2. QED
  BY <1>1, MaterialInvariant, PTL

\* The certificate trigger sends the four files of the issuance that fired it
\* (loadCertificateMaterial), if no other record has the same directory.
THEOREM OwnMaterialDelivered == ASSUME OwnDirs PROVE Spec => []DeliversOwnMaterial
<1>1. MaterialInv => DeliversOwnMaterial
  BY DEF MaterialInv, DiskOK, DeliversOwnMaterial
<1>2. QED
  BY <1>1, MaterialInvariant, PTL

---------------------------------------------------------------------------
(* A goroutine whose job is still running has the row of its record, and once the        *)
(* certificate is persisted, that row is the one its job reports.                         *)

InstallAt(p) ==
  /\ pc[p] = "createJob" /\ rec[p] \in live => cert[rec[p]].status # "none"
  /\ pc[p] \in HasJob /\ job[mine[p]].status = "running" =>
       /\ cert[rec[p]].status # "none"
       /\ pc[p] = "closeOk" => cert[rec[p]].status = "valid" /\ cert[rec[p]].serial = mine[p]

InstallOK == \A p \in Procs : InstallAt(p)

\* A step that changes no row, reopens no job, and takes no goroutine past one of the steps
\* ensure, createJob and persist.
InstallQuiet ==
  /\ live' \subseteq live
  /\ \A r \in Records : cert'[r].status = cert[r].status /\ cert'[r].serial = cert[r].serial
  /\ \A j \in Jobs : job'[j].status = "running" => job[j].status = "running"
  /\ \A q \in Procs : pc'[q] \in HasJob \union {"createJob"} =>
        /\ rec'[q] = rec[q] /\ mine'[q] = mine[q]
        /\ \/ pc'[q] = pc[q]
           \/ pc[q] \in HasJob /\ pc'[q] \in HasJob \ {"closeOk"}

LEMMA InstallQuietStep == SlotInv /\ InstallOK /\ InstallQuiet => InstallOK'
<1> SUFFICES ASSUME SlotInv, InstallOK, InstallQuiet, NEW q \in Procs,
                    pc'[q] \in HasJob \union {"createJob"}
             PROVE  InstallAt(q)'
  BY DEF InstallOK, InstallAt
<1>1. /\ pc[q] \in HasJob \union {"createJob"} /\ rec'[q] = rec[q] /\ mine'[q] = mine[q]
      /\ pc'[q] \in {"createJob", "closeOk"} => pc[q] = pc'[q]
      /\ pc[q] \in HasJob => pc'[q] \in HasJob
  BY DEF InstallQuiet, HasJob
<1>2. rec[q] \in Records /\ (pc[q] \in HasJob => mine[q] \in Jobs)
  BY <1>1 DEF SlotInv, LocalsOK, HasRecord, HasJob, Critical
<1>3. InstallAt(q)
  BY DEF InstallOK
<1>4. QED
  BY <1>1, <1>2, <1>3 DEF InstallAt, InstallQuiet, HasJob

LEMMA InstallStep == JobInv /\ InstallOK /\ [Next]_vars => InstallOK'
<1> SUFFICES ASSUME JobInv, InstallOK, [Next]_vars PROVE InstallOK'
  OBVIOUS
<1> SlotInv /\ TypeOK /\ LocalsOK /\ OneIssuancePerRecord /\ JobsOK
  BY DEF JobInv, SlotInv
<1> USE DEF TypeOK, Critical, Outside, tables, locals, ghosts, Goto, After
<1>1. ASSUME NEW p \in Procs, NEW r \in Records, StartIssuance(p, r) PROVE InstallOK'
  BY <1>1, InstallQuietStep DEF InstallQuiet, HasJob, StartIssuance
<1>2. ASSUME NEW p \in Procs, NEW r \in Records, RenewPick(p, r) PROVE InstallOK'
  BY <1>2, InstallQuietStep DEF InstallQuiet, HasJob, RenewPick, Fault
<1>3. ASSUME NEW p \in Procs, RenewCertificates(p) PROVE InstallOK'
  BY <1>3, InstallQuietStep DEF InstallQuiet, HasJob, RenewCertificates
<1>4. ASSUME NEW p \in Procs, RenewEnd(p) PROVE InstallOK'
  BY <1>4, InstallQuietStep DEF InstallQuiet, HasJob, RenewEnd
<1>5. ASSUME NEW p \in Procs, Reserve(p) PROVE InstallOK'
  BY <1>5, InstallQuietStep DEF InstallQuiet, HasJob, Reserve
<1>6. ASSUME NEW p \in Procs, Release(p) PROVE InstallOK'
  BY <1>6, InstallQuietStep DEF InstallQuiet, HasJob, Release
<1>7. ASSUME NEW p \in Procs, Prepare(p) PROVE InstallOK'
  <2>1. /\ UNCHANGED <<live, rec, mine, job>>
        /\ \A r \in Records : cert[r].status # "none" => cert'[r] = cert[r]
        /\ \A q \in Procs : pc'[q] \in HasJob \union {"createJob"} => pc'[q] = pc[q]
    BY <1>7 DEF Prepare, EnsureRow, HasJob
  <2>2. \A q \in Procs : pc'[q] \in HasJob \union {"createJob"} => rec[q] \in Records
    BY <2>1 DEF LocalsOK, HasRecord, HasJob
  <2>3. QED
    BY <2>1, <2>2 DEF InstallOK, InstallAt, HasJob
<1>8. ASSUME NEW p \in Procs, Ensure(p) PROVE InstallOK'
  <2>1. /\ UNCHANGED <<live, rec, mine, job>> /\ pc[p] = "ensure" /\ rec[p] \in Records
        /\ \A r \in Records : cert[r].status # "none" => cert'[r] = cert[r]
        /\ \A q \in Procs : pc'[q] \in HasJob \union {"createJob"} => pc'[q] = pc[q] \/ q = p
        /\ pc'[p] = "createJob" \/ pc'[p] = "release"
    BY <1>8 DEF Ensure, EnsureRow, HasJob, LocalsOK, HasRecord
  <2>2. \A q \in Procs : pc'[q] \in HasJob \union {"createJob"} => rec[q] \in Records
    BY <2>1 DEF LocalsOK, HasRecord, HasJob
  <2>3. pc'[p] = "createJob" => cert'[rec[p]].status # "none"
    BY <1>8, <2>1 DEF Ensure, EnsureRow, PendingRow
  <2>4. InstallAt(p)'
    BY <2>1, <2>3 DEF InstallAt, HasJob
  <2>5. ASSUME NEW q \in Procs, q # p PROVE InstallAt(q)'
    BY <2>1, <2>2, <2>5 DEF InstallOK, InstallAt, HasJob
  <2>6. QED
    BY <2>4, <2>5 DEF InstallOK
<1>9. ASSUME NEW p \in Procs, CreateJob(p) PROVE InstallOK'
  <2>1. CASE pc'[p] = "release"
    BY <1>9, <2>1, InstallQuietStep DEF InstallQuiet, HasJob, CreateJob, Fault
  <2>2. CASE pc'[p] # "release"
    <3>1. PICK j \in JobsIn("unused") :
            /\ rec[p] \in live /\ pc[p] = "createJob"
            /\ pc' = [pc EXCEPT ![p] = "obtain"]
            /\ job' = [job EXCEPT ![j] = [status |-> "running", rec |-> rec[p]]]
            /\ mine' = [mine EXCEPT ![p] = j]
            /\ UNCHANGED <<live, cert, rec>>
      BY <1>9, <2>2 DEF CreateJob
    <3>2. cert[rec[p]].status # "none"
      BY <3>1 DEF InstallOK, InstallAt
    <3>3. InstallAt(p)'
      BY <3>1, <3>2 DEF InstallAt
    <3>4. ASSUME NEW q \in Procs, q # p PROVE InstallAt(q)'
      <4>1. pc'[q] = pc[q] /\ mine'[q] = mine[q] /\ InstallAt(q)
        BY <3>1, <3>4 DEF InstallOK
      <4>2. pc[q] \in HasJob => mine[q] \in Jobs /\ mine[q] # j
        <5>1. pc[q] \in HasJob => mine[q] \in Jobs
          BY DEF LocalsOK
        <5>2. mine[q] \in Jobs => job[mine[q]].status # "unused"
          BY ConstantsAssumption DEF JobsOK, ConstantsAssumption
        <5>3. job[j].status = "unused"
          BY DEF JobsIn
        <5>4. QED
          BY <5>1, <5>2, <5>3
      <4>3. pc[q] \in HasJob => job'[mine[q]] = job[mine[q]]
        BY <3>1, <4>2
      <4>4. QED
        BY <3>1, <4>1, <4>3 DEF InstallAt
    <3>5. QED
      BY <3>3, <3>4 DEF InstallOK
  <2>3. QED
    BY <2>1, <2>2
<1>10. ASSUME NEW p \in Procs, ObtainOk(p) PROVE InstallOK'
  BY <1>10, InstallQuietStep DEF InstallQuiet, HasJob, ObtainOk
<1>11. ASSUME NEW p \in Procs, ObtainFail(p) PROVE InstallOK'
  BY <1>11, InstallQuietStep DEF InstallQuiet, HasJob, ObtainFail
<1>12. ASSUME NEW p \in Procs, WriteFile(p) PROVE InstallOK'
  BY <1>12, InstallQuietStep DEF InstallQuiet, HasJob, WriteFile
<1>13. ASSUME NEW p \in Procs, WriteFail(p) PROVE InstallOK'
  BY <1>13, InstallQuietStep DEF InstallQuiet, HasJob, WriteFail, Fault
<1>14. ASSUME NEW p \in Procs, Persist(p) PROVE InstallOK'
  <2>1. /\ pc[p] = "persist" /\ rec[p] \in Records /\ mine[p] \in Jobs
        /\ UNCHANGED <<live, rec, mine, job>>
        /\ pc' = [pc EXCEPT ![p] = "closeOk"]
        /\ \A r \in Records \ {rec[p]} : cert'[r] = cert[r]
        /\ cert'[rec[p]] = IF cert[rec[p]].status = "none" THEN cert[rec[p]]
                           ELSE [status |-> "valid", serial |-> mine[p], due |-> FALSE]
    BY <1>14 DEF Persist, LocalsOK, HasRecord, HasJob
  <2>2. InstallAt(p)'
    <3>1. job[mine[p]].status = "running" => cert[rec[p]].status # "none"
      BY <2>1 DEF InstallOK, InstallAt, HasJob
    <3>2. QED
      BY <2>1, <3>1 DEF InstallAt
  <2>3. ASSUME NEW q \in Procs, q # p PROVE InstallAt(q)'
    <3>1. pc[q] \in Critical => rec[q] \in Records /\ rec[q] # rec[p]
      BY <2>1, <2>3 DEF OneIssuancePerRecord, Holders, LocalsOK, HasRecord
    <3>2. pc[q] \in Critical => cert'[rec[q]] = cert[rec[q]]
      BY <2>1, <3>1
    <3>3. InstallAt(q)
      BY DEF InstallOK
    <3>4. QED
      BY <2>1, <2>3, <3>2, <3>3 DEF InstallAt, HasJob
  <2>4. QED
    BY <2>2, <2>3 DEF InstallOK
<1>15. ASSUME NEW p \in Procs, PersistFail(p) PROVE InstallOK'
  BY <1>15, InstallQuietStep DEF InstallQuiet, HasJob, PersistFail, Fault
<1>16. ASSUME NEW p \in Procs, MarkFailed(p) PROVE InstallOK'
  <2>1. /\ pc[p] = "markFailed" /\ rec[p] \in Records
        /\ UNCHANGED <<live, rec, mine, job>>
        /\ pc' = [pc EXCEPT ![p] = "closeFailed"]
    BY <1>16 DEF MarkFailed, LocalsOK, HasRecord
  <2>2. /\ \A r \in Records \ {rec[p]} : cert'[r] = cert[r]
        /\ cert'[rec[p]].status = "none" => cert[rec[p]].status = "none"
    BY <1>16, <2>1, MarkFailedEffect
  <2>3. InstallAt(p)'
    BY <2>1, <2>2 DEF InstallOK, InstallAt, HasJob
  <2>4. ASSUME NEW q \in Procs, q # p PROVE InstallAt(q)'
    <3>1. pc[q] \in Critical => rec[q] \in Records /\ rec[q] # rec[p]
      BY <2>1, <2>4 DEF OneIssuancePerRecord, Holders, LocalsOK, HasRecord
    <3>2. pc[q] \in Critical => cert'[rec[q]] = cert[rec[q]]
      BY <2>2, <3>1
    <3>3. InstallAt(q)
      BY DEF InstallOK
    <3>4. QED
      BY <2>1, <2>4, <3>2, <3>3 DEF InstallAt, HasJob
  <2>5. QED
    BY <2>3, <2>4 DEF InstallOK
<1>17. ASSUME NEW p \in Procs, CloseFailed(p) PROVE InstallOK'
  <2>1. mine[p] \in Jobs
    BY <1>17 DEF CloseFailed, CloseJob, LocalsOK, HasJob
  <2>2. \A k \in Jobs : job'[k].status = "running" => job[k].status = "running"
    BY <1>17, <2>1, CloseJobEffect DEF CloseFailed
  <2>3. QED
    BY <1>17, <2>2, InstallQuietStep DEF InstallQuiet, HasJob, CloseFailed, CloseJob
<1>18. ASSUME NEW p \in Procs, CloseOk(p) PROVE InstallOK'
  <2>1. mine[p] \in Jobs
    BY <1>18 DEF CloseOk, CloseJob, LocalsOK, HasJob
  <2>2. \A k \in Jobs : job'[k].status = "running" => job[k].status = "running"
    BY <1>18, <2>1, CloseJobEffect DEF CloseOk
  <2>3. QED
    BY <1>18, <2>2, InstallQuietStep DEF InstallQuiet, HasJob, CloseOk, CloseJob
<1>19. ASSUME NEW p \in Procs, FireTasks(p) PROVE InstallOK'
  BY <1>19, InstallQuietStep DEF InstallQuiet, HasJob, FireTasks
<1>20. ASSUME NEW p \in Procs, ReadFile(p) PROVE InstallOK'
  BY <1>20, InstallQuietStep DEF InstallQuiet, HasJob, ReadFile
<1>21. ASSUME NEW p \in Procs, FireFail(p) PROVE InstallOK'
  BY <1>21, InstallQuietStep DEF InstallQuiet, HasJob, FireFail, Fault
<1>22. ASSUME NEW p \in Procs, Deliver(p) PROVE InstallOK'
  BY <1>22, InstallQuietStep DEF InstallQuiet, HasJob, Deliver
<1>23. ASSUME NEW r \in Records, DeleteRecord(r) PROVE InstallOK'
  <2>1. /\ UNCHANGED <<pc, rec, mine>> /\ live' = live \ {r}
        /\ \A s \in Records \ {r} : cert'[s] = cert[s]
        /\ \A j \in Jobs : job'[j] = IF job[j].rec = r THEN [job[j] EXCEPT !.status = "deleted"]
                                     ELSE job[j]
    BY <1>23 DEF DeleteRecord
  <2>2. \A j \in Jobs : job'[j].status = "running" => job[j].rec # r /\ job'[j] = job[j]
    <3> TAKE j \in Jobs
    <3>1. job[j] \in JobRow
      OBVIOUS
    <3>2. [job[j] EXCEPT !.status = "deleted"].status = "deleted"
      BY <3>1 DEF JobRow
    <3>3. QED
      BY <2>1, <3>2
  <2>3. ASSUME NEW q \in Procs PROVE InstallAt(q)'
    <3>1. InstallAt(q)
      BY DEF InstallOK
    <3>2. CASE rec[q] # r
      <4>1. pc[q] \in HasJob => mine[q] \in Jobs
        BY DEF LocalsOK
      <4>2. pc[q] \in Critical => cert'[rec[q]] = cert[rec[q]]
        BY <2>1, <3>2 DEF LocalsOK, HasRecord
      <4>3. QED
        BY <2>1, <2>2, <3>1, <4>1, <4>2 DEF InstallAt, HasJob
    <3>3. CASE rec[q] = r
      <4>1. pc[q] \in HasJob => mine[q] \in Jobs /\ job[mine[q]].rec = r
        BY <3>3, ConstantsAssumption DEF LocalsOK, JobsOK, ConstantsAssumption
      <4>2. pc[q] \in HasJob => job'[mine[q]].status # "running"
        BY <2>2, <4>1
      <4>3. QED
        BY <2>1, <3>3, <4>2 DEF InstallAt
    <3>4. QED
      BY <3>2, <3>3
  <2>4. QED
    BY <2>3 DEF InstallOK
<1>24. ASSUME NEW r \in Records, ChangePurpose(r) PROVE InstallOK'
  BY <1>24, InstallQuietStep DEF InstallQuiet, HasJob, ChangePurpose
<1>25. ASSUME NEW r \in Records, EnterWindow(r) PROVE InstallOK'
  <2>1. UNCHANGED <<live, job, pc, rec, mine>>
    BY <1>25 DEF EnterWindow
  <2>2. QED
    BY <1>25, <2>1, EnterWindowEffect, InstallQuietStep DEF InstallQuiet
<1>26. ASSUME ToggleACME PROVE InstallOK'
  BY <1>26, InstallQuietStep DEF InstallQuiet, HasJob, ToggleACME
<1>27. ASSUME Crash PROVE InstallOK'
  BY <1>27, InstallQuietStep DEF InstallQuiet, HasJob, Crash
<1>28. ASSUME UNCHANGED vars PROVE InstallOK'
  BY <1>28, InstallQuietStep DEF InstallQuiet, HasJob, vars
<1>29. QED
  BY <1>1, <1>2, <1>3, <1>4, <1>5, <1>6, <1>7, <1>8, <1>9, <1>10, <1>11, <1>12, <1>13,
     <1>14,
       <1>15, <1>16, <1>17, <1>18, <1>19, <1>20, <1>21, <1>22, <1>23, <1>24, <1>25, <1>26,
       <1>27, <1>28
     DEF Next, Renew, Issue, Environment

LEMMA InstallInvariant == Spec => [](JobInv /\ InstallOK)
<1>1. Init => InstallOK
  BY DEF Init, InstallOK, InstallAt, HasJob
<1>2. JobInv /\ InstallOK /\ [Next]_vars => InstallOK'
  BY InstallStep
<1>3. QED
  BY <1>1, <1>2, JobInvariant, PTL DEF Spec

\* What SuccessMeansInstalled says of one step.
SuccessInstalled ==
  \A j \in Jobs :
    (job[j].status # "success" /\ job'[j].status = "success") =>
      /\ cert'[job[j].rec].status = "valid"
      /\ cert'[job[j].rec].serial = j

LEMMA SuccessStep == JobInv /\ InstallOK /\ [Next]_vars => SuccessInstalled
<1> SUFFICES ASSUME JobInv, InstallOK, [Next]_vars PROVE SuccessInstalled
  OBVIOUS
<1> TypeOK /\ LocalsOK /\ JobsOK
  BY DEF JobInv, SlotInv
<1> USE DEF TypeOK, Critical, Outside, tables, locals, ghosts, Goto, After
<1>1. ASSUME NEW p \in Procs, NEW r \in Records, StartIssuance(p, r) PROVE SuccessInstalled
  BY <1>1 DEF SuccessInstalled, StartIssuance
<1>2. ASSUME NEW p \in Procs, NEW r \in Records, RenewPick(p, r) PROVE SuccessInstalled
  BY <1>2 DEF SuccessInstalled, RenewPick, Fault
<1>3. ASSUME NEW p \in Procs, RenewCertificates(p) PROVE SuccessInstalled
  BY <1>3 DEF SuccessInstalled, RenewCertificates
<1>4. ASSUME NEW p \in Procs, RenewEnd(p) PROVE SuccessInstalled
  BY <1>4 DEF SuccessInstalled, RenewEnd
<1>5. ASSUME NEW p \in Procs, Reserve(p) PROVE SuccessInstalled
  BY <1>5 DEF SuccessInstalled, Reserve
<1>6. ASSUME NEW p \in Procs, Release(p) PROVE SuccessInstalled
  BY <1>6 DEF SuccessInstalled, Release
<1>7. ASSUME NEW p \in Procs, Prepare(p) PROVE SuccessInstalled
  BY <1>7 DEF SuccessInstalled, Prepare, EnsureRow
<1>8. ASSUME NEW p \in Procs, Ensure(p) PROVE SuccessInstalled
  BY <1>8 DEF SuccessInstalled, Ensure, EnsureRow
<1>9. ASSUME NEW p \in Procs, CreateJob(p) PROVE SuccessInstalled
  <2>1. \/ job' = job
        \/ \E j \in Jobs : job' = [job EXCEPT ![j] = [status |-> "running", rec |-> rec[p]]]
    BY <1>9 DEF CreateJob, JobsIn
  <2>2. QED
    BY <2>1 DEF SuccessInstalled
<1>10. ASSUME NEW p \in Procs, ObtainOk(p) PROVE SuccessInstalled
  BY <1>10 DEF SuccessInstalled, ObtainOk
<1>11. ASSUME NEW p \in Procs, ObtainFail(p) PROVE SuccessInstalled
  BY <1>11 DEF SuccessInstalled, ObtainFail
<1>12. ASSUME NEW p \in Procs, WriteFile(p) PROVE SuccessInstalled
  BY <1>12 DEF SuccessInstalled, WriteFile
<1>13. ASSUME NEW p \in Procs, WriteFail(p) PROVE SuccessInstalled
  BY <1>13 DEF SuccessInstalled, WriteFail, Fault
<1>14. ASSUME NEW p \in Procs, Persist(p) PROVE SuccessInstalled
  BY <1>14 DEF SuccessInstalled, Persist
<1>15. ASSUME NEW p \in Procs, PersistFail(p) PROVE SuccessInstalled
  BY <1>15 DEF SuccessInstalled, PersistFail, Fault
<1>16. ASSUME NEW p \in Procs, MarkFailed(p) PROVE SuccessInstalled
  BY <1>16 DEF SuccessInstalled, MarkFailed, Fault
<1>17. ASSUME NEW p \in Procs, CloseFailed(p) PROVE SuccessInstalled
  <2>1. mine[p] \in Jobs
    BY <1>17 DEF CloseFailed, CloseJob, LocalsOK, HasJob
  <2>2. QED
    BY <1>17, <2>1, CloseJobEffect DEF CloseFailed, SuccessInstalled
<1>18. ASSUME NEW p \in Procs, CloseOk(p) PROVE SuccessInstalled
  <2>1. /\ pc[p] = "closeOk" /\ mine[p] \in Jobs /\ rec[p] \in Records /\ cert' = cert
        /\ job[mine[p]].rec = rec[p]
    BY <1>18, ConstantsAssumption
    DEF CloseOk, CloseJob, LocalsOK, HasJob, HasRecord, JobsOK, ConstantsAssumption
  <2>2. \A k \in Jobs : job'[k].status = job[k].status \/ k = mine[p]
    BY <1>18, <2>1, CloseJobEffect DEF CloseOk
  <2>3. ASSUME job[mine[p]].status # "success", job'[mine[p]].status = "success"
        PROVE  job[mine[p]].status = "running"
    <3>1. CASE job' = job
      BY <2>3, <3>1
    <3>2. CASE job' # job
      <4> DEFINE old == job[mine[p]]
                 row == [old EXCEPT !.status = IF @ = "running" THEN "success" ELSE @]
      <4>1. old \in JobRow /\ job'[mine[p]] = row
        BY <1>18, <2>1, <3>2 DEF CloseOk, CloseJob
      <4>2. row.status = IF old.status = "running" THEN "success" ELSE old.status
        BY <4>1 DEF JobRow
      <4> HIDE DEF row
      <4>3. QED
        BY <2>3, <4>1, <4>2
    <3>3. QED
      BY <3>1, <3>2
  <2>4. job[mine[p]].status = "running" =>
          cert[rec[p]].status = "valid" /\ cert[rec[p]].serial = mine[p]
    BY <2>1 DEF InstallOK, InstallAt, HasJob
  <2>5. QED
    BY <2>1, <2>2, <2>3, <2>4 DEF SuccessInstalled
<1>19. ASSUME NEW p \in Procs, FireTasks(p) PROVE SuccessInstalled
  BY <1>19 DEF SuccessInstalled, FireTasks
<1>20. ASSUME NEW p \in Procs, ReadFile(p) PROVE SuccessInstalled
  BY <1>20 DEF SuccessInstalled, ReadFile
<1>21. ASSUME NEW p \in Procs, FireFail(p) PROVE SuccessInstalled
  BY <1>21 DEF SuccessInstalled, FireFail, Fault
<1>22. ASSUME NEW p \in Procs, Deliver(p) PROVE SuccessInstalled
  BY <1>22 DEF SuccessInstalled, Deliver
<1>23. ASSUME NEW r \in Records, DeleteRecord(r) PROVE SuccessInstalled
  <2>1. \A j \in Jobs : job'[j] = job[j] \/ job'[j] = [job[j] EXCEPT !.status = "deleted"]
    BY <1>23 DEF DeleteRecord
  <2>2. \A j \in Jobs : job'[j].status = job[j].status \/ job'[j].status = "deleted"
    <3> TAKE j \in Jobs
    <3>1. job[j] \in JobRow
      OBVIOUS
    <3>2. [job[j] EXCEPT !.status = "deleted"].status = "deleted"
      BY <3>1 DEF JobRow
    <3>3. QED
      BY <2>1, <3>2
  <2>3. QED
    BY <2>2 DEF SuccessInstalled
<1>24. ASSUME NEW r \in Records, ChangePurpose(r) PROVE SuccessInstalled
  BY <1>24 DEF SuccessInstalled, ChangePurpose
<1>25. ASSUME NEW r \in Records, EnterWindow(r) PROVE SuccessInstalled
  BY <1>25 DEF SuccessInstalled, EnterWindow
<1>26. ASSUME ToggleACME PROVE SuccessInstalled
  BY <1>26 DEF SuccessInstalled, ToggleACME
<1>27. ASSUME Crash PROVE SuccessInstalled
  BY <1>27 DEF Crash, SuccessInstalled
<1>28. ASSUME UNCHANGED vars PROVE SuccessInstalled
  BY <1>28 DEF SuccessInstalled, vars
<1>29. QED
  BY <1>1, <1>2, <1>3, <1>4, <1>5, <1>6, <1>7, <1>8, <1>9, <1>10, <1>11, <1>12, <1>13,
     <1>14,
       <1>15, <1>16, <1>17, <1>18, <1>19, <1>20, <1>21, <1>22, <1>23, <1>24, <1>25, <1>26,
       <1>27, <1>28
     DEF Next, Renew, Issue, Environment

\* A job turns to success only when its certificate is the one the record serves: it is
\* never announced before the row is written, nor after the record is gone
\* (UpdateCertificate before finishCertificateJob).
THEOREM SuccessIsInstalled == Spec => SuccessMeansInstalled
<1>1. JobInv /\ InstallOK /\ [Next]_vars => [SuccessInstalled]_vars
  BY SuccessStep
<1>2. QED
  BY <1>1, InstallInvariant, PTL DEF Spec, SuccessMeansInstalled, SuccessInstalled
=============================================================================
