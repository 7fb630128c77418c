------------------------ MODULE CertIssuanceProofs ------------------------
(***************************************************************************)
(* Theorems about CertIssuance, for every set of records, jobs, goroutines *)
(* and directories and every bound.                                        *)
(*                                                                         *)
(* The slot map is exact and exclusive because a goroutine enters the      *)
(* critical steps only through Reserve, with rec set to the record it      *)
(* reserved, and leaves them only through Release or Crash.                *)
(***************************************************************************)
EXTENDS CertIssuance, TLAPS

\* The steps at which a goroutine knows its record, and those at which it owns a job.
HasRecord == Critical \union {"reserve"}
BeforeJob == Outside \union {"prepare", "ensure", "createJob"}
HasJob == {"obtain", "write", "persist", "markFailed", "closeFailed", "closeOk",
           "fire", "read", "deliver"}

LocalsOK ==
  \A p \in Procs :
    /\ pc[p] \in HasRecord => rec[p] \in Records
    /\ pc[p] \in HasJob => mine[p] \in Jobs

---------------------------------------------------------------------------
LEMMA PendingRowType == PendingRow \in CertRow
BY DEF PendingRow, CertRow, Serial

LEMMA CertRowType ==
  ASSUME NEW row \in CertRow
  PROVE  /\ [row EXCEPT !.status = "failed"] \in CertRow
         /\ [row EXCEPT !.due = TRUE] \in CertRow
BY DEF CertRow

\* Writing one row of a table keeps the type of the table.
LEMMA RowUpdate ==
  ASSUME NEW Ids, NEW Rows, NEW table \in [Ids -> Rows], NEW id, NEW row \in Rows,
         NEW next, next = table \/ next = [table EXCEPT ![id] = row]
  PROVE  next \in [Ids -> Rows]
OBVIOUS

LEMMA JobRowType ==
  ASSUME NEW row \in JobRow, NEW s \in {"success", "failed", "deleted"}
  PROVE  [row EXCEPT !.status = s] \in JobRow
BY DEF JobRow

LEMMA InitType == ASSUME ConstantsAssumption PROVE Init => TypeOK
BY DEF ConstantsAssumption, Init, TypeOK, CertRow, JobRow, NoRow, Serial, Empty, PemFiles,
       Critical, Outside

LEMMA TypeStep == TypeOK /\ LocalsOK /\ [Next]_vars => TypeOK'
<1> SUFFICES ASSUME TypeOK, LocalsOK, [Next]_vars PROVE TypeOK'
  OBVIOUS
<1> USE ConstantsAssumption DEF TypeOK, Serial, Critical, Outside, tables, locals, ghosts,
        Goto, After
<1>1. ASSUME NEW p \in Procs, NEW r \in Records, StartIssuance(p, r) PROVE TypeOK'
  BY <1>1 DEF StartIssuance
<1>2. ASSUME NEW p \in Procs, RenewCertificates(p) PROVE TypeOK'
  BY <1>2 DEF RenewCertificates
<1>3. ASSUME NEW p \in Procs, NEW r \in Records, RenewPick(p, r) PROVE TypeOK'
  <2>1. rec' \in [Procs -> Records \union {None}] /\ todo' \in [Procs -> SUBSET Records]
    BY <1>3 DEF RenewPick
  <2>2. pc' \in [Procs -> Critical \union Outside]
    BY <1>3 DEF RenewPick
  <2>3. faults' \in 0 .. MaxFaults
    BY <1>3 DEF RenewPick, Fault
  <2>4. QED
    BY <1>3, <2>1, <2>2, <2>3 DEF RenewPick
<1>4. ASSUME NEW p \in Procs, RenewEnd(p) PROVE TypeOK'
  BY <1>4 DEF RenewEnd
<1>5. ASSUME NEW p \in Procs, Reserve(p) PROVE TypeOK'
  BY <1>5 DEF Reserve, LocalsOK, HasRecord
<1>6. ASSUME NEW p \in Procs, Release(p) PROVE TypeOK'
  BY <1>6 DEF Release, Empty, PemFiles
<1>7. ASSUME NEW p \in Procs, Prepare(p) PROVE TypeOK'
  <2>1. cert' = cert \/ cert' = [cert EXCEPT ![rec[p]] = PendingRow]
    BY <1>7 DEF Prepare, EnsureRow
  <2>2. cert' \in [Records -> CertRow]
    BY ONLY <2>1, PendingRowType, cert \in [Records -> CertRow], RowUpdate
  <2>3. QED
    BY <1>7, <2>2 DEF Prepare, EnsureRow, Fault
<1>8. ASSUME NEW p \in Procs, Ensure(p) PROVE TypeOK'
  <2>1. cert' = cert \/ cert' = [cert EXCEPT ![rec[p]] = PendingRow]
    BY <1>8 DEF Ensure, EnsureRow
  <2>2. cert' \in [Records -> CertRow]
    BY ONLY <2>1, PendingRowType, cert \in [Records -> CertRow], RowUpdate
  <2>3. QED
    BY <1>8, <2>2 DEF Ensure, EnsureRow, Fault
<1>9. ASSUME NEW p \in Procs, CreateJob(p) PROVE TypeOK'
  <2> DEFINE row == [status |-> "running", rec |-> rec[p]]
  <2>1. row \in JobRow
    BY DEF JobRow
  <2>2. \/ job' = job /\ mine' = mine
        \/ \E j \in Jobs : job' = [job EXCEPT ![j] = row] /\ mine' = [mine EXCEPT ![p] = j]
    BY <1>9 DEF CreateJob, JobsIn
  <2>3. job' \in [Jobs -> JobRow]
    <3> HIDE DEF row
    <3> QED BY <2>1, <2>2, RowUpdate
  <2>4. mine' \in [Procs -> Serial]
    BY <2>2
  <2>5. pc' \in [Procs -> Critical \union Outside]
    BY <1>9 DEF CreateJob
  <2>6. faults' \in 0 .. MaxFaults
    BY <1>9 DEF CreateJob, Fault
  <2>7. UNCHANGED <<live, doesCert, acme, cert, pending, files, rec, src, todo, at, seen,
                    orphan, torn>>
    BY <1>9 DEF CreateJob
  <2>8. QED
    BY <2>3, <2>4, <2>5, <2>6, <2>7
<1>10. ASSUME NEW p \in Procs, ObtainOk(p) PROVE TypeOK'
  BY <1>10 DEF ObtainOk, PemFiles
<1>11. ASSUME NEW p \in Procs, ObtainFail(p) PROVE TypeOK'
  BY <1>11 DEF ObtainFail
<1>12. ASSUME NEW p \in Procs, WriteFile(p) PROVE TypeOK'
  <2>1. files' \in [Dirs -> [PemFiles -> Jobs \union {None}]]
    BY <1>12 DEF WriteFile
  <2>2. at' \in [Procs -> PemFiles]
    BY <1>12 DEF WriteFile, PemFiles, LastFile
  <2>3. QED
    BY <1>12, <2>1, <2>2 DEF WriteFile
<1>13. ASSUME NEW p \in Procs, WriteFail(p) PROVE TypeOK'
  BY <1>13 DEF WriteFail, Fault, PemFiles
<1>14. ASSUME NEW p \in Procs, Persist(p) PROVE TypeOK'
  BY <1>14 DEF Persist, CertRow
<1>15. ASSUME NEW p \in Procs, PersistFail(p) PROVE TypeOK'
  BY <1>15 DEF PersistFail, Fault
<1>16. ASSUME NEW p \in Procs, MarkFailed(p) PROVE TypeOK'
  <2>1. rec[p] \in Records /\ cert[rec[p]] \in CertRow
    BY <1>16 DEF MarkFailed, LocalsOK, HasRecord
  <2> DEFINE row == [cert[rec[p]] EXCEPT !.status = "failed"]
  <2>2. row \in CertRow
    BY <2>1, CertRowType
  <2>3. cert' = cert \/ cert' = [cert EXCEPT ![rec[p]] = row]
    BY <1>16, <2>1 DEF MarkFailed, CertRow
  <2>4. cert' \in [Records -> CertRow]
    <3> HIDE DEF row
    <3> QED BY <2>2, <2>3, RowUpdate
  <2>5. QED
    BY <1>16, <2>1, <2>4 DEF MarkFailed, Fault
<1>17. ASSUME NEW p \in Procs, CloseFailed(p) PROVE TypeOK'
  <2>1. mine[p] \in Jobs /\ job[mine[p]] \in JobRow
    BY <1>17 DEF CloseFailed, CloseJob, LocalsOK, HasJob
  <2> DEFINE row == [job[mine[p]] EXCEPT !.status = "failed"]
  <2>2. row \in JobRow
    BY <2>1, JobRowType
  <2>3. job' = job \/ job' = [job EXCEPT ![mine[p]] = row]
    BY <1>17, <2>1 DEF CloseFailed, CloseJob, JobRow
  <2>4. job' \in [Jobs -> JobRow]
    <3> HIDE DEF row
    <3> QED BY <2>2, <2>3, RowUpdate
  <2>5. QED
    BY <1>17, <2>1, <2>4 DEF CloseFailed, CloseJob, Fault
<1>18. ASSUME NEW p \in Procs, CloseOk(p) PROVE TypeOK'
  <2>1. mine[p] \in Jobs /\ job[mine[p]] \in JobRow
    BY <1>18 DEF CloseOk, CloseJob, LocalsOK, HasJob
  <2> DEFINE row == [job[mine[p]] EXCEPT !.status = "success"]
  <2>2. row \in JobRow
    BY <2>1, JobRowType
  <2>3. job' = job \/ job' = [job EXCEPT ![mine[p]] = row]
    BY <1>18, <2>1 DEF CloseOk, CloseJob, JobRow
  <2>4. job' \in [Jobs -> JobRow]
    <3> HIDE DEF row
    <3> QED BY <2>2, <2>3, RowUpdate
  <2>5. QED
    BY <1>18, <2>1, <2>4 DEF CloseOk, CloseJob, Fault
<1>19. ASSUME NEW p \in Procs, FireTasks(p) PROVE TypeOK'
  BY <1>19 DEF FireTasks
<1>20. ASSUME NEW p \in Procs, ReadFile(p) PROVE TypeOK'
  BY <1>20 DEF ReadFile, PemFiles, LastFile, LocalsOK, HasRecord
<1>21. ASSUME NEW p \in Procs, Deliver(p) PROVE TypeOK'
  BY <1>21 DEF Deliver
<1>22. ASSUME NEW r \in Records, DeleteRecord(r) PROVE TypeOK'
  BY <1>22 DEF DeleteRecord, CertRow, NoRow, JobRow
<1>23. ASSUME NEW r \in Records, ChangePurpose(r) PROVE TypeOK'
  BY <1>23 DEF ChangePurpose
<1>24. ASSUME ToggleACME PROVE TypeOK'
  BY <1>24 DEF ToggleACME
<1>25. ASSUME NEW r \in Records, EnterWindow(r) PROVE TypeOK'
  BY <1>25 DEF EnterWindow, CertRow
<1>26. ASSUME Crash PROVE TypeOK'
  BY <1>26 DEF Crash, Fault, Holders, LocalsOK, HasRecord, Empty, PemFiles
<1>27. ASSUME UNCHANGED vars PROVE TypeOK'
  BY <1>27 DEF vars
<1>28. ASSUME NEW p \in Procs, FireFail(p) PROVE TypeOK'
  BY <1>28 DEF FireFail, Fault, PemFiles
<1>29. QED
  BY <1>1, <1>2, <1>3, <1>4, <1>5, <1>6, <1>7, <1>8, <1>9, <1>10, <1>11, <1>12, <1>13,
     <1>14, <1>15, <1>16, <1>17, <1>18, <1>19, <1>20, <1>21, <1>22, <1>23, <1>24, <1>25,
     <1>26, <1>27, <1>28 DEF Next, Renew, Issue, Environment

LEMMA LocalsStep == TypeOK /\ LocalsOK /\ [Next]_vars => LocalsOK'
<1> SUFFICES ASSUME TypeOK, LocalsOK, [Next]_vars PROVE LocalsOK'
  OBVIOUS
<1> USE DEF TypeOK, LocalsOK, HasRecord, HasJob, Critical, Outside, tables, locals, ghosts, Goto,
        After
<1>1. ASSUME NEW p \in Procs, NEW r \in Records, StartIssuance(p, r) PROVE LocalsOK'
  BY <1>1 DEF StartIssuance
<1>2. ASSUME NEW p \in Procs, NEW r \in Records, RenewPick(p, r) PROVE LocalsOK'
  BY <1>2 DEF RenewPick, Fault
<1>3. ASSUME NEW p \in Procs, RenewCertificates(p) PROVE LocalsOK'
  BY <1>3 DEF RenewCertificates
<1>4. ASSUME NEW p \in Procs, RenewEnd(p) PROVE LocalsOK'
  BY <1>4 DEF RenewEnd
<1>5. ASSUME NEW p \in Procs, Reserve(p) PROVE LocalsOK'
  BY <1>5 DEF Reserve, Reserved
<1>6. ASSUME NEW p \in Procs, Release(p) PROVE LocalsOK'
  BY <1>6 DEF Release
<1>7. ASSUME NEW p \in Procs, Prepare(p) PROVE LocalsOK'
  BY <1>7 DEF Prepare, EnsureRow
<1>8. ASSUME NEW p \in Procs, Ensure(p) PROVE LocalsOK'
  BY <1>8 DEF Ensure, EnsureRow
<1>9. ASSUME NEW p \in Procs, CreateJob(p) PROVE LocalsOK'
  BY <1>9 DEF CreateJob, JobsIn
<1>10. ASSUME NEW p \in Procs, ObtainOk(p) PROVE LocalsOK'
  BY <1>10 DEF ObtainOk
<1>11. ASSUME NEW p \in Procs, ObtainFail(p) PROVE LocalsOK'
  BY <1>11 DEF ObtainFail
<1>12. ASSUME NEW p \in Procs, WriteFile(p) PROVE LocalsOK'
  BY <1>12 DEF WriteFile
<1>13. ASSUME NEW p \in Procs, WriteFail(p) PROVE LocalsOK'
  BY <1>13 DEF WriteFail
<1>14. ASSUME NEW p \in Procs, Persist(p) PROVE LocalsOK'
  BY <1>14 DEF Persist
<1>15. ASSUME NEW p \in Procs, PersistFail(p) PROVE LocalsOK'
  BY <1>15 DEF PersistFail
<1>16. ASSUME NEW p \in Procs, MarkFailed(p) PROVE LocalsOK'
  BY <1>16 DEF MarkFailed
<1>17. ASSUME NEW p \in Procs, CloseFailed(p) PROVE LocalsOK'
  BY <1>17 DEF CloseFailed, CloseJob
<1>18. ASSUME NEW p \in Procs, CloseOk(p) PROVE LocalsOK'
  BY <1>18 DEF CloseOk, CloseJob
<1>19. ASSUME NEW p \in Procs, FireTasks(p) PROVE LocalsOK'
  BY <1>19 DEF FireTasks
<1>20. ASSUME NEW p \in Procs, ReadFile(p) PROVE LocalsOK'
  BY <1>20 DEF ReadFile
<1>21. ASSUME NEW p \in Procs, Deliver(p) PROVE LocalsOK'
  BY <1>21 DEF Deliver
<1>22. ASSUME NEW r \in Records, DeleteRecord(r) PROVE LocalsOK'
  BY <1>22 DEF DeleteRecord
<1>23. ASSUME NEW r \in Records, ChangePurpose(r) PROVE LocalsOK'
  BY <1>23 DEF ChangePurpose
<1>24. ASSUME NEW r \in Records, EnterWindow(r) PROVE LocalsOK'
  BY <1>24 DEF EnterWindow
<1>25. ASSUME ToggleACME PROVE LocalsOK'
  BY <1>25 DEF ToggleACME
<1>26. ASSUME Crash PROVE LocalsOK'
  BY <1>26 DEF Crash
<1>27. ASSUME UNCHANGED vars PROVE LocalsOK'
  BY <1>27 DEF vars
<1>28. ASSUME NEW p \in Procs, FireFail(p) PROVE LocalsOK'
  BY <1>28 DEF FireFail, Fault
<1>29. QED
  BY <1>1, <1>2, <1>3, <1>4, <1>5, <1>6, <1>7, <1>8, <1>9, <1>10, <1>11, <1>12, <1>13, <1>14,
     <1>15, <1>16, <1>17, <1>18, <1>19, <1>20, <1>21, <1>22, <1>23, <1>24, <1>25, <1>26,
     <1>27, <1>28 DEF Next, Renew, Issue, Environment

---------------------------------------------------------------------------
\* A step that takes no slot, frees none and moves no goroutine into or out of the critical
\* steps.
Quiet ==
  /\ pending' = pending
  /\ \A q \in Procs : /\ pc'[q] \in Critical <=> pc[q] \in Critical
                      /\ pc[q] \in Critical => rec'[q] = rec[q]

LEMMA QuietStep ==
  SlotsExact /\ OneIssuancePerRecord /\ Quiet => SlotsExact' /\ OneIssuancePerRecord'
BY DEF SlotsExact, OneIssuancePerRecord, Quiet, Holders

LEMMA SlotStep ==
  TypeOK /\ LocalsOK /\ SlotsExact /\ OneIssuancePerRecord /\ [Next]_vars
    => (SlotsExact /\ OneIssuancePerRecord)'
<1> SUFFICES ASSUME TypeOK, LocalsOK, SlotsExact, OneIssuancePerRecord, [Next]_vars
             PROVE  (SlotsExact /\ OneIssuancePerRecord)'
  OBVIOUS
<1> USE DEF TypeOK, Critical, Outside, tables, locals, ghosts, Goto, After
<1>1. ASSUME NEW p \in Procs, NEW r \in Records, StartIssuance(p, r) PROVE (SlotsExact /\ OneIssuancePerRecord)'
  BY <1>1, QuietStep DEF Quiet, StartIssuance
<1>2. ASSUME NEW p \in Procs, NEW r \in Records, RenewPick(p, r) PROVE (SlotsExact /\ OneIssuancePerRecord)'
  BY <1>2, QuietStep DEF Quiet, RenewPick, Fault
<1>3. ASSUME NEW p \in Procs, RenewCertificates(p) PROVE (SlotsExact /\ OneIssuancePerRecord)'
  BY <1>3, QuietStep DEF Quiet, RenewCertificates
<1>4. ASSUME NEW p \in Procs, RenewEnd(p) PROVE (SlotsExact /\ OneIssuancePerRecord)'
  BY <1>4, QuietStep DEF Quiet, RenewEnd
<1>5. ASSUME NEW p \in Procs, Reserve(p) PROVE (SlotsExact /\ OneIssuancePerRecord)'
  <2>1. CASE Reserved(p)
    <3>1. /\ pending' = pending \union {rec[p]}
          /\ rec[p] \notin pending
          /\ rec' = rec
          /\ Holders' = Holders \union {p}
      BY <1>5, <2>1 DEF Reserve, Reserved, Holders
    <3>2. QED
      BY <3>1 DEF SlotsExact, OneIssuancePerRecord
  <2>2. CASE ~Reserved(p)
    <3>1. Quiet
      BY <1>5, <2>2 DEF Reserve, Quiet
    <3>2. QED
      BY <3>1, QuietStep
  <2>3. QED
    BY <2>1, <2>2
<1>6. ASSUME NEW p \in Procs, Release(p) PROVE (SlotsExact /\ OneIssuancePerRecord)'
  <2>1. /\ p \in Holders
        /\ pending' = pending \ {rec[p]}
        /\ Holders' = Holders \ {p}
        /\ \A q \in Holders' : rec'[q] = rec[q]
    BY <1>6 DEF Release, Holders
  <2>2. \A q \in Holders : q # p => rec[q] # rec[p]
    BY <2>1 DEF OneIssuancePerRecord
  <2>3. pending' = {rec[q] : q \in Holders \ {p}}
    BY <2>1, <2>2 DEF SlotsExact
  <2>4. SlotsExact'
    BY <2>1, <2>3 DEF SlotsExact
  <2>5. OneIssuancePerRecord'
    BY <2>1 DEF OneIssuancePerRecord
  <2>6. QED
    BY <2>4, <2>5
<1>7. ASSUME NEW p \in Procs, Prepare(p) PROVE (SlotsExact /\ OneIssuancePerRecord)'
  BY <1>7, QuietStep DEF Quiet, Prepare, EnsureRow
<1>8. ASSUME NEW p \in Procs, Ensure(p) PROVE (SlotsExact /\ OneIssuancePerRecord)'
  BY <1>8, QuietStep DEF Quiet, Ensure, EnsureRow
<1>9. ASSUME NEW p \in Procs, CreateJob(p) PROVE (SlotsExact /\ OneIssuancePerRecord)'
  BY <1>9, QuietStep DEF Quiet, CreateJob, JobsIn
<1>10. ASSUME NEW p \in Procs, ObtainOk(p) PROVE (SlotsExact /\ OneIssuancePerRecord)'
  BY <1>10, QuietStep DEF Quiet, ObtainOk
<1>11. ASSUME NEW p \in Procs, ObtainFail(p) PROVE (SlotsExact /\ OneIssuancePerRecord)'
  BY <1>11, QuietStep DEF Quiet, ObtainFail
<1>12. ASSUME NEW p \in Procs, WriteFile(p) PROVE (SlotsExact /\ OneIssuancePerRecord)'
  BY <1>12, QuietStep DEF Quiet, WriteFile
<1>13. ASSUME NEW p \in Procs, WriteFail(p) PROVE (SlotsExact /\ OneIssuancePerRecord)'
  BY <1>13, QuietStep DEF Quiet, WriteFail
<1>14. ASSUME NEW p \in Procs, Persist(p) PROVE (SlotsExact /\ OneIssuancePerRecord)'
  BY <1>14, QuietStep DEF Quiet, Persist
<1>15. ASSUME NEW p \in Procs, PersistFail(p) PROVE (SlotsExact /\ OneIssuancePerRecord)'
  BY <1>15, QuietStep DEF Quiet, PersistFail
<1>16. ASSUME NEW p \in Procs, MarkFailed(p) PROVE (SlotsExact /\ OneIssuancePerRecord)'
  BY <1>16, QuietStep DEF Quiet, MarkFailed
<1>17. ASSUME NEW p \in Procs, CloseFailed(p) PROVE (SlotsExact /\ OneIssuancePerRecord)'
  BY <1>17, QuietStep DEF Quiet, CloseFailed, CloseJob
<1>18. ASSUME NEW p \in Procs, CloseOk(p) PROVE (SlotsExact /\ OneIssuancePerRecord)'
  BY <1>18, QuietStep DEF Quiet, CloseOk, CloseJob
<1>19. ASSUME NEW p \in Procs, FireTasks(p) PROVE (SlotsExact /\ OneIssuancePerRecord)'
  BY <1>19, QuietStep DEF Quiet, FireTasks
<1>20. ASSUME NEW p \in Procs, ReadFile(p) PROVE (SlotsExact /\ OneIssuancePerRecord)'
  BY <1>20, QuietStep DEF Quiet, ReadFile
<1>21. ASSUME NEW p \in Procs, Deliver(p) PROVE (SlotsExact /\ OneIssuancePerRecord)'
  BY <1>21, QuietStep DEF Quiet, Deliver
<1>22. ASSUME NEW r \in Records, DeleteRecord(r) PROVE (SlotsExact /\ OneIssuancePerRecord)'
  BY <1>22, QuietStep DEF Quiet, DeleteRecord
<1>23. ASSUME NEW r \in Records, ChangePurpose(r) PROVE (SlotsExact /\ OneIssuancePerRecord)'
  BY <1>23, QuietStep DEF Quiet, ChangePurpose
<1>24. ASSUME NEW r \in Records, EnterWindow(r) PROVE (SlotsExact /\ OneIssuancePerRecord)'
  BY <1>24, QuietStep DEF Quiet, EnterWindow
<1>25. ASSUME ToggleACME PROVE (SlotsExact /\ OneIssuancePerRecord)'
  BY <1>25, QuietStep DEF Quiet, ToggleACME
<1>26. ASSUME Crash PROVE (SlotsExact /\ OneIssuancePerRecord)'
  <2>1. pending' = {} /\ Holders' = {}
    BY <1>26 DEF Crash, Holders
  <2>2. QED
    BY <2>1 DEF SlotsExact, OneIssuancePerRecord
<1>27. ASSUME UNCHANGED vars PROVE (SlotsExact /\ OneIssuancePerRecord)'
  BY <1>27, QuietStep DEF Quiet, vars
<1>28. ASSUME NEW p \in Procs, FireFail(p) PROVE (SlotsExact /\ OneIssuancePerRecord)'
  BY <1>28, QuietStep DEF Quiet, FireFail, Fault
<1>29. QED
  BY <1>1, <1>2, <1>3, <1>4, <1>5, <1>6, <1>7, <1>8, <1>9, <1>10, <1>11, <1>12, <1>13, <1>14,
     <1>15, <1>16, <1>17, <1>18, <1>19, <1>20, <1>21, <1>22, <1>23, <1>24, <1>25, <1>26,
     <1>27, <1>28 DEF Next, Renew, Issue, Environment

---------------------------------------------------------------------------
SlotInv == TypeOK /\ LocalsOK /\ SlotsExact /\ OneIssuancePerRecord

LEMMA SlotInvariant == Spec => []SlotInv
<1>1. Init => SlotInv
  BY InitType, ConstantsAssumption
  DEF Init, SlotInv, LocalsOK, HasRecord, HasJob, Critical, SlotsExact, OneIssuancePerRecord,
      Holders
<1>2. SlotInv /\ [Next]_vars => SlotInv'
  BY TypeStep, LocalsStep, SlotStep DEF SlotInv
<1>3. QED
  BY <1>1, <1>2, PTL DEF Spec

\* The variables of the issuance keep their types in every behaviour.
THEOREM TypeCorrect == Spec => []TypeOK
BY SlotInvariant, PTL DEF SlotInv

\* No two goroutines ever run an issuance of the same record (certificate.go:25-27).
THEOREM IssuanceExclusive == Spec => []OneIssuancePerRecord
BY SlotInvariant, PTL DEF SlotInv

\* No path through an issuance leaks its slot or frees another one's.
THEOREM SlotMapExact == Spec => []SlotsExact
BY SlotInvariant, PTL DEF SlotInv

---------------------------------------------------------------------------
(***************************************************************************)
(* A running job has a runner.  What makes it inductive: a goroutine past  *)
(* createJob holds a used job of its own record, and once past the closing *)
(* statement that job is closed or orphaned.                               *)
(***************************************************************************)
AfterClose == {"fire", "read", "deliver", "release"}

JobsOK ==
  \A p \in Procs :
    /\ pc[p] \in BeforeJob => mine[p] = None
    /\ mine[p] # None => job[mine[p]].rec = rec[p] /\ job[mine[p]].status # "unused"
    /\ mine[p] # None /\ pc[p] \in AfterClose =>
         job[mine[p]].status # "running" \/ mine[p] \in orphan

\* A step that changes no job and moves no goroutine that has one across its closing.
JobQuiet ==
  /\ job' = job
  /\ mine' = mine
  /\ orphan \subseteq orphan'
  /\ \A q \in Procs :
       /\ pc'[q] \in BeforeJob => mine[q] = None
       /\ mine[q] # None =>
            /\ rec'[q] = rec[q]
            /\ pc[q] \in Critical => pc'[q] \in Critical
            /\ pc'[q] \in AfterClose => pc[q] \in AfterClose

LEMMA JobQuietStep ==
  TypeOK /\ JobsOK /\ RunningJobHasRunner /\ JobQuiet => (JobsOK /\ RunningJobHasRunner)'
<1> SUFFICES ASSUME TypeOK, JobsOK, RunningJobHasRunner, JobQuiet
             PROVE  (JobsOK /\ RunningJobHasRunner)'
  OBVIOUS
<1>1. JobsOK'
  BY DEF JobsOK, JobQuiet
<1>2. RunningJobHasRunner'
  <2> SUFFICES ASSUME NEW k \in Jobs \ orphan', job[k].status = "running"
               PROVE  \E q \in Holders' : mine[q] = k /\ rec'[q] = job[k].rec
    BY DEF RunningJobHasRunner, JobQuiet
  <2>1. PICK q \in Holders : mine[q] = k /\ rec[q] = job[k].rec
    BY DEF RunningJobHasRunner, JobQuiet
  <2>2. mine[q] # None
    BY <2>1, ConstantsAssumption DEF ConstantsAssumption
  <2>3. QED
    BY <2>1, <2>2 DEF JobQuiet, Holders
<1>3. QED
  BY <1>1, <1>2

\* The closing statement sets the status of one running job, or nothing.
LEMMA CloseJobEffect ==
  ASSUME TypeOK, NEW p \in Procs, mine[p] \in Jobs, NEW from, NEW outcome, NEW to,
         CloseJob(p, from, outcome, to)
  PROVE  /\ \A k \in Jobs : /\ job'[k].rec = job[k].rec
                            /\ \/ job'[k].status = job[k].status
                               \/ k = mine[p] /\ job'[k].status = outcome
         /\ \/ mine[p] \in orphan'
            \/ job'[mine[p]].status # "running"
            \/ outcome = "running"
<1> DEFINE old == job[mine[p]]
           row == [old EXCEPT !.status = IF @ = "running" THEN outcome ELSE @]
<1>1. old \in JobRow
  BY DEF TypeOK
<1>2. /\ row.rec = old.rec
      /\ row.status = IF old.status = "running" THEN outcome ELSE old.status
  BY <1>1 DEF JobRow
<1>3. \/ job' = [job EXCEPT ![mine[p]] = row]
      \/ job' = job /\ mine[p] \in orphan'
  BY DEF CloseJob
<1> HIDE DEF row
<1>4. \A k \in Jobs : job'[k] = job[k] \/ (k = mine[p] /\ job'[k] = row)
  BY <1>3 DEF TypeOK
<1>5. job'[mine[p]] = row \/ mine[p] \in orphan'
  BY <1>3 DEF TypeOK
<1>6. ASSUME NEW k \in Jobs
      PROVE  /\ job'[k].rec = job[k].rec
             /\ \/ job'[k].status = job[k].status
                \/ k = mine[p] /\ job'[k].status = outcome
  <2>1. CASE job'[k] = job[k]
    BY <2>1
  <2>2. CASE k = mine[p] /\ job'[k] = row
    BY <2>2, <1>2
  <2>3. QED
    BY <1>4, <2>1, <2>2
<1>7. \/ mine[p] \in orphan'
      \/ job'[mine[p]].status # "running"
      \/ outcome = "running"
  <2>1. row.status # "running" \/ outcome = "running"
    BY <1>2
  <2>2. QED
    BY <1>5, <2>1
<1>8. QED
  BY ONLY <1>6, <1>7

LEMMA JobStep ==
  TypeOK /\ LocalsOK /\ JobsOK /\ RunningJobHasRunner /\ [Next]_vars
    => (JobsOK /\ RunningJobHasRunner)'
<1> SUFFICES ASSUME TypeOK, LocalsOK, JobsOK, RunningJobHasRunner, [Next]_vars
             PROVE  (JobsOK /\ RunningJobHasRunner)'
  OBVIOUS
<1> USE DEF TypeOK, Serial, Critical, Outside, tables, locals, ghosts, Goto, After
<1>1. ASSUME NEW p \in Procs, NEW r \in Records, StartIssuance(p, r) PROVE (JobsOK /\ RunningJobHasRunner)'
  BY <1>1, JobQuietStep
  DEF JobQuiet, BeforeJob, AfterClose, JobsOK, StartIssuance
<1>2. ASSUME NEW p \in Procs, NEW r \in Records, RenewPick(p, r) PROVE (JobsOK /\ RunningJobHasRunner)'
  BY <1>2, JobQuietStep
  DEF JobQuiet, BeforeJob, AfterClose, JobsOK, RenewPick, Fault
<1>3. ASSUME NEW p \in Procs, RenewCertificates(p) PROVE (JobsOK /\ RunningJobHasRunner)'
  BY <1>3, JobQuietStep
  DEF JobQuiet, BeforeJob, AfterClose, JobsOK, RenewCertificates
<1>4. ASSUME NEW p \in Procs, RenewEnd(p) PROVE (JobsOK /\ RunningJobHasRunner)'
  BY <1>4, JobQuietStep
  DEF JobQuiet, BeforeJob, AfterClose, JobsOK, RenewEnd
<1>5. ASSUME NEW p \in Procs, Reserve(p) PROVE (JobsOK /\ RunningJobHasRunner)'
  BY <1>5, JobQuietStep
  DEF JobQuiet, BeforeJob, AfterClose, JobsOK, Reserve, Reserved
<1>6. ASSUME NEW p \in Procs, Release(p) PROVE (JobsOK /\ RunningJobHasRunner)'
  <2>1. /\ pc[p] = "release" /\ pc' = [pc EXCEPT ![p] = After(p)]
        /\ rec' = [rec EXCEPT ![p] = None]
        /\ mine' = [mine EXCEPT ![p] = None]
        /\ UNCHANGED <<job, orphan>>
    BY <1>6 DEF Release
  <2>2. JobsOK'
    BY <2>1 DEF JobsOK, BeforeJob, AfterClose
  <2>3. RunningJobHasRunner'
    <3> SUFFICES ASSUME NEW k \in Jobs \ orphan, job[k].status = "running"
                 PROVE  \E q \in Holders' : mine'[q] = k /\ rec'[q] = job[k].rec
      BY <2>1 DEF RunningJobHasRunner
    <3>1. PICK q \in Holders : mine[q] = k /\ rec[q] = job[k].rec
      BY DEF RunningJobHasRunner
    <3>2. q # p
      BY <3>1, <2>1, ConstantsAssumption DEF JobsOK, AfterClose, ConstantsAssumption, Holders
    <3>3. QED
      BY <3>1, <3>2, <2>1 DEF Holders
  <2>4. QED
    BY <2>2, <2>3
<1>7. ASSUME NEW p \in Procs, Prepare(p) PROVE (JobsOK /\ RunningJobHasRunner)'
  BY <1>7, JobQuietStep
  DEF JobQuiet, BeforeJob, AfterClose, JobsOK, Prepare, EnsureRow
<1>8. ASSUME NEW p \in Procs, Ensure(p) PROVE (JobsOK /\ RunningJobHasRunner)'
  BY <1>8, JobQuietStep
  DEF JobQuiet, BeforeJob, AfterClose, JobsOK, Ensure, EnsureRow
<1>9. ASSUME NEW p \in Procs, CreateJob(p) PROVE (JobsOK /\ RunningJobHasRunner)'
  <2>1. CASE job' = job /\ mine' = mine
    BY <1>9, <2>1, JobQuietStep DEF JobQuiet, CreateJob, BeforeJob, AfterClose, JobsOK
  <2>2. CASE ~(job' = job /\ mine' = mine)
    <3>1. PICK j \in Jobs :
            /\ job[j].status = "unused"
            /\ job' = [job EXCEPT ![j] = [status |-> "running", rec |-> rec[p]]]
            /\ mine' = [mine EXCEPT ![p] = j]
            /\ pc' = [pc EXCEPT ![p] = "obtain"]
      BY <1>9, <2>2 DEF CreateJob, JobsIn
    <3>2. UNCHANGED <<rec, orphan>> /\ pc[p] = "createJob" /\ mine[p] = None
      BY <1>9 DEF CreateJob, JobsOK, BeforeJob
    <3>3. \A q \in Procs : mine[q] # j
      BY <3>1, ConstantsAssumption DEF JobsOK, ConstantsAssumption
    <3>4. JobsOK'
      BY <3>1, <3>2, <3>3, ConstantsAssumption
      DEF JobsOK, BeforeJob, AfterClose, ConstantsAssumption
    <3>5. RunningJobHasRunner'
      <4> SUFFICES ASSUME NEW k \in Jobs \ orphan, job'[k].status = "running"
                   PROVE  \E q \in Holders' : mine'[q] = k /\ rec'[q] = job'[k].rec
        BY <3>2 DEF RunningJobHasRunner
      <4>1. CASE k = j
        BY <4>1, <3>1, <3>2 DEF Holders
      <4>2. CASE k # j
        <5>1. PICK q \in Holders : mine[q] = k /\ rec[q] = job[k].rec
          BY <4>2, <3>1 DEF RunningJobHasRunner
        <5>2. q # p
          BY <5>1, <3>2, ConstantsAssumption DEF ConstantsAssumption
        <5>3. QED
          BY <5>1, <5>2, <4>2, <3>1, <3>2 DEF Holders
      <4>3. QED
        BY <4>1, <4>2
    <3>6. QED
      BY <3>4, <3>5
  <2>3. QED
    BY <2>1, <2>2
<1>10. ASSUME NEW p \in Procs, ObtainOk(p) PROVE (JobsOK /\ RunningJobHasRunner)'
  BY <1>10, JobQuietStep
  DEF JobQuiet, BeforeJob, AfterClose, JobsOK, ObtainOk
<1>11. ASSUME NEW p \in Procs, ObtainFail(p) PROVE (JobsOK /\ RunningJobHasRunner)'
  BY <1>11, JobQuietStep
  DEF JobQuiet, BeforeJob, AfterClose, JobsOK, ObtainFail
<1>12. ASSUME NEW p \in Procs, WriteFile(p) PROVE (JobsOK /\ RunningJobHasRunner)'
  BY <1>12, JobQuietStep
  DEF JobQuiet, BeforeJob, AfterClose, JobsOK, WriteFile
<1>13. ASSUME NEW p \in Procs, WriteFail(p) PROVE (JobsOK /\ RunningJobHasRunner)'
  BY <1>13, JobQuietStep
  DEF JobQuiet, BeforeJob, AfterClose, JobsOK, WriteFail
<1>14. ASSUME NEW p \in Procs, Persist(p) PROVE (JobsOK /\ RunningJobHasRunner)'
  BY <1>14, JobQuietStep
  DEF JobQuiet, BeforeJob, AfterClose, JobsOK, Persist
<1>15. ASSUME NEW p \in Procs, PersistFail(p) PROVE (JobsOK /\ RunningJobHasRunner)'
  BY <1>15, JobQuietStep
  DEF JobQuiet, BeforeJob, AfterClose, JobsOK, PersistFail
<1>16. ASSUME NEW p \in Procs, MarkFailed(p) PROVE (JobsOK /\ RunningJobHasRunner)'
  BY <1>16, JobQuietStep
  DEF JobQuiet, BeforeJob, AfterClose, JobsOK, MarkFailed
<1>17. ASSUME NEW p \in Procs, CloseFailed(p) PROVE (JobsOK /\ RunningJobHasRunner)'
  <2>1. mine[p] \in Jobs /\ pc[p] = "closeFailed" /\ pc' = [pc EXCEPT ![p] = "release"]
    BY <1>17 DEF CloseFailed, CloseJob, LocalsOK, HasJob
  <2>2. UNCHANGED <<rec, mine>>
    BY <1>17 DEF CloseFailed, CloseJob
  <2>3. \A k \in Jobs : /\ job'[k].rec = job[k].rec
                       /\ \/ job'[k].status = job[k].status
                          \/ k = mine[p] /\ job'[k].status = "failed"
    BY <1>17, <2>1, CloseJobEffect DEF CloseFailed
  <2>4. orphan \subseteq orphan'
    BY <1>17 DEF CloseFailed, CloseJob
  <2>5. job'[mine[p]].status # "running" \/ mine[p] \in orphan'
    BY <1>17, <2>1, CloseJobEffect DEF CloseFailed
  <2>6. JobsOK'
    <3> SUFFICES ASSUME NEW q \in Procs
                 PROVE  /\ pc'[q] \in BeforeJob => mine[q] = None
                        /\ mine[q] # None =>
                             /\ job'[mine[q]].rec = rec[q]
                             /\ job'[mine[q]].status # "unused"
                        /\ mine[q] # None /\ pc'[q] \in AfterClose =>
                             job'[mine[q]].status # "running" \/ mine[q] \in orphan'
      BY <2>2 DEF JobsOK
    <3>1. pc'[q] \in BeforeJob => mine[q] = None
      BY <2>1 DEF JobsOK, BeforeJob
    <3>2. mine[q] # None => job'[mine[q]].rec = rec[q] /\ job'[mine[q]].status # "unused"
      <4> SUFFICES ASSUME mine[q] \in Jobs
                   PROVE  job'[mine[q]].rec = rec[q] /\ job'[mine[q]].status # "unused"
        OBVIOUS
      <4>1. job[mine[q]].rec = rec[q] /\ job[mine[q]].status # "unused"
        BY ConstantsAssumption DEF JobsOK, ConstantsAssumption
      <4>2. QED
        BY <4>1, <2>3
    <3>3. mine[q] # None /\ pc'[q] \in AfterClose =>
            job'[mine[q]].status # "running" \/ mine[q] \in orphan'
      BY <2>1, <2>3, <2>4, <2>5 DEF JobsOK
    <3>4. QED
      BY <3>1, <3>2, <3>3
  <2>7. RunningJobHasRunner'
    <3> SUFFICES ASSUME NEW k \in Jobs \ orphan', job'[k].status = "running"
                 PROVE  \E q \in Holders' : mine'[q] = k /\ rec'[q] = job'[k].rec
      BY DEF RunningJobHasRunner
    <3>1. job[k].status = "running" /\ k \notin orphan
      BY <2>3, <2>4
    <3>2. PICK q \in Holders : mine[q] = k /\ rec[q] = job[k].rec
      BY <3>1 DEF RunningJobHasRunner
    <3>3. QED
      BY <3>2, <2>1, <2>2, <2>3 DEF Holders
  <2>8. QED
    BY <2>6, <2>7
<1>18. ASSUME NEW p \in Procs, CloseOk(p) PROVE (JobsOK /\ RunningJobHasRunner)'
  <2>1. mine[p] \in Jobs /\ pc[p] = "closeOk" /\ pc' = [pc EXCEPT ![p] = "fire"]
    BY <1>18 DEF CloseOk, CloseJob, LocalsOK, HasJob
  <2>2. UNCHANGED <<rec, mine>>
    BY <1>18 DEF CloseOk, CloseJob
  <2>3. \A k \in Jobs : /\ job'[k].rec = job[k].rec
                       /\ \/ job'[k].status = job[k].status
                          \/ k = mine[p] /\ job'[k].status = "success"
    BY <1>18, <2>1, CloseJobEffect DEF CloseOk
  <2>4. orphan \subseteq orphan'
    BY <1>18 DEF CloseOk, CloseJob
  <2>5. job'[mine[p]].status # "running" \/ mine[p] \in orphan'
    BY <1>18, <2>1, CloseJobEffect DEF CloseOk
  <2>6. JobsOK'
    <3> SUFFICES ASSUME NEW q \in Procs
                 PROVE  /\ pc'[q] \in BeforeJob => mine[q] = None
                        /\ mine[q] # None =>
                             /\ job'[mine[q]].rec = rec[q]
                             /\ job'[mine[q]].status # "unused"
                        /\ mine[q] # None /\ pc'[q] \in AfterClose =>
                             job'[mine[q]].status # "running" \/ mine[q] \in orphan'
      BY <2>2 DEF JobsOK
    <3>1. pc'[q] \in BeforeJob => mine[q] = None
      BY <2>1 DEF JobsOK, BeforeJob
    <3>2. mine[q] # None => job'[mine[q]].rec = rec[q] /\ job'[mine[q]].status # "unused"
      <4> SUFFICES ASSUME mine[q] \in Jobs
                   PROVE  job'[mine[q]].rec = rec[q] /\ job'[mine[q]].status # "unused"
        OBVIOUS
      <4>1. job[mine[q]].rec = rec[q] /\ job[mine[q]].status # "unused"
        BY ConstantsAssumption DEF JobsOK, ConstantsAssumption
      <4>2. QED
        BY <4>1, <2>3
    <3>3. mine[q] # None /\ pc'[q] \in AfterClose =>
            job'[mine[q]].status # "running" \/ mine[q] \in orphan'
      BY <2>1, <2>3, <2>4, <2>5 DEF JobsOK
    <3>4. QED
      BY <3>1, <3>2, <3>3
  <2>7. RunningJobHasRunner'
    <3> SUFFICES ASSUME NEW k \in Jobs \ orphan', job'[k].status = "running"
                 PROVE  \E q \in Holders' : mine'[q] = k /\ rec'[q] = job'[k].rec
      BY DEF RunningJobHasRunner
    <3>1. job[k].status = "running" /\ k \notin orphan
      BY <2>3, <2>4
    <3>2. PICK q \in Holders : mine[q] = k /\ rec[q] = job[k].rec
      BY <3>1 DEF RunningJobHasRunner
    <3>3. QED
      BY <3>2, <2>1, <2>2, <2>3 DEF Holders
  <2>8. QED
    BY <2>6, <2>7
<1>19. ASSUME NEW p \in Procs, FireTasks(p) PROVE (JobsOK /\ RunningJobHasRunner)'
  BY <1>19, JobQuietStep
  DEF JobQuiet, BeforeJob, AfterClose, JobsOK, FireTasks
<1>20. ASSUME NEW p \in Procs, ReadFile(p) PROVE (JobsOK /\ RunningJobHasRunner)'
  BY <1>20, JobQuietStep
  DEF JobQuiet, BeforeJob, AfterClose, JobsOK, ReadFile
<1>21. ASSUME NEW p \in Procs, Deliver(p) PROVE (JobsOK /\ RunningJobHasRunner)'
  BY <1>21, JobQuietStep
  DEF JobQuiet, BeforeJob, AfterClose, JobsOK, Deliver
<1>22. ASSUME NEW r \in Records, DeleteRecord(r) PROVE (JobsOK /\ RunningJobHasRunner)'
  <2>1. UNCHANGED <<pc, rec, mine, orphan>>
    BY <1>22 DEF DeleteRecord
  <2>2. \A k \in Jobs : /\ job'[k].rec = job[k].rec
                       /\ job'[k].status \in {job[k].status, "deleted"}
    BY <1>22 DEF DeleteRecord, JobRow
  <2>3. JobsOK'
    BY <2>1, <2>2 DEF JobsOK
  <2>4. RunningJobHasRunner'
    <3> SUFFICES ASSUME NEW k \in Jobs \ orphan, job'[k].status = "running"
                 PROVE  \E q \in Holders : mine[q] = k /\ rec[q] = job'[k].rec
      BY <2>1 DEF RunningJobHasRunner, Holders
    <3>1. QED
      BY <2>2 DEF RunningJobHasRunner
  <2>5. QED
    BY <2>3, <2>4
<1>23. ASSUME NEW r \in Records, ChangePurpose(r) PROVE (JobsOK /\ RunningJobHasRunner)'
  BY <1>23, JobQuietStep
  DEF JobQuiet, BeforeJob, AfterClose, JobsOK, ChangePurpose
<1>24. ASSUME NEW r \in Records, EnterWindow(r) PROVE (JobsOK /\ RunningJobHasRunner)'
  BY <1>24, JobQuietStep
  DEF JobQuiet, BeforeJob, AfterClose, JobsOK, EnterWindow
<1>25. ASSUME ToggleACME PROVE (JobsOK /\ RunningJobHasRunner)'
  BY <1>25, JobQuietStep
  DEF JobQuiet, BeforeJob, AfterClose, JobsOK, ToggleACME
<1>26. ASSUME Crash PROVE (JobsOK /\ RunningJobHasRunner)'
  <2>1. JobsOK'
    BY <1>26 DEF Crash, JobsOK
  <2>2. RunningJobHasRunner'
    BY <1>26 DEF Crash, RunningJobHasRunner
  <2>3. QED
    BY <2>1, <2>2
<1>27. ASSUME UNCHANGED vars PROVE (JobsOK /\ RunningJobHasRunner)'
  BY <1>27, JobQuietStep
  DEF JobQuiet, BeforeJob, AfterClose, JobsOK, vars
<1>28. ASSUME NEW p \in Procs, FireFail(p) PROVE (JobsOK /\ RunningJobHasRunner)'
  BY <1>28, JobQuietStep
  DEF JobQuiet, BeforeJob, AfterClose, JobsOK, FireFail, Fault
<1>29. QED
  BY <1>1, <1>2, <1>3, <1>4, <1>5, <1>6, <1>7, <1>8, <1>9, <1>10, <1>11, <1>12, <1>13, <1>14,
     <1>15, <1>16, <1>17, <1>18, <1>19, <1>20, <1>21, <1>22, <1>23, <1>24, <1>25, <1>26,
     <1>27, <1>28 DEF Next, Renew, Issue, Environment

JobInv == SlotInv /\ JobsOK /\ RunningJobHasRunner

LEMMA JobInvariant == Spec => []JobInv
<1>1. Init => JobsOK /\ RunningJobHasRunner
  BY ConstantsAssumption DEF Init, JobsOK, RunningJobHasRunner
<1>2. SlotInv /\ JobsOK /\ RunningJobHasRunner /\ [Next]_vars => (JobsOK /\ RunningJobHasRunner)'
  BY JobStep DEF SlotInv
<1>3. QED
  BY <1>1, <1>2, SlotInvariant, PTL DEF Spec, JobInv

\* A job shown as running is run by a goroutine that holds the slot of the job's record,
\* unless a crash or a lost statement kept it from being closed (certificate.go:260-276).
THEOREM RunningJobsAreRun == Spec => []RunningJobHasRunner
BY JobInvariant, PTL DEF JobInv

---------------------------------------------------------------------------
(***************************************************************************)
(* CertIssuance implements IssuancePromise.  The rows matter to it only    *)
(* through their serial, so a missing row must have none.                  *)
(***************************************************************************)
installed == [r \in Records |-> cert[r].serial]

RowsOK == \A r \in Records : cert[r].status = "none" => cert[r].serial = None

\* A step that neither installs a certificate nor removes a row.
KeepsSerials ==
  \A r \in Records : /\ cert'[r].serial = cert[r].serial
                     /\ cert'[r].status = "none" => cert[r].status = "none"

LEMMA KeepsSerialsStep ==
  RowsOK /\ KeepsSerials => RowsOK' /\ UNCHANGED installed
BY DEF RowsOK, KeepsSerials, installed

LEMMA UnchangedRows == UNCHANGED cert => KeepsSerials
BY DEF KeepsSerials

Refines == RowsOK' /\ [Promise!Next]_(Promise!vars)

\* What a step of the promise looks like.
LEMMA PromiseSteps ==
  ASSUME TypeOK, RowsOK'
  PROVE  /\ UNCHANGED <<pending, installed>> => Refines
         /\ (pending' = {} /\ UNCHANGED installed) => Refines
         /\ \A r \in Records :
              /\ (r \notin pending /\ pending' = pending \union {r} /\ UNCHANGED installed)
                   => Refines
              /\ (r \in pending /\ pending' = pending \ {r} /\ UNCHANGED installed)
                   => Refines
              /\ (UNCHANGED pending /\ installed' = [installed EXCEPT ![r] = None])
                   => Refines
              /\ \A j \in Jobs :
                   (r \in pending /\ UNCHANGED pending
                      /\ installed' = [installed EXCEPT ![r] = j])
                     => Refines
BY DEF Refines, installed, Promise!Next, Promise!vars, Promise!Begin, Promise!End,
       Promise!Install, Promise!Drop, Promise!Restart

LEMMA RefinementStep ==
  TypeOK /\ LocalsOK /\ SlotsExact /\ RowsOK /\ [Next]_vars => Refines
<1> SUFFICES ASSUME TypeOK, LocalsOK, SlotsExact, RowsOK, [Next]_vars PROVE Refines
  OBVIOUS
<1>0. UNCHANGED <<pending, cert>> => Refines
  BY UnchangedRows, KeepsSerialsStep, PromiseSteps
<1> USE DEF TypeOK, Serial, Critical, Outside, tables, locals, ghosts, Goto, After
<1>1. ASSUME NEW p \in Procs, NEW r \in Records, StartIssuance(p, r) PROVE Refines
  BY <1>1, <1>0 DEF StartIssuance
<1>2. ASSUME NEW p \in Procs, NEW r \in Records, RenewPick(p, r) PROVE Refines
  BY <1>2, <1>0 DEF RenewPick
<1>3. ASSUME NEW p \in Procs, RenewCertificates(p) PROVE Refines
  BY <1>3, <1>0 DEF RenewCertificates
<1>4. ASSUME NEW p \in Procs, RenewEnd(p) PROVE Refines
  BY <1>4, <1>0 DEF RenewEnd
<1>5. ASSUME NEW p \in Procs, Reserve(p) PROVE Refines
  <2>1. UNCHANGED cert
    BY <1>5 DEF Reserve
  <2>2. CASE Reserved(p)
    <3>1. rec[p] \in Records /\ rec[p] \notin pending /\ pending' = pending \union {rec[p]}
      BY <1>5, <2>2 DEF Reserve, Reserved, LocalsOK, HasRecord
    <3>2. QED
      BY <2>1, <3>1, UnchangedRows, KeepsSerialsStep, PromiseSteps
  <2>3. CASE ~Reserved(p)
    <3>1. UNCHANGED pending
      BY <1>5, <2>3 DEF Reserve
    <3>2. QED
      BY <2>1, <3>1, UnchangedRows, KeepsSerialsStep, PromiseSteps
  <2>4. QED
    BY <2>2, <2>3
<1>6. ASSUME NEW p \in Procs, Release(p) PROVE Refines
  <2>1. UNCHANGED cert /\ pending' = pending \ {rec[p]} /\ p \in Holders /\ rec[p] \in Records
    BY <1>6 DEF Release, Holders, LocalsOK, HasRecord
  <2>2. rec[p] \in pending
    BY <2>1 DEF SlotsExact
  <2>3. QED
    BY <2>1, <2>2, UnchangedRows, KeepsSerialsStep, PromiseSteps
<1>7. ASSUME NEW p \in Procs, Prepare(p) PROVE Refines
  <2>1. /\ UNCHANGED pending
        /\ \/ cert' = cert
           \/ /\ cert[rec[p]].status = "none"
              /\ cert' = [cert EXCEPT ![rec[p]] = PendingRow]
    BY <1>7 DEF Prepare, EnsureRow
  <2>2. KeepsSerials
    BY <2>1 DEF KeepsSerials, RowsOK, PendingRow
  <2>3. QED
    BY <2>1, <2>2, KeepsSerialsStep, PromiseSteps
<1>8. ASSUME NEW p \in Procs, Ensure(p) PROVE Refines
  <2>1. /\ UNCHANGED pending
        /\ \/ cert' = cert
           \/ /\ cert[rec[p]].status = "none"
              /\ cert' = [cert EXCEPT ![rec[p]] = PendingRow]
    BY <1>8 DEF Ensure, EnsureRow
  <2>2. KeepsSerials
    BY <2>1 DEF KeepsSerials, RowsOK, PendingRow
  <2>3. QED
    BY <2>1, <2>2, KeepsSerialsStep, PromiseSteps
<1>9. ASSUME NEW p \in Procs, CreateJob(p) PROVE Refines
  BY <1>9, <1>0 DEF CreateJob, JobsIn
<1>10. ASSUME NEW p \in Procs, ObtainOk(p) PROVE Refines
  BY <1>10, <1>0 DEF ObtainOk
<1>11. ASSUME NEW p \in Procs, ObtainFail(p) PROVE Refines
  BY <1>11, <1>0 DEF ObtainFail
<1>12. ASSUME NEW p \in Procs, WriteFile(p) PROVE Refines
  BY <1>12, <1>0 DEF WriteFile
<1>13. ASSUME NEW p \in Procs, WriteFail(p) PROVE Refines
  BY <1>13, <1>0 DEF WriteFail
<1>14. ASSUME NEW p \in Procs, Persist(p) PROVE Refines
  <2>1. /\ rec[p] \in Records /\ mine[p] \in Jobs /\ p \in Holders
        /\ UNCHANGED pending
    BY <1>14 DEF Persist, LocalsOK, HasRecord, HasJob, Holders
  <2>2. rec[p] \in pending
    BY <2>1 DEF SlotsExact
  <2> DEFINE row == [status |-> "valid", serial |-> mine[p], due |-> FALSE]
  <2>3. CASE cert[rec[p]].status = "none"
    <3>1. cert' = cert
      BY <1>14, <2>3 DEF Persist
    <3>2. QED
      BY <3>1, <2>1, UnchangedRows, KeepsSerialsStep, PromiseSteps
  <2>4. CASE cert[rec[p]].status # "none"
    <3>1. cert' = [cert EXCEPT ![rec[p]] = row]
      BY <1>14, <2>4 DEF Persist
    <3>2. RowsOK'
      BY <3>1 DEF RowsOK
    <3>3. installed' = [installed EXCEPT ![rec[p]] = mine[p]]
      BY <3>1, <2>1 DEF installed
    <3>4. QED
      BY <3>2, <3>3, <2>1, <2>2, PromiseSteps
  <2>5. QED
    BY <2>3, <2>4
<1>15. ASSUME NEW p \in Procs, PersistFail(p) PROVE Refines
  BY <1>15, <1>0 DEF PersistFail
<1>16. ASSUME NEW p \in Procs, MarkFailed(p) PROVE Refines
  <2>1. rec[p] \in Records /\ cert[rec[p]] \in CertRow /\ UNCHANGED pending
    BY <1>16 DEF MarkFailed, LocalsOK, HasRecord
  <2> DEFINE row == [cert[rec[p]] EXCEPT !.status = "failed"]
  <2>2. row.serial = cert[rec[p]].serial /\ row.status = "failed"
    BY <2>1 DEF CertRow
  <2>3. cert' = cert \/ cert' = [cert EXCEPT ![rec[p]] = row]
    BY <1>16, <2>1 DEF MarkFailed, CertRow
  <2>4. KeepsSerials
    <3> HIDE DEF row
    <3>1. \A r \in Records : cert'[r] = cert[r] \/ (r = rec[p] /\ cert'[r] = row)
      BY <2>3
    <3>2. QED
      BY <3>1, <2>2 DEF KeepsSerials
  <2>5. QED
    BY <2>1, <2>4, KeepsSerialsStep, PromiseSteps
<1>17. ASSUME NEW p \in Procs, CloseFailed(p) PROVE Refines
  BY <1>17, <1>0 DEF CloseFailed, CloseJob
<1>18. ASSUME NEW p \in Procs, CloseOk(p) PROVE Refines
  BY <1>18, <1>0 DEF CloseOk, CloseJob
<1>19. ASSUME NEW p \in Procs, FireTasks(p) PROVE Refines
  BY <1>19, <1>0 DEF FireTasks
<1>20. ASSUME NEW p \in Procs, ReadFile(p) PROVE Refines
  BY <1>20, <1>0 DEF ReadFile
<1>21. ASSUME NEW p \in Procs, Deliver(p) PROVE Refines
  BY <1>21, <1>0 DEF Deliver
<1>22. ASSUME NEW p \in Procs, FireFail(p) PROVE Refines
  BY <1>22, <1>0 DEF FireFail
<1>23. ASSUME NEW r \in Records, DeleteRecord(r) PROVE Refines
  <2>1. UNCHANGED pending /\ cert' = [cert EXCEPT ![r] = NoRow]
    BY <1>23 DEF DeleteRecord
  <2>2. RowsOK'
    BY <2>1 DEF RowsOK, NoRow
  <2>3. installed' = [installed EXCEPT ![r] = None]
    BY <2>1 DEF installed, NoRow
  <2>4. QED
    BY <2>1, <2>2, <2>3, PromiseSteps
<1>24. ASSUME NEW r \in Records, ChangePurpose(r) PROVE Refines
  BY <1>24, <1>0 DEF ChangePurpose
<1>25. ASSUME NEW r \in Records, EnterWindow(r) PROVE Refines
  <2>1. cert[r] \in CertRow /\ UNCHANGED pending
    BY <1>25 DEF EnterWindow
  <2> DEFINE row == [cert[r] EXCEPT !.due = TRUE]
  <2>2. row.serial = cert[r].serial /\ row.status = cert[r].status
    BY <2>1 DEF CertRow
  <2>3. cert' = [cert EXCEPT ![r] = row]
    BY <1>25 DEF EnterWindow
  <2>4. KeepsSerials
    <3> HIDE DEF row
    <3>1. QED
      BY <2>2, <2>3 DEF KeepsSerials
  <2>5. QED
    BY <2>1, <2>4, KeepsSerialsStep, PromiseSteps
<1>26. ASSUME ToggleACME PROVE Refines
  BY <1>26, <1>0 DEF ToggleACME
<1>27. ASSUME Crash PROVE Refines
  <2>1. pending' = {} /\ UNCHANGED cert
    BY <1>27 DEF Crash
  <2>2. QED
    BY <2>1, UnchangedRows, KeepsSerialsStep, PromiseSteps
<1>28. ASSUME UNCHANGED vars PROVE Refines
  BY <1>28, <1>0 DEF vars
<1>29. QED
  BY <1>1, <1>2, <1>3, <1>4, <1>5, <1>6, <1>7, <1>8, <1>9, <1>10, <1>11, <1>12, <1>13, <1>14,
     <1>15, <1>16, <1>17, <1>18, <1>19, <1>20, <1>21, <1>22, <1>23, <1>24, <1>25, <1>26,
     <1>27, <1>28 DEF Next, Renew, Issue, Environment

\* Whatever the goroutines, the database and the disk do, the certificate a record serves
\* changes only inside the one issuance of that record, or with the record itself.
THEOREM ImplementsPromise == Spec => PromiseKept
<1>1. Init => RowsOK /\ Promise!Init
  BY DEF Init, RowsOK, NoRow, Promise!Init
<1>2. SlotInv /\ RowsOK /\ [Next]_vars => RowsOK' /\ [Promise!Next]_(Promise!vars)
  BY RefinementStep DEF SlotInv, Refines
<1>3. QED
  BY <1>1, <1>2, SlotInvariant, PTL DEF Spec, PromiseKept, Promise!Spec
=============================================================================
