------------------------- MODULE DdnsRefreshProofs -------------------------
(***************************************************************************)
(* Theorems about DdnsRefresh, for every set of records, addresses and     *)
(* goroutines and every bound.                                             *)
(*                                                                         *)
(* Each of the three properties is about what a goroutine still has in     *)
(* hand while others run: who is inside UpdateAddress, which row its       *)
(* address came from, and whether it has yet to fire the tasks of a        *)
(* record.  Those are the invariants the proofs add.                       *)
(***************************************************************************)
EXTENDS DdnsRefresh, FiniteSetTheorems, TLAPS

---------------------------------------------------------------------------
(* Types *)

TableTypes ==
  /\ public \in Pair
  /\ stored \subseteq Pair /\ current \subseteq stored
  /\ live \subseteq Records
  /\ link \in [Records -> Pair]
  /\ rrset \in [Records -> IPv4s \union {Absent, Foreign}]
  /\ moves \in 0 .. MaxMoves /\ faults \in 0 .. MaxFaults /\ requests \in 0 .. MaxRequests
  /\ silent \subseteq Records /\ lost \subseteq Records /\ onRequest \subseteq Records
  /\ overlapped \in BOOLEAN

LocalTypes ==
  /\ pc \in [Procs -> Steps]
  /\ kind \in [Procs -> Kinds]
  /\ got \in [Procs -> Pair]
  /\ cur \in [Procs -> Pair]
  /\ rec \in [Procs -> Records \union {None}]
  /\ todo \in [Procs -> SUBSET Records]
  /\ found \in [Procs -> BOOLEAN]

\* At the steps of HasRecord a goroutine has a record; inside UpdateAddress only one that was
\* asked for a record has it.  An idle goroutine has forgotten its last request.
Knows(q) ==
  /\ pc[q] = "idle" => kind[q] = "refresh"
  /\ pc[q] \in HasRecord => rec[q] \in Records
  /\ pc[q] \in InUpdateAddress /\ kind[q] \notin {"refresh", "address"} => rec[q] \in Records

LocalsOK == LocalTypes /\ \A q \in Procs : Knows(q)

TypeInv == TableTypes /\ LocalsOK

LEMMA TypeInvIsTypeOK == TypeInv => TypeOK
BY DEF TypeInv, TableTypes, LocalsOK, LocalTypes, Knows, TypeOK

LEMMA UnresolvedIsPair == Unresolved \in Pair /\ Unresolved.v4 = None
BY DEF Unresolved, Pair

LEMMA PairFields ==
  ASSUME NEW row \in Pair PROVE row.v4 \in IPv4s \union {None} /\ row.v6 \in IPv6s \union {None}
BY DEF Pair

\* What moving on, returning and leaving a record do to the locals.
LEMMA GotoLocals ==
  ASSUME LocalsOK, NEW p \in Procs, NEW to \in Steps \ {"idle"}, Goto(p, to),
         to \in HasRecord => rec[p] \in Records,
         to \in InUpdateAddress /\ kind[p] \notin {"refresh", "address"} => rec[p] \in Records
  PROVE  LocalsOK'
<1>1. LocalTypes'
  BY DEF LocalsOK, LocalTypes, Goto
<1>2. \A q \in Procs : Knows(q)'
  BY DEF LocalsOK, LocalTypes, Knows, Goto
<1>3. QED
  BY <1>1, <1>2 DEF LocalsOK

LEMMA ReturnLocals ==
  ASSUME LocalsOK, NEW p \in Procs, Return(p)
  PROVE  LocalsOK'
<1>1. LocalTypes'
  BY UnresolvedIsPair DEF LocalsOK, LocalTypes, Return, Steps, Kinds
<1>2. \A q \in Procs : Knows(q)'
  BY DEF LocalsOK, LocalTypes, Knows, Return, HasRecord, InRecord, InUpdateAddress
<1>3. QED
  BY <1>1, <1>2 DEF LocalsOK

LEMMA LeaveLocals ==
  ASSUME LocalsOK, NEW p \in Procs, Leave(p)
  PROVE  LocalsOK'
<1>1. CASE kind[p] = "refresh"
  <2>1. LocalTypes'
    BY <1>1 DEF LocalsOK, LocalTypes, Leave, Steps
  <2>2. \A q \in Procs : Knows(q)'
    BY <1>1 DEF LocalsOK, LocalTypes, Knows, Leave, HasRecord, InRecord, InUpdateAddress
  <2>3. QED
    BY <2>1, <2>2 DEF LocalsOK
<1>2. CASE kind[p] # "refresh"
  BY <1>2, ReturnLocals DEF Leave
<1>3. QED
  BY <1>1, <1>2

LEMMA ReturnAddressLocals ==
  ASSUME LocalsOK, NEW p \in Procs, pc[p] \in InUpdateAddress, NEW row \in Pair,
         ReturnAddress(p, row)
  PROVE  LocalsOK'
<1>1. CASE kind[p] = "address"
  BY <1>1, ReturnLocals DEF ReturnAddress
<1>2. CASE kind[p] # "address"
  <2>1. LocalTypes'
    BY <1>2 DEF LocalsOK, LocalTypes, ReturnAddress, AfterUpdateAddress, Steps, InRecord
  <2>2. \A q \in Procs : Knows(q)'
    BY <1>2 DEF LocalsOK, LocalTypes, ReturnAddress, AfterUpdateAddress, Knows, HasRecord,
                InRecord, InUpdateAddress
  <2>3. QED
    BY <2>1, <2>2 DEF LocalsOK
<1>3. QED
  BY <1>1, <1>2

LEMMA SameLocals ==
  ASSUME LocalsOK, UNCHANGED <<pc, locals>>
  PROVE  LocalsOK'
BY DEF LocalsOK, LocalTypes, Knows, locals

LEMMA LocalsStep == TypeInv /\ [Next]_vars => LocalsOK'
<1> SUFFICES ASSUME TypeInv, [Next]_vars PROVE LocalsOK'
  OBVIOUS
<1> TableTypes /\ LocalsOK
  BY DEF TypeInv
<1>1. ASSUME NEW p \in Procs, StartRefresh(p) PROVE LocalsOK'
  <2>1. Goto(p, "resolve") /\ kind[p] = "refresh"
    BY <1>1 DEF StartRefresh, At, LocalsOK, Knows
  <2>2. QED
    BY <2>1, GotoLocals DEF Steps, InUpdateAddress, HasRecord, InRecord
<1>2. ASSUME NEW p \in Procs, NEW k \in Kinds \ {"refresh"}, NEW r \in Records \union {None},
             StartRequest(p, k, r)
      PROVE  LocalsOK'
  <2>1. LocalTypes'
    BY <1>2 DEF StartRequest, LocalsOK, LocalTypes, Steps, InUpdateAddress, Kinds
  <2>2. r \in Records \/ k = "address"
    BY <1>2 DEF StartRequest, TableTypes
  <2>3. \A q \in Procs : Knows(q)'
    BY <1>2, <2>2
    DEF StartRequest, LocalsOK, LocalTypes, Knows, HasRecord, InRecord, InUpdateAddress,
                    Kinds
  <2>4. QED
    BY <2>1, <2>3 DEF LocalsOK
<1>3. ASSUME NEW p \in Procs, Resolve(p) PROVE LocalsOK'
  <2>1. CASE Return(p)
    BY <2>1, ReturnLocals
  <2>2. CASE ~Return(p)
    <3>1. LocalTypes'
      BY <1>3, <2>2 DEF Resolve, LocalsOK, LocalTypes, Steps, InUpdateAddress
    <3>2. \A q \in Procs : Knows(q)'
      BY <1>3, <2>2
      DEF Resolve, At, LocalsOK, LocalTypes, Knows, HasRecord, InRecord, InUpdateAddress
    <3>3. QED
      BY <3>1, <3>2 DEF LocalsOK
  <2>3. QED
    BY <2>1, <2>2
<1>4. ASSUME NEW p \in Procs, Select(p) PROVE LocalsOK'
  <2>1. pc[p] \in InUpdateAddress /\ got[p] \in Pair /\ Knows(p)
    BY <1>4 DEF Select, At, InUpdateAddress, LocalsOK, LocalTypes
  <2>2. CASE ReturnAddress(p, got[p])
    BY <2>1, <2>2, ReturnAddressLocals
  <2>3. CASE Goto(p, "reset")
    BY <2>1, <2>3, GotoLocals DEF Knows, Steps, InUpdateAddress, HasRecord, InRecord
  <2>4. QED
    BY <1>4, <2>2, <2>3 DEF Select
<1>5. ASSUME NEW p \in Procs, ResetCurrentAddresses(p) PROVE LocalsOK'
  <2>1. pc[p] \in InUpdateAddress /\ Knows(p)
    BY <1>5 DEF ResetCurrentAddresses, At, InUpdateAddress, LocalsOK
  <2>2. QED
    BY <1>5, <2>1, GotoLocals
    DEF ResetCurrentAddresses, Knows, Steps, InUpdateAddress, HasRecord, InRecord
<1>6. ASSUME NEW p \in Procs, CreateAddress(p) PROVE LocalsOK'
  <2>1. pc[p] \in InUpdateAddress /\ Knows(p)
    BY <1>6 DEF CreateAddress, At, InUpdateAddress, LocalsOK
  <2>2. CASE Goto(p, "reselect")
    BY <2>1, <2>2, GotoLocals DEF Knows, Steps, InUpdateAddress, HasRecord, InRecord
  <2>3. QED
    BY <1>6, <2>2, ReturnLocals DEF CreateAddress
<1>7. ASSUME NEW p \in Procs, Reselect(p) PROVE LocalsOK'
  <2>1. pc[p] \in InUpdateAddress /\ current \subseteq Pair
    BY <1>7 DEF Reselect, At, InUpdateAddress, TableTypes
  <2>2. QED
    BY <1>7, <2>1, ReturnLocals, ReturnAddressLocals DEF Reselect
<1>8. ASSUME NEW p \in Procs, ListRecords(p) PROVE LocalsOK'
  <2>1. LocalTypes'
    BY <1>8 DEF ListRecords, LocalsOK, LocalTypes, Steps, TableTypes
  <2>2. \A q \in Procs : Knows(q)'
    BY <1>8
    DEF ListRecords, LocalsOK, LocalTypes, Knows, HasRecord, InRecord, InUpdateAddress
  <2>3. QED
    BY <2>1, <2>2 DEF LocalsOK
<1>9. ASSUME NEW p \in Procs, EndRefresh(p) PROVE LocalsOK'
  BY <1>9, ReturnLocals DEF EndRefresh
<1>10. ASSUME NEW p \in Procs, NEW r \in Records, PickRecord(p, r) PROVE LocalsOK'
  <2>1. LocalTypes'
    BY <1>10 DEF PickRecord, LocalsOK, LocalTypes, Steps, InRecord
  <2>2. \A q \in Procs : Knows(q)'
    BY <1>10
    DEF PickRecord, At, LocalsOK, LocalTypes, Knows, HasRecord, InRecord, InUpdateAddress
  <2>3. QED
    BY <2>1, <2>2 DEF LocalsOK
<1>11. ASSUME NEW p \in Procs, LoadCurrent(p) PROVE LocalsOK'
  <2>1. CASE Return(p)
    BY <2>1, ReturnLocals
  <2>2. CASE ~Return(p)
    <3>1. LocalTypes'
      BY <1>11, <2>2 DEF LoadCurrent, LocalsOK, LocalTypes, Steps, InRecord, TableTypes
    <3>2. \A q \in Procs : Knows(q)'
      BY <1>11, <2>2
      DEF LoadCurrent, At, LocalsOK, LocalTypes, Knows, HasRecord, InRecord, InUpdateAddress
    <3>3. QED
      BY <3>1, <3>2 DEF LocalsOK
  <2>3. QED
    BY <2>1, <2>2
<1>12. ASSUME NEW p \in Procs, FetchRecord(p) PROVE LocalsOK'
  <2>1. Knows(p) /\ pc[p] \in HasRecord
    BY <1>12 DEF FetchRecord, At, LocalsOK, HasRecord, InRecord
  <2>2. CASE Goto(p, "find")
    BY <2>1, <2>2, GotoLocals DEF Knows, Steps, InUpdateAddress, HasRecord, InRecord
  <2>3. QED
    BY <1>12, <2>2, LeaveLocals DEF FetchRecord
<1>13. ASSUME NEW p \in Procs, FindRRSet(p) PROVE LocalsOK'
  <2>1. CASE Leave(p)
    BY <2>1, LeaveLocals
  <2>2. CASE ~Leave(p)
    <3>1. LocalTypes'
      BY <1>13, <2>2 DEF FindRRSet, LocalsOK, LocalTypes, Steps, InRecord
    <3>2. \A q \in Procs : Knows(q)'
      BY <1>13, <2>2
      DEF FindRRSet, At, LocalsOK, LocalTypes, Knows, HasRecord, InRecord, InUpdateAddress
    <3>3. QED
      BY <3>1, <3>2 DEF LocalsOK
  <2>3. QED
    BY <2>1, <2>2
<1>14. ASSUME NEW p \in Procs, PutRRSet(p) PROVE LocalsOK'
  <2>1. Knows(p) /\ pc[p] \in HasRecord
    BY <1>14 DEF PutRRSet, At, LocalsOK, HasRecord, InRecord
  <2>2. CASE Goto(p, "save")
    BY <2>1, <2>2, GotoLocals DEF Knows, Steps, InUpdateAddress, HasRecord, InRecord
  <2>3. QED
    BY <1>14, <2>2, LeaveLocals DEF PutRRSet
<1>15. ASSUME NEW p \in Procs, SaveLink(p) PROVE LocalsOK'
  <2>1. Knows(p) /\ pc[p] \in HasRecord
    BY <1>15 DEF SaveLink, At, LocalsOK, HasRecord, InRecord
  <2>2. CASE Goto(p, "fire")
    BY <2>1, <2>2, GotoLocals DEF Knows, Steps, InUpdateAddress, HasRecord, InRecord
  <2>3. QED
    BY <1>15, <2>2, LeaveLocals DEF SaveLink
<1>16. ASSUME NEW p \in Procs, FireTasks(p) PROVE LocalsOK'
  BY <1>16, LeaveLocals DEF FireTasks
<1>17. ASSUME NEW p \in Procs, LookupRRSet(p) PROVE LocalsOK'
  <2>1. Knows(p) /\ pc[p] \in HasRecord
    BY <1>17 DEF LookupRRSet, At, LocalsOK, HasRecord
  <2>2. CASE Goto(p, "drop")
    BY <2>1, <2>2, GotoLocals DEF Knows, Steps, InUpdateAddress, HasRecord, InRecord
  <2>3. QED
    BY <1>17, <2>2, ReturnLocals DEF LookupRRSet
<1>18. ASSUME NEW p \in Procs, DropRRSet(p) PROVE LocalsOK'
  <2>1. Knows(p) /\ pc[p] \in HasRecord
    BY <1>18 DEF DropRRSet, At, LocalsOK, HasRecord
  <2>2. CASE Goto(p, "erase")
    BY <2>1, <2>2, GotoLocals DEF Knows, Steps, InUpdateAddress, HasRecord, InRecord
  <2>3. QED
    BY <1>18, <2>2, ReturnLocals DEF DropRRSet
<1>19. ASSUME NEW p \in Procs, EraseRecord(p) PROVE LocalsOK'
  BY <1>19, ReturnLocals DEF EraseRecord
<1>20. ASSUME AddressChanges PROVE LocalsOK'
  BY <1>20, SameLocals DEF AddressChanges
<1>21. ASSUME NEW r \in Records, ForeignEdit(r) PROVE LocalsOK'
  BY <1>21, SameLocals DEF ForeignEdit
<1>22. ASSUME Restart PROVE LocalsOK'
  <2>1. LocalTypes'
    BY <1>22, UnresolvedIsPair DEF Restart, LocalTypes, Steps, Kinds
  <2>2. \A q \in Procs : Knows(q)'
    BY <1>22 DEF Restart, Knows, HasRecord, InRecord, InUpdateAddress
  <2>3. QED
    BY <2>1, <2>2 DEF LocalsOK
<1>23. ASSUME UNCHANGED vars PROVE LocalsOK'
  BY <1>23, SameLocals DEF vars, locals
<1>24. QED
  BY <1>1, <1>2, <1>3, <1>4, <1>5, <1>6, <1>7, <1>8, <1>9, <1>10, <1>11, <1>12, <1>13,
     <1>14,
       <1>15, <1>16, <1>17, <1>18, <1>19, <1>20, <1>21, <1>22, <1>23
     DEF Next, Step

LEMMA FaultBound == ASSUME TableTypes, Fault PROVE faults' \in 0 .. MaxFaults
BY ConstantsAssumption DEF TableTypes, Fault, ConstantsAssumption

LEMMA TablesStep == TypeInv /\ [Next]_vars => TableTypes'
<1> SUFFICES ASSUME TypeInv, [Next]_vars PROVE TableTypes'
  OBVIOUS
<1> TableTypes /\ LocalsOK
  BY DEF TypeInv
<1>1. ASSUME NEW p \in Procs, StartRefresh(p) PROVE TableTypes'
  BY <1>1 DEF StartRefresh, TableTypes, tables, history
<1>2. ASSUME NEW p \in Procs, NEW k \in Kinds \ {"refresh"}, NEW r \in Records \union {None},
             StartRequest(p, k, r)
      PROVE  TableTypes'
  BY <1>2, ConstantsAssumption DEF StartRequest, TableTypes, tables, ConstantsAssumption
<1>3. ASSUME NEW p \in Procs, Resolve(p) PROVE TableTypes'
  BY <1>3, FaultBound DEF Resolve, TableTypes, tables, history
<1>4. ASSUME NEW p \in Procs, Select(p) PROVE TableTypes'
  BY <1>4 DEF Select, TableTypes, tables, history
<1>5. ASSUME NEW p \in Procs, ResetCurrentAddresses(p) PROVE TableTypes'
  BY <1>5 DEF ResetCurrentAddresses, TableTypes, tables, history
<1>6. ASSUME NEW p \in Procs, CreateAddress(p) PROVE TableTypes'
  <2>1. got[p] \in Pair
    BY DEF LocalsOK, LocalTypes
  <2>2. QED
    BY <1>6, <2>1, FaultBound DEF CreateAddress, TableTypes, history
<1>7. ASSUME NEW p \in Procs, Reselect(p) PROVE TableTypes'
  BY <1>7 DEF Reselect, TableTypes, tables, history
<1>8. ASSUME NEW p \in Procs, ListRecords(p) PROVE TableTypes'
  BY <1>8 DEF ListRecords, TableTypes, tables, history
<1>9. ASSUME NEW p \in Procs, EndRefresh(p) PROVE TableTypes'
  BY <1>9 DEF EndRefresh, TableTypes, tables, history
<1>10. ASSUME NEW p \in Procs, NEW r \in Records, PickRecord(p, r) PROVE TableTypes'
  BY <1>10 DEF PickRecord, TableTypes, tables, history
<1>11. ASSUME NEW p \in Procs, LoadCurrent(p) PROVE TableTypes'
  BY <1>11 DEF LoadCurrent, TableTypes, tables, history
<1>12. ASSUME NEW p \in Procs, FetchRecord(p) PROVE TableTypes'
  BY <1>12, FaultBound DEF FetchRecord, TableTypes, tables, history
<1>13. ASSUME NEW p \in Procs, FindRRSet(p) PROVE TableTypes'
  BY <1>13, FaultBound DEF FindRRSet, TableTypes, tables, history
<1>14. ASSUME NEW p \in Procs, PutRRSet(p) PROVE TableTypes'
  <2>1. rec[p] \in Records /\ cur[p] \in Pair
    BY <1>14 DEF PutRRSet, At, LocalsOK, LocalTypes, Knows, HasRecord, InRecord
  <2>2. Accepted(p) => IPv4Of(p) \in IPv4s
    BY <2>1, PairFields DEF Accepted, IPv4Of
  <2>3. rrset' \in [Records -> IPv4s \union {Absent, Foreign}]
    BY <1>14, <2>2 DEF PutRRSet, TableTypes
  <2>4. faults' \in 0 .. MaxFaults
    BY <1>14, FaultBound DEF PutRRSet, TableTypes
  <2>5. silent' \subseteq Records /\ lost' \subseteq Records /\ onRequest' \subseteq Records
    BY <1>14, <2>1 DEF PutRRSet, TableTypes
  <2>6. QED
    BY <1>14, <2>3, <2>4, <2>5 DEF PutRRSet, TableTypes, tables
<1>15. ASSUME NEW p \in Procs, SaveLink(p) PROVE TableTypes'
  <2>1. rec[p] \in Records /\ cur[p] \in Pair
    BY <1>15 DEF SaveLink, At, LocalsOK, LocalTypes, Knows, HasRecord, InRecord
  <2>2. link' \in [Records -> Pair]
    BY <1>15, <2>1, UnresolvedIsPair DEF SaveLink, TableTypes
  <2>3. faults' \in 0 .. MaxFaults /\ lost' \subseteq Records
    BY <1>15, <2>1, FaultBound DEF SaveLink, TableTypes
  <2>4. QED
    BY <1>15, <2>2, <2>3 DEF SaveLink, TableTypes
<1>16. ASSUME NEW p \in Procs, FireTasks(p) PROVE TableTypes'
  BY <1>16 DEF FireTasks, TableTypes, tables, history
<1>17. ASSUME NEW p \in Procs, LookupRRSet(p) PROVE TableTypes'
  BY <1>17, FaultBound DEF LookupRRSet, TableTypes, tables, history
<1>18. ASSUME NEW p \in Procs, DropRRSet(p) PROVE TableTypes'
  BY <1>18 DEF DropRRSet, TableTypes, tables, history
<1>19. ASSUME NEW p \in Procs, EraseRecord(p) PROVE TableTypes'
  BY <1>19, UnresolvedIsPair DEF EraseRecord, TableTypes, history
<1>20. ASSUME AddressChanges PROVE TableTypes'
  <2>1. PICK ip \in IPv4s : public' = [public EXCEPT !.v4 = ip]
    BY <1>20 DEF AddressChanges
  <2>2. public' \in Pair
    BY <2>1 DEF TableTypes, Pair
  <2>3. QED
    BY <1>20, <2>2, ConstantsAssumption
    DEF AddressChanges, Move, TableTypes, tables, history, ConstantsAssumption
<1>21. ASSUME NEW r \in Records, ForeignEdit(r) PROVE TableTypes'
  BY <1>21, ConstantsAssumption
  DEF ForeignEdit, Move, TableTypes, tables, history, ConstantsAssumption
<1>22. ASSUME Restart PROVE TableTypes'
  <2>1. \A q \in Procs : pc[q] \in {"save", "fire"} => rec[q] \in Records
    BY DEF LocalsOK, Knows, HasRecord, InRecord
  <2>2. lost' \subseteq Records
    BY <1>22, <2>1 DEF Restart, TableTypes
  <2>3. QED
    BY <1>22, <2>2, FaultBound DEF Restart, TableTypes, tables
<1>23. ASSUME UNCHANGED vars PROVE TableTypes'
  BY <1>23 DEF vars, TableTypes, tables, history
<1>24. QED
  BY <1>1, <1>2, <1>3, <1>4, <1>5, <1>6, <1>7, <1>8, <1>9, <1>10, <1>11, <1>12, <1>13,
     <1>14,
       <1>15, <1>16, <1>17, <1>18, <1>19, <1>20, <1>21, <1>22, <1>23
     DEF Next, Step

LEMMA TypeInit == Init => TypeInv
<1> SUFFICES ASSUME Init PROVE TypeInv
  OBVIOUS
<1>1. TableTypes
  <2>1. public \in Pair
    BY DEF Init, Pair
  <2>2. link \in [Records -> Pair] /\ rrset \in [Records -> IPv4s \union {Absent, Foreign}]
    BY UnresolvedIsPair DEF Init
  <2>3. moves \in 0 .. MaxMoves /\ faults \in 0 .. MaxFaults /\ requests \in 0 .. MaxRequests
    BY ConstantsAssumption DEF Init, ConstantsAssumption
  <2>4. QED
    BY <2>1, <2>2, <2>3 DEF Init, TableTypes
<1>2. LocalTypes
  BY UnresolvedIsPair DEF Init, LocalTypes, Steps, Kinds
<1>3. \A q \in Procs : Knows(q)
  BY DEF Init, Knows, HasRecord, InRecord, InUpdateAddress
<1>4. QED
  BY <1>1, <1>2, <1>3 DEF TypeInv, LocalsOK

LEMMA TypeStep == TypeInv /\ [Next]_vars => TypeInv'
BY LocalsStep, TablesStep DEF TypeInv

LEMMA TypeInvariant == Spec => []TypeInv
BY TypeInit, TypeStep, PTL DEF Spec

\* Every row, local and counter of the refresh keeps its type: a record a goroutine works
\* on is a row's id, an RRset is never set to NULL, and the current rows are stored rows.
THEOREM TypeCorrect == Spec => []TypeOK
BY TypeInvariant, TypeInvIsTypeOK, PTL

---------------------------------------------------------------------------
(* One current address *)

\* Without overlapping calls one goroutine is inside UpdateAddress, it inserts a row only
\* after its reset, and nobody else can add a current row in between.
AddressOK ==
  ~overlapped =>
    /\ \A p, q \in Procs : pc[p] \in InUpdateAddress /\ pc[q] \in InUpdateAddress => p = q
    /\ \A p \in Procs : pc[p] = "create" => current = {}
    /\ \A a, b \in current : a = b

\* A step that changes no row and brings nobody into UpdateAddress or to its insert.
AddressQuiet ==
  /\ current' = current /\ overlapped' = overlapped
  /\ \A q \in Procs : /\ pc'[q] \in InUpdateAddress => pc[q] \in InUpdateAddress
                      /\ pc'[q] = "create" => pc[q] = "create"

LEMMA AddressQuietStep == AddressOK /\ AddressQuiet => AddressOK'
BY DEF AddressOK, AddressQuiet

LEMMA AddressStep == TypeInv /\ AddressOK /\ [Next]_vars => AddressOK'
<1> SUFFICES ASSUME TypeInv, AddressOK, [Next]_vars PROVE AddressOK'
  OBVIOUS
<1> TableTypes /\ LocalTypes
  BY DEF TypeInv, LocalsOK
<1> USE DEF TableTypes, LocalTypes, tables, history, InUpdateAddress, InRecord
<1>1. ASSUME NEW p \in Procs, StartRefresh(p) PROVE AddressOK'
  BY <1>1 DEF AddressOK, StartRefresh, Goto
<1>2. ASSUME NEW p \in Procs, NEW k \in Kinds \ {"refresh"}, NEW r \in Records \union {None},
             StartRequest(p, k, r)
      PROVE  AddressOK'
  BY <1>2 DEF AddressOK, StartRequest, Kinds
<1>3. ASSUME NEW p \in Procs, Resolve(p) PROVE AddressOK'
  BY <1>3, AddressQuietStep DEF AddressQuiet, Resolve, At, Return
<1>4. ASSUME NEW p \in Procs, Select(p) PROVE AddressOK'
  BY <1>4, AddressQuietStep
  DEF AddressQuiet, Select, At, Goto, ReturnAddress, AfterUpdateAddress, Return
<1>5. ASSUME NEW p \in Procs, ResetCurrentAddresses(p) PROVE AddressOK'
  BY <1>5 DEF AddressOK, ResetCurrentAddresses, At, Goto
<1>6. ASSUME NEW p \in Procs, CreateAddress(p) PROVE AddressOK'
  <2>1. CASE current' = current
    <3>1. AddressQuiet
      BY <1>6, <2>1 DEF AddressQuiet, CreateAddress, At, Goto, Return
    <3>2. QED
      BY <3>1, AddressQuietStep
  <2>2. CASE current' # current
    <3>1. /\ pc[p] = "create" /\ pc' = [pc EXCEPT ![p] = "reselect"]
          /\ current' = current \union {got[p]} /\ overlapped' = overlapped
      BY <1>6, <2>2 DEF CreateAddress, At, Goto
    <3>2. QED
      BY <3>1 DEF AddressOK
  <2>3. QED
    BY <2>1, <2>2
<1>7. ASSUME NEW p \in Procs, Reselect(p) PROVE AddressOK'
  BY <1>7, AddressQuietStep
  DEF AddressQuiet, Reselect, At, ReturnAddress, AfterUpdateAddress, Return
<1>8. ASSUME NEW p \in Procs, ListRecords(p) PROVE AddressOK'
  BY <1>8, AddressQuietStep DEF AddressQuiet, ListRecords, At
<1>9. ASSUME NEW p \in Procs, EndRefresh(p) PROVE AddressOK'
  BY <1>9, AddressQuietStep DEF AddressQuiet, EndRefresh, At, Return
<1>10. ASSUME NEW p \in Procs, NEW r \in Records, PickRecord(p, r) PROVE AddressOK'
  BY <1>10, AddressQuietStep DEF AddressQuiet, PickRecord, At
<1>11. ASSUME NEW p \in Procs, LoadCurrent(p) PROVE AddressOK'
  BY <1>11, AddressQuietStep DEF AddressQuiet, LoadCurrent, At, Return
<1>12. ASSUME NEW p \in Procs, FetchRecord(p) PROVE AddressOK'
  BY <1>12, AddressQuietStep DEF AddressQuiet, FetchRecord, At, Goto, Leave, Return
<1>13. ASSUME NEW p \in Procs, FindRRSet(p) PROVE AddressOK'
  BY <1>13, AddressQuietStep DEF AddressQuiet, FindRRSet, At, Leave, Return
<1>14. ASSUME NEW p \in Procs, PutRRSet(p) PROVE AddressOK'
  BY <1>14, AddressQuietStep DEF AddressQuiet, PutRRSet, At, Goto, Leave, Return
<1>15. ASSUME NEW p \in Procs, SaveLink(p) PROVE AddressOK'
  BY <1>15, AddressQuietStep DEF AddressQuiet, SaveLink, At, Goto, Leave, Return
<1>16. ASSUME NEW p \in Procs, FireTasks(p) PROVE AddressOK'
  BY <1>16, AddressQuietStep DEF AddressQuiet, FireTasks, At, Leave, Return
<1>17. ASSUME NEW p \in Procs, LookupRRSet(p) PROVE AddressOK'
  BY <1>17, AddressQuietStep DEF AddressQuiet, LookupRRSet, At, Goto, Return
<1>18. ASSUME NEW p \in Procs, DropRRSet(p) PROVE AddressOK'
  BY <1>18, AddressQuietStep DEF AddressQuiet, DropRRSet, At, Goto, Return
<1>19. ASSUME NEW p \in Procs, EraseRecord(p) PROVE AddressOK'
  BY <1>19, AddressQuietStep DEF AddressQuiet, EraseRecord, At, Return
<1>20. ASSUME AddressChanges PROVE AddressOK'
  BY <1>20, AddressQuietStep DEF AddressQuiet, AddressChanges, locals
<1>21. ASSUME NEW r \in Records, ForeignEdit(r) PROVE AddressOK'
  BY <1>21, AddressQuietStep DEF AddressQuiet, ForeignEdit, locals
<1>22. ASSUME Restart PROVE AddressOK'
  BY <1>22, AddressQuietStep DEF AddressQuiet, Restart
<1>23. ASSUME UNCHANGED vars PROVE AddressOK'
  BY <1>23, AddressQuietStep DEF AddressQuiet, vars, locals
<1>24. QED
  BY <1>1, <1>2, <1>3, <1>4, <1>5, <1>6, <1>7, <1>8, <1>9, <1>10, <1>11, <1>12, <1>13,
     <1>14,
       <1>15, <1>16, <1>17, <1>18, <1>19, <1>20, <1>21, <1>22, <1>23
     DEF Next, Step

LEMMA AddressInvariant == Spec => [](TypeInv /\ AddressOK)
<1>1. Init => TypeInv /\ AddressOK
  BY TypeInit DEF Init, AddressOK, InUpdateAddress
<1>2. TypeInv /\ AddressOK /\ [Next]_vars => (TypeInv /\ AddressOK)'
  BY TypeStep, AddressStep
<1>3. QED
  BY <1>1, <1>2, PTL DEF Spec

LEMMA OneAtMost == AddressOK => OneCurrentAddress
<1> SUFFICES ASSUME AddressOK, ~overlapped PROVE Cardinality(current) <= 1
  BY DEF OneCurrentAddress
<1>1. CASE current = {}
  BY <1>1, FS_EmptySet
<1>2. ASSUME NEW a \in current PROVE Cardinality(current) <= 1
  <2>1. current = {a}
    BY <1>2 DEF AddressOK
  <2>2. QED
    BY <2>1, FS_Singleton
<1>3. QED
  BY <1>1, <1>2

\* UpdateAddress leaves at most one row current, so that GetCurrentAddress has one to
\* choose, whatever fails or restarts between the reset and the insert, as long as no two
\* calls of UpdateAddress overlap.
THEOREM OneCurrent == Spec => []OneCurrentAddress
BY AddressInvariant, OneAtMost, PTL

---------------------------------------------------------------------------
(* What is published is stored *)

\* The steps at which a goroutine uses the row that UpdateAddress or GetCurrentAddress gave it.
UsesRow == {"list", "pick"} \union InRecord

\* It is a row of the table, which only grows, and where the link is saved it has an IPv4:
\* Hetzner has refused a value without one.
RowsOK ==
  \A q \in Procs :
    /\ pc[q] \in UsesRow => cur[q] \in stored
    /\ pc[q] = "save" => cur[q].v4 # None

PublishedOK == RowsOK /\ PublishedIsStored

\* A step that publishes nothing and keeps or forgets the rows in use.
PublishedQuiet ==
  /\ stored \subseteq stored' /\ rrset' = rrset /\ link' = link
  /\ \A q \in Procs : /\ pc'[q] \in UsesRow => pc[q] \in UsesRow /\ cur'[q] = cur[q]
                      /\ pc'[q] = "save" => pc[q] = "save"

LEMMA PublishedQuietStep == PublishedOK /\ PublishedQuiet => PublishedOK'
<1> SUFFICES ASSUME PublishedOK, PublishedQuiet PROVE PublishedOK'
  OBVIOUS
<1>1. RowsOK'
  BY DEF PublishedOK, PublishedQuiet, RowsOK, UsesRow, InRecord
<1>2. PublishedIsStored'
  BY DEF PublishedOK, PublishedQuiet, PublishedIsStored
<1>3. QED
  BY <1>1, <1>2 DEF PublishedOK

LEMMA PublishedStep == TypeInv /\ PublishedOK /\ [Next]_vars => PublishedOK'
<1> SUFFICES ASSUME TypeInv, PublishedOK, [Next]_vars PROVE PublishedOK'
  OBVIOUS
<1> TableTypes /\ LocalTypes
  BY DEF TypeInv, LocalsOK
<1> USE DEF TableTypes, LocalTypes, tables, history, UsesRow, InRecord
<1>1. ASSUME NEW p \in Procs, StartRefresh(p) PROVE PublishedOK'
  BY <1>1, PublishedQuietStep DEF PublishedQuiet, StartRefresh, Goto, At
<1>2. ASSUME NEW p \in Procs, NEW k \in Kinds \ {"refresh"}, NEW r \in Records \union {None},
             StartRequest(p, k, r)
      PROVE  PublishedOK'
  BY <1>2, PublishedQuietStep DEF PublishedQuiet, StartRequest, At, Kinds
<1>3. ASSUME NEW p \in Procs, Resolve(p) PROVE PublishedOK'
  BY <1>3, PublishedQuietStep DEF PublishedQuiet, Resolve, At, Return
<1>4. ASSUME NEW p \in Procs, Select(p) PROVE PublishedOK'
  <2>1. current \subseteq stored /\ stored' = stored /\ rrset' = rrset /\ link' = link
    BY <1>4 DEF Select
  <2>2. RowsOK'
    BY <1>4, <2>1
    DEF PublishedOK, RowsOK, Select, At, Goto, ReturnAddress, AfterUpdateAddress, Return
  <2>3. PublishedIsStored'
    BY <2>1 DEF PublishedOK, PublishedIsStored
  <2>4. QED
    BY <2>2, <2>3 DEF PublishedOK
<1>5. ASSUME NEW p \in Procs, ResetCurrentAddresses(p) PROVE PublishedOK'
  BY <1>5, PublishedQuietStep DEF PublishedQuiet, ResetCurrentAddresses, At, Goto
<1>6. ASSUME NEW p \in Procs, CreateAddress(p) PROVE PublishedOK'
  BY <1>6, PublishedQuietStep DEF PublishedQuiet, CreateAddress, At, Goto, Return
<1>7. ASSUME NEW p \in Procs, Reselect(p) PROVE PublishedOK'
  <2>1. current \subseteq stored /\ stored' = stored /\ rrset' = rrset /\ link' = link
    BY <1>7 DEF Reselect
  <2>2. RowsOK'
    BY <1>7, <2>1
    DEF PublishedOK, RowsOK, Reselect, At, ReturnAddress, AfterUpdateAddress, Return
  <2>3. PublishedIsStored'
    BY <2>1 DEF PublishedOK, PublishedIsStored
  <2>4. QED
    BY <2>2, <2>3 DEF PublishedOK
<1>8. ASSUME NEW p \in Procs, ListRecords(p) PROVE PublishedOK'
  BY <1>8, PublishedQuietStep DEF PublishedQuiet, ListRecords, At
<1>9. ASSUME NEW p \in Procs, EndRefresh(p) PROVE PublishedOK'
  BY <1>9, PublishedQuietStep DEF PublishedQuiet, EndRefresh, At, Return
<1>10. ASSUME NEW p \in Procs, NEW r \in Records, PickRecord(p, r) PROVE PublishedOK'
  BY <1>10, PublishedQuietStep DEF PublishedQuiet, PickRecord, At
<1>11. ASSUME NEW p \in Procs, LoadCurrent(p) PROVE PublishedOK'
  <2>1. current \subseteq stored /\ stored' = stored /\ rrset' = rrset /\ link' = link
    BY <1>11 DEF LoadCurrent
  <2>2. RowsOK'
    BY <1>11, <2>1 DEF PublishedOK, RowsOK, LoadCurrent, At, Return
  <2>3. PublishedIsStored'
    BY <2>1 DEF PublishedOK, PublishedIsStored
  <2>4. QED
    BY <2>2, <2>3 DEF PublishedOK
<1>12. ASSUME NEW p \in Procs, FetchRecord(p) PROVE PublishedOK'
  BY <1>12, PublishedQuietStep DEF PublishedQuiet, FetchRecord, At, Goto, Leave, Return
<1>13. ASSUME NEW p \in Procs, FindRRSet(p) PROVE PublishedOK'
  BY <1>13, PublishedQuietStep DEF PublishedQuiet, FindRRSet, At, Leave, Return
<1>14. ASSUME NEW p \in Procs, PutRRSet(p) PROVE PublishedOK'
  <2>1. /\ pc[p] = "put" /\ rec[p] \in Records /\ cur[p] \in stored /\ stored' = stored
        /\ link' = link
    BY <1>14 DEF PutRRSet, At, PublishedOK, RowsOK, TypeInv, LocalsOK, Knows, HasRecord
  <2>2. RowsOK'
    BY <1>14, <2>1 DEF PublishedOK, RowsOK, PutRRSet, Accepted, IPv4Of, Goto, Leave, Return
  <2>3. rrset' = rrset \/ rrset' = [rrset EXCEPT ![rec[p]] = cur[p].v4]
    BY <1>14 DEF PutRRSet, IPv4Of
  <2>4. PublishedIsStored'
    <3>1. ASSUME NEW r \in Records
          PROVE  rrset'[r] \in {Absent, Foreign} \union {row.v4 : row \in stored}
      BY <2>1, <2>3 DEF PublishedOK, PublishedIsStored
    <3>2. QED
      BY <2>1, <3>1 DEF PublishedOK, PublishedIsStored
  <2>5. QED
    BY <2>2, <2>4 DEF PublishedOK
<1>15. ASSUME NEW p \in Procs, SaveLink(p) PROVE PublishedOK'
  <2>1. /\ pc[p] = "save" /\ rec[p] \in Records /\ cur[p] \in stored /\ cur[p].v4 # None
        /\ stored' = stored /\ rrset' = rrset
    BY <1>15 DEF SaveLink, At, PublishedOK, RowsOK, TypeInv, LocalsOK, Knows, HasRecord
  <2>2. RowsOK'
    BY <1>15, <2>1 DEF PublishedOK, RowsOK, SaveLink, Goto, Leave, Return
  <2>3. link' = link \/ link' = [link EXCEPT ![rec[p]] = cur[p]]
                     \/ link' = [link EXCEPT ![rec[p]] = Unresolved]
    BY <1>15 DEF SaveLink
  <2>4. PublishedIsStored'
    <3>1. ASSUME NEW r \in Records, link'[r] # Unresolved
          PROVE  link'[r].v4 # None /\ link'[r] \in stored
      BY <2>1, <2>3, <3>1 DEF PublishedOK, PublishedIsStored
    <3>2. QED
      BY <2>1, <3>1 DEF PublishedOK, PublishedIsStored
  <2>5. QED
    BY <2>2, <2>4 DEF PublishedOK
<1>16. ASSUME NEW p \in Procs, FireTasks(p) PROVE PublishedOK'
  BY <1>16, PublishedQuietStep DEF PublishedQuiet, FireTasks, At, Leave, Return
<1>17. ASSUME NEW p \in Procs, LookupRRSet(p) PROVE PublishedOK'
  BY <1>17, PublishedQuietStep DEF PublishedQuiet, LookupRRSet, At, Goto, Return
<1>18. ASSUME NEW p \in Procs, DropRRSet(p) PROVE PublishedOK'
  <2>1. /\ stored' = stored /\ link' = link
        /\ rrset' = rrset \/ rrset' = [rrset EXCEPT ![rec[p]] = Absent]
    BY <1>18 DEF DropRRSet
  <2>2. RowsOK'
    BY <1>18, <2>1 DEF PublishedOK, RowsOK, DropRRSet, At, Goto, Return
  <2>3. PublishedIsStored'
    <3>1. \A r \in Records : rrset'[r] \in {rrset[r], Absent}
      BY <2>1
    <3>2. QED
      BY <2>1, <3>1 DEF PublishedOK, PublishedIsStored
  <2>4. QED
    BY <2>2, <2>3 DEF PublishedOK
<1>19. ASSUME NEW p \in Procs, EraseRecord(p) PROVE PublishedOK'
  <2>1. stored' = stored /\ rrset' = rrset /\ link' = [link EXCEPT ![rec[p]] = Unresolved]
    BY <1>19 DEF EraseRecord
  <2>2. RowsOK'
    BY <1>19, <2>1 DEF PublishedOK, RowsOK, EraseRecord, At, Return
  <2>3. PublishedIsStored'
    <3>1. \A r \in Records : link'[r] \in {link[r], Unresolved}
      BY <2>1
    <3>2. QED
      BY <2>1, <3>1 DEF PublishedOK, PublishedIsStored
  <2>4. QED
    BY <2>2, <2>3 DEF PublishedOK
<1>20. ASSUME AddressChanges PROVE PublishedOK'
  BY <1>20, PublishedQuietStep DEF PublishedQuiet, AddressChanges, locals
<1>21. ASSUME NEW r \in Records, ForeignEdit(r) PROVE PublishedOK'
  <2>1. UNCHANGED <<stored, link, pc, cur>> /\ rrset' = [rrset EXCEPT ![r] = Foreign]
    BY <1>21 DEF ForeignEdit, locals
  <2>2. RowsOK'
    BY <2>1 DEF PublishedOK, RowsOK
  <2>3. PublishedIsStored'
    <3>1. \A s \in Records : rrset'[s] \in {rrset[s], Foreign}
      BY <2>1
    <3>2. QED
      BY <2>1, <3>1 DEF PublishedOK, PublishedIsStored
  <2>4. QED
    BY <2>2, <2>3 DEF PublishedOK
<1>22. ASSUME Restart PROVE PublishedOK'
  BY <1>22, PublishedQuietStep DEF PublishedQuiet, Restart
<1>23. ASSUME UNCHANGED vars PROVE PublishedOK'
  BY <1>23, PublishedQuietStep DEF PublishedQuiet, vars, locals
<1>24. QED
  BY <1>1, <1>2, <1>3, <1>4, <1>5, <1>6, <1>7, <1>8, <1>9, <1>10, <1>11, <1>12, <1>13,
     <1>14,
       <1>15, <1>16, <1>17, <1>18, <1>19, <1>20, <1>21, <1>22, <1>23
     DEF Next, Step

LEMMA PublishedInit == Init => PublishedOK
BY DEF Init, PublishedOK, RowsOK, PublishedIsStored, UsesRow, InRecord

\* No RRset ever holds a value that is not the IPv4 of a stored address or somebody else's,
\* and a record is never linked to a row that is gone or has no IPv4: not with failing calls,
\* not with a restart at any step, and not when calls of UpdateAddress overlap.
THEOREM PublishedStored == Spec => []PublishedIsStored
<1>1. TypeInv /\ PublishedOK /\ [Next]_vars => (TypeInv /\ PublishedOK)'
  BY TypeStep, PublishedStep
<1>2. Spec => [](TypeInv /\ PublishedOK)
  BY <1>1, TypeInit, PublishedInit, PTL DEF Spec
<1>3. QED
  BY <1>2, PTL DEF PublishedOK

---------------------------------------------------------------------------
(* Updates are announced *)

\* The goroutine that will announce the update of a record has put the RRset and is none of
\* the manual refreshes, which fire no tasks.
Announces(q, r) == rec[q] = r /\ pc[q] \in {"save", "fire"} /\ kind[q] # "record"

AnnouncedOK ==
  \A r \in silent \ (lost \union onRequest) : \E q \in Procs : Announces(q, r)

\* A step that updates no RRset and leaves those alone that have something to announce.
AnnouncedQuiet ==
  /\ UNCHANGED <<silent, lost, onRequest>>
  /\ \A q \in Procs : pc[q] \in {"save", "fire"} =>
        pc'[q] = pc[q] /\ rec'[q] = rec[q] /\ kind'[q] = kind[q]

LEMMA AnnouncedQuietStep == AnnouncedOK /\ AnnouncedQuiet => AnnouncedOK'
BY DEF AnnouncedOK, AnnouncedQuiet, Announces

LEMMA AnnouncedStep == TypeInv /\ AnnouncedOK /\ [Next]_vars => AnnouncedOK'
<1> SUFFICES ASSUME TypeInv, AnnouncedOK, [Next]_vars PROVE AnnouncedOK'
  OBVIOUS
<1> TableTypes /\ LocalTypes
  BY DEF TypeInv, LocalsOK
<1> USE DEF TableTypes, LocalTypes, tables, history
<1>1. ASSUME NEW p \in Procs, StartRefresh(p) PROVE AnnouncedOK'
  BY <1>1, AnnouncedQuietStep DEF AnnouncedQuiet, StartRefresh, Goto, At
<1>2. ASSUME NEW p \in Procs, NEW k \in Kinds \ {"refresh"}, NEW r \in Records \union {None},
             StartRequest(p, k, r)
      PROVE  AnnouncedOK'
  BY <1>2, AnnouncedQuietStep DEF AnnouncedQuiet, StartRequest, At, Kinds
<1>3. ASSUME NEW p \in Procs, Resolve(p) PROVE AnnouncedOK'
  BY <1>3, AnnouncedQuietStep DEF AnnouncedQuiet, Resolve, At, Return
<1>4. ASSUME NEW p \in Procs, Select(p) PROVE AnnouncedOK'
  BY <1>4, AnnouncedQuietStep
  DEF AnnouncedQuiet, Select, At, Goto, ReturnAddress, AfterUpdateAddress, Return
<1>5. ASSUME NEW p \in Procs, ResetCurrentAddresses(p) PROVE AnnouncedOK'
  BY <1>5, AnnouncedQuietStep DEF AnnouncedQuiet, ResetCurrentAddresses, At, Goto
<1>6. ASSUME NEW p \in Procs, CreateAddress(p) PROVE AnnouncedOK'
  BY <1>6, AnnouncedQuietStep DEF AnnouncedQuiet, CreateAddress, At, Goto, Return
<1>7. ASSUME NEW p \in Procs, Reselect(p) PROVE AnnouncedOK'
  BY <1>7, AnnouncedQuietStep
  DEF AnnouncedQuiet, Reselect, At, ReturnAddress, AfterUpdateAddress, Return
<1>8. ASSUME NEW p \in Procs, ListRecords(p) PROVE AnnouncedOK'
  BY <1>8, AnnouncedQuietStep DEF AnnouncedQuiet, ListRecords, At
<1>9. ASSUME NEW p \in Procs, EndRefresh(p) PROVE AnnouncedOK'
  BY <1>9, AnnouncedQuietStep DEF AnnouncedQuiet, EndRefresh, At, Return
<1>10. ASSUME NEW p \in Procs, NEW r \in Records, PickRecord(p, r) PROVE AnnouncedOK'
  BY <1>10, AnnouncedQuietStep DEF AnnouncedQuiet, PickRecord, At
<1>11. ASSUME NEW p \in Procs, LoadCurrent(p) PROVE AnnouncedOK'
  BY <1>11, AnnouncedQuietStep DEF AnnouncedQuiet, LoadCurrent, At, Return
<1>12. ASSUME NEW p \in Procs, FetchRecord(p) PROVE AnnouncedOK'
  BY <1>12, AnnouncedQuietStep DEF AnnouncedQuiet, FetchRecord, At, Goto, Leave, Return
<1>13. ASSUME NEW p \in Procs, FindRRSet(p) PROVE AnnouncedOK'
  BY <1>13, AnnouncedQuietStep DEF AnnouncedQuiet, FindRRSet, At, Leave, Return
<1>14. ASSUME NEW p \in Procs, PutRRSet(p) PROVE AnnouncedOK'
  <2>1. /\ pc[p] = "put"
        /\ \A q \in Procs \ {p} : pc'[q] = pc[q] /\ rec'[q] = rec[q] /\ kind'[q] = kind[q]
    BY <1>14 DEF PutRRSet, At, Goto, Leave, Return
  <2>2. \A r : \A q \in Procs : Announces(q, r) => Announces(q, r)'
    BY <2>1 DEF Announces
  <2>3. CASE silent' = silent /\ lost' = lost /\ onRequest' = onRequest
    BY <2>2, <2>3 DEF AnnouncedOK
  <2>4. CASE lost' = lost \union {rec[p]} /\ silent' = silent \union {rec[p]}
             /\ onRequest \subseteq onRequest' \union {rec[p]}
    BY <2>2, <2>4 DEF AnnouncedOK
  <2>5. CASE /\ Goto(p, "save") /\ lost' = lost /\ silent' = silent \union {rec[p]}
             /\ onRequest' = IF kind[p] = "record" THEN onRequest \union {rec[p]}
                             ELSE onRequest \ {rec[p]}
    <3>1. ASSUME NEW r, r = rec[p], kind[p] # "record" PROVE Announces(p, r)'
      BY <2>5, <3>1 DEF Goto, Announces
    <3>2. ASSUME NEW r \in silent' \ (lost' \union onRequest'), r # rec[p]
          PROVE  \E q \in Procs : Announces(q, r)'
      <4>1. r \in silent \ (lost \union onRequest)
        BY <2>5, <3>2
      <4>2. QED
        BY <2>2, <4>1 DEF AnnouncedOK
    <3>3. ASSUME NEW r \in silent' \ (lost' \union onRequest'), r = rec[p]
          PROVE  \E q \in Procs : Announces(q, r)'
      BY <2>5, <3>1, <3>3
    <3>4. QED
      BY <3>2, <3>3 DEF AnnouncedOK
  <2>6. QED
    <3>1. CASE silent' = silent /\ lost' = lost /\ onRequest' = onRequest
      BY <2>3, <3>1
    <3>2. CASE silent' = silent \union {rec[p]} /\ lost' = lost /\ Goto(p, "save")
      BY <1>14, <2>3, <2>5, <3>2 DEF PutRRSet
    <3>3. CASE lost' = lost \union {rec[p]} /\ silent' = silent \union {rec[p]}
      BY <1>14, <2>3, <2>4, <3>3 DEF PutRRSet
    <3>4. QED
      BY <1>14, <3>1, <3>2, <3>3 DEF PutRRSet
<1>15. ASSUME NEW p \in Procs, SaveLink(p) PROVE AnnouncedOK'
  <2>1. /\ pc[p] = "save" /\ silent' = silent /\ onRequest' = onRequest
        /\ \A q \in Procs \ {p} : pc'[q] = pc[q] /\ rec'[q] = rec[q] /\ kind'[q] = kind[q]
    BY <1>15 DEF SaveLink, At, Goto, Leave, Return
  <2>2. CASE lost' = lost \union {rec[p]}
    <3>1. ASSUME NEW r, NEW q \in Procs, Announces(q, r), r # rec[p] PROVE Announces(q, r)'
      BY <2>1, <3>1 DEF Announces
    <3>2. QED
      BY <2>1, <2>2, <3>1 DEF AnnouncedOK
  <2>3. CASE lost' = lost /\ kind[p] = "record"
    <3>1. ASSUME NEW r, NEW q \in Procs, Announces(q, r) PROVE Announces(q, r)'
      BY <2>1, <2>3, <3>1 DEF Announces
    <3>2. QED
      BY <2>1, <2>3, <3>1 DEF AnnouncedOK
  <2>4. CASE lost' = lost /\ Goto(p, "fire")
    <3>1. ASSUME NEW r, NEW q \in Procs, Announces(q, r) PROVE Announces(q, r)'
      BY <2>1, <2>4, <3>1 DEF Announces, Goto
    <3>2. QED
      BY <2>1, <2>4, <3>1 DEF AnnouncedOK
  <2>5. QED
    BY <1>15, <2>2, <2>3, <2>4 DEF SaveLink
<1>16. ASSUME NEW p \in Procs, FireTasks(p) PROVE AnnouncedOK'
  <2>1. /\ silent' = silent \ {rec[p]} /\ lost' = lost \ {rec[p]} /\ onRequest' = onRequest
        /\ \A q \in Procs \ {p} : pc'[q] = pc[q] /\ rec'[q] = rec[q] /\ kind'[q] = kind[q]
    BY <1>16 DEF FireTasks, Leave, Return
  <2>2. ASSUME NEW r, NEW q \in Procs, Announces(q, r), r # rec[p] PROVE Announces(q, r)'
    BY <2>1, <2>2 DEF Announces
  <2>3. QED
    BY <2>1, <2>2 DEF AnnouncedOK
<1>17. ASSUME NEW p \in Procs, LookupRRSet(p) PROVE AnnouncedOK'
  BY <1>17, AnnouncedQuietStep DEF AnnouncedQuiet, LookupRRSet, At, Goto, Return
<1>18. ASSUME NEW p \in Procs, DropRRSet(p) PROVE AnnouncedOK'
  BY <1>18, AnnouncedQuietStep DEF AnnouncedQuiet, DropRRSet, At, Goto, Return
<1>19. ASSUME NEW p \in Procs, EraseRecord(p) PROVE AnnouncedOK'
  BY <1>19, AnnouncedQuietStep DEF AnnouncedQuiet, EraseRecord, At, Return
<1>20. ASSUME AddressChanges PROVE AnnouncedOK'
  BY <1>20, AnnouncedQuietStep DEF AnnouncedQuiet, AddressChanges, locals
<1>21. ASSUME NEW r \in Records, ForeignEdit(r) PROVE AnnouncedOK'
  BY <1>21, AnnouncedQuietStep DEF AnnouncedQuiet, ForeignEdit, locals
<1>22. ASSUME Restart PROVE AnnouncedOK'
  <2>1. /\ silent' = silent /\ onRequest' = onRequest
        /\ lost' = lost \union {rec[q] : q \in {s \in Procs : pc[s] \in {"save", "fire"}}}
    BY <1>22 DEF Restart
  <2>2. silent' \ (lost' \union onRequest') = {}
    BY <2>1 DEF AnnouncedOK, Announces
  <2>3. QED
    BY <2>2 DEF AnnouncedOK
<1>23. ASSUME UNCHANGED vars PROVE AnnouncedOK'
  BY <1>23, AnnouncedQuietStep DEF AnnouncedQuiet, vars, locals
<1>24. QED
  BY <1>1, <1>2, <1>3, <1>4, <1>5, <1>6, <1>7, <1>8, <1>9, <1>10, <1>11, <1>12, <1>13,
     <1>14,
       <1>15, <1>16, <1>17, <1>18, <1>19, <1>20, <1>21, <1>22, <1>23
     DEF Next, Step

LEMMA AnnouncedInit == Init => AnnouncedOK
BY DEF Init, AnnouncedOK

\* Whoever updates the A RRset of a record fires its IP tasks or still has it in hand: with
\* any number of refreshes and requests on one record, only a failed call, a restart or the
\* manual refresh of the API leaves an update unannounced.
THEOREM UpdatesAnnounced == Spec => []UpdateIsAnnounced
<1>1. TypeInv /\ AnnouncedOK /\ [Next]_vars => (TypeInv /\ AnnouncedOK)'
  BY TypeStep, AnnouncedStep
<1>2. Spec => [](TypeInv /\ AnnouncedOK)
  BY <1>1, TypeInit, AnnouncedInit, PTL DEF Spec
<1>3. AnnouncedOK => UpdateIsAnnounced
  BY DEF AnnouncedOK, Announces, UpdateIsAnnounced
<1>4. QED
  BY <1>2, <1>3, PTL
---------------------------------------------------------------------------
(* DdnsRefresh implements AddressPromise.  Besides the rows in use, one     *)
(* more fact about the goroutines is needed: a manual refresh, whose update *)
(* nobody holds, never gets to the step that fires tasks.                   *)

FireOK == \A q \in Procs : pc[q] = "fire" => kind[q] # "record"

Known == {row.v4 : row \in stored} \ {None}
Linked == [r \in Records |-> link[r].v4]

\* One step as AddressPromise sees it.
Refines == FireOK' /\ [Promise!Next]_(Promise!vars)

Holds(q) == pc[q] \in {"save", "fire"} /\ kind[q] # "record"

LEMMA InHandHolds ==
  /\ \A r : r \in InHand <=> \E q \in Procs : Holds(q) /\ rec[q] = r
  /\ \A r : r \in InHand' <=> \E q \in Procs : Holds(q)' /\ rec'[q] = r
BY DEF InHand, Holds

\* A step that hands nothing over, and nothing in.
HandsQuiet ==
  \A q \in Procs : /\ Holds(q)' <=> Holds(q)
                   /\ Holds(q) => rec'[q] = rec[q]
                   /\ pc'[q] = "fire" => pc[q] = "fire" /\ kind'[q] = kind[q]

LEMMA HandsQuietStep == FireOK /\ HandsQuiet => FireOK' /\ InHand' = InHand
<1> SUFFICES ASSUME FireOK, HandsQuiet PROVE FireOK' /\ InHand' = InHand
  OBVIOUS
<1>1. FireOK'
  BY DEF FireOK, HandsQuiet
<1>2. \A r : r \in InHand' <=> r \in InHand
  BY InHandHolds DEF HandsQuiet
<1>3. QED
  BY <1>1, <1>2

PromiseQuiet ==
  UNCHANGED <<stored, link, rrset, silent, lost, onRequest>> /\ HandsQuiet

LEMMA PromiseQuietStep == FireOK /\ PromiseQuiet => Refines
<1> SUFFICES ASSUME FireOK, PromiseQuiet PROVE Refines
  OBVIOUS
<1>1. FireOK' /\ InHand' = InHand
  BY HandsQuietStep DEF PromiseQuiet
<1>2. UNCHANGED Promise!vars
  BY <1>1 DEF PromiseQuiet, Promise!vars
<1>3. QED
  BY <1>1, <1>2 DEF Refines

\* The four variables of the promise that are not variables here, after a step.
LEMMA PromiseSteps ==
  ASSUME FireOK'
  PROVE
  /\ \A ip \in IPv4s : (/\ Known' = Known \union {ip}
                        /\ UNCHANGED <<rrset, Linked, silent, InHand, lost, onRequest>>) => Refines
  /\ \A r \in Records, ip \in IPv4s :
       (/\ ip \in Known /\ rrset' = [rrset EXCEPT ![r] = ip] /\ silent' = silent \union {r}
        /\ \/ /\ InHand' = InHand \union {r}
              /\ (lost \union onRequest)' \in {lost \union onRequest, (lost \union onRequest) \ {r}}
           \/ /\ InHand' = InHand
              /\ (lost \union onRequest)' = (lost \union onRequest) \union {r}
        /\ UNCHANGED <<Known, Linked>>) => Refines
  /\ \A r \in Records, ip \in IPv4s \union {None} :
       (/\ ip \in Known \union {None} /\ Linked' = [Linked EXCEPT ![r] = ip]
        /\ UNCHANGED <<Known, rrset, silent, InHand, lost, onRequest>>) => Refines
  /\ \A r \in Records :
       (/\ r \in InHand /\ silent' = silent \ {r} /\ InHand' \in {InHand, InHand \ {r}}
        /\ (lost \union onRequest)' \in {lost \union onRequest, (lost \union onRequest) \ {r}}
        /\ UNCHANGED <<Known, rrset, Linked>>) => Refines
  /\ \A rs \in SUBSET Records :
       (/\ InHand' \subseteq InHand /\ InHand \subseteq InHand' \union rs
        /\ (lost \union onRequest)' = (lost \union onRequest) \union rs
        /\ UNCHANGED <<Known, rrset, Linked, silent>>) => Refines
  /\ \A r \in Records, value \in {Absent, Foreign} :
       (/\ rrset' = [rrset EXCEPT ![r] = value]
        /\ UNCHANGED <<Known, Linked, silent, InHand, lost, onRequest>>) => Refines
<1> USE DEF Known, Linked
<1>1. ASSUME NEW ip \in IPv4s, Promise!Learn(ip) PROVE Refines
  BY <1>1 DEF Refines, Promise!Next
<1>2. ASSUME NEW r \in Records, NEW ip \in IPv4s, Promise!Publish(r, ip) PROVE Refines
  BY <1>2 DEF Refines, Promise!Next
<1>3. ASSUME NEW r \in Records, NEW ip \in IPv4s \union {None}, Promise!Link(r, ip) PROVE Refines
  BY <1>3 DEF Refines, Promise!Next
<1>4. ASSUME NEW r \in Records, Promise!Announce(r) PROVE Refines
  BY <1>4 DEF Refines, Promise!Next
<1>5. ASSUME NEW rs \in SUBSET Records, Promise!GiveUp(rs) PROVE Refines
  BY <1>5 DEF Refines, Promise!Next
<1>6. ASSUME NEW r \in Records, NEW value \in {Absent, Foreign}, Promise!Replace(r, value)
      PROVE Refines
  BY <1>6 DEF Refines, Promise!Next
<1>7. QED
  BY <1>1, <1>2, <1>3, <1>4, <1>5, <1>6
  DEF Promise!Learn, Promise!Publish, Promise!Link, Promise!Announce, Promise!GiveUp,
      Promise!Replace

LEMMA SameLinks == UNCHANGED link => UNCHANGED Linked
BY DEF Linked

LEMMA SameKnown == UNCHANGED stored => UNCHANGED Known
BY DEF Known

\* A goroutine that leaves or returns drops what it held.
LEMMA LeaveHands ==
  ASSUME LocalTypes, NEW p \in Procs, Leave(p), FireOK
  PROVE  /\ FireOK'
         /\ InHand' \subseteq InHand
         /\ InHand \subseteq InHand' \union {rec[p]}
         /\ ~Holds(p) => InHand' = InHand
<1>1. /\ pc'[p] \in {"pick", "idle"}
      /\ \A q \in Procs \ {p} : pc'[q] = pc[q] /\ rec'[q] = rec[q] /\ kind'[q] = kind[q]
  BY DEF Leave, Return, LocalTypes
<1>2. \A q \in Procs : Holds(q)' <=> Holds(q) /\ q # p
  BY <1>1 DEF Holds
<1>3. \A q \in Procs : Holds(q)' => rec'[q] = rec[q]
  BY <1>1, <1>2
<1>4. FireOK'
  BY <1>1 DEF FireOK
<1>5. \A r : r \in InHand' => r \in InHand
  BY <1>2, <1>3, InHandHolds
<1>6. \A r : r \in InHand => r \in InHand' \/ r = rec[p]
  BY <1>2, <1>3, InHandHolds
<1>7. ~Holds(p) => \A r : r \in InHand => r \in InHand'
  BY <1>2, <1>3, InHandHolds
<1>8. QED
  BY <1>4, <1>5, <1>6, <1>7

LEMMA PromiseStep ==
  TypeInv /\ PublishedOK /\ FireOK /\ [Next]_vars => Refines
<1> SUFFICES ASSUME TypeInv, PublishedOK, FireOK, [Next]_vars PROVE Refines
  OBVIOUS
<1> TableTypes /\ LocalTypes
  BY DEF TypeInv, LocalsOK
<1> USE DEF TableTypes, LocalTypes, tables, history
<1>1. ASSUME NEW p \in Procs, StartRefresh(p) PROVE Refines
  BY <1>1, PromiseQuietStep DEF PromiseQuiet, HandsQuiet, Holds, StartRefresh, Goto, At
<1>2. ASSUME NEW p \in Procs, NEW k \in Kinds \ {"refresh"}, NEW r \in Records \union {None},
             StartRequest(p, k, r)
      PROVE  Refines
  BY <1>2, PromiseQuietStep DEF PromiseQuiet, HandsQuiet, Holds, StartRequest, At, Kinds
<1>3. ASSUME NEW p \in Procs, Resolve(p) PROVE Refines
  BY <1>3, PromiseQuietStep DEF PromiseQuiet, HandsQuiet, Holds, Resolve, At, Return
<1>4. ASSUME NEW p \in Procs, Select(p) PROVE Refines
  BY <1>4, PromiseQuietStep
  DEF PromiseQuiet, HandsQuiet, Holds, Select, At, Goto, ReturnAddress, AfterUpdateAddress,
      Return
<1>5. ASSUME NEW p \in Procs, ResetCurrentAddresses(p) PROVE Refines
  BY <1>5, PromiseQuietStep DEF PromiseQuiet, HandsQuiet, Holds, ResetCurrentAddresses, At, Goto
<1>6. ASSUME NEW p \in Procs, CreateAddress(p) PROVE Refines
  <2>1. HandsQuiet
    BY <1>6 DEF HandsQuiet, Holds, CreateAddress, At, Goto, Return
  <2>2. FireOK' /\ InHand' = InHand
    BY <2>1, HandsQuietStep
  <2>3. UNCHANGED <<link, rrset, silent, lost, onRequest>>
    BY <1>6 DEF CreateAddress
  <2>4. CASE stored' = stored
    BY <2>1, <2>3, <2>4, PromiseQuietStep DEF PromiseQuiet
  <2>5. CASE stored' = stored \union {got[p]}
    <3>1. got[p].v4 \in IPv4s \union {None}
      BY PairFields
    <3>2. CASE got[p].v4 = None
      <4>1. Known' = Known
        BY <2>5, <3>2 DEF Known
      <4>2. UNCHANGED Promise!vars
        BY <2>2, <2>3, <4>1 DEF Promise!vars, Known
      <4>3. QED
        BY <2>2, <4>2 DEF Refines
    <3>3. CASE got[p].v4 \in IPv4s
      <4>1. Known' = Known \union {got[p].v4}
        BY <2>5, <3>3, ConstantsAssumption DEF Known, ConstantsAssumption
      <4>2. QED
        BY <2>2, <2>3, <3>3, <4>1, SameLinks, PromiseSteps
    <3>4. QED
      BY <3>1, <3>2, <3>3
  <2>6. QED
    BY <1>6, <2>4, <2>5 DEF CreateAddress
<1>7. ASSUME NEW p \in Procs, Reselect(p) PROVE Refines
  BY <1>7, PromiseQuietStep
  DEF PromiseQuiet, HandsQuiet, Holds, Reselect, At, ReturnAddress, AfterUpdateAddress, Return
<1>8. ASSUME NEW p \in Procs, ListRecords(p) PROVE Refines
  BY <1>8, PromiseQuietStep DEF PromiseQuiet, HandsQuiet, Holds, ListRecords, At
<1>9. ASSUME NEW p \in Procs, EndRefresh(p) PROVE Refines
  BY <1>9, PromiseQuietStep DEF PromiseQuiet, HandsQuiet, Holds, EndRefresh, At, Return
<1>10. ASSUME NEW p \in Procs, NEW r \in Records, PickRecord(p, r) PROVE Refines
  BY <1>10, PromiseQuietStep DEF PromiseQuiet, HandsQuiet, Holds, PickRecord, At
<1>11. ASSUME NEW p \in Procs, LoadCurrent(p) PROVE Refines
  BY <1>11, PromiseQuietStep DEF PromiseQuiet, HandsQuiet, Holds, LoadCurrent, At, Return
<1>12. ASSUME NEW p \in Procs, FetchRecord(p) PROVE Refines
  BY <1>12, PromiseQuietStep
  DEF PromiseQuiet, HandsQuiet, Holds, FetchRecord, At, Goto, Leave, Return
<1>13. ASSUME NEW p \in Procs, FindRRSet(p) PROVE Refines
  BY <1>13, PromiseQuietStep DEF PromiseQuiet, HandsQuiet, Holds, FindRRSet, At, Leave, Return
<1>14. ASSUME NEW p \in Procs, PutRRSet(p) PROVE Refines
  <2>1. /\ pc[p] = "put" /\ rec[p] \in Records /\ cur[p] \in stored
        /\ stored' = stored /\ link' = link
    BY <1>14
    DEF PutRRSet, At, PublishedOK, RowsOK, UsesRow, TypeInv, LocalsOK, Knows, HasRecord, InRecord
  <2>2. UNCHANGED <<Known, Linked>>
    BY <2>1, SameKnown, SameLinks
  <2>3. ~Holds(p)
    BY <2>1 DEF Holds
  <2>4. ASSUME Accepted(p) PROVE cur[p].v4 \in IPv4s /\ cur[p].v4 \in Known
    <3>1. cur[p].v4 # None
      BY <2>4 DEF Accepted, IPv4Of
    <3>2. QED
      BY <2>1, <3>1, PairFields DEF Known
  <2>5. CASE /\ Accepted(p) /\ rrset' = [rrset EXCEPT ![rec[p]] = IPv4Of(p)]
             /\ silent' = silent \union {rec[p]}
             /\ onRequest' = IF kind[p] = "record" THEN onRequest \union {rec[p]}
                             ELSE onRequest \ {rec[p]}
             /\ Goto(p, "save") /\ UNCHANGED <<faults, lost>>
    <3>1. /\ pc'[p] = "save" /\ kind' = kind /\ rec' = rec
          /\ \A q \in Procs \ {p} : pc'[q] = pc[q]
      BY <2>5 DEF Goto
    <3>2. FireOK'
      BY <3>1 DEF FireOK
    <3>3. CASE kind[p] = "record"
      <4>1. HandsQuiet
        BY <2>1, <3>1, <3>3 DEF HandsQuiet, Holds
      <4>2. InHand' = InHand
        BY <4>1, HandsQuietStep
      <4>3. (lost \union onRequest)' = (lost \union onRequest) \union {rec[p]}
        BY <2>5, <3>3
      <4>4. QED
        BY <2>1, <2>2, <2>4, <2>5, <3>2, <4>2, <4>3, PromiseSteps DEF IPv4Of
    <3>4. CASE kind[p] # "record"
      <4>1. \A q \in Procs : Holds(q)' <=> Holds(q) \/ q = p
        BY <2>1, <3>1, <3>4 DEF Holds
      <4>2. \A r : r \in InHand' <=> r \in InHand \/ r = rec[p]
        BY <2>3, <3>1, <4>1, InHandHolds
      <4>3. InHand' = InHand \union {rec[p]}
        BY <4>2
      <4>4. (lost \union onRequest)' \in {lost \union onRequest, (lost \union onRequest) \ {rec[p]}}
        BY <2>5, <3>4
      <4>5. QED
        BY <2>1, <2>2, <2>4, <2>5, <3>2, <4>3, <4>4, PromiseSteps DEF IPv4Of
    <3>5. QED
      BY <3>3, <3>4
  <2>6. CASE /\ Accepted(p) /\ rrset' = [rrset EXCEPT ![rec[p]] = IPv4Of(p)]
             /\ silent' = silent \union {rec[p]}
             /\ onRequest' = IF kind[p] = "record" THEN onRequest \union {rec[p]}
                             ELSE onRequest \ {rec[p]}
             /\ Leave(p) /\ lost' = lost \union {rec[p]}
    <3>1. FireOK' /\ InHand' = InHand
      BY <2>3, <2>6, LeaveHands
    <3>2. (lost \union onRequest)' = (lost \union onRequest) \union {rec[p]}
      BY <2>6
    <3>3. QED
      BY <2>1, <2>2, <2>4, <2>6, <3>1, <3>2, PromiseSteps DEF IPv4Of
  <2>7. CASE Leave(p) /\ UNCHANGED <<rrset, silent, onRequest, lost>>
    <3>1. FireOK' /\ InHand' = InHand
      BY <2>3, <2>7, LeaveHands
    <3>2. UNCHANGED Promise!vars
      BY <2>1, <2>7, <3>1 DEF Promise!vars
    <3>3. QED
      BY <3>1, <3>2 DEF Refines
  <2>8. QED
    BY <1>14, <2>5, <2>6, <2>7 DEF PutRRSet
<1>15. ASSUME NEW p \in Procs, SaveLink(p) PROVE Refines
  <2>1. /\ pc[p] = "save" /\ rec[p] \in Records /\ cur[p] \in stored /\ cur[p].v4 # None
        /\ UNCHANGED <<stored, rrset, silent, onRequest>>
    BY <1>15
    DEF SaveLink, At, PublishedOK, RowsOK, UsesRow, TypeInv, LocalsOK, Knows, HasRecord, InRecord
  <2>2. UNCHANGED Known
    BY <2>1, SameKnown
  <2>3. ASSUME link' = [link EXCEPT ![rec[p]] = IF rec[p] \in live THEN cur[p] ELSE Unresolved]
        PROVE  \E ip \in IPv4s \union {None} :
                 ip \in Known \union {None} /\ Linked' = [Linked EXCEPT ![rec[p]] = ip]
    <3>1. CASE rec[p] \in live
      <4>1. cur[p].v4 \in IPv4s /\ cur[p].v4 \in Known
        BY <2>1, PairFields DEF Known
      <4>2. Linked' = [Linked EXCEPT ![rec[p]] = cur[p].v4]
        BY <2>3, <3>1 DEF Linked
      <4>3. QED
        BY <4>1, <4>2
    <3>2. CASE rec[p] \notin live
      <4>1. Linked' = [Linked EXCEPT ![rec[p]] = None]
        BY <2>3, <3>2, UnresolvedIsPair DEF Linked
      <4>2. QED
        BY <4>1
    <3>3. QED
      BY <3>1, <3>2
  <2>4. CASE /\ link' = [link EXCEPT ![rec[p]] = IF rec[p] \in live THEN cur[p] ELSE Unresolved]
             /\ kind[p] = "record" /\ Leave(p) /\ lost' = lost
    <3>1. FireOK' /\ InHand' = InHand
      BY <2>4, LeaveHands DEF Holds
    <3>2. QED
      BY <2>1, <2>2, <2>3, <2>4, <3>1, PromiseSteps
  <2>5. CASE /\ link' = [link EXCEPT ![rec[p]] = IF rec[p] \in live THEN cur[p] ELSE Unresolved]
             /\ kind[p] # "record" /\ Goto(p, "fire") /\ lost' = lost
    <3>1. /\ pc'[p] = "fire" /\ kind' = kind /\ rec' = rec
          /\ \A q \in Procs \ {p} : pc'[q] = pc[q]
      BY <2>5 DEF Goto
    <3>2. FireOK'
      BY <2>5, <3>1 DEF FireOK
    <3>3. \A q \in Procs : Holds(q)' <=> Holds(q)
      BY <2>1, <3>1 DEF Holds
    <3>4. \A r : r \in InHand' <=> r \in InHand
      BY <3>1, <3>3, InHandHolds
    <3>5. InHand' = InHand
      BY <3>4
    <3>6. QED
      BY <2>1, <2>2, <2>3, <2>5, <3>2, <3>5, PromiseSteps
  <2>6. CASE Leave(p) /\ lost' = lost \union {rec[p]} /\ link' = link
    <3>1. FireOK' /\ InHand' \subseteq InHand /\ InHand \subseteq InHand' \union {rec[p]}
      BY <2>6, LeaveHands
    <3>2. (lost \union onRequest)' = (lost \union onRequest) \union {rec[p]}
      BY <2>1, <2>6
    <3>3. QED
      BY <2>1, <2>2, <2>6, <3>1, <3>2, SameLinks, PromiseSteps
  <2>7. QED
    BY <1>15, <2>4, <2>5, <2>6 DEF SaveLink
<1>16. ASSUME NEW p \in Procs, FireTasks(p) PROVE Refines
  <2>1. /\ pc[p] = "fire" /\ rec[p] \in Records /\ Leave(p)
        /\ silent' = silent \ {rec[p]} /\ lost' = lost \ {rec[p]}
        /\ UNCHANGED <<stored, link, rrset, onRequest>>
    BY <1>16 DEF FireTasks, At, TypeInv, LocalsOK, Knows, HasRecord, InRecord
  <2>2. Holds(p) /\ rec[p] \in InHand
    <3>1. Holds(p)
      BY <2>1 DEF FireOK, Holds
    <3>2. QED
      BY <3>1, InHandHolds
  <2>3. FireOK' /\ InHand' \in {InHand, InHand \ {rec[p]}}
    BY <2>1, LeaveHands
  <2>4. (lost \union onRequest)' \in {lost \union onRequest, (lost \union onRequest) \ {rec[p]}}
    BY <2>1
  <2>5. QED
    BY <2>1, <2>2, <2>3, <2>4, SameKnown, SameLinks, PromiseSteps
<1>17. ASSUME NEW p \in Procs, LookupRRSet(p) PROVE Refines
  BY <1>17, PromiseQuietStep
  DEF PromiseQuiet, HandsQuiet, Holds, LookupRRSet, At, Goto, Return
<1>18. ASSUME NEW p \in Procs, DropRRSet(p) PROVE Refines
  <2>1. /\ HandsQuiet /\ rec[p] \in Records
        /\ UNCHANGED <<stored, link, silent, lost, onRequest>>
    BY <1>18
    DEF HandsQuiet, Holds, DropRRSet, At, Goto, Return, TypeInv, LocalsOK, Knows, HasRecord
  <2>2. FireOK' /\ InHand' = InHand
    BY <2>1, HandsQuietStep
  <2>3. CASE rrset' = rrset
    BY <2>1, <2>3, PromiseQuietStep DEF PromiseQuiet
  <2>4. CASE rrset' = [rrset EXCEPT ![rec[p]] = Absent]
    BY <2>1, <2>2, <2>4, SameKnown, SameLinks, PromiseSteps
  <2>5. QED
    BY <1>18, <2>3, <2>4 DEF DropRRSet
<1>19. ASSUME NEW p \in Procs, EraseRecord(p) PROVE Refines
  <2>1. /\ HandsQuiet /\ rec[p] \in Records
        /\ UNCHANGED <<stored, rrset, silent, lost, onRequest>>
        /\ link' = [link EXCEPT ![rec[p]] = Unresolved]
    BY <1>19 DEF HandsQuiet, Holds, EraseRecord, At, Return, TypeInv, LocalsOK, Knows, HasRecord
  <2>2. FireOK' /\ InHand' = InHand
    BY <2>1, HandsQuietStep
  <2>3. Linked' = [Linked EXCEPT ![rec[p]] = None]
    BY <2>1, UnresolvedIsPair DEF Linked
  <2>4. QED
    BY <2>1, <2>2, <2>3, SameKnown, PromiseSteps
<1>20. ASSUME AddressChanges PROVE Refines
  BY <1>20, PromiseQuietStep DEF PromiseQuiet, HandsQuiet, Holds, AddressChanges, locals
<1>21. ASSUME NEW r \in Records, ForeignEdit(r) PROVE Refines
  <2>1. /\ HandsQuiet /\ rrset' = [rrset EXCEPT ![r] = Foreign]
        /\ UNCHANGED <<stored, link, silent, lost, onRequest>>
    BY <1>21 DEF ForeignEdit, HandsQuiet, Holds, locals
  <2>2. FireOK' /\ InHand' = InHand
    BY <2>1, HandsQuietStep
  <2>3. QED
    BY <2>1, <2>2, SameKnown, SameLinks, PromiseSteps
<1>22. ASSUME Restart PROVE Refines
  <2> DEFINE rs == {rec[q] : q \in {s \in Procs : pc[s] \in {"save", "fire"}}}
  <2>1. /\ lost' = lost \union rs /\ pc' = [q \in Procs |-> "idle"]
        /\ UNCHANGED <<stored, link, rrset, silent, onRequest>>
    BY <1>22 DEF Restart
  <2>2. FireOK' /\ \A q \in Procs : ~Holds(q)'
    BY <2>1 DEF FireOK, Holds
  <2>3. InHand' = {}
    BY <2>2, InHandHolds
  <2>4. InHand \subseteq rs
    BY DEF InHand
  <2>5. rs \in SUBSET Records
    BY DEF TypeInv, LocalsOK, Knows, HasRecord, InRecord
  <2>6. (lost \union onRequest)' = (lost \union onRequest) \union rs
    BY <2>1
  <2> HIDE DEF rs
  <2>7. QED
    BY <2>1, <2>2, <2>3, <2>4, <2>5, <2>6, SameKnown, SameLinks, PromiseSteps
<1>23. ASSUME UNCHANGED vars PROVE Refines
  BY <1>23, PromiseQuietStep DEF PromiseQuiet, HandsQuiet, Holds, vars, locals
<1>24. QED
  BY <1>1, <1>2, <1>3, <1>4, <1>5, <1>6, <1>7, <1>8, <1>9, <1>10, <1>11, <1>12, <1>13,
     <1>14,
       <1>15, <1>16, <1>17, <1>18, <1>19, <1>20, <1>21, <1>22, <1>23
     DEF Next, Step

LEMMA PromiseInit == Init => FireOK /\ Promise!Init
<1> SUFFICES ASSUME Init PROVE FireOK /\ Promise!Init
  OBVIOUS
<1>1. FireOK
  BY DEF Init, FireOK
<1>2. InHand = {}
  BY DEF Init, InHand
<1>3. Known = {} /\ Linked = [r \in Records |-> None]
  BY UnresolvedIsPair DEF Init, Known, Linked
<1>4. QED
  BY <1>1, <1>2, <1>3 DEF Init, Known, Linked, Promise!Init

\* To whoever reads the records, every step of every goroutine is a step of AddressPromise or
\* invisible: an address is published or linked only once it is stored, the IP tasks fire only
\* for a record whose update is in hand, and an update leaves the hands it is in unannounced
\* only through a failed call, a restart or the manual refresh of the API.
THEOREM ImplementsAddressPromise == Spec => AddressPromiseKept
<1>1. TypeInv /\ PublishedOK /\ [Next]_vars => (TypeInv /\ PublishedOK)'
  BY TypeStep, PublishedStep
<1>2. Spec => [](TypeInv /\ PublishedOK)
  BY <1>1, TypeInit, PublishedInit, PTL DEF Spec
<1>3. TypeInv /\ PublishedOK /\ FireOK /\ [Next]_vars => FireOK' /\ [Promise!Next]_(Promise!vars)
  BY PromiseStep DEF Refines
<1>4. QED
  BY <1>2, <1>3, PromiseInit, PTL DEF Spec, AddressPromiseKept, Promise!Spec

\* What AddressPromise gives its reader, whoever implements it: no update is forgotten, and
\* no record shows or is linked to an address that was never learnt.
THEOREM AddressPromiseSuffices ==
  AddressPromiseKept => [](Promise!DebtsAreHeld /\ Promise!ShownIsKnown)
<1> DEFINE Shown == rrset \in [Records -> Known \union {Absent, Foreign}]
           Links == Linked \in [Records -> Known \union {None}]
           Debts == silent \ (lost \union onRequest) \subseteq InHand
<1> USE DEF Known, Linked
<1>1. Promise!Init => Shown /\ Links /\ Debts
  BY DEF Promise!Init
<1>2. Shown /\ Links /\ Debts /\ [Promise!Next]_(Promise!vars) => (Shown /\ Links /\ Debts)'
  <2> SUFFICES ASSUME Shown, Links, Debts, [Promise!Next]_(Promise!vars)
               PROVE  (Shown /\ Links /\ Debts)'
    OBVIOUS
  <2>1. ASSUME NEW ip \in IPv4s, Promise!Learn(ip) PROVE (Shown /\ Links /\ Debts)'
    BY <2>1 DEF Promise!Learn
  <2>2. ASSUME NEW r \in Records, NEW ip \in IPv4s \union {None}, Promise!Publish(r, ip)
        PROVE  (Shown /\ Links /\ Debts)'
    BY <2>2 DEF Promise!Publish
  <2>3. ASSUME NEW r \in Records, NEW ip \in IPv4s \union {None}, Promise!Link(r, ip)
        PROVE  (Shown /\ Links /\ Debts)'
    BY <2>3 DEF Promise!Link
  <2>4. ASSUME NEW r \in Records, Promise!Announce(r) PROVE (Shown /\ Links /\ Debts)'
    BY <2>4 DEF Promise!Announce
  <2>5. ASSUME NEW rs \in SUBSET Records, Promise!GiveUp(rs) PROVE (Shown /\ Links /\ Debts)'
    BY <2>5 DEF Promise!GiveUp
  <2>6. ASSUME NEW r \in Records, NEW value \in {Absent, Foreign}, Promise!Replace(r, value)
        PROVE  (Shown /\ Links /\ Debts)'
    BY <2>6 DEF Promise!Replace
  <2>7. ASSUME UNCHANGED Promise!vars PROVE (Shown /\ Links /\ Debts)'
    BY <2>7 DEF Promise!vars
  <2>8. QED
    BY <2>1, <2>2, <2>3, <2>4, <2>5, <2>6, <2>7 DEF Promise!Next
<1>3. Shown /\ Links /\ Debts => Promise!DebtsAreHeld /\ Promise!ShownIsKnown
  BY DEF Promise!DebtsAreHeld, Promise!ShownIsKnown
<1> HIDE DEF Shown, Links, Debts
<1>4. QED
  BY <1>1, <1>2, <1>3, PTL DEF AddressPromiseKept, Promise!Spec
=============================================================================
