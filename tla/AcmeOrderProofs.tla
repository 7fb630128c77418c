-------------------------- MODULE AcmeOrderProofs --------------------------
(***************************************************************************)
(* Theorems about AcmeOrder, for every set of issuers, accounts and        *)
(* challenges and every bound.                                             *)
(*                                                                         *)
(* Two stories that share an issuer's steps.  The account: who is between  *)
(* reading the key and having written the registration, and what the two   *)
(* files hold meanwhile.  The TXT RRsets: which values an order has        *)
(* published and which it still has to take back.                          *)
(*                                                                         *)
(* Issuers whose challenges share a name overwrite each other's values     *)
(* (the records "@" and "*" of a zone): the theorem about published        *)
(* challenges assumes that names are not shared.  The others do not.       *)
(***************************************************************************)
EXTENDS AcmeOrder, FiniteSetTheorems, TLAPS

OwnNames == \A c, d \in Challenges : NameOf[c] = NameOf[d] => OwnerOf[c] = OwnerOf[d]

---------------------------------------------------------------------------
(* Constants *)

LEMMA AtMostThree == ASSUME NEW x, NEW y, NEW z PROVE Cardinality({x, y, z}) <= 3
<1>1. IsFiniteSet({x}) /\ Cardinality({x}) = 1
  BY FS_Singleton
<1>2. IsFiniteSet({x} \union {y}) /\ Cardinality({x} \union {y}) \in {1, 2}
  BY <1>1, FS_AddElement
<1>3. Cardinality(({x} \union {y}) \union {z}) \in {1, 2, 3}
  BY <1>2, FS_AddElement
<1>4. {x, y, z} = ({x} \union {y}) \union {z}
  OBVIOUS
<1>5. QED
  BY <1>3, <1>4

\* A missing, torn or bare file holds no key.
LEMMA NoKeys == None \notin Keys /\ Torn \notin Keys /\ Bare \notin Keys
<1>1. None \notin Issuers /\ Torn \notin Issuers /\ Bare \notin Issuers
  BY ConstantsAssumption DEF ConstantsAssumption
<1>2. Cardinality({None, Torn, Bare, OldKey}) = 4 /\ ~(4 <= 3)
  BY ConstantsAssumption DEF ConstantsAssumption
<1>3. Cardinality({None, Torn, Bare}) <= 3
  BY AtMostThree
<1>4. None # OldKey
  <2>1. None = OldKey => {None, Torn, Bare, OldKey} = {None, Torn, Bare}
    OBVIOUS
  <2>2. QED
    BY <2>1, <1>2, <1>3
<1>5. Torn # OldKey
  <2>1. Torn = OldKey => {None, Torn, Bare, OldKey} = {None, Torn, Bare}
    OBVIOUS
  <2>2. QED
    BY <2>1, <1>2, <1>3
<1>6. Bare # OldKey
  <2>1. Bare = OldKey => {None, Torn, Bare, OldKey} = {None, Torn, Bare}
    OBVIOUS
  <2>2. QED
    BY <2>1, <1>2, <1>3
<1>7. QED
  BY <1>1, <1>4, <1>5, <1>6 DEF Keys

LEMMA MissingNotTorn == None # Torn
<1>1. Cardinality({None, Torn, Bare, OldKey}) = 4 /\ ~(4 <= 3)
  BY ConstantsAssumption DEF ConstantsAssumption
<1>2. Cardinality({None, Bare, OldKey}) <= 3
  BY AtMostThree
<1>3. None = Torn => {None, Torn, Bare, OldKey} = {None, Bare, OldKey}
  OBVIOUS
<1>4. QED
  BY <1>1, <1>2, <1>3

LEMMA OwnersAndNames ==
  /\ \A i \in Issuers : AccountOf[i] \in Accounts
  /\ \A c \in Challenges : NameOf[c] \in Names /\ OwnerOf[c] \in Issuers
BY ConstantsAssumption DEF ConstantsAssumption

LEMMA FaultBound == ASSUME faults \in 0 .. MaxFaults, Fault PROVE faults' \in 0 .. MaxFaults
BY ConstantsAssumption DEF Fault, ConstantsAssumption

---------------------------------------------------------------------------
(* Types *)

TableTypes ==
  /\ keyFile \in [Accounts -> Keys \union {None, Torn}]
  /\ regFile \in [Accounts -> Keys \union {None, Torn, Bare}]
  /\ txt \in [Names -> SUBSET Challenges]
  /\ orders \in 0 .. MaxOrders /\ faults \in 0 .. MaxFaults
  /\ raced \subseteq Accounts /\ lost \subseteq Challenges

LocalTypes ==
  /\ pc \in [Issuers -> Creating \union Solving \union {"idle", "order"}]
  /\ key \in [Issuers -> Keys \union {None}]
  /\ reg \in [Issuers -> Keys \union {None}]
  /\ values \in [Issuers -> SUBSET Challenges]
  /\ todo \in [Issuers -> SUBSET Challenges]
  /\ now \in [Issuers -> Challenges \union {None}]
  /\ found \in [Issuers -> BOOLEAN]
  /\ failed \in [Issuers -> SUBSET Challenges]

\* The steps at which an issuer has a challenge at hand.
Handling == {"lookup", "publish", "lookupClean", "delete"}

\* An issuer works on challenges of its own order.
WorksOnOwn(i) ==
  /\ values[i] \union todo[i] \union failed[i] \subseteq ChallengesOf(i)
  /\ pc[i] \in Handling => now[i] \in ChallengesOf(i)

TypeInv == TableTypes /\ LocalTypes /\ \A i \in Issuers : WorksOnOwn(i)

LEMMA TypeInvIsTypeOK == TypeInv => TypeOK
BY DEF TypeInv, TableTypes, LocalTypes, WorksOnOwn, TypeOK

LEMMA OwnChallenges ==
  ASSUME NEW i
  PROVE  /\ ChallengesOf(i) \subseteq Challenges
         /\ \A c \in ChallengesOf(i) : OwnerOf[c] = i
BY DEF ChallengesOf

LEMMA LeaveLocals ==
  ASSUME LocalTypes, NEW i \in Issuers, NEW from, Leave(i, from)
  PROVE  LocalTypes'
BY DEF LocalTypes, Leave, Goto

LEMMA LocalsStep == TypeInv /\ [Next]_vars => LocalTypes'
<1> SUFFICES ASSUME TypeInv, [Next]_vars PROVE LocalTypes'
  OBVIOUS
<1> TableTypes /\ LocalTypes /\ \A j \in Issuers : WorksOnOwn(j)
  BY DEF TypeInv
<1>1. ASSUME NEW i \in Issuers, Start(i) PROVE LocalTypes'
  BY <1>1 DEF Start, LocalTypes, Creating, Solving, Goto, locals
<1>2. ASSUME NEW i \in Issuers, ReadKey(i) PROVE LocalTypes'
  <2>1. CASE Leave(i, "readKey")
    BY <2>1, LeaveLocals
  <2>2. CASE ~Leave(i, "readKey")
    BY <1>2, <2>2 DEF ReadKey, GenerateKey, LocalTypes, Creating, Solving, Goto, locals, Keys
  <2>3. QED
    BY <2>1, <2>2
<1>3. ASSUME NEW i \in Issuers, TruncateKey(i) PROVE LocalTypes'
  <2>1. CASE Leave(i, "truncateKey")
    BY <2>1, LeaveLocals
  <2>2. CASE ~Leave(i, "truncateKey")
    BY <1>3, <2>2 DEF TruncateKey, LocalTypes, Creating, Solving, Goto, locals
  <2>3. QED
    BY <2>1, <2>2
<1>4. ASSUME NEW i \in Issuers, WriteKey(i) PROVE LocalTypes'
  <2>1. CASE Leave(i, "writeKey")
    BY <2>1, LeaveLocals
  <2>2. CASE ~Leave(i, "writeKey")
    BY <1>4, <2>2 DEF WriteKey, LocalTypes, Creating, Solving, Goto, locals
  <2>3. QED
    BY <2>1, <2>2
<1>5. ASSUME NEW i \in Issuers, ReadReg(i) PROVE LocalTypes'
  BY <1>5 DEF ReadReg, LocalTypes, Creating, Solving, Goto, locals
<1>6. ASSUME NEW i \in Issuers, Register(i) PROVE LocalTypes'
  <2>1. CASE Leave(i, "register")
    BY <2>1, LeaveLocals
  <2>2. CASE ~Leave(i, "register")
    BY <1>6, <2>2 DEF Register, LocalTypes, Creating, Solving, Goto, locals
  <2>3. QED
    BY <2>1, <2>2
<1>7. ASSUME NEW i \in Issuers, TruncateReg(i) PROVE LocalTypes'
  BY <1>7 DEF TruncateReg, LocalTypes, Creating, Solving, Goto, locals
<1>8. ASSUME NEW i \in Issuers, WriteReg(i) PROVE LocalTypes'
  BY <1>8 DEF WriteReg, LocalTypes, Creating, Solving, Goto, locals
<1>9. ASSUME NEW i \in Issuers, OpenOrder(i) PROVE LocalTypes'
  <2>1. CASE Leave(i, "order")
    BY <2>1, LeaveLocals
  <2>2. CASE ~Leave(i, "order")
    BY <1>9, <2>2, OwnChallenges DEF OpenOrder, LocalTypes, Creating, Solving, Goto, locals
  <2>3. QED
    BY <2>1, <2>2
<1>10. ASSUME NEW i \in Issuers, LookupTXT(i) PROVE LocalTypes'
  <2>1. now[i] \in Challenges
    BY <1>10, OwnChallenges DEF LookupTXT, Goto, WorksOnOwn, Handling
  <2>2. found' \in [Issuers -> BOOLEAN]
    BY <1>10 DEF LookupTXT, LocalTypes
  <2>3. failed' \in [Issuers -> SUBSET Challenges]
    BY <1>10, <2>1 DEF LookupTXT, LocalTypes
  <2>4. QED
    BY <1>10, <2>2, <2>3 DEF LookupTXT, LocalTypes, Goto, Solving
<1>11. ASSUME NEW i \in Issuers, PublishTXT(i) PROVE LocalTypes'
  <2>1. now[i] \in Challenges
    BY <1>11, OwnChallenges DEF PublishTXT, Goto, WorksOnOwn, Handling
  <2>2. QED
    BY <1>11, <2>1 DEF PublishTXT, LocalTypes, Creating, Solving, Goto, locals
<1>12. ASSUME NEW i \in Issuers, BeginSolve(i) PROVE LocalTypes'
  BY <1>12 DEF BeginSolve, LocalTypes, Creating, Solving, Goto, locals
<1>13. ASSUME NEW i \in Issuers, BeginClean(i) PROVE LocalTypes'
  BY <1>13 DEF BeginClean, LocalTypes, Creating, Solving, Goto, locals
<1>14. ASSUME NEW i \in Issuers, LookupClean(i) PROVE LocalTypes'
  <2>1. now[i] \in Challenges
    BY <1>14, OwnChallenges DEF LookupClean, Goto, WorksOnOwn, Handling
  <2>2. QED
    BY <1>14, <2>1 DEF LookupClean, LocalTypes, Creating, Solving, Goto, locals
<1>15. ASSUME NEW i \in Issuers, DeleteTXT(i) PROVE LocalTypes'
  <2>1. now[i] \in Challenges
    BY <1>15, OwnChallenges DEF DeleteTXT, Goto, WorksOnOwn, Handling
  <2>2. QED
    BY <1>15, <2>1 DEF DeleteTXT, LocalTypes, Creating, Solving, Goto, locals
<1>16. ASSUME NEW i \in Issuers, EndOrder(i) PROVE LocalTypes'
  BY <1>16, LeaveLocals DEF EndOrder
<1>17. ASSUME NEW i \in Issuers, NEW c \in Challenges, Present(i, c) PROVE LocalTypes'
  BY <1>17 DEF Present, LocalTypes, Creating, Solving, Goto, locals
<1>18. ASSUME NEW i \in Issuers, NEW c \in Challenges, Solve(i, c) PROVE LocalTypes'
  BY <1>18 DEF Solve, LocalTypes, Creating, Solving, Goto, locals
<1>19. ASSUME NEW i \in Issuers, NEW c \in Challenges, CleanUp(i, c) PROVE LocalTypes'
  BY <1>19 DEF CleanUp, LocalTypes, Creating, Solving, Goto, locals
<1>20. ASSUME Crash PROVE LocalTypes'
  BY <1>20 DEF Crash, LocalTypes, Creating, Solving
<1>21. ASSUME UNCHANGED vars PROVE LocalTypes'
  BY <1>21 DEF vars, LocalTypes
<1>22. QED
  BY <1>1, <1>2, <1>3, <1>4, <1>5, <1>6, <1>7, <1>8, <1>9, <1>10, <1>11, <1>12, <1>13,
     <1>14,
       <1>15, <1>16, <1>17, <1>18, <1>19, <1>20, <1>21
     DEF Next, Step

LEMMA OwnStep == TypeInv /\ [Next]_vars => (\A j \in Issuers : WorksOnOwn(j))'
<1> SUFFICES ASSUME TypeInv, [Next]_vars PROVE (\A j \in Issuers : WorksOnOwn(j))'
  OBVIOUS
<1> TableTypes /\ LocalTypes /\ \A j \in Issuers : WorksOnOwn(j)
  BY DEF TypeInv
<1>1. ASSUME NEW i \in Issuers, Start(i) PROVE (\A j \in Issuers : WorksOnOwn(j))'
  BY <1>1 DEF Start, Goto, locals, LocalTypes, WorksOnOwn, Handling, ChallengesOf
<1>2. ASSUME NEW i \in Issuers, ReadKey(i) PROVE (\A j \in Issuers : WorksOnOwn(j))'
  BY <1>2 DEF ReadKey, Goto, locals, Leave, LocalTypes, WorksOnOwn, Handling, ChallengesOf
<1>3. ASSUME NEW i \in Issuers, TruncateKey(i) PROVE (\A j \in Issuers : WorksOnOwn(j))'
  BY <1>3
  DEF TruncateKey, Goto, locals, Leave, LocalTypes, WorksOnOwn, Handling, ChallengesOf
<1>4. ASSUME NEW i \in Issuers, WriteKey(i) PROVE (\A j \in Issuers : WorksOnOwn(j))'
  BY <1>4 DEF WriteKey, Goto, locals, Leave, LocalTypes, WorksOnOwn, Handling, ChallengesOf
<1>5. ASSUME NEW i \in Issuers, ReadReg(i) PROVE (\A j \in Issuers : WorksOnOwn(j))'
  BY <1>5 DEF ReadReg, Goto, locals, LocalTypes, WorksOnOwn, Handling, ChallengesOf
<1>6. ASSUME NEW i \in Issuers, Register(i) PROVE (\A j \in Issuers : WorksOnOwn(j))'
  BY <1>6 DEF Register, Goto, locals, Leave, LocalTypes, WorksOnOwn, Handling, ChallengesOf
<1>7. ASSUME NEW i \in Issuers, TruncateReg(i) PROVE (\A j \in Issuers : WorksOnOwn(j))'
  BY <1>7 DEF TruncateReg, Goto, locals, LocalTypes, WorksOnOwn, Handling, ChallengesOf
<1>8. ASSUME NEW i \in Issuers, WriteReg(i) PROVE (\A j \in Issuers : WorksOnOwn(j))'
  BY <1>8 DEF WriteReg, Goto, locals, LocalTypes, WorksOnOwn, Handling, ChallengesOf
<1>9. ASSUME NEW i \in Issuers, OpenOrder(i) PROVE (\A j \in Issuers : WorksOnOwn(j))'
  BY <1>9 DEF OpenOrder, Goto, locals, Leave, LocalTypes, WorksOnOwn, Handling, ChallengesOf
<1>10. ASSUME NEW i \in Issuers, LookupTXT(i) PROVE (\A j \in Issuers : WorksOnOwn(j))'
  BY <1>10 DEF LookupTXT, Goto, locals, LocalTypes, WorksOnOwn, Handling, ChallengesOf
<1>11. ASSUME NEW i \in Issuers, PublishTXT(i) PROVE (\A j \in Issuers : WorksOnOwn(j))'
  BY <1>11 DEF PublishTXT, Goto, locals, LocalTypes, WorksOnOwn, Handling, ChallengesOf
<1>12. ASSUME NEW i \in Issuers, BeginSolve(i) PROVE (\A j \in Issuers : WorksOnOwn(j))'
  BY <1>12 DEF BeginSolve, Goto, locals, LocalTypes, WorksOnOwn, Handling, ChallengesOf
<1>13. ASSUME NEW i \in Issuers, BeginClean(i) PROVE (\A j \in Issuers : WorksOnOwn(j))'
  BY <1>13 DEF BeginClean, Goto, locals, LocalTypes, WorksOnOwn, Handling, ChallengesOf
<1>14. ASSUME NEW i \in Issuers, LookupClean(i) PROVE (\A j \in Issuers : WorksOnOwn(j))'
  BY <1>14 DEF LookupClean, Goto, locals, LocalTypes, WorksOnOwn, Handling, ChallengesOf
<1>15. ASSUME NEW i \in Issuers, DeleteTXT(i) PROVE (\A j \in Issuers : WorksOnOwn(j))'
  BY <1>15 DEF DeleteTXT, Goto, locals, LocalTypes, WorksOnOwn, Handling, ChallengesOf
<1>16. ASSUME NEW i \in Issuers, EndOrder(i) PROVE (\A j \in Issuers : WorksOnOwn(j))'
  BY <1>16 DEF EndOrder, Goto, locals, Leave, LocalTypes, WorksOnOwn, Handling, ChallengesOf
<1>17. ASSUME NEW i \in Issuers, NEW c \in Challenges, Present(i, c)
      PROVE  (\A j \in Issuers : WorksOnOwn(j))'
  BY <1>17 DEF Present, Goto, locals, LocalTypes, WorksOnOwn, Handling, ChallengesOf
<1>18. ASSUME NEW i \in Issuers, NEW c \in Challenges, Solve(i, c)
      PROVE  (\A j \in Issuers : WorksOnOwn(j))'
  BY <1>18 DEF Solve, Goto, locals, LocalTypes, WorksOnOwn, Handling, ChallengesOf
<1>19. ASSUME NEW i \in Issuers, NEW c \in Challenges, CleanUp(i, c)
      PROVE  (\A j \in Issuers : WorksOnOwn(j))'
  BY <1>19 DEF CleanUp, Goto, locals, LocalTypes, WorksOnOwn, Handling, ChallengesOf
<1>20. ASSUME Crash PROVE (\A j \in Issuers : WorksOnOwn(j))'
  BY <1>20 DEF Crash, WorksOnOwn, Handling, ChallengesOf
<1>21. ASSUME UNCHANGED vars PROVE (\A j \in Issuers : WorksOnOwn(j))'
  BY <1>21 DEF vars, WorksOnOwn, ChallengesOf
<1>22. QED
  BY <1>1, <1>2, <1>3, <1>4, <1>5, <1>6, <1>7, <1>8, <1>9, <1>10, <1>11, <1>12, <1>13,
     <1>14,
       <1>15, <1>16, <1>17, <1>18, <1>19, <1>20, <1>21
     DEF Next, Step

LEMMA TablesStep == TypeInv /\ [Next]_vars => TableTypes'
<1> SUFFICES ASSUME TypeInv, [Next]_vars PROVE TableTypes'
  OBVIOUS
<1> TableTypes /\ LocalTypes /\ \A j \in Issuers : WorksOnOwn(j)
  BY DEF TypeInv
<1>1. ASSUME NEW i \in Issuers, Start(i) PROVE TableTypes'
  BY <1>1, OwnersAndNames, ConstantsAssumption
  DEF Start, TableTypes, account, ConstantsAssumption
<1>2. ASSUME NEW i \in Issuers, ReadKey(i) PROVE TableTypes'
  <2>1. AccountOf[i] \in Accounts
    BY OwnersAndNames
  <2>2. raced' \subseteq Accounts
    BY <1>2, <2>1 DEF ReadKey, GenerateKey, TableTypes
  <2>3. QED
    BY <1>2, <2>2, FaultBound DEF ReadKey, TableTypes, account
<1>3. ASSUME NEW i \in Issuers, TruncateKey(i) PROVE TableTypes'
  BY <1>3, FaultBound, OwnersAndNames DEF TruncateKey, TableTypes
<1>4. ASSUME NEW i \in Issuers, WriteKey(i) PROVE TableTypes'
  BY <1>4, FaultBound DEF WriteKey, TableTypes, account, LocalTypes
<1>5. ASSUME NEW i \in Issuers, ReadReg(i) PROVE TableTypes'
  BY <1>5, FaultBound DEF ReadReg, TableTypes, account
<1>6. ASSUME NEW i \in Issuers, Register(i) PROVE TableTypes'
  BY <1>6, FaultBound DEF Register, TableTypes, account
<1>7. ASSUME NEW i \in Issuers, TruncateReg(i) PROVE TableTypes'
  BY <1>7, FaultBound DEF TruncateReg, TableTypes, account
<1>8. ASSUME NEW i \in Issuers, WriteReg(i) PROVE TableTypes'
  BY <1>8, FaultBound DEF WriteReg, TableTypes, account, LocalTypes
<1>9. ASSUME NEW i \in Issuers, OpenOrder(i) PROVE TableTypes'
  BY <1>9, FaultBound DEF OpenOrder, TableTypes, account
<1>10. ASSUME NEW i \in Issuers, LookupTXT(i) PROVE TableTypes'
  BY <1>10, FaultBound DEF LookupTXT, TableTypes, account
<1>11. ASSUME NEW i \in Issuers, PublishTXT(i) PROVE TableTypes'
  BY <1>11, FaultBound DEF PublishTXT, TableTypes, account, LocalTypes, Published
<1>12. ASSUME NEW i \in Issuers, BeginSolve(i) PROVE TableTypes'
  BY <1>12 DEF BeginSolve, TableTypes, account
<1>13. ASSUME NEW i \in Issuers, BeginClean(i) PROVE TableTypes'
  BY <1>13 DEF BeginClean, TableTypes, account
<1>14. ASSUME NEW i \in Issuers, LookupClean(i) PROVE TableTypes'
  <2>1. now[i] \in Challenges
    BY <1>14, OwnChallenges DEF LookupClean, Goto, WorksOnOwn, Handling
  <2>2. NameOf[now[i]] \in Names
    BY <2>1, OwnersAndNames
  <2>3. QED
    BY <1>14, <2>2, FaultBound DEF LookupClean, TableTypes, account
<1>15. ASSUME NEW i \in Issuers, DeleteTXT(i) PROVE TableTypes'
  <2>1. now[i] \in Challenges
    BY <1>15, OwnChallenges DEF DeleteTXT, Goto, WorksOnOwn, Handling
  <2>2. NameOf[now[i]] \in Names
    BY <2>1, OwnersAndNames
  <2>3. QED
    BY <1>15, <2>2, FaultBound DEF DeleteTXT, TableTypes, account
<1>16. ASSUME NEW i \in Issuers, EndOrder(i) PROVE TableTypes'
  BY <1>16 DEF EndOrder, TableTypes, account
<1>17. ASSUME NEW i \in Issuers, NEW c \in Challenges, Present(i, c) PROVE TableTypes'
  BY <1>17 DEF Present, TableTypes, account
<1>18. ASSUME NEW i \in Issuers, NEW c \in Challenges, Solve(i, c) PROVE TableTypes'
  BY <1>18, FaultBound DEF Solve, TableTypes, account
<1>19. ASSUME NEW i \in Issuers, NEW c \in Challenges, CleanUp(i, c) PROVE TableTypes'
  BY <1>19 DEF CleanUp, TableTypes, account
<1>20. ASSUME Crash PROVE TableTypes'
  BY <1>20, FaultBound DEF Crash, TableTypes, account
<1>21. ASSUME UNCHANGED vars PROVE TableTypes'
  BY <1>21 DEF vars, TableTypes
<1>22. QED
  BY <1>1, <1>2, <1>3, <1>4, <1>5, <1>6, <1>7, <1>8, <1>9, <1>10, <1>11, <1>12, <1>13,
     <1>14,
       <1>15, <1>16, <1>17, <1>18, <1>19, <1>20, <1>21
     DEF Next, Step

LEMMA TypeInit == Init => TypeInv
<1> SUFFICES ASSUME Init PROVE TypeInv
  OBVIOUS
<1>1. TableTypes
  BY ConstantsAssumption DEF Init, TableTypes, Keys, ConstantsAssumption
<1>2. LocalTypes
  BY DEF Init, LocalTypes
<1>3. \A i \in Issuers : WorksOnOwn(i)
  BY DEF Init, WorksOnOwn, Handling
<1>4. QED
  BY <1>1, <1>2, <1>3 DEF TypeInv

LEMMA TypeStep == TypeInv /\ [Next]_vars => TypeInv'
BY LocalsStep, OwnStep, TablesStep DEF TypeInv

LEMMA TypeInvariant == Spec => []TypeInv
BY TypeInit, TypeStep, PTL DEF Spec

\* Files, RRsets and locals keep their types, and an order works on its own challenges only:
\* what its provider publishes, still has to do and counts as failed.
THEOREM TypeCorrect == Spec => []TypeOK
BY TypeInvariant, TypeInvIsTypeOK, PTL

---------------------------------------------------------------------------
(* Account files *)

\* The steps between having the key and having tried to write its registration.
KeyInHand == {"readReg", "register", "truncateReg", "writeReg"}
KeyToWrite == {"truncateKey", "writeKey"}

OneCreator ==
  \A i, j \in Issuers :
    /\ AccountOf[i] = AccountOf[j] /\ AccountOf[i] \notin raced
    /\ pc[i] \in KeyToWrite /\ pc[j] \in KeyToWrite
    => i = j

\* A registration is written after its key and for that key: the other way round, a restart
\* between the two would leave the registration of a key that was never stored.
FilesOK ==
  \A a \in Accounts \ raced :
    /\ keyFile[a] \in Keys /\ regFile[a] \in Keys => regFile[a] = keyFile[a]
    /\ keyFile[a] \notin Keys => regFile[a] \notin Keys

\* What an issuer knows of the files of an account that has had one creator.
HandsOK ==
  \A i \in Issuers : AccountOf[i] \notin raced =>
    /\ pc[i] \in KeyToWrite => keyFile[AccountOf[i]] \notin Keys
    /\ pc[i] = "writeKey" => keyFile[AccountOf[i]] = Torn
    /\ pc[i] \in KeyInHand => keyFile[AccountOf[i]] = key[i]
    /\ pc[i] \in KeyToWrite \union KeyInHand => key[i] \in Keys
    /\ pc[i] \in {"truncateReg", "writeReg", "order"} => reg[i] = key[i]

AccountOK == OneCreator /\ FilesOK /\ HandsOK

\* A step that writes no file and brings nobody closer to it.
AccountQuiet ==
  /\ UNCHANGED <<keyFile, regFile, raced>>
  /\ \A j \in Issuers : pc'[j] \in Creating \union {"order"} =>
        pc'[j] = pc[j] /\ key'[j] = key[j] /\ reg'[j] = reg[j]

LEMMA AccountQuietStep == AccountOK /\ AccountQuiet => AccountOK'
<1> SUFFICES ASSUME AccountOK, AccountQuiet PROVE AccountOK'
  OBVIOUS
<1>1. OneCreator'
  BY DEF AccountOK, OneCreator, AccountQuiet, KeyToWrite, Creating
<1>2. FilesOK'
  BY DEF AccountOK, FilesOK, AccountQuiet
<1>3. HandsOK'
  BY DEF AccountOK, HandsOK, AccountQuiet, KeyInHand, KeyToWrite, Creating
<1>4. QED
  BY <1>1, <1>2, <1>3 DEF AccountOK

LEMMA AccountStep == TypeInv /\ AccountOK /\ [Next]_vars => AccountOK'
<1> SUFFICES ASSUME TypeInv, AccountOK, [Next]_vars PROVE AccountOK'
  OBVIOUS
<1> TableTypes /\ LocalTypes /\ \A j \in Issuers : WorksOnOwn(j)
  BY DEF TypeInv
<1> USE DEF LocalTypes, Creating, Solving
<1>1. ASSUME NEW i \in Issuers, Start(i) PROVE AccountOK'
  <2>1. OneCreator'
    BY <1>1, OwnersAndNames DEF AccountOK, OneCreator, KeyToWrite, Start, Goto, account, locals
  <2>2. FilesOK'
    BY <1>1 DEF AccountOK, FilesOK, Start, Goto, account, locals
  <2>3. HandsOK'
    BY <1>1 DEF AccountOK, HandsOK, KeyInHand, KeyToWrite, Start, Goto, account, locals
  <2>4. QED
    BY <2>1, <2>2, <2>3 DEF AccountOK
<1>2. ASSUME NEW i \in Issuers, ReadKey(i) PROVE AccountOK'
  <2> SUFFICES ASSUME ~Leave(i, "readKey") PROVE AccountOK'
    <3>1. CASE Leave(i, "readKey") /\ UNCHANGED account
      BY <1>2, <3>1, AccountQuietStep DEF AccountQuiet, ReadKey, Leave, Goto, account
    <3>2. QED
      BY <1>2, <3>1 DEF ReadKey, GenerateKey, Leave, Goto, account, locals
  <2>1. OneCreator'
    <3>1. \A j \in Issuers : pc'[j] \in KeyToWrite => j = i \/ pc[j] \in KeyToWrite
      BY <1>2 DEF ReadKey, Goto, KeyToWrite
    <3>2. raced \subseteq raced'
      BY <1>2 DEF ReadKey, GenerateKey
    <3>3. ASSUME NEW j \in Issuers, j # i, AccountOf[j] = AccountOf[i],
                 AccountOf[i] \notin raced', pc'[i] \in KeyToWrite, pc'[j] \in KeyToWrite
          PROVE  FALSE
      <4>1. keyFile[AccountOf[i]] = None /\ pc[j] # "truncateKey"
        BY <1>2, <3>3 DEF ReadKey, GenerateKey, Goto, KeyToWrite
      <4>2. pc[j] = "writeKey" /\ keyFile[AccountOf[j]] = Torn
        BY <3>1, <3>2, <3>3, <4>1 DEF AccountOK, HandsOK, KeyToWrite
      <4>3. QED
        BY <3>3, <4>1, <4>2, MissingNotTorn
    <3>4. QED
      BY <3>1, <3>2, <3>3 DEF AccountOK, OneCreator
  <2>2. FilesOK'
    BY <1>2 DEF AccountOK, FilesOK, GenerateKey, ReadKey, Goto, account, locals
  <2>3. HandsOK'
    BY <1>2, NoKeys
    DEF AccountOK, HandsOK, KeyInHand, KeyToWrite, GenerateKey, ReadKey, Goto, account, locals, Keys
  <2>4. QED
    BY <2>1, <2>2, <2>3 DEF AccountOK
<1>3. ASSUME NEW i \in Issuers, TruncateKey(i) PROVE AccountOK'
  <2> SUFFICES ASSUME ~Leave(i, "truncateKey") PROVE AccountOK'
    <3>1. CASE Leave(i, "truncateKey") /\ UNCHANGED account
      BY <1>3, <3>1, AccountQuietStep DEF AccountQuiet, TruncateKey, Leave, Goto, account
    <3>2. QED
      BY <1>3, <3>1 DEF TruncateKey, Leave, Goto, account, locals
  <2>0. /\ AccountOf[i] \in Accounts
        /\ \A j \in Issuers : /\ AccountOf[j] = AccountOf[i] /\ AccountOf[i] \notin raced
                              /\ pc[j] \in KeyToWrite
                              => j = i
    BY <1>3, OwnersAndNames DEF AccountOK, OneCreator, TruncateKey, Goto, KeyToWrite
  <2>1. OneCreator'
    BY <1>3 DEF AccountOK, OneCreator, KeyToWrite, TruncateKey, Goto, account, locals
  <2>2. FilesOK'
    BY <1>3, <2>0, NoKeys
    DEF AccountOK, FilesOK, TruncateKey, Goto, account, locals, HandsOK, KeyInHand,
        KeyToWrite, TableTypes
  <2>3. HandsOK'
    BY <1>3, <2>0, NoKeys, OwnersAndNames
    DEF AccountOK, HandsOK, KeyInHand, KeyToWrite, TruncateKey, Goto, account, locals,
        TableTypes
  <2>4. QED
    BY <2>1, <2>2, <2>3 DEF AccountOK
<1>4. ASSUME NEW i \in Issuers, WriteKey(i) PROVE AccountOK'
  <2> SUFFICES ASSUME ~Leave(i, "writeKey") PROVE AccountOK'
    <3>1. CASE Leave(i, "writeKey") /\ UNCHANGED account
      BY <1>4, <3>1, AccountQuietStep DEF AccountQuiet, WriteKey, Leave, Goto, account
    <3>2. QED
      BY <1>4, <3>1 DEF WriteKey, Leave, Goto, account, locals
  <2>0. /\ AccountOf[i] \in Accounts
        /\ \A j \in Issuers : /\ AccountOf[j] = AccountOf[i] /\ AccountOf[i] \notin raced
                              /\ pc[j] \in KeyToWrite
                              => j = i
    BY <1>4, OwnersAndNames DEF AccountOK, OneCreator, WriteKey, Goto, KeyToWrite
  <2>1. OneCreator'
    BY <1>4 DEF AccountOK, OneCreator, KeyToWrite, WriteKey, Goto, account, locals
  <2>2. FilesOK'
    BY <1>4, <2>0, NoKeys
    DEF AccountOK, FilesOK, WriteKey, Goto, account, locals, HandsOK, KeyInHand, KeyToWrite,
        TableTypes
  <2>3. HandsOK'
    BY <1>4, <2>0, NoKeys, OwnersAndNames
    DEF AccountOK, HandsOK, KeyInHand, KeyToWrite, WriteKey, Goto, account, locals,
        TableTypes
  <2>4. QED
    BY <2>1, <2>2, <2>3 DEF AccountOK
<1>5. ASSUME NEW i \in Issuers, ReadReg(i) PROVE AccountOK'
  <2>1. OneCreator'
    BY <1>5 DEF AccountOK, OneCreator, KeyToWrite, ReadReg, Goto, account, locals
  <2>2. FilesOK'
    BY <1>5 DEF AccountOK, FilesOK, ReadReg, Goto, account, locals
  <2>3. HandsOK'
    BY <1>5, OwnersAndNames
    DEF AccountOK, HandsOK, KeyInHand, KeyToWrite, ReadReg, Goto, account, locals, FilesOK
  <2>4. QED
    BY <2>1, <2>2, <2>3 DEF AccountOK
<1>6. ASSUME NEW i \in Issuers, Register(i) PROVE AccountOK'
  <2> SUFFICES ASSUME ~Leave(i, "register") PROVE AccountOK'
    <3>1. CASE Leave(i, "register") /\ UNCHANGED account
      BY <1>6, <3>1, AccountQuietStep DEF AccountQuiet, Register, Leave, Goto, account
    <3>2. QED
      BY <1>6, <3>1 DEF Register, Leave, Goto, account, locals
  <2>1. OneCreator'
    BY <1>6 DEF AccountOK, OneCreator, KeyToWrite, Register, Goto, account, locals
  <2>2. FilesOK'
    BY <1>6 DEF AccountOK, FilesOK, Register, Goto, account, locals
  <2>3. HandsOK'
    BY <1>6 DEF AccountOK, HandsOK, KeyInHand, KeyToWrite, Register, Goto, account, locals
  <2>4. QED
    BY <2>1, <2>2, <2>3 DEF AccountOK
<1>7. ASSUME NEW i \in Issuers, TruncateReg(i) PROVE AccountOK'
  <2>0. AccountOf[i] \in Accounts
    BY OwnersAndNames
  <2>1. OneCreator'
    BY <1>7 DEF AccountOK, OneCreator, KeyToWrite, TruncateReg, Goto, account, locals
  <2>2. FilesOK'
    BY <1>7, <2>0, NoKeys
    DEF AccountOK, FilesOK, TruncateReg, Goto, account, locals, HandsOK, KeyInHand,
        KeyToWrite, TableTypes
  <2>3. HandsOK'
    BY <1>7, <2>0, NoKeys, OwnersAndNames
    DEF AccountOK, HandsOK, KeyInHand, KeyToWrite, TruncateReg, Goto, account, locals,
        TableTypes
  <2>4. QED
    BY <2>1, <2>2, <2>3 DEF AccountOK
<1>8. ASSUME NEW i \in Issuers, WriteReg(i) PROVE AccountOK'
  <2>0. AccountOf[i] \in Accounts
    BY OwnersAndNames
  <2>1. OneCreator'
    BY <1>8 DEF AccountOK, OneCreator, KeyToWrite, WriteReg, Goto, account, locals
  <2>2. FilesOK'
    BY <1>8, <2>0, NoKeys
    DEF AccountOK, FilesOK, WriteReg, Goto, account, locals, HandsOK, KeyInHand, KeyToWrite,
        TableTypes
  <2>3. HandsOK'
    BY <1>8, <2>0, NoKeys, OwnersAndNames
    DEF AccountOK, HandsOK, KeyInHand, KeyToWrite, WriteReg, Goto, account, locals,
        TableTypes
  <2>4. QED
    BY <2>1, <2>2, <2>3 DEF AccountOK
<1>9. ASSUME NEW i \in Issuers, OpenOrder(i) PROVE AccountOK'
  BY <1>9, AccountQuietStep DEF AccountQuiet, OpenOrder, Goto, locals, account, Leave
<1>10. ASSUME NEW i \in Issuers, LookupTXT(i) PROVE AccountOK'
  BY <1>10, AccountQuietStep DEF AccountQuiet, LookupTXT, Goto, locals, account
<1>11. ASSUME NEW i \in Issuers, PublishTXT(i) PROVE AccountOK'
  BY <1>11, AccountQuietStep DEF AccountQuiet, PublishTXT, Goto, locals, account
<1>12. ASSUME NEW i \in Issuers, BeginSolve(i) PROVE AccountOK'
  BY <1>12, AccountQuietStep DEF AccountQuiet, BeginSolve, Goto, locals, account
<1>13. ASSUME NEW i \in Issuers, BeginClean(i) PROVE AccountOK'
  BY <1>13, AccountQuietStep DEF AccountQuiet, BeginClean, Goto, locals, account
<1>14. ASSUME NEW i \in Issuers, LookupClean(i) PROVE AccountOK'
  BY <1>14, AccountQuietStep DEF AccountQuiet, LookupClean, Goto, locals, account
<1>15. ASSUME NEW i \in Issuers, DeleteTXT(i) PROVE AccountOK'
  BY <1>15, AccountQuietStep DEF AccountQuiet, DeleteTXT, Goto, locals, account
<1>16. ASSUME NEW i \in Issuers, EndOrder(i) PROVE AccountOK'
  BY <1>16, AccountQuietStep DEF AccountQuiet, EndOrder, Goto, locals, account, Leave
<1>17. ASSUME NEW i \in Issuers, NEW c \in Challenges, Present(i, c) PROVE AccountOK'
  BY <1>17, AccountQuietStep DEF AccountQuiet, Present, Goto, locals, account
<1>18. ASSUME NEW i \in Issuers, NEW c \in Challenges, Solve(i, c) PROVE AccountOK'
  BY <1>18, AccountQuietStep DEF AccountQuiet, Solve, Goto, locals, account
<1>19. ASSUME NEW i \in Issuers, NEW c \in Challenges, CleanUp(i, c) PROVE AccountOK'
  BY <1>19, AccountQuietStep DEF AccountQuiet, CleanUp, Goto, locals, account
<1>20. ASSUME Crash PROVE AccountOK'
  BY <1>20, AccountQuietStep DEF AccountQuiet, Crash, account
<1>21. ASSUME UNCHANGED vars PROVE AccountOK'
  BY <1>21, AccountQuietStep DEF vars, AccountQuiet, account, locals
<1>22. QED
  BY <1>1, <1>2, <1>3, <1>4, <1>5, <1>6, <1>7, <1>8, <1>9, <1>10, <1>11, <1>12, <1>13,
     <1>14,
       <1>15, <1>16, <1>17, <1>18, <1>19, <1>20, <1>21
     DEF Next, Step

LEMMA AccountInit == Init => AccountOK
BY NoKeys
DEF Init, AccountOK, OneCreator, FilesOK, HandsOK, Creating, KeyInHand, KeyToWrite, Keys

LEMMA AccountInvariant == Spec => []AccountOK
<1>1. TypeInv /\ AccountOK /\ [Next]_vars => (TypeInv /\ AccountOK)'
  BY TypeStep, AccountStep
<1>2. QED
  BY <1>1, TypeInit, AccountInit, PTL DEF Spec

\* account.json never holds the registration of another key than account.key does, through
\* any failed write and any restart, also while several issuers are at work on the files,
\* unless two of them generated a key for the account at the same time.
THEOREM FilesMatch == Spec => []AccountFilesMatch
<1>1. AccountOK => AccountFilesMatch
  BY DEF AccountOK, FilesOK, AccountFilesMatch
<1>2. QED
  BY <1>1, AccountInvariant, PTL

\* An issuer opens its order with a registration of its own key, whatever account.json held,
\* whichever call before failed and whoever else works on the account, unless two issuers
\* generated a key for it at the same time.
THEOREM OwnAccountUsed == Spec => []OrdersUseOwnAccount
<1>1. AccountOK => OrdersUseOwnAccount
  BY DEF AccountOK, HandsOK, OrdersUseOwnAccount
<1>2. QED
  BY <1>1, AccountInvariant, PTL

\* A whole key is never truncated or replaced, unless two issuers generated one for the account
\* at the same time: an issuer about to write one found none, and nobody can have written one
\* since.
THEOREM KeyKept == Spec => AccountKeyKept
<1>1. AccountOK /\ TypeInv /\ [Next]_vars
        => [\A a \in Accounts \ raced : keyFile[a] \in Keys => keyFile'[a] = keyFile[a]]_vars
  <2> SUFFICES ASSUME AccountOK, TypeInv, Next, NEW a \in Accounts \ raced, keyFile[a] \in Keys
               PROVE  keyFile'[a] = keyFile[a]
    OBVIOUS
  <2>1. \A i \in Issuers : AccountOf[i] = a => pc[i] \notin KeyToWrite
    BY DEF AccountOK, HandsOK
  <2>2. ASSUME NEW i \in Issuers, TruncateKey(i) PROVE keyFile'[a] = keyFile[a]
    <3>1. AccountOf[i] # a
      BY <2>1, <2>2 DEF TruncateKey, Goto, Leave, KeyToWrite
    <3>2. QED
      BY <2>2, <3>1 DEF TruncateKey, TypeInv, TableTypes
  <2>3. ASSUME NEW i \in Issuers, WriteKey(i) PROVE keyFile'[a] = keyFile[a]
    <3>1. AccountOf[i] # a
      BY <2>1, <2>3 DEF WriteKey, Goto, Leave, KeyToWrite
    <3>2. QED
      BY <2>3, <3>1 DEF WriteKey, TypeInv, TableTypes
  <2>4. CASE keyFile' = keyFile
    BY <2>4
  <2>5. QED
    BY <2>2, <2>3, <2>4
    DEF Next, Step, Crash, Start, ReadKey, ReadReg, Register, TruncateReg, WriteReg, OpenOrder,
        LookupTXT, PublishTXT, BeginSolve, BeginClean, LookupClean, DeleteTXT, EndOrder, Present,
        Solve, CleanUp, account
<1>2. QED
  BY <1>1, TypeInvariant, AccountInvariant, PTL DEF Spec, AccountKeyKept

---------------------------------------------------------------------------
(* Challenges are published *)

\* The steps up to the answer of the CA, and those that take challenges back.
Asking == {"present", "lookup", "publish", "solve"}
Cleaning == {"clean", "lookupClean", "delete"}

\* What an order has presented stands in its RRset, but for the value it is about to publish
\* and those that failed.
PublishedOK ==
  \A i \in Issuers :
    /\ pc[i] \notin Solving => values[i] = {}
    /\ pc[i] \in Asking => \A c \in values[i] \ failed[i] :
         c \in txt[NameOf[c]] \/ (pc[i] \in {"lookup", "publish"} /\ c = now[i])

\* A step that changes no RRset and presents nothing.
PublishedQuiet ==
  /\ txt' = txt
  /\ \A j \in Issuers :
       /\ pc'[j] \in Asking =>
            /\ pc'[j] = pc[j] /\ now'[j] = now[j]
            /\ values'[j] = values[j] /\ failed[j] \subseteq failed'[j]
       /\ pc'[j] \notin Solving => \/ values'[j] = {}
                                   \/ pc[j] \notin Solving /\ values'[j] = values[j]

LEMMA PublishedQuietStep == PublishedOK /\ PublishedQuiet => PublishedOK'
BY DEF PublishedOK, PublishedQuiet

LEMMA PublishedStep == ASSUME OwnNames PROVE TypeInv /\ PublishedOK /\ [Next]_vars => PublishedOK'
<1> SUFFICES ASSUME TypeInv, PublishedOK, [Next]_vars PROVE PublishedOK'
  OBVIOUS
<1> TableTypes /\ LocalTypes /\ \A j \in Issuers : WorksOnOwn(j)
  BY DEF TypeInv
<1> USE DEF LocalTypes, Creating, Solving, Asking
<1>1. ASSUME NEW i \in Issuers, Start(i) PROVE PublishedOK'
  BY <1>1, PublishedQuietStep DEF PublishedQuiet, Start, Goto, locals, account
<1>2. ASSUME NEW i \in Issuers, ReadKey(i) PROVE PublishedOK'
  BY <1>2, PublishedQuietStep DEF PublishedQuiet, ReadKey, Goto, locals, account, Leave
<1>3. ASSUME NEW i \in Issuers, TruncateKey(i) PROVE PublishedOK'
  BY <1>3, PublishedQuietStep DEF PublishedQuiet, TruncateKey, Goto, locals, account, Leave
<1>4. ASSUME NEW i \in Issuers, WriteKey(i) PROVE PublishedOK'
  BY <1>4, PublishedQuietStep DEF PublishedQuiet, WriteKey, Goto, locals, account, Leave
<1>5. ASSUME NEW i \in Issuers, ReadReg(i) PROVE PublishedOK'
  BY <1>5, PublishedQuietStep DEF PublishedQuiet, ReadReg, Goto, locals, account
<1>6. ASSUME NEW i \in Issuers, Register(i) PROVE PublishedOK'
  BY <1>6, PublishedQuietStep DEF PublishedQuiet, Register, Goto, locals, account, Leave
<1>7. ASSUME NEW i \in Issuers, TruncateReg(i) PROVE PublishedOK'
  BY <1>7, PublishedQuietStep DEF PublishedQuiet, TruncateReg, Goto, locals, account
<1>8. ASSUME NEW i \in Issuers, WriteReg(i) PROVE PublishedOK'
  BY <1>8, PublishedQuietStep DEF PublishedQuiet, WriteReg, Goto, locals, account
<1>9. ASSUME NEW i \in Issuers, OpenOrder(i) PROVE PublishedOK'
  <2>1. CASE Leave(i, "order") /\ UNCHANGED txt
    BY <1>9, <2>1, PublishedQuietStep DEF PublishedQuiet, Leave, Goto
  <2>2. CASE ~Leave(i, "order")
    BY <1>9, <2>2 DEF PublishedOK, OpenOrder, Goto
  <2>3. QED
    BY <1>9, <2>1, <2>2 DEF OpenOrder
<1>10. ASSUME NEW i \in Issuers, LookupTXT(i) PROVE PublishedOK'
  BY <1>10 DEF PublishedOK, LookupTXT, Goto
<1>11. ASSUME NEW i \in Issuers, PublishTXT(i) PROVE PublishedOK'
  <2> DEFINE n == NameOf[now[i]]
  <2>1. /\ pc[i] = "publish" /\ pc' = [pc EXCEPT ![i] = "present"]
        /\ now[i] \in Challenges /\ OwnerOf[now[i]] = i /\ n \in Names
        /\ UNCHANGED <<values, now>>
        /\ \A j \in Issuers : failed[j] \subseteq failed'[j]
        /\ \A j \in Issuers \ {i} : failed'[j] = failed[j]
    BY <1>11, OwnChallenges, OwnersAndNames DEF PublishTXT, Goto, WorksOnOwn, Handling
  <2>2. \A j \in Issuers : \A c \in values[j] : c \in Challenges /\ OwnerOf[c] = j
    BY OwnChallenges DEF WorksOnOwn
  <2>3. \A j \in Issuers \ {i} : \A c \in values[j] : NameOf[c] # n
    BY <2>1, <2>2 DEF OwnNames
  <2>4. CASE txt' = txt /\ now[i] \in failed'[i]
    BY <2>1, <2>4 DEF PublishedOK
  <2>5. CASE txt' = [txt EXCEPT ![n] = Published(i)]
    <3>1. \A c \in values[i] : NameOf[c] = n => c \in txt'[n]
      BY <2>1, <2>2, <2>5 DEF TableTypes, Published, SameName
    <3>2. \A c \in Challenges : NameOf[c] # n => txt'[NameOf[c]] = txt[NameOf[c]]
      BY <2>5, OwnersAndNames DEF TableTypes
    <3>3. ASSUME NEW j \in Issuers, pc'[j] \in Asking, NEW c \in values'[j] \ failed'[j]
          PROVE  c \in txt'[NameOf[c]] \/ (pc'[j] \in {"lookup", "publish"} /\ c = now'[j])
      <4>1. c \in values[j] \ failed[j] /\ c \in Challenges /\ pc[j] \in Asking
        BY <2>1, <2>2, <3>3
      <4>2. CASE NameOf[c] = n
        BY <2>1, <2>3, <3>1, <4>1, <4>2
      <4>3. CASE NameOf[c] # n
        <5>1. c \in txt[NameOf[c]] \/ (pc[j] \in {"lookup", "publish"} /\ c = now[j] /\ j # i)
          BY <4>1, <4>3 DEF PublishedOK
        <5>2. QED
          BY <2>1, <3>2, <4>1, <4>3, <5>1
      <4>4. QED
        BY <4>2, <4>3
    <3>4. \A j \in Issuers : pc'[j] \notin Solving => values'[j] = {}
      BY <2>1 DEF PublishedOK
    <3>5. QED
      BY <3>3, <3>4 DEF PublishedOK
  <2>6. QED
    BY <1>11, <2>4, <2>5 DEF PublishTXT
<1>12. ASSUME NEW i \in Issuers, BeginSolve(i) PROVE PublishedOK'
  BY <1>12 DEF PublishedOK, BeginSolve, Goto
<1>13. ASSUME NEW i \in Issuers, BeginClean(i) PROVE PublishedOK'
  BY <1>13, PublishedQuietStep DEF PublishedQuiet, BeginClean, Goto, locals, account
<1>14. ASSUME NEW i \in Issuers, LookupClean(i) PROVE PublishedOK'
  BY <1>14, PublishedQuietStep DEF PublishedQuiet, LookupClean, Goto, locals, account
<1>15. ASSUME NEW i \in Issuers, DeleteTXT(i) PROVE PublishedOK'
  <2> DEFINE n == NameOf[now[i]]
  <2>1. /\ pc[i] = "delete" /\ pc' = [pc EXCEPT ![i] = "clean"]
        /\ now[i] \in Challenges /\ OwnerOf[now[i]] = i
        /\ UNCHANGED <<values, failed, now>>
        /\ txt' = txt \/ txt' = [txt EXCEPT ![n] = {}]
    BY <1>15, OwnChallenges DEF DeleteTXT, Goto, WorksOnOwn, Handling, locals
  <2>2. \A j \in Issuers : \A c \in values[j] : c \in Challenges /\ OwnerOf[c] = j
    BY OwnChallenges DEF WorksOnOwn
  <2>3. \A j \in Issuers \ {i} : \A c \in values[j] : NameOf[c] # n
    BY <2>1, <2>2 DEF OwnNames
  <2>4. \A c \in Challenges : NameOf[c] # n => txt'[NameOf[c]] = txt[NameOf[c]]
    BY <2>1, OwnersAndNames DEF TableTypes
  <2>5. ASSUME NEW j \in Issuers, pc'[j] \in Asking, NEW c \in values'[j] \ failed'[j]
        PROVE  c \in txt'[NameOf[c]] \/ (pc'[j] \in {"lookup", "publish"} /\ c = now'[j])
    <3>1. j # i /\ pc'[j] = pc[j]
      BY <2>1, <2>5
    <3>2. c \in values[j] \ failed[j] /\ c \in Challenges /\ NameOf[c] # n
      BY <2>1, <2>2, <2>3, <2>5, <3>1
    <3>3. QED
      BY <2>1, <2>4, <2>5, <3>1, <3>2 DEF PublishedOK
  <2>6. \A j \in Issuers : pc'[j] \notin Solving => values'[j] = {}
    BY <2>1 DEF PublishedOK
  <2>7. QED
    BY <2>5, <2>6 DEF PublishedOK
<1>16. ASSUME NEW i \in Issuers, EndOrder(i) PROVE PublishedOK'
  BY <1>16, PublishedQuietStep DEF PublishedQuiet, EndOrder, Goto, locals, account, Leave
<1>17. ASSUME NEW i \in Issuers, NEW c \in Challenges, Present(i, c) PROVE PublishedOK'
  BY <1>17 DEF PublishedOK, Present, Goto
<1>18. ASSUME NEW i \in Issuers, NEW c \in Challenges, Solve(i, c) PROVE PublishedOK'
  BY <1>18, PublishedQuietStep DEF PublishedQuiet, Solve, Goto, locals, account
<1>19. ASSUME NEW i \in Issuers, NEW c \in Challenges, CleanUp(i, c) PROVE PublishedOK'
  BY <1>19, PublishedQuietStep DEF PublishedQuiet, CleanUp, Goto, locals, account
<1>20. ASSUME Crash PROVE PublishedOK'
  BY <1>20, PublishedQuietStep DEF PublishedQuiet, Crash, account
<1>21. ASSUME UNCHANGED vars PROVE PublishedOK'
  BY <1>21, PublishedQuietStep DEF vars, PublishedQuiet, account, locals
<1>22. QED
  BY <1>1, <1>2, <1>3, <1>4, <1>5, <1>6, <1>7, <1>8, <1>9, <1>10, <1>11, <1>12, <1>13,
     <1>14,
       <1>15, <1>16, <1>17, <1>18, <1>19, <1>20, <1>21
     DEF Next, Step

\* A challenge the CA is asked to validate is in its RRset, with every other one of its
\* name, when no other issuer has challenges of that name: a provider that publishes the
\* wildcard's value does not drop the one of the base domain.
THEOREM ChallengesArePublished == ASSUME OwnNames PROVE Spec => []ChallengesPublished
<1>1. Init => PublishedOK
  BY DEF Init, PublishedOK, Asking
<1>2. TypeInv /\ PublishedOK /\ [Next]_vars => (TypeInv /\ PublishedOK)'
  BY TypeStep, PublishedStep
<1>3. PublishedOK => ChallengesPublished
  BY DEF PublishedOK, Asking, ChallengesPublished
<1>4. QED
  BY <1>1, <1>2, <1>3, TypeInit, PTL DEF Spec

---------------------------------------------------------------------------
(* Challenges are taken back *)

\* The issuer of a published challenge still counts it among its values, or has a challenge
\* of the same name left to clean up.
StillHeld(c) ==
  LET i == OwnerOf[c] IN
  /\ pc[i] \in Solving
  /\ pc[i] \in Asking => c \in values[i]
  /\ pc[i] \in Cleaning => \/ \E d \in todo[i] : NameOf[d] = NameOf[c]
                           \/ pc[i] # "clean" /\ NameOf[now[i]] = NameOf[c]

LeftoverOK ==
  \A n \in Names : \A c \in txt[n] : NameOf[c] = n /\ (c \notin lost => StillHeld(c))

\* One issuer takes a step that changes no RRset: the challenges of the others are held as
\* before.
LEMMA LeftoverOwnStep ==
  ASSUME TypeInv, LeftoverOK, NEW i \in Issuers,
         txt' = txt, lost \subseteq lost',
         \A j \in Issuers \ {i} : /\ pc'[j] = pc[j] /\ values'[j] = values[j]
                                  /\ todo'[j] = todo[j] /\ now'[j] = now[j],
         \A c \in Challenges : /\ OwnerOf[c] = i /\ StillHeld(c)
                               /\ c \in txt[NameOf[c]] \ lost'
                               => StillHeld(c)'
  PROVE  LeftoverOK'
<1> SUFFICES ASSUME NEW n \in Names, NEW c \in txt[n]
             PROVE  NameOf[c] = n /\ (c \notin lost' => StillHeld(c)')
  BY DEF LeftoverOK
<1>1. c \in Challenges /\ OwnerOf[c] \in Issuers
  BY OwnersAndNames DEF TypeInv, TableTypes
<1>2. NameOf[c] = n /\ (c \notin lost' => StillHeld(c))
  BY DEF LeftoverOK
<1>3. CASE OwnerOf[c] = i
  BY <1>1, <1>2, <1>3
<1>4. CASE OwnerOf[c] # i
  BY <1>1, <1>2, <1>4 DEF StillHeld
<1>5. QED
  BY <1>3, <1>4

LEMMA LeftoverStep == TypeInv /\ LeftoverOK /\ [Next]_vars => LeftoverOK'
<1> SUFFICES ASSUME TypeInv, LeftoverOK, [Next]_vars PROVE LeftoverOK'
  OBVIOUS
<1> TableTypes /\ LocalTypes /\ \A j \in Issuers : WorksOnOwn(j)
  BY DEF TypeInv
<1> USE DEF LocalTypes, Creating, Solving, Asking, Cleaning
<1>1. ASSUME NEW i \in Issuers, Start(i) PROVE LeftoverOK'
  <2>1. /\ txt' = txt /\ lost \subseteq lost'
        /\ \A j \in Issuers \ {i} : /\ pc'[j] = pc[j] /\ values'[j] = values[j]
                                 /\ todo'[j] = todo[j] /\ now'[j] = now[j]
    BY <1>1 DEF Start, Goto, locals, account
  <2>2. ASSUME NEW d \in Challenges, OwnerOf[d] = i, StillHeld(d), d \in txt[NameOf[d]] \ lost'
        PROVE  StillHeld(d)'
    BY <1>1, <2>2 DEF StillHeld, Start, Goto, locals, account
  <2>3. QED
    BY <2>1, <2>2, LeftoverOwnStep
<1>2. ASSUME NEW i \in Issuers, ReadKey(i) PROVE LeftoverOK'
  <2>1. /\ txt' = txt /\ lost \subseteq lost'
        /\ \A j \in Issuers \ {i} : /\ pc'[j] = pc[j] /\ values'[j] = values[j]
                                 /\ todo'[j] = todo[j] /\ now'[j] = now[j]
    BY <1>2 DEF ReadKey, Goto, locals, account, Leave
  <2>2. ASSUME NEW d \in Challenges, OwnerOf[d] = i, StillHeld(d), d \in txt[NameOf[d]] \ lost'
        PROVE  StillHeld(d)'
    BY <1>2, <2>2 DEF StillHeld, ReadKey, Goto, locals, account, Leave
  <2>3. QED
    BY <2>1, <2>2, LeftoverOwnStep
<1>3. ASSUME NEW i \in Issuers, TruncateKey(i) PROVE LeftoverOK'
  <2>1. /\ txt' = txt /\ lost \subseteq lost'
        /\ \A j \in Issuers \ {i} : /\ pc'[j] = pc[j] /\ values'[j] = values[j]
                                 /\ todo'[j] = todo[j] /\ now'[j] = now[j]
    BY <1>3 DEF TruncateKey, Goto, locals, account, Leave
  <2>2. ASSUME NEW d \in Challenges, OwnerOf[d] = i, StillHeld(d), d \in txt[NameOf[d]] \ lost'
        PROVE  StillHeld(d)'
    BY <1>3, <2>2 DEF StillHeld, TruncateKey, Goto, locals, account, Leave
  <2>3. QED
    BY <2>1, <2>2, LeftoverOwnStep
<1>4. ASSUME NEW i \in Issuers, WriteKey(i) PROVE LeftoverOK'
  <2>1. /\ txt' = txt /\ lost \subseteq lost'
        /\ \A j \in Issuers \ {i} : /\ pc'[j] = pc[j] /\ values'[j] = values[j]
                                 /\ todo'[j] = todo[j] /\ now'[j] = now[j]
    BY <1>4 DEF WriteKey, Goto, locals, account, Leave
  <2>2. ASSUME NEW d \in Challenges, OwnerOf[d] = i, StillHeld(d), d \in txt[NameOf[d]] \ lost'
        PROVE  StillHeld(d)'
    BY <1>4, <2>2 DEF StillHeld, WriteKey, Goto, locals, account, Leave
  <2>3. QED
    BY <2>1, <2>2, LeftoverOwnStep
<1>5. ASSUME NEW i \in Issuers, ReadReg(i) PROVE LeftoverOK'
  <2>1. /\ txt' = txt /\ lost \subseteq lost'
        /\ \A j \in Issuers \ {i} : /\ pc'[j] = pc[j] /\ values'[j] = values[j]
                                 /\ todo'[j] = todo[j] /\ now'[j] = now[j]
    BY <1>5 DEF ReadReg, Goto, locals, account
  <2>2. ASSUME NEW d \in Challenges, OwnerOf[d] = i, StillHeld(d), d \in txt[NameOf[d]] \ lost'
        PROVE  StillHeld(d)'
    BY <1>5, <2>2 DEF StillHeld, ReadReg, Goto, locals, account
  <2>3. QED
    BY <2>1, <2>2, LeftoverOwnStep
<1>6. ASSUME NEW i \in Issuers, Register(i) PROVE LeftoverOK'
  <2>1. /\ txt' = txt /\ lost \subseteq lost'
        /\ \A j \in Issuers \ {i} : /\ pc'[j] = pc[j] /\ values'[j] = values[j]
                                 /\ todo'[j] = todo[j] /\ now'[j] = now[j]
    BY <1>6 DEF Register, Goto, locals, account, Leave
  <2>2. ASSUME NEW d \in Challenges, OwnerOf[d] = i, StillHeld(d), d \in txt[NameOf[d]] \ lost'
        PROVE  StillHeld(d)'
    BY <1>6, <2>2 DEF StillHeld, Register, Goto, locals, account, Leave
  <2>3. QED
    BY <2>1, <2>2, LeftoverOwnStep
<1>7. ASSUME NEW i \in Issuers, TruncateReg(i) PROVE LeftoverOK'
  <2>1. /\ txt' = txt /\ lost \subseteq lost'
        /\ \A j \in Issuers \ {i} : /\ pc'[j] = pc[j] /\ values'[j] = values[j]
                                 /\ todo'[j] = todo[j] /\ now'[j] = now[j]
    BY <1>7 DEF TruncateReg, Goto, locals, account
  <2>2. ASSUME NEW d \in Challenges, OwnerOf[d] = i, StillHeld(d), d \in txt[NameOf[d]] \ lost'
        PROVE  StillHeld(d)'
    BY <1>7, <2>2 DEF StillHeld, TruncateReg, Goto, locals, account
  <2>3. QED
    BY <2>1, <2>2, LeftoverOwnStep
<1>8. ASSUME NEW i \in Issuers, WriteReg(i) PROVE LeftoverOK'
  <2>1. /\ txt' = txt /\ lost \subseteq lost'
        /\ \A j \in Issuers \ {i} : /\ pc'[j] = pc[j] /\ values'[j] = values[j]
                                 /\ todo'[j] = todo[j] /\ now'[j] = now[j]
    BY <1>8 DEF WriteReg, Goto, locals, account
  <2>2. ASSUME NEW d \in Challenges, OwnerOf[d] = i, StillHeld(d), d \in txt[NameOf[d]] \ lost'
        PROVE  StillHeld(d)'
    BY <1>8, <2>2 DEF StillHeld, WriteReg, Goto, locals, account
  <2>3. QED
    BY <2>1, <2>2, LeftoverOwnStep
<1>9. ASSUME NEW i \in Issuers, OpenOrder(i) PROVE LeftoverOK'
  <2>1. /\ txt' = txt /\ lost \subseteq lost'
        /\ \A j \in Issuers \ {i} : /\ pc'[j] = pc[j] /\ values'[j] = values[j]
                                 /\ todo'[j] = todo[j] /\ now'[j] = now[j]
    BY <1>9 DEF OpenOrder, Goto, locals, account, Leave
  <2>2. ASSUME NEW d \in Challenges, OwnerOf[d] = i, StillHeld(d), d \in txt[NameOf[d]] \ lost'
        PROVE  StillHeld(d)'
    BY <1>9, <2>2 DEF StillHeld, OpenOrder, Goto, locals, account, Leave
  <2>3. QED
    BY <2>1, <2>2, LeftoverOwnStep
<1>10. ASSUME NEW i \in Issuers, LookupTXT(i) PROVE LeftoverOK'
  <2>1. /\ txt' = txt /\ lost \subseteq lost'
        /\ \A j \in Issuers \ {i} : /\ pc'[j] = pc[j] /\ values'[j] = values[j]
                                 /\ todo'[j] = todo[j] /\ now'[j] = now[j]
    BY <1>10 DEF LookupTXT, Goto, locals, account
  <2>2. ASSUME NEW d \in Challenges, OwnerOf[d] = i, StillHeld(d), d \in txt[NameOf[d]] \ lost'
        PROVE  StillHeld(d)'
    BY <1>10, <2>2 DEF StillHeld, LookupTXT, Goto, locals, account
  <2>3. QED
    BY <2>1, <2>2, LeftoverOwnStep
<1>11. ASSUME NEW i \in Issuers, PublishTXT(i) PROVE LeftoverOK'
  <2> DEFINE n == NameOf[now[i]]
  <2>1. /\ pc[i] = "publish" /\ pc' = [pc EXCEPT ![i] = "present"]
        /\ now[i] \in Challenges /\ UNCHANGED <<values, todo, now>>
    BY <1>11, OwnChallenges DEF PublishTXT, Goto, WorksOnOwn, Handling
  <2>2. \A d \in Challenges : OwnerOf[d] \in Issuers /\ (StillHeld(d) => StillHeld(d)')
    BY <2>1, OwnersAndNames DEF StillHeld
  <2>3. CASE txt' = txt /\ lost' = lost
    BY <2>2, <2>3 DEF LeftoverOK, TableTypes
  <2>4. CASE txt' = [txt EXCEPT ![n] = Published(i)] /\ lost' = lost \ SameName(now[i])
    <3>1. ASSUME NEW d \in txt'[n] PROVE NameOf[d] = n /\ StillHeld(d)'
      <4>1. d \in values[i] /\ d \in SameName(now[i])
        BY <2>1, <2>4, OwnersAndNames DEF Published, TableTypes
      <4>2. OwnerOf[d] = i /\ NameOf[d] = n
        BY <4>1, OwnChallenges DEF WorksOnOwn, SameName
      <4>3. QED
        BY <2>1, <4>1, <4>2 DEF StillHeld
    <3>2. ASSUME NEW m \in Names, m # n, NEW d \in txt'[m]
          PROVE  NameOf[d] = m /\ (d \notin lost' => StillHeld(d)')
      <4>1. d \in txt[m] /\ d \in Challenges
        BY <2>4, <3>2 DEF TableTypes
      <4>2. NameOf[d] = m /\ (d \notin lost => StillHeld(d))
        BY <4>1 DEF LeftoverOK
      <4>3. d \notin SameName(now[i])
        BY <3>2, <4>2 DEF SameName
      <4>4. QED
        BY <2>2, <2>4, <4>1, <4>2, <4>3
    <3>3. QED
      BY <3>1, <3>2 DEF LeftoverOK
  <2>5. QED
    BY <1>11, <2>3, <2>4 DEF PublishTXT
<1>12. ASSUME NEW i \in Issuers, BeginSolve(i) PROVE LeftoverOK'
  <2>1. /\ txt' = txt /\ lost \subseteq lost'
        /\ \A j \in Issuers \ {i} : /\ pc'[j] = pc[j] /\ values'[j] = values[j]
                                 /\ todo'[j] = todo[j] /\ now'[j] = now[j]
    BY <1>12 DEF BeginSolve, Goto, locals, account
  <2>2. ASSUME NEW d \in Challenges, OwnerOf[d] = i, StillHeld(d), d \in txt[NameOf[d]] \ lost'
        PROVE  StillHeld(d)'
    BY <1>12, <2>2 DEF StillHeld, BeginSolve, Goto, locals, account
  <2>3. QED
    BY <2>1, <2>2, LeftoverOwnStep
<1>13. ASSUME NEW i \in Issuers, BeginClean(i) PROVE LeftoverOK'
  <2>1. /\ pc[i] = "solve" /\ pc' = [pc EXCEPT ![i] = "clean"]
        /\ todo' = [todo EXCEPT ![i] = values[i]] /\ UNCHANGED <<txt, lost, values, now>>
    BY <1>13 DEF BeginClean, Goto
  <2>2. ASSUME NEW d \in Challenges, OwnerOf[d] = i, StillHeld(d), d \in txt[NameOf[d]] \ lost'
        PROVE  StillHeld(d)'
    <3>1. d \in todo'[i]
      BY <2>1, <2>2 DEF StillHeld, Asking
    <3>2. QED
      BY <2>1, <2>2, <3>1 DEF StillHeld, Asking
  <2>3. QED
    BY <2>1, <2>2, LeftoverOwnStep
<1>14. ASSUME NEW i \in Issuers, LookupClean(i) PROVE LeftoverOK'
  <2>1. /\ pc[i] = "lookupClean" /\ UNCHANGED <<txt, values, todo, now>>
        /\ lost \subseteq lost' /\ now[i] \in Challenges
        /\ \/ pc' = [pc EXCEPT ![i] = "delete"]
           \/ pc' = [pc EXCEPT ![i] = "clean"] /\ txt[NameOf[now[i]]] \subseteq lost'
    BY <1>14, OwnChallenges DEF LookupClean, Goto, locals, WorksOnOwn, Handling
  <2>2. ASSUME NEW d \in Challenges, OwnerOf[d] = i, StillHeld(d), d \in txt[NameOf[d]] \ lost'
        PROVE  StillHeld(d)'
    <3>1. CASE pc' = [pc EXCEPT ![i] = "delete"]
      BY <2>1, <2>2, <3>1 DEF StillHeld, Asking, Cleaning
    <3>2. CASE pc' = [pc EXCEPT ![i] = "clean"] /\ txt[NameOf[now[i]]] \subseteq lost'
      <4>1. NameOf[now[i]] # NameOf[d]
        BY <2>2, <3>2
      <4>2. \E e \in todo[i] : NameOf[e] = NameOf[d]
        BY <2>1, <2>2, <4>1 DEF StillHeld, Cleaning
      <4>3. QED
        BY <2>1, <2>2, <3>2, <4>2 DEF StillHeld, Asking
    <3>3. QED
      BY <2>1, <3>1, <3>2
  <2>3. QED
    BY <2>1, <2>2, LeftoverOwnStep
<1>15. ASSUME NEW i \in Issuers, DeleteTXT(i) PROVE LeftoverOK'
  <2> DEFINE n == NameOf[now[i]]
  <2>1. /\ pc[i] = "delete" /\ pc' = [pc EXCEPT ![i] = "clean"]
        /\ UNCHANGED <<values, todo, now>>
        /\ \/ txt' = [txt EXCEPT ![n] = {}] /\ lost' = lost
           \/ txt' = txt /\ lost' = lost \union txt[n]
    BY <1>15 DEF DeleteTXT, Goto, locals
  <2>2. ASSUME NEW m \in Names, NEW d \in txt'[m]
        PROVE  NameOf[d] = m /\ (d \notin lost' => StillHeld(d)')
    <3>1. /\ d \in txt[m] /\ d \in Challenges /\ OwnerOf[d] \in Issuers
          /\ lost \subseteq lost' /\ (m = n => d \in lost')
      BY <2>1, <2>2, OwnersAndNames DEF TableTypes
    <3>2. NameOf[d] = m /\ (d \notin lost' => StillHeld(d) /\ m # n)
      BY <3>1 DEF LeftoverOK
    <3>3. QED
      BY <2>1, <3>1, <3>2 DEF StillHeld, Asking, Cleaning
  <2>3. QED
    BY <2>2 DEF LeftoverOK
<1>16. ASSUME NEW i \in Issuers, EndOrder(i) PROVE LeftoverOK'
  <2>1. /\ pc[i] = "clean" /\ todo[i] = {} /\ txt' = txt /\ lost' = lost
        /\ \A j \in Issuers \ {i} : /\ pc'[j] = pc[j] /\ values'[j] = values[j]
                                 /\ todo'[j] = todo[j] /\ now'[j] = now[j]
    BY <1>16 DEF EndOrder, Leave, Goto
  <2>2. \A d \in Challenges : OwnerOf[d] = i => ~StillHeld(d)
    BY <2>1 DEF StillHeld, Cleaning
  <2>3. QED
    BY <2>1, <2>2, LeftoverOwnStep
<1>17. ASSUME NEW i \in Issuers, NEW c \in Challenges, Present(i, c) PROVE LeftoverOK'
  <2>1. /\ txt' = txt /\ lost \subseteq lost'
        /\ \A j \in Issuers \ {i} : /\ pc'[j] = pc[j] /\ values'[j] = values[j]
                                 /\ todo'[j] = todo[j] /\ now'[j] = now[j]
    BY <1>17 DEF Present, Goto, locals, account
  <2>2. ASSUME NEW d \in Challenges, OwnerOf[d] = i, StillHeld(d), d \in txt[NameOf[d]] \ lost'
        PROVE  StillHeld(d)'
    BY <1>17, <2>2 DEF StillHeld, Present, Goto, locals, account
  <2>3. QED
    BY <2>1, <2>2, LeftoverOwnStep
<1>18. ASSUME NEW i \in Issuers, NEW c \in Challenges, Solve(i, c) PROVE LeftoverOK'
  <2>1. /\ txt' = txt /\ lost \subseteq lost'
        /\ \A j \in Issuers \ {i} : /\ pc'[j] = pc[j] /\ values'[j] = values[j]
                                 /\ todo'[j] = todo[j] /\ now'[j] = now[j]
    BY <1>18 DEF Solve, Goto, locals, account
  <2>2. ASSUME NEW d \in Challenges, OwnerOf[d] = i, StillHeld(d), d \in txt[NameOf[d]] \ lost'
        PROVE  StillHeld(d)'
    BY <1>18, <2>2 DEF StillHeld, Solve, Goto, locals, account
  <2>3. QED
    BY <2>1, <2>2, LeftoverOwnStep
<1>19. ASSUME NEW i \in Issuers, NEW c \in Challenges, CleanUp(i, c) PROVE LeftoverOK'
  <2>1. /\ pc[i] = "clean" /\ pc' = [pc EXCEPT ![i] = "lookupClean"]
        /\ now' = [now EXCEPT ![i] = c] /\ todo' = [todo EXCEPT ![i] = @ \ {c}]
        /\ txt' = txt /\ lost' = lost
        /\ \A j \in Issuers \ {i} : values'[j] = values[j]
    BY <1>19 DEF CleanUp, Goto
  <2>2. ASSUME NEW d \in Challenges, OwnerOf[d] = i, StillHeld(d), d \in txt[NameOf[d]] \ lost'
        PROVE  StillHeld(d)'
    <3>1. PICK e \in todo[i] : NameOf[e] = NameOf[d]
      BY <2>1, <2>2 DEF StillHeld, Cleaning
    <3>2. e = c \/ e \in todo'[i]
      BY <2>1
    <3>3. NameOf[now'[i]] = NameOf[d] \/ \E f \in todo'[i] : NameOf[f] = NameOf[d]
      BY <2>1, <3>1, <3>2
    <3>4. QED
      BY <2>1, <2>2, <3>3 DEF StillHeld, Asking
  <2>3. QED
    BY <2>1, <2>2, LeftoverOwnStep
<1>20. ASSUME Crash PROVE LeftoverOK'
  <2>1. txt' = txt /\ lost' = lost \union UNION {txt[n] : n \in Names}
    BY <1>20 DEF Crash
  <2>2. \A n \in Names : txt[n] \subseteq lost'
    BY <2>1
  <2>3. QED
    BY <2>1, <2>2 DEF LeftoverOK
<1>21. ASSUME UNCHANGED vars PROVE LeftoverOK'
  BY <1>21 DEF vars, LeftoverOK, StillHeld
<1>22. QED
  BY <1>1, <1>2, <1>3, <1>4, <1>5, <1>6, <1>7, <1>8, <1>9, <1>10, <1>11, <1>12, <1>13,
     <1>14,
       <1>15, <1>16, <1>17, <1>18, <1>19, <1>20, <1>21
     DEF Next, Step

\* A TXT value outlives its order only when a call of its cleanup failed or the backend
\* stopped, also when the order failed, and also when issuers share a name.
THEOREM NothingLeft == Spec => []NothingLeftBehind
<1>1. Init => LeftoverOK
  BY DEF Init, LeftoverOK
<1>2. TypeInv /\ LeftoverOK /\ [Next]_vars => (TypeInv /\ LeftoverOK)'
  BY TypeStep, LeftoverStep
<1>3. LeftoverOK => NothingLeftBehind
  BY DEF LeftoverOK, StillHeld, NothingLeftBehind
<1>4. QED
  BY <1>1, <1>2, <1>3, TypeInit, PTL DEF Spec

=============================================================================
