-------------------------- MODULE CompositionProofs --------------------------
(***************************************************************************)
(* Theorems about the composition of tables, forms and services that is    *)
(* model-checked (MCFormsServices).  It runs one part in each behaviour    *)
(* and starts the others in a fixed state, to keep TLC's state space a     *)
(* union; these theorems say that this changes nothing for a part: seen    *)
(* alone, it behaves as its own specification allows, so that whatever was *)
(* proved of it (FormsProofs, ServicesProofs) is proved of the composition *)
(* too.                                                                    *)
(***************************************************************************)
EXTENDS MCFormsServices, FormsProofs, ServicesProofs

\* A step of the composition, seen by the four parts of the browser client.
LEMMA ClientStep ==
  [PartsNext]_partsVars =>
    [FormNext]_formVars /\ [TableNext]_tableVars /\ [ConfigNext]_configVars /\ [TasksNext]_taskVars
<1> SUFFICES ASSUME [PartsNext]_partsVars
             PROVE  /\ [FormNext]_formVars /\ [TableNext]_tableVars
                    /\ [ConfigNext]_configVars /\ [TasksNext]_taskVars
  OBVIOUS
<1>1. CASE UNCHANGED clientVars
  BY <1>1 DEF clientVars
<1>2. CASE FormNext /\ UNCHANGED <<tableVars, configVars, taskVars>>
  BY <1>2
<1>3. CASE TableNext /\ UNCHANGED <<formVars, configVars, taskVars>>
  BY <1>3
<1>4. CASE ConfigNext /\ UNCHANGED <<formVars, tableVars, taskVars>>
  BY <1>4
<1>5. CASE TasksNext /\ UNCHANGED <<formVars, tableVars, configVars>>
  BY <1>5
<1>6. QED
  BY <1>1, <1>2, <1>3, <1>4, <1>5 DEF PartsNext, partsVars

\* The same step, seen by the four services.
LEMMA BackendStep ==
  [PartsNext]_partsVars =>
    /\ [ConsensusNext]_consensusVars /\ [ServicesNext]_servicesVars
    /\ [DeliveryNext]_deliveryVars /\ [ReportsNext]_reportVars
<1> SUFFICES ASSUME [PartsNext]_partsVars
             PROVE  /\ [ConsensusNext]_consensusVars /\ [ServicesNext]_servicesVars
                    /\ [DeliveryNext]_deliveryVars /\ [ReportsNext]_reportVars
  OBVIOUS
<1>1. CASE UNCHANGED backendVars
  BY <1>1 DEF backendVars
<1>2. CASE ConsensusNext /\ UNCHANGED <<servicesVars, deliveryVars, reportVars>>
  BY <1>2
<1>3. CASE ServicesNext /\ UNCHANGED <<consensusVars, deliveryVars, reportVars>>
  BY <1>3
<1>4. CASE DeliveryNext /\ UNCHANGED <<consensusVars, servicesVars, reportVars>>
  BY <1>4
<1>5. CASE ReportsNext /\ UNCHANGED <<consensusVars, servicesVars, deliveryVars>>
  BY <1>5
<1>6. QED
  BY <1>1, <1>2, <1>3, <1>4, <1>5 DEF PartsNext, partsVars

\* Every part of the composition behaves as its own specification allows, whichever of them a
\* behaviour runs.
THEOREM PartsBehave ==
  PartsSpec => /\ FormSpec /\ TableSpec /\ ConfigSpec /\ TasksSpec
               /\ ConsensusSpec /\ ServicesSpec /\ DeliverySpec /\ ReportsSpec
<1>1. PartsInit => /\ FormInit /\ TableInit /\ ConfigInit /\ TasksInit
                   /\ ConsensusInit /\ ServicesInit /\ DeliveryInit /\ ReportsInit
  BY DEF PartsInit
<1>2. PartsSpec => FormSpec /\ TableSpec /\ ConfigSpec /\ TasksSpec
  BY <1>1, ClientStep, PTL DEF PartsSpec, FormSpec, TableSpec, ConfigSpec, TasksSpec
<1>3. PartsSpec => ConsensusSpec /\ ServicesSpec /\ DeliverySpec /\ ReportsSpec
  BY <1>1, BackendStep, PTL DEF PartsSpec, ConsensusSpec, ServicesSpec, DeliverySpec, ReportsSpec
<1>4. QED
  BY <1>2, <1>3

RunsOnePart == active \in Parts

\* Every variable of every part keeps its type, a button that saves is off while a call is
\* under way, and the mutex of the mail manager has one holder, for every value of the constants.
THEOREM PartsTyped == PartsSpec => []PartsTypeOK
<1>1. PartsSpec => []RunsOnePart
  <2>1. PartsInit => RunsOnePart
    BY DEF PartsInit, RunsOnePart
  <2>2. RunsOnePart /\ [PartsNext]_partsVars => RunsOnePart'
    BY DEF PartsNext, partsVars, RunsOnePart
  <2>3. QED
    BY <2>1, <2>2, PTL DEF PartsSpec
<1>2. PartsSpec => [](FormTypeOK /\ TableTypeOK /\ ConfigTypeOK /\ TasksTypeOK)
  BY PartsBehave, FormTyped, TableTyped, ConfigTyped, TasksTyped, PTL
<1>3. PartsSpec => [](ConsensusTypeOK /\ ServicesTypeOK /\ DeliveryTypeOK /\ ReportsTypeOK)
  BY PartsBehave, ConsensusTyped, ServicesTyped, DeliveryTyped, ReportsTyped, PTL
<1>4. ASSUME RunsOnePart, FormTypeOK, TableTypeOK, ConfigTypeOK, TasksTypeOK,
             ConsensusTypeOK, ServicesTypeOK, DeliveryTypeOK, ReportsTypeOK
      PROVE  PartsTypeOK
  BY <1>4 DEF PartsTypeOK, RunsOnePart
<1>5. QED
  BY <1>1, <1>2, <1>3, <1>4, PTL

\* What the run of the composition checks on a small instance holds of it for every value of
\* the constants.
THEOREM PartsCorrect ==
  PartsSpec => [](/\ SavedDomainOfZone /\ SpinnersEnd /\ UnloadedFormRefused /\ HeadersKept
                  /\ ConsensusPick /\ ServicesFollowConfig /\ DeliveredWhole /\ ReportsPaced)
<1>1. PartsSpec => [](SavedDomainOfZone /\ SpinnersEnd /\ UnloadedFormRefused /\ HeadersKept)
  BY PartsBehave, DomainOfZone, SpinnersStop, FormRefused, HeadersStay, PTL
<1>2. PartsSpec => [](ConsensusPick /\ ServicesFollowConfig /\ DeliveredWhole /\ ReportsPaced)
  BY PartsBehave, ConsensusIsPick, ServicesFollow, WholeDeliveries, ReportsArePaced, PTL
<1>3. QED
  BY <1>1, <1>2, PTL
=============================================================================
