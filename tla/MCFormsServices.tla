-------------------------- MODULE MCFormsServices ---------------------------
(***************************************************************************)
(* The tables and forms of the browser client and four services of the     *)
(* backend and the worker, for TLC.  They share no state, so each          *)
(* behaviour runs one of them and the others rest: the union of their      *)
(* state spaces, not the product.                                          *)
(***************************************************************************)
EXTENDS RecordForm, RecordsTable, ConfigDrawer, RecordTasks,
        AddressConsensus, ConfigServices, TaskDelivery, MailReports

VARIABLE active     \* the part this behaviour runs

Parts == {"form", "table", "config", "tasks", "consensus", "services", "delivery", "mail"}
MCZonesOf == [t \in {"a", "b"} |-> IF t = "a" THEN {1, 2} ELSE {3}]

clientVars == <<formVars, tableVars, configVars, taskVars>>
backendVars == <<consensusVars, servicesVars, deliveryVars, reportVars>>

\* Of the parts with several initial states, a resting one takes a fixed one.
PartsInit ==
    /\ active \in Parts
    /\ FormInit /\ TableInit /\ ConfigInit /\ TasksInit
    /\ ConsensusInit /\ ServicesInit /\ DeliveryInit /\ ReportsInit
    /\ active # "form" => dbRecords[1].zone = 1
    /\ active # "table" => \A i \in RecordIds : stored[i] = "none"
    /\ active # "tasks" => purpose = "both"
    /\ active # "services" => app \in [cron: {CHOOSE c \in Crons : TRUE}, acme: {TRUE}, notify: {TRUE}]
    /\ active # "mail" => settings.cooldown = CHOOSE c \in Cooldowns : TRUE

PartsNext ==
    /\ UNCHANGED active
    /\ \/ /\ UNCHANGED backendVars
          /\ \/ active = "form" /\ FormNext /\ UNCHANGED <<tableVars, configVars, taskVars>>
             \/ active = "table" /\ TableNext /\ UNCHANGED <<formVars, configVars, taskVars>>
             \/ active = "config" /\ ConfigNext /\ UNCHANGED <<formVars, tableVars, taskVars>>
             \/ active = "tasks" /\ TasksNext /\ UNCHANGED <<formVars, tableVars, configVars>>
       \/ /\ UNCHANGED clientVars
          /\ \/ active = "consensus" /\ ConsensusNext
                /\ UNCHANGED <<servicesVars, deliveryVars, reportVars>>
             \/ active = "services" /\ ServicesNext
                /\ UNCHANGED <<consensusVars, deliveryVars, reportVars>>
             \/ active = "delivery" /\ DeliveryNext
                /\ UNCHANGED <<consensusVars, servicesVars, reportVars>>
             \/ active = "mail" /\ ReportsNext
                /\ UNCHANGED <<consensusVars, servicesVars, deliveryVars>>

partsVars == <<active, clientVars, backendVars>>

PartsSpec == PartsInit /\ [][PartsNext]_partsVars

\* Every variable of every part keeps its type.
PartsTypeOK ==
    /\ active \in Parts
    /\ FormTypeOK /\ TableTypeOK /\ ConfigTypeOK /\ TasksTypeOK
    /\ ConsensusTypeOK /\ ServicesTypeOK /\ DeliveryTypeOK /\ ReportsTypeOK
=============================================================================
