------------------------- MODULE MCFrontendStreams --------------------------
(***************************************************************************)
(* The parts of the browser client that live on streams and timers, for    *)
(* TLC.  They share no state, so each behaviour runs one of them and the   *)
(* others rest, in a state where nothing that must happen is enabled: the  *)
(* union of their state spaces, not the product.                           *)
(***************************************************************************)
EXTENDS AddressStreams, LogDrawer, RecordOverview, Notifications

VARIABLE active     \* the part this behaviour runs

StreamParts == {"address", "log", "overview", "notify"}
MCServers == <<"ns1", "ns2">>

AddressAtRest ==
    /\ feed = [f \in Followers |-> NewStream]
    /\ served = [f \in Followers |-> 0] /\ shown = served
    /\ current = 0 /\ breaks = 0
    /\ connected = FALSE /\ refreshing = "idle" /\ cardAlive = TRUE

StreamsInit ==
    /\ active \in StreamParts
    /\ IF active = "address" THEN AddressInit ELSE AddressAtRest
    /\ LogInit /\ OverviewInit /\ NotifyInit
    /\ active # "overview" => dbRecord = "gone"

StreamsNext ==
    /\ UNCHANGED active
    /\ \/ active = "address" /\ AddressNext /\ UNCHANGED <<logVars, ovVars, notifyVars>>
       \/ active = "log" /\ LogNext /\ UNCHANGED <<addressVars, ovVars, notifyVars>>
       \/ active = "overview" /\ OverviewNext /\ UNCHANGED <<addressVars, logVars, notifyVars>>
       \/ active = "notify" /\ NotifyNext /\ UNCHANGED <<addressVars, logVars, ovVars>>

streamsVars == <<active, addressVars, logVars, ovVars, notifyVars>>

StreamsSpec ==
    /\ StreamsInit /\ [][StreamsNext]_streamsVars
    /\ AddressFairness /\ OverviewFairness /\ NotifyFairness

\* Every variable of every part keeps its type.
StreamsTypeOK ==
    /\ active \in StreamParts
    /\ AddressTypeOK /\ LogTypeOK /\ OverviewTypeOK /\ NotifyTypeOK
=============================================================================
