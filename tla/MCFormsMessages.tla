-------------------------- MODULE MCFormsMessages ---------------------------
(***************************************************************************)
(* Forms, tables, services and the codec of their messages, for TLC.  The  *)
(* codec is added here and not in MCFormsServices because the proofs about *)
(* that composition can reach no recursive operator.                       *)
(***************************************************************************)
EXTENDS MCFormsServices, ApiMessages

VARIABLE codec   \* this behaviour runs the codec and no part of PartsSpec

\* The codec rests before a message with nothing in it, the parts rest behind
\* a choice of addresses that is never begun.
WithMessagesInit ==
    /\ codec \in BOOLEAN
    /\ PartsInit /\ (codec => active = "consensus")
    /\ ApiInit /\ (~codec => sent.type = "LogEntry" /\ input = <<>>)

WithMessagesNext ==
    /\ UNCHANGED codec
    /\ \/ ~codec /\ PartsNext /\ UNCHANGED apiVars
       \/ codec /\ ApiNext /\ UNCHANGED partsVars

WithMessagesSpec == WithMessagesInit /\ [][WithMessagesNext]_<<codec, partsVars, apiVars>>
=============================================================================
