-------------------------- MODULE AddressConsensus --------------------------
(***************************************************************************)
(* How the resolvers' answers become one public address of a family        *)
(* (resolveWithConsensus and pickConsensusCandidate, pkg/dns/address.go).  *)
(* The resolvers are asked one after the other; the votes are kept in Go   *)
(* maps, which pickConsensusCandidate walks in an order that differs from  *)
(* call to call.                                                           *)
(*                                                                         *)
(* What a resolver does (resolveEntry: HTTP, DNS) is its outcome only: an  *)
(* address or an error.  Threshold and minimum of responses choose between *)
(* two log messages and are left out: the candidate is used either way.    *)
(***************************************************************************)
EXTENDS Integers, Sequences, FiniteSets

CONSTANTS
    Candidates,     \* the addresses resolvers may answer
    Resolvers       \* how many resolvers are configured

ASSUME ConsensusConstants ==
    /\ Resolvers \in Nat
    /\ Candidates \cap {"", "asking", "picking"} = {}

VARIABLES
    answers,        \* the outcomes so far, "" for an error
    counts,         \* counts[addr], of the addresses seen
    firstSeen,      \* firstSeen[addr]: successful answers before its first one
    unvisited,      \* what the loop of pickConsensusCandidate has not reached
    best,           \* its bestAddr, bestCount, bestFirstSeen
    selected        \* "asking", "picking", the address, or "" for the error

consensusVars == <<answers, counts, firstSeen, unvisited, best, selected>>

Seen == {a \in Candidates : counts[a] > 0}
Successful == Cardinality({i \in DOMAIN answers : answers[i] # ""})

ConsensusInit ==
    /\ answers = <<>> /\ unvisited = {}
    /\ counts = [a \in Candidates |-> 0] /\ firstSeen = counts
    /\ best = [addr |-> "", count |-> -1, firstSeen |-> 0]
    /\ selected = IF Resolvers = 0 THEN "" ELSE "asking"

\* The next resolver answers or fails.
Ask ==
    /\ selected = "asking" /\ Len(answers) < Resolvers
    /\ \/ /\ answers' = Append(answers, "")
          /\ UNCHANGED <<counts, firstSeen>>
       \/ \E a \in Candidates :
            /\ answers' = Append(answers, a)
            /\ firstSeen' = IF a \in Seen THEN firstSeen ELSE [firstSeen EXCEPT ![a] = Successful]
            /\ counts' = [counts EXCEPT ![a] = @ + 1]
    /\ UNCHANGED <<unvisited, best, selected>>

\* All have been asked: an error if none answered, else the loop starts.
AskedAll ==
    /\ selected = "asking" /\ Len(answers) = Resolvers
    /\ selected' = IF Seen = {} THEN "" ELSE "picking"
    /\ unvisited' = Seen
    /\ UNCHANGED <<answers, counts, firstSeen, best>>

\* mutant: among equals the one the loop meets first.
BetterByCount(a) == counts[a] > best.count

\* More votes, or as many and seen earlier.
Better(a) ==
    \/ counts[a] > best.count
    \/ counts[a] = best.count /\ firstSeen[a] < best.firstSeen

Visit(a) ==
    /\ selected = "picking"
    /\ unvisited' = unvisited \ {a}
    /\ best' = IF Better(a) THEN [addr |-> a, count |-> counts[a], firstSeen |-> firstSeen[a]]
               ELSE best
    /\ UNCHANGED <<answers, counts, firstSeen, selected>>

Picked ==
    /\ selected = "picking" /\ unvisited = {}
    /\ selected' = best.addr
    /\ UNCHANGED <<answers, counts, firstSeen, unvisited, best>>

ConsensusNext ==
    \/ Ask \/ AskedAll \/ Picked
    \/ \E a \in unvisited : Visit(a)

ConsensusSpec == ConsensusInit /\ [][ConsensusNext]_consensusVars

-----------------------------------------------------------------------------
ConsensusTypeOK ==
    /\ answers \in Seq(Candidates \cup {""}) /\ Len(answers) <= Resolvers
    /\ counts \in [Candidates -> 0..Resolvers]
    /\ firstSeen \in [Candidates -> 0..Resolvers]
    /\ unvisited \subseteq Candidates
    /\ selected \in Candidates \cup {"asking", "picking", ""}

Votes(a) == Cardinality({i \in DOMAIN answers : answers[i] = a})
FirstVote(a) == CHOOSE i \in DOMAIN answers :
                    answers[i] = a /\ \A j \in 1..(i - 1) : answers[j] # a

\* The address published is a function of the answers alone: the one with most
\* votes, of several the one answered first, whatever order the map is walked in
\* (pickConsensusCandidate); without an answer there is none.
ConsensusPick ==
    selected \notin {"asking", "picking"} =>
        IF \A i \in DOMAIN answers : answers[i] = "" THEN selected = ""
        ELSE /\ selected \in Candidates
             /\ \A a \in Candidates \ {selected} :
                    \/ Votes(a) < Votes(selected)
                    \/ Votes(a) = Votes(selected) /\ FirstVote(selected) < FirstVote(a)
=============================================================================
