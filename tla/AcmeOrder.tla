----------------------------- MODULE AcmeOrder -----------------------------
(***************************************************************************)
(* obtainCertificate of the HDNS backend (backend/pkg/dns/acme.go): the    *)
(* account key and registration kept in two files per ACME account, and    *)
(* the DNS-01 provider that publishes challenge values as one TXT RRset    *)
(* per name at Hetzner.                                                    *)
(*                                                                         *)
(* An issuer is the goroutine that holds a record's slot (CertIssuance,    *)
(* while its pc is "obtain").  The lego library presents all challenges of *)
(* an order one after the other, has them validated, and cleans all of     *)
(* them up, whatever failed.  A step is one file operation, one call to    *)
(* the CA or one call to Hetzner.                                          *)
(***************************************************************************)
EXTENDS FiniteSets, Naturals

CONSTANTS
  Issuers,     \* records with an issuance in progress; also names the key each may generate
  OldKey,      \* the account key of an older version of HDNS
  Accounts,    \* directories of ACME accounts: environment and email
  AccountOf,   \* the account of each issuer
  Challenges,  \* the authorizations orders ask for: one per domain of a certificate
  OwnerOf,     \* the issuer whose order each challenge belongs to
  Names,       \* names of TXT RRsets
  NameOf,      \* relativeName of each challenge
  None,        \* no file, no key, no challenge
  Torn,        \* a file truncated and not yet written
  Bare,        \* a registration without its account URL
  MaxOrders,   \* bound: orders begun
  MaxFaults    \* bound: failed calls and restarts

ASSUME ConstantsAssumption ==
  /\ AccountOf \in [Issuers -> Accounts]
  /\ OwnerOf \in [Challenges -> Issuers]
  /\ NameOf \in [Challenges -> Names]
  /\ {None, Torn, Bare, OldKey} \intersect Issuers = {}
  /\ Cardinality({None, Torn, Bare, OldKey}) = 4
  /\ None \notin Challenges
  /\ MaxOrders \in Nat /\ MaxFaults \in Nat

VARIABLES
  keyFile, regFile,   \* account.key and account.json of each account
  txt,                \* the values of each TXT RRset; none: the RRset does not exist
  pc, key, reg,       \* the issuers: account key, key the registration belongs to,
  values,             \* provider.values,
  todo, now,          \* challenges left in this phase, the one at hand,
  found, failed,      \* whether its RRset existed, challenges that failed
  orders, faults,
  raced,              \* history: accounts two issuers generated a key for at the same time
  lost                \* history: challenges on their RRset since a fault cut off their cleanup

account == <<keyFile, regFile>>
locals == <<key, reg, values, todo, now, found, failed>>
vars == <<keyFile, regFile, txt, pc, key, reg, values, todo, now, found, failed,
          orders, faults, raced, lost>>

---------------------------------------------------------------------------
Keys == Issuers \union {OldKey}
ChallengesOf(i) == {c \in Challenges : OwnerOf[c] = i}
SameName(c) == {d \in Challenges : NameOf[d] = NameOf[c]}

Creating == {"readKey", "truncateKey", "writeKey", "readReg", "register", "truncateReg",
             "writeReg"}
Solving == {"present", "lookup", "publish", "solve", "clean", "lookupClean", "delete"}

TypeOK ==
  /\ keyFile \in [Accounts -> Keys \union {None, Torn}]
  /\ regFile \in [Accounts -> Keys \union {None, Torn, Bare}]
  /\ txt \in [Names -> SUBSET Challenges]
  /\ pc \in [Issuers -> Creating \union Solving \union {"idle", "order"}]
  /\ key \in [Issuers -> Keys \union {None}]
  /\ reg \in [Issuers -> Keys \union {None}]
  /\ values \in [Issuers -> SUBSET Challenges]
  /\ todo \in [Issuers -> SUBSET Challenges]
  /\ now \in [Issuers -> Challenges \union {None}]
  /\ found \in [Issuers -> BOOLEAN]
  /\ failed \in [Issuers -> SUBSET Challenges]
  /\ orders \in 0 .. MaxOrders /\ faults \in 0 .. MaxFaults
  /\ raced \subseteq Accounts /\ lost \subseteq Challenges
  /\ \A i \in Issuers : values[i] \union todo[i] \union failed[i] \subseteq ChallengesOf(i)

\* A new installation, or one whose account files an older version wrote.
Init ==
  /\ \E upgraded \in SUBSET Accounts :
       /\ keyFile = [a \in Accounts |-> IF a \in upgraded THEN OldKey ELSE None]
       /\ \E r \in {OldKey, Bare} :
            regFile = [a \in Accounts |-> IF a \in upgraded THEN r ELSE None]
  /\ txt = [n \in Names |-> {}]
  /\ pc = [i \in Issuers |-> "idle"]
  /\ key = [i \in Issuers |-> None]
  /\ reg = [i \in Issuers |-> None]
  /\ values = [i \in Issuers |-> {}]
  /\ todo = [i \in Issuers |-> {}]
  /\ now = [i \in Issuers |-> None]
  /\ found = [i \in Issuers |-> FALSE]
  /\ failed = [i \in Issuers |-> {}]
  /\ orders = 0 /\ faults = 0
  /\ raced = {} /\ lost = {}

Goto(i, from, to) ==
  /\ pc[i] = from
  /\ pc' = [pc EXCEPT ![i] = to]

Fault ==
  /\ faults < MaxFaults
  /\ faults' = faults + 1

\* obtainCertificate returns: its client and provider are gone.
Leave(i, from) ==
  /\ Goto(i, from, "idle")
  /\ key' = [key EXCEPT ![i] = None]
  /\ reg' = [reg EXCEPT ![i] = None]
  /\ values' = [values EXCEPT ![i] = {}]
  /\ todo' = [todo EXCEPT ![i] = {}]
  /\ now' = [now EXCEPT ![i] = None]
  /\ found' = [found EXCEPT ![i] = FALSE]
  /\ failed' = [failed EXCEPT ![i] = {}]

---------------------------------------------------------------------------
(* loadOrCreateUser and newACMEClient *)

Start(i) ==
  /\ Goto(i, "idle", "readKey")
  /\ orders < MaxOrders
  /\ orders' = orders + 1
  /\ UNCHANGED <<account, txt, locals, faults, raced, lost>>

\* An issuer generates a key; another that found no key file may be about to store its own.
GenerateKey(i) ==
  /\ key' = [key EXCEPT ![i] = i]
  /\ raced' = IF \E j \in Issuers : AccountOf[j] = AccountOf[i] /\ pc[j] = "truncateKey"
              THEN raced \union {AccountOf[i]} ELSE raced

\* mutant: any error of the read counts as a missing key
ReadKeyAnyError(i) ==
  LET k == keyFile[AccountOf[i]] IN
  /\ \/ /\ \/ k = None /\ UNCHANGED faults
           \/ Fault
        /\ Goto(i, "readKey", "truncateKey")
        /\ GenerateKey(i)
        /\ UNCHANGED <<reg, values, todo, now, found, failed>>
     \/ /\ k \in Keys
        /\ Goto(i, "readKey", "readReg")
        /\ key' = [key EXCEPT ![i] = k]
        /\ UNCHANGED <<reg, values, todo, now, found, failed, faults, raced>>
     \/ /\ k = Torn /\ UNCHANGED faults
        /\ Leave(i, "readKey") /\ UNCHANGED raced
  /\ UNCHANGED <<account, txt, orders, lost>>

\* Without a key file a new key is generated; a truncated one cannot be decoded.
ReadKey(i) ==
  LET k == keyFile[AccountOf[i]] IN
  /\ \/ /\ k = None
        /\ Goto(i, "readKey", "truncateKey")
        /\ GenerateKey(i)
        /\ UNCHANGED <<reg, values, todo, now, found, failed, faults>>
     \/ /\ k \in Keys
        /\ Goto(i, "readKey", "readReg")
        /\ key' = [key EXCEPT ![i] = k]
        /\ UNCHANGED <<reg, values, todo, now, found, failed, faults, raced>>
     \/ /\ \/ k = Torn /\ UNCHANGED faults
           \/ Fault
        /\ Leave(i, "readKey") /\ UNCHANGED raced
  /\ UNCHANGED <<account, txt, orders, lost>>

\* os.WriteFile truncates the file, then writes it.
TruncateKey(i) ==
  /\ \/ /\ Goto(i, "truncateKey", "writeKey")
        /\ keyFile' = [keyFile EXCEPT ![AccountOf[i]] = Torn]
        /\ UNCHANGED <<locals, faults>>
     \/ /\ Fault
        /\ Leave(i, "truncateKey")
        /\ UNCHANGED keyFile
  /\ UNCHANGED <<regFile, txt, orders, raced, lost>>

WriteKey(i) ==
  /\ \/ /\ Goto(i, "writeKey", "register")
        /\ keyFile' = [keyFile EXCEPT ![AccountOf[i]] = key[i]]
        /\ UNCHANGED <<locals, faults>>
     \/ /\ Fault
        /\ Leave(i, "writeKey")
        /\ UNCHANGED keyFile
  /\ UNCHANGED <<regFile, txt, orders, raced, lost>>

\* mutant: a registration without its URL is used as it is
ReadRegBare(i) ==
  LET r == regFile[AccountOf[i]] IN
  /\ \/ /\ r \in Keys \union {Bare}
        /\ Goto(i, "readReg", "order")
        /\ reg' = [reg EXCEPT ![i] = r]
        /\ UNCHANGED faults
     \/ /\ \/ r \notin Keys \union {Bare} /\ UNCHANGED faults
           \/ Fault
        /\ Goto(i, "readReg", "register")
        /\ UNCHANGED reg
  /\ UNCHANGED <<account, txt, key, values, todo, now, found, failed, orders, raced, lost>>

\* account.json: unreadable, torn or without its URL, it makes the client register again.
ReadReg(i) ==
  LET r == regFile[AccountOf[i]] IN
  /\ \/ /\ r \in Keys
        /\ Goto(i, "readReg", "order")
        /\ reg' = [reg EXCEPT ![i] = r]
        /\ UNCHANGED faults
     \/ /\ \/ r \notin Keys /\ UNCHANGED faults
           \/ Fault
        /\ Goto(i, "readReg", "register")
        /\ UNCHANGED reg
  /\ UNCHANGED <<account, txt, key, values, todo, now, found, failed, orders, raced, lost>>

\* Register, or ResolveAccountByKey and Register: the CA answers with the account of the key.
Register(i) ==
  /\ \/ /\ Goto(i, "register", "truncateReg")
        /\ reg' = [reg EXCEPT ![i] = key[i]]
        /\ UNCHANGED <<key, values, todo, now, found, failed, faults>>
     \/ /\ Fault
        /\ Leave(i, "register")
  /\ UNCHANGED <<account, txt, orders, raced, lost>>

\* saveACMERegistration; its error is only logged.
TruncateReg(i) ==
  /\ \/ /\ Goto(i, "truncateReg", "writeReg")
        /\ regFile' = [regFile EXCEPT ![AccountOf[i]] = Torn]
        /\ UNCHANGED faults
     \/ /\ Fault
        /\ Goto(i, "truncateReg", "order")
        /\ UNCHANGED regFile
  /\ UNCHANGED <<keyFile, txt, locals, orders, raced, lost>>

WriteReg(i) ==
  /\ Goto(i, "writeReg", "order")
  /\ \/ /\ regFile' = [regFile EXCEPT ![AccountOf[i]] = reg[i]]
        /\ UNCHANGED faults
     \/ Fault /\ UNCHANGED regFile
  /\ UNCHANGED <<keyFile, txt, locals, orders, raced, lost>>

---------------------------------------------------------------------------
(* The order: present, solve, clean up *)

\* newProvider, then the CA opens the order if key and registration are one account; an
\* authorization it still holds from an earlier order asks for no challenge.
OpenOrder(i) ==
  /\ \/ /\ reg[i] = key[i]
        /\ Goto(i, "order", "present")
        /\ \E asked \in SUBSET ChallengesOf(i) : todo' = [todo EXCEPT ![i] = asked]
        /\ UNCHANGED <<key, reg, values, now, found, failed, faults>>
     \/ /\ \/ reg[i] # key[i] /\ UNCHANGED faults
           \/ Fault
        /\ Leave(i, "order")
  /\ UNCHANGED <<account, txt, orders, raced, lost>>

Present(i, c) ==
  /\ c \in todo[i]
  /\ Goto(i, "present", "lookup")
  /\ now' = [now EXCEPT ![i] = c]
  /\ todo' = [todo EXCEPT ![i] = @ \ {c}]
  /\ values' = [values EXCEPT ![i] = @ \union {c}]
  /\ UNCHANGED <<account, txt, key, reg, found, failed, orders, faults, raced, lost>>

\* upsertTXTRecord looks the RRset up ...
LookupTXT(i) ==
  /\ \/ /\ Goto(i, "lookup", "publish")
        /\ found' = [found EXCEPT ![i] = txt[NameOf[now[i]]] # {}]
        /\ UNCHANGED <<failed, faults>>
     \/ /\ Fault
        /\ Goto(i, "lookup", "present")
        /\ failed' = [failed EXCEPT ![i] = @ \union {now[i]}]
        /\ UNCHANGED found
  /\ UNCHANGED <<account, txt, key, reg, values, todo, now, orders, raced, lost>>

\* mutant: Present publishes the value at hand only
PublishedLast(i) == {now[i]}

\* All values of this provider for the name.
Published(i) == values[i] \intersect SameName(now[i])

\* ... and creates or overwrites what it saw; an answer may be lost after the change.
PublishTXT(i) ==
  LET n == NameOf[now[i]]
      accepted == found[i] = (txt[n] # {})
  IN
  /\ Goto(i, "publish", "present")
  /\ \/ /\ accepted
        /\ txt' = [txt EXCEPT ![n] = Published(i)]
        /\ lost' = lost \ SameName(now[i])
        /\ \/ UNCHANGED <<failed, faults>>
           \/ Fault /\ failed' = [failed EXCEPT ![i] = @ \union {now[i]}]
     \/ /\ \/ ~accepted /\ UNCHANGED faults
           \/ Fault
        /\ failed' = [failed EXCEPT ![i] = @ \union {now[i]}]
        /\ UNCHANGED <<txt, lost>>
  /\ UNCHANGED <<account, key, reg, values, todo, now, found, orders, raced>>

\* All challenges were presented; those that failed are not submitted to the CA.
BeginSolve(i) ==
  /\ todo[i] = {}
  /\ Goto(i, "present", "solve")
  /\ todo' = [todo EXCEPT ![i] = values[i] \ failed[i]]
  /\ UNCHANGED <<account, txt, key, reg, values, now, found, failed, orders, faults, raced, lost>>

\* The CA looks for the value; it may also refuse for reasons of its own.
Solve(i, c) ==
  /\ pc[i] = "solve"
  /\ c \in todo[i]
  /\ todo' = [todo EXCEPT ![i] = @ \ {c}]
  /\ \/ /\ c \in txt[NameOf[c]]
        /\ UNCHANGED <<failed, faults>>
     \/ /\ \/ c \notin txt[NameOf[c]] /\ UNCHANGED faults
           \/ Fault
        /\ failed' = [failed EXCEPT ![i] = @ \union {c}]
  /\ UNCHANGED <<account, txt, pc, key, reg, values, now, found, orders, raced, lost>>

\* mutant: the challenges of a failed order stay published
BeginCleanSolved(i) ==
  /\ todo[i] = {}
  /\ Goto(i, "solve", "clean")
  /\ todo' = [todo EXCEPT ![i] = IF failed[i] = {} THEN values[i] ELSE {}]
  /\ UNCHANGED <<account, txt, key, reg, values, now, found, failed, orders, faults, raced, lost>>

BeginClean(i) ==
  /\ todo[i] = {}
  /\ Goto(i, "solve", "clean")
  /\ todo' = [todo EXCEPT ![i] = values[i]]
  /\ UNCHANGED <<account, txt, key, reg, values, now, found, failed, orders, faults, raced, lost>>

\* CleanUp forgets every value of the name, and deletes the whole RRset.
CleanUp(i, c) ==
  /\ c \in todo[i]
  /\ Goto(i, "clean", "lookupClean")
  /\ now' = [now EXCEPT ![i] = c]
  /\ todo' = [todo EXCEPT ![i] = @ \ {c}]
  /\ values' = [values EXCEPT ![i] = @ \ SameName(c)]
  /\ UNCHANGED <<account, txt, key, reg, found, failed, orders, faults, raced, lost>>

LookupClean(i) ==
  /\ \/ /\ Goto(i, "lookupClean", IF txt[NameOf[now[i]]] # {} THEN "delete" ELSE "clean")
        /\ UNCHANGED <<faults, lost>>
     \/ /\ Fault
        /\ Goto(i, "lookupClean", "clean")
        /\ lost' = lost \union txt[NameOf[now[i]]]
  /\ UNCHANGED <<account, txt, locals, orders, raced>>

DeleteTXT(i) ==
  LET n == NameOf[now[i]] IN
  /\ Goto(i, "delete", "clean")
  /\ \/ txt' = [txt EXCEPT ![n] = {}] /\ UNCHANGED <<faults, lost>>
     \/ /\ Fault
        /\ lost' = lost \union txt[n]
        /\ UNCHANGED txt
  /\ UNCHANGED <<account, locals, orders, raced>>

\* The order is finalised or has failed; either way obtainCertificate returns.
EndOrder(i) ==
  /\ todo[i] = {}
  /\ Leave(i, "clean")
  /\ UNCHANGED <<account, txt, orders, faults, raced, lost>>

\* The backend stops and starts again.
Crash ==
  /\ Fault
  /\ \E i \in Issuers : pc[i] # "idle"
  /\ pc' = [i \in Issuers |-> "idle"]
  /\ key' = [i \in Issuers |-> None]
  /\ reg' = [i \in Issuers |-> None]
  /\ values' = [i \in Issuers |-> {}]
  /\ todo' = [i \in Issuers |-> {}]
  /\ now' = [i \in Issuers |-> None]
  /\ found' = [i \in Issuers |-> FALSE]
  /\ failed' = [i \in Issuers |-> {}]
  /\ lost' = lost \union UNION {txt[n] : n \in Names}
  /\ UNCHANGED <<account, txt, orders, raced>>

---------------------------------------------------------------------------
Step(i) ==
  \/ Start(i) \/ ReadKey(i) \/ TruncateKey(i) \/ WriteKey(i)
  \/ ReadReg(i) \/ Register(i) \/ TruncateReg(i) \/ WriteReg(i)
  \/ OpenOrder(i) \/ LookupTXT(i) \/ PublishTXT(i) \/ BeginSolve(i) \/ BeginClean(i)
  \/ LookupClean(i) \/ DeleteTXT(i) \/ EndOrder(i)
  \/ \E c \in Challenges : Present(i, c) \/ Solve(i, c) \/ CleanUp(i, c)

Next == Crash \/ \E i \in Issuers : Step(i)

Spec == Init /\ [][Next]_vars

---------------------------------------------------------------------------
(* Properties *)

\* A challenge the CA is asked to validate is published, together with every other one of
\* its name: "Multiple challenges for the same FQDN (e.g. base domain + wildcard) are
\* aggregated into a single RRSet" (acme.go:216-218).
ChallengesPublished ==
  \A i \in Issuers :
    pc[i] = "solve" => \A c \in values[i] \ failed[i] : c \in txt[NameOf[c]]

\* A TXT value outlives its order only when a call of the cleanup failed or the backend
\* stopped: also an order that fails takes its challenges back (CleanUp).
NothingLeftBehind ==
  \A n \in Names : \A c \in txt[n] \ lost : pc[OwnerOf[c]] \in Solving

\* The registration on disk belongs to the key on disk, also while issuers load, register and
\* save the same account and after any sequence of failed writes and restarts, unless two of
\* them generated a key for it at the same time (loadOrCreateUser, saveACMERegistration).
AccountFilesMatch ==
  \A a \in Accounts \ raced :
    keyFile[a] \in Keys /\ regFile[a] \in Keys => regFile[a] = keyFile[a]

\* An account whose key file is whole never locks its issuers out: an order is opened with
\* a registration of its own key, whatever account.json held and whoever else works on the
\* account, unless two issuers generated a key for it at the same time.
OrdersUseOwnAccount ==
  \A i \in Issuers : pc[i] = "order" /\ AccountOf[i] \notin raced => reg[i] = key[i]

\* The account an installation has is the one it keeps: no failed read, failed write or
\* restart makes an issuer replace a whole account key by another, unless two issuers
\* generated a key for the account at the same time (loadOrCreateUser).
AccountKeyKept ==
  [][\A a \in Accounts \ raced : keyFile[a] \in Keys => keyFile'[a] = keyFile[a]]_vars
=============================================================================
