---------------------------- MODULE StreamsProofs ----------------------------
(***************************************************************************)
(* Theorems about the parts of the browser client that live on streams and *)
(* timers: the current address (AddressStreams), the log (LogDrawer), the  *)
(* resolution of a record (RecordOverview), notifications and the loading  *)
(* bar (Notifications).  Each is proved of the specification of its part,  *)
(* for every value of the constants; the log and the record's page also    *)
(* implement StreamPromise.  The theorems at the end are about all of them *)
(* together (MCFrontendStreams).                                           *)
(***************************************************************************)
EXTENDS MCFrontendStreams, FiniteSetTheorems, SequenceTheorems, TLAPS

---------------------------------------------------------------------------
(* filter *)

\* The ranks of the places kept are 1, 2 and so on, in the order of the places.
LEMMA Ranks ==
  ASSUME NEW n \in Nat, NEW K \in SUBSET (1 .. n)
  PROVE  /\ IsFiniteSet(K) /\ Cardinality(K) \in Nat /\ Cardinality(K) <= n
         /\ \A i, j \in K : i < j => Rank(K, i) < Rank(K, j)
         /\ \A k \in 1 .. Cardinality(K) : \E i \in K : Rank(K, i) = k
<1>1. IsFiniteSet(1 .. n) /\ Cardinality(1 .. n) = n
  BY FS_Interval
<1>2. IsFiniteSet(K) /\ Cardinality(K) \in Nat /\ Cardinality(K) <= n
  BY <1>1, FS_Subset, FS_CardinalityType
<1>3. ASSUME NEW T \in SUBSET K
      PROVE  IsFiniteSet(T) /\ Cardinality(T) \in Nat /\ Cardinality(T) <= Cardinality(K)
  BY <1>2, FS_Subset, FS_CardinalityType
<1>4. ASSUME NEW i \in K, NEW j \in K, i < j PROVE Rank(K, i) < Rank(K, j)
  <2> DEFINE S == {x \in K : x <= i}
             T == {x \in K : x <= j}
  <2>1. i \in Nat /\ j \in Nat /\ \A x \in K : x \in Nat
    OBVIOUS
  <2>2. S \in SUBSET T /\ j \in T /\ j \notin S
    <3>1. \A x \in K : x <= i => x <= j
      BY <1>4, <2>1
    <3>2. j <= j /\ ~(j <= i)
      BY <1>4, <2>1
    <3>3. QED
      BY <3>1, <3>2
  <2>3. S \in SUBSET K /\ T \in SUBSET K
    OBVIOUS
  <2> HIDE DEF S, T
  <2>4. IsFiniteSet(T) /\ Cardinality(S) \in Nat /\ Cardinality(T) \in Nat
    BY <1>3, <2>3
  <2>5. Cardinality(S) <= Cardinality(T) /\ Cardinality(S) # Cardinality(T)
    BY <2>2, <2>4, FS_Subset
  <2>6. Cardinality(S) < Cardinality(T)
    BY <2>4, <2>5
  <2>7. QED
    BY <2>6 DEF S, T, Rank
<1>5. ASSUME NEW i \in K PROVE Rank(K, i) \in 1 .. Cardinality(K)
  <2> DEFINE S == {x \in K : x <= i}
  <2>1. S \in SUBSET K /\ i \in S
    OBVIOUS
  <2> HIDE DEF S
  <2>2. IsFiniteSet(S) /\ Cardinality(S) \in Nat /\ Cardinality(S) <= Cardinality(K)
    BY <1>3, <2>1
  <2>3. Cardinality(S) # 0
    BY <2>1, <2>2, FS_EmptySet
  <2>4. Cardinality(S) \in 1 .. Cardinality(K)
    BY <1>2, <2>2, <2>3
  <2>5. QED
    BY <2>4 DEF S, Rank
<1>6. \A k \in 1 .. Cardinality(K) : \E i \in K : Rank(K, i) = k
  <2> DEFINE C == 1 .. Cardinality(K)
             f == [i \in K |-> Rank(K, i)]
  <2>1. f \in [K -> C]
    BY <1>5
  <2>2. ASSUME NEW i \in K, NEW j \in K, f[i] = f[j] PROVE i = j
    <3>1. Rank(K, i) = Rank(K, j) /\ Rank(K, i) \in Nat
      BY <1>5, <2>2
    <3>2. i \in Nat /\ j \in Nat
      OBVIOUS
    <3>3. ~(Rank(K, i) < Rank(K, j)) /\ ~(Rank(K, j) < Rank(K, i))
      BY <3>1
    <3>4. ~(i < j) /\ ~(j < i)
      BY <1>4, <3>3
    <3>5. QED
      BY <3>2, <3>4
  <2>3. f \in Injection(K, C)
    BY <2>1, <2>2 DEF Injection, IsInjective
  <2>4. IsFiniteSet(C) /\ Cardinality(C) = Cardinality(K)
    BY <1>2, FS_Interval
  <2> HIDE DEF f, C
  <2>5. f \in Surjection(K, C)
    BY <2>3, <2>4, FS_Injection
  <2>6. ASSUME NEW k \in C PROVE \E i \in K : Rank(K, i) = k
    <3>1. PICK i \in K : f[i] = k
      BY <2>5, <2>6 DEF Surjection
    <3>2. QED
      BY <3>1 DEF f
  <2>7. QED
    BY <2>6 DEF C
<1>7. QED
  BY <1>2, <1>4, <1>6

\* What is kept is an increasing choice of the elements.
LEMMA FilterKeepsOrder ==
  ASSUME NEW S, NEW s \in Seq(S), NEW K \in SUBSET (DOMAIN s)
  PROVE  /\ Filtered(s, K) \in Seq(S) /\ Len(Filtered(s, K)) <= Len(s)
         /\ DOMAIN Filtered(s, K) = 1 .. Len(Filtered(s, K)) /\ Len(Filtered(s, K)) \in Nat
         /\ \E f \in [DOMAIN Filtered(s, K) -> K] :
              /\ \A k \in DOMAIN Filtered(s, K) : Filtered(s, K)[k] = s[f[k]]
              /\ \A k, l \in DOMAIN Filtered(s, K) : k # l => f[k] # f[l]
<1> DEFINE n == Len(s)
           C == Cardinality(K)
           f == [k \in 1 .. C |-> CHOOSE i \in K : Rank(K, i) = k]
<1>1. n \in Nat /\ DOMAIN s = 1 .. n /\ \A i \in 1 .. n : s[i] \in S
  BY LenProperties
<1>2. /\ C \in Nat /\ C <= n /\ \A k \in 1 .. C : \E i \in K : Rank(K, i) = k
  BY <1>1, Ranks
<1>3. \A k \in 1 .. C : f[k] \in K /\ Rank(K, f[k]) = k
  BY <1>2
<1>4. f \in [1 .. C -> K] /\ \A k, l \in 1 .. C : k # l => f[k] # f[l]
  BY <1>3
<1> DEFINE r == [k \in 1 .. C |-> s[f[k]]]
<1>5. Filtered(s, K) = r
  BY DEF Filtered
<1> HIDE DEF f
<1>6. r \in [1 .. C -> S]
  BY <1>1, <1>3
<1>7. r \in Seq(S) /\ Len(r) = C /\ DOMAIN r = 1 .. C
  BY <1>2, <1>6
<1>8. \A k \in 1 .. C : r[k] = s[f[k]]
  OBVIOUS
<1> HIDE DEF r
<1>9. QED
  BY <1>2, <1>4, <1>5, <1>7, <1>8

---------------------------------------------------------------------------
(* One stream *)

Phases == {"cold", "connecting", "open", "waiting", "closed"}

\* Nothing is asked or under way on a connection that is gone.
Quiet(s) == s.request = Silent /\ s.wire = <<>>

\* It is over, and nothing comes by it.
Ended(s) == ~Alive(s) /\ Quiet(s)

LEMMA StreamFields ==
  ASSUME NEW M, NEW R, NEW s \in StreamType(M, R)
  PROVE  /\ s.phase \in Phases /\ s.queue \in Seq(R) /\ s.request \in R \union {Silent}
         /\ s.wire \in Seq(M)
         /\ \A w \in Seq(M) : [s EXCEPT !.wire = w] \in StreamType(M, R)
         /\ \A w : /\ [s EXCEPT !.wire = w].phase = s.phase /\ [s EXCEPT !.wire = w].wire = w
                   /\ [s EXCEPT !.wire = w].request = s.request
BY DEF StreamType, Phases

LEMMA Disconnection ==
  ASSUME NEW M, NEW R, NEW s \in StreamType(M, R), NEW p \in Phases
  PROVE  /\ Disconnected(s, p) \in StreamType(M, R) /\ Disconnected(s, p).phase = p
         /\ Quiet(Disconnected(s, p))
<1> DEFINE t == Disconnected(s, p)
<1>1. t = [s EXCEPT !.phase = p, !.queue = <<>>, !.request = Silent, !.wire = <<>>]
  BY DEF Disconnected
<1>2. <<>> \in Seq(R) /\ <<>> \in Seq(M)
  BY EmptySeq
<1> HIDE DEF t
<1>3. t \in StreamType(M, R) /\ t.phase = p
  BY <1>1, <1>2 DEF StreamType, Phases
<1>4. Quiet(t)
  BY <1>1 DEF StreamType, Quiet
<1>5. QED
  BY <1>3, <1>4 DEF t

LEMMA NewSubscription ==
  ASSUME NEW M, NEW R
  PROVE  /\ Subscribed(NewStream) \in StreamType(M, R)
         /\ Subscribed(NewStream).phase = "connecting" /\ Quiet(Subscribed(NewStream))
         /\ \A m \in R :
              /\ Sent(Subscribed(NewStream), m) \in StreamType(M, R)
              /\ Sent(Subscribed(NewStream), m).phase = "connecting"
              /\ Quiet(Sent(Subscribed(NewStream), m))
<1> DEFINE s == [phase |-> "connecting", queue |-> <<>>, request |-> Silent, wire |-> <<>>]
<1>1. Subscribed(NewStream) = s
  BY DEF Subscribed, NewStream
<1>2. <<>> \in Seq(R) /\ <<>> \in Seq(M)
  BY EmptySeq
<1>3. s \in StreamType(M, R) /\ s.phase = "connecting" /\ Quiet(s) /\ s.queue = <<>>
  BY <1>2 DEF StreamType, Quiet
<1> HIDE DEF s
<1>4. ASSUME NEW m \in R
      PROVE  Sent(s, m) \in StreamType(M, R) /\ Sent(s, m).phase = "connecting" /\ Quiet(Sent(s, m))
  <2> DEFINE t == Sent(s, m)
  <2>1. t = [s EXCEPT !.queue = Append(s.queue, m)]
    BY <1>3 DEF Sent
  <2>2. Append(s.queue, m) \in Seq(R)
    BY <1>2, <1>3, AppendProperties
  <2> HIDE DEF t
  <2>3. t \in StreamType(M, R) /\ t.phase = "connecting"
    BY <1>3, <2>1, <2>2 DEF StreamType
  <2>4. Quiet(t)
    BY <1>3, <2>1 DEF StreamType, Quiet
  <2>5. QED
    BY <2>3, <2>4 DEF t
<1>5. QED
  BY <1>1, <1>3, <1>4

LEMMA Opening ==
  ASSUME NEW M, NEW R, NEW s \in StreamType(M, R), NEW g \in Seq(R)
  PROVE  /\ Opened(s, g) \in StreamType(M, R) /\ Opened(s, g).phase = "open"
         /\ Opened(s, g).wire = s.wire
<1> DEFINE flushed == s.queue \o g
           t == Opened(s, g)
           r == IF flushed = <<>> THEN Silent ELSE Head(flushed)
<1>1. s.queue \in Seq(R)
  BY StreamFields
<1>2. flushed \in Seq(R) /\ <<>> \in Seq(R)
  BY <1>1, ConcatProperties, EmptySeq
<1>3. t = [s EXCEPT !.phase = "open", !.queue = <<>>, !.request = r]
  BY DEF Opened
<1> HIDE DEF flushed
<1>4. r \in R \union {Silent}
  BY <1>2, HeadTailProperties
<1> HIDE DEF t, r
<1>5. t \in StreamType(M, R) /\ t.phase = "open" /\ t.wire = s.wire
  BY <1>2, <1>3, <1>4 DEF StreamType
<1>6. QED
  BY <1>5 DEF t

LEMMA Reconnection ==
  ASSUME NEW M, NEW R, NEW s \in StreamType(M, R)
  PROVE  /\ Reconnecting(s) \in StreamType(M, R) /\ Reconnecting(s).phase = "connecting"
         /\ Reconnecting(s).wire = s.wire /\ Reconnecting(s).request = s.request
BY DEF Reconnecting, StreamType

\* A page that leaves a stream ends it.
LEMMA Closing ==
  ASSUME NEW M, NEW R, NEW s \in StreamType(M, R)
  PROVE  /\ Closed(s) \in StreamType(M, R) /\ Closed(s).phase = "closed" /\ Quiet(Closed(s))
         /\ Closed(Unsubscribed(s)) \in StreamType(M, R)
         /\ Closed(Unsubscribed(s)).phase = "closed" /\ Quiet(Closed(Unsubscribed(s)))
<1>1. "closed" \in Phases /\ "cold" \in Phases
  BY DEF Phases
<1>2. Unsubscribed(s) \in StreamType(M, R)
  BY <1>1, Disconnection DEF Unsubscribed
<1>3. QED
  BY <1>1, <1>2, Disconnection DEF Closed

LEMMA Dropping ==
  ASSUME NEW M, NEW R, NEW s \in StreamType(M, R)
  PROVE  Dropped(s) \in StreamType(M, R) /\ Dropped(s).phase = "waiting" /\ Quiet(Dropped(s))
<1>1. "waiting" \in Phases
  BY DEF Phases
<1>2. QED
  BY <1>1, Disconnection DEF Dropped

\* A sequence of streams of which one changes.
LEMMA OneStreamChanged ==
  ASSUME NEW S, NEW ss \in Seq(S), NEW s \in DOMAIN ss, NEW t \in S
  PROVE  /\ [ss EXCEPT ![s] = t] \in Seq(S) /\ Len([ss EXCEPT ![s] = t]) = Len(ss)
         /\ DOMAIN [ss EXCEPT ![s] = t] = DOMAIN ss
         /\ \A x \in DOMAIN ss : [ss EXCEPT ![s] = t][x] = IF x = s THEN t ELSE ss[x]
<1>1. DOMAIN ss = 1 .. Len(ss)
  BY LenProperties
<1>2. QED
  BY <1>1, ExceptSeq

\* A page that ends the stream it holds, when all others have ended, has none that goes on.
Released(ss, held) ==
  IF held = 0 THEN ss ELSE [ss EXCEPT ![held] = Closed(Unsubscribed(@))]

LEMMA HeldStreamEnds ==
  ASSUME NEW M, NEW R, NEW ss \in Seq(StreamType(M, R)), NEW held \in 0 .. Len(ss),
         \A s \in DOMAIN ss : s # held => Ended(ss[s])
  PROVE  /\ Released(ss, held) \in Seq(StreamType(M, R)) /\ Len(Released(ss, held)) = Len(ss)
         /\ DOMAIN Released(ss, held) = 1 .. Len(ss)
         /\ \A s \in 1 .. Len(ss) : Ended(Released(ss, held)[s])
<1> DEFINE old == Released(ss, held)
<1>1. Len(ss) \in Nat /\ DOMAIN ss = 1 .. Len(ss)
      /\ \A s \in 1 .. Len(ss) : ss[s] \in StreamType(M, R)
  BY LenProperties
<1>2. CASE held = 0
  BY <1>1, <1>2 DEF Released
<1>3. CASE held # 0
  <2> DEFINE c == Closed(Unsubscribed(ss[held]))
  <2>1. held \in 1 .. Len(ss)
    BY <1>1, <1>3
  <2>2. c \in StreamType(M, R) /\ c.phase = "closed" /\ Quiet(c)
    BY <1>1, <2>1, Closing
  <2>3. Ended(c)
    BY <2>2 DEF Ended, Alive
  <2>4. old = [ss EXCEPT ![held] = c]
    BY <1>3 DEF Released
  <2> HIDE DEF c, old
  <2>5. /\ old \in Seq(StreamType(M, R)) /\ Len(old) = Len(ss) /\ DOMAIN old = 1 .. Len(ss)
        /\ \A s \in 1 .. Len(ss) : old[s] = IF s = held THEN c ELSE ss[s]
    BY <1>1, <2>1, <2>2, <2>4, OneStreamChanged
  <2>6. QED
    BY <1>1, <2>3, <2>5 DEF old
<1>4. QED
  BY <1>2, <1>3

---------------------------------------------------------------------------
(* The current address *)

Addresses == 0 .. MaxAddress
Requests == {"{}"}
AddressStream == StreamType(Addresses, Requests)

AddressTypes ==
  /\ current \in Addresses /\ breaks \in 0 .. MaxBreaks
  /\ feed \in [Followers -> AddressStream]
  /\ served \in [Followers -> Addresses]
  /\ shown \in [Followers -> Addresses]
  /\ connected \in BOOLEAN /\ cardAlive \in BOOLEAN
  /\ refreshing \in {"idle", "asked", "answered"}

AddressInv == AddressTypes /\ BadgeIsHonest

LEMMA AddressNumbers ==
  /\ MaxAddress \in Nat \ {0} /\ MaxBreaks \in Nat
  /\ 0 \in Addresses /\ 1 \in Addresses
BY AddressBounds DEF AddressBounds, Addresses

LEMMA TheCard == "card" \in Followers /\ "toolbar" # "card"
BY DEF Followers

LEMMA FreshFeed ==
  /\ Subscribed(NewStream) \in AddressStream /\ Subscribed(NewStream).phase = "connecting"
BY NewSubscription DEF AddressStream

LEMMA AddressInitial ==
  /\ AddressInit => AddressInv
  /\ AddressAtRest => AddressInv
<1>1. ASSUME AddressInit PROVE AddressInv
  <2>1. feed \in [Followers -> AddressStream] /\ feed["card"].phase = "connecting"
    BY <1>1, FreshFeed, TheCard DEF AddressInit
  <2>2. served \in [Followers -> Addresses] /\ shown \in [Followers -> Addresses]
    BY <1>1, AddressNumbers DEF AddressInit
  <2>3. current \in Addresses /\ breaks \in 0 .. MaxBreaks
    <3>1. current = 0 \/ current = 1
      BY <1>1 DEF AddressInit
    <3>2. QED
      BY <1>1, <3>1, AddressNumbers DEF AddressInit
  <2>4. QED
    BY <1>1, <2>1, <2>2, <2>3 DEF AddressInit, AddressInv, AddressTypes, BadgeIsHonest
<1>2. ASSUME AddressAtRest PROVE AddressInv
  <2>1. NewStream \in AddressStream /\ NewStream.phase = "cold"
    BY EmptySeq DEF NewStream, AddressStream, StreamType
  <2>2. feed \in [Followers -> AddressStream] /\ feed["card"].phase = "cold"
    BY <1>2, <2>1, TheCard DEF AddressAtRest
  <2>3. served \in [Followers -> Addresses] /\ shown \in [Followers -> Addresses]
    BY <1>2, AddressNumbers DEF AddressAtRest
  <2>4. current \in Addresses /\ breaks \in 0 .. MaxBreaks
    BY <1>2, AddressNumbers DEF AddressAtRest
  <2>5. QED
    BY <1>2, <2>2, <2>3, <2>4 DEF AddressAtRest, AddressInv, AddressTypes, BadgeIsHonest
<1>3. QED
  BY <1>1, <1>2

LEMMA FeedChanged ==
  ASSUME AddressTypes, NEW f \in Followers, NEW t \in AddressStream,
         feed' = [feed EXCEPT ![f] = t]
  PROVE  /\ feed' \in [Followers -> AddressStream]
         /\ feed'["card"] = IF f = "card" THEN t ELSE feed["card"]
BY TheCard DEF AddressTypes

\* A follower's stream opens, fails, reconnects, or has a message.
LEMMA FollowerStep ==
  ASSUME AddressInv, NEW f \in Followers,
         Connect(f) \/ Break(f) \/ Reconnect(f) \/ Receive(f) \/ Push(f) \/ ServeError(f)
  PROVE  AddressInv'
<1> AddressTypes /\ BadgeIsHonest
  BY DEF AddressInv
<1> DEFINE s == feed[f]
<1>1. s \in AddressStream /\ s.wire \in Seq(Addresses)
  BY StreamFields DEF AddressTypes, AddressStream
<1> /\ \A w \in Seq(Addresses) : [s EXCEPT !.wire = w] \in AddressStream
    /\ \A w : [s EXCEPT !.wire = w].phase = s.phase
  BY <1>1, StreamFields DEF AddressStream
<1>2. ASSUME NEW t \in AddressStream, feed' = [feed EXCEPT ![f] = t],
             t.phase = s.phase, UNCHANGED <<current, connected, refreshing, cardAlive, breaks>>,
             served' \in [Followers -> Addresses], shown' \in [Followers -> Addresses]
      PROVE  AddressInv'
  <2>1. feed' \in [Followers -> AddressStream] /\ feed'["card"].phase = feed["card"].phase
    BY <1>2, FeedChanged
  <2>2. QED
    BY <1>2, <2>1 DEF AddressInv, AddressTypes, BadgeIsHonest
<1>3. ASSUME NEW t \in AddressStream, feed' = [feed EXCEPT ![f] = t], t.phase # "open",
             f = "card" => (cardAlive => ~connected'), f # "card" => connected' = connected,
             connected' \in BOOLEAN, UNCHANGED <<current, refreshing, cardAlive, served, shown>>,
             breaks' \in 0 .. MaxBreaks
      PROVE  AddressInv'
  <2>1. feed' \in [Followers -> AddressStream]
        /\ feed'["card"] = IF f = "card" THEN t ELSE feed["card"]
    BY <1>3, FeedChanged
  <2>2. BadgeIsHonest'
    BY <1>3, <2>1 DEF BadgeIsHonest
  <2>3. QED
    BY <1>3, <2>1, <2>2 DEF AddressInv, AddressTypes
<1>4. CASE Connect(f)
  <2> DEFINE t == Opened(s, << "{}" >>)
  <2>1. << "{}" >> \in Seq(Requests)
    BY DEF Requests
  <2>2. t \in AddressStream /\ t.phase = "open"
    <3>1. \A g \in Seq(Requests) : Opened(s, g) \in AddressStream /\ Opened(s, g).phase = "open"
      BY <1>1, Opening DEF AddressStream
    <3>2. QED
      BY <2>1, <3>1
  <2> HIDE DEF t
  <2>3. feed' = [feed EXCEPT ![f] = t]
    BY <1>4 DEF Connect, t
  <2>4. feed' \in [Followers -> AddressStream]
        /\ feed'["card"] = IF f = "card" THEN t ELSE feed["card"]
    BY <2>2, <2>3, FeedChanged
  <2>5. connected' = (connected \/ f = "card") /\ served' = [served EXCEPT ![f] = 0]
        /\ UNCHANGED <<current, shown, refreshing, cardAlive, breaks>>
    BY <1>4 DEF Connect
  <2>6. BadgeIsHonest'
    BY <2>2, <2>4, <2>5 DEF BadgeIsHonest
  <2>7. served' \in [Followers -> Addresses]
    BY <2>5, AddressNumbers DEF AddressTypes
  <2>8. QED
    BY <2>4, <2>5, <2>6, <2>7 DEF AddressInv, AddressTypes
<1>5. CASE Break(f)
  <2>1. feed' = [feed EXCEPT ![f] = Dropped(s)] /\ connected' = (connected /\ f # "card")
        /\ breaks < MaxBreaks /\ breaks' = breaks + 1
        /\ UNCHANGED <<current, served, shown, refreshing, cardAlive>>
    BY <1>5 DEF Break
  <2>2. Dropped(s) \in AddressStream /\ Dropped(s).phase = "waiting"
    BY <1>1, Dropping DEF AddressStream
  <2>3. breaks' \in 0 .. MaxBreaks
    BY <2>1, AddressNumbers DEF AddressTypes
  <2>4. connected' \in BOOLEAN /\ (f = "card" => ~connected')
        /\ (f # "card" => connected' = connected)
    BY <2>1 DEF AddressTypes
  <2>5. QED
    BY <1>3, <2>1, <2>2, <2>3, <2>4
<1>6. CASE Reconnect(f)
  <2>1. feed' = [feed EXCEPT ![f] = Reconnecting(s)] /\ s.phase = "waiting"
        /\ UNCHANGED <<current, served, shown, connected, refreshing, cardAlive, breaks>>
    BY <1>6 DEF Reconnect
  <2>2. Reconnecting(s) \in AddressStream /\ Reconnecting(s).phase = "connecting"
    BY <1>1, Reconnection DEF AddressStream
  <2>3. f = "card" => (cardAlive => ~connected)
    BY <2>1 DEF BadgeIsHonest
  <2>4. QED
    BY <1>3, <2>1, <2>2, <2>3 DEF AddressTypes
<1>7. CASE Receive(f)
  <2> DEFINE t == [s EXCEPT !.wire = Tail(s.wire)]
  <2>1. s.wire # <<>> /\ feed' = [feed EXCEPT ![f] = t]
        /\ shown' = [shown EXCEPT ![f] = Head(s.wire)]
        /\ UNCHANGED <<current, served, connected, refreshing, cardAlive, breaks>>
    BY <1>7 DEF Receive
  <2>2. Head(s.wire) \in Addresses /\ Tail(s.wire) \in Seq(Addresses)
    BY <1>1, <2>1, HeadTailProperties
  <2>3. t \in AddressStream /\ t.phase = s.phase
    BY <2>2
  <2> HIDE DEF t
  <2>4. shown' \in [Followers -> Addresses] /\ served' \in [Followers -> Addresses]
    BY <2>1, <2>2 DEF AddressTypes
  <2>5. QED
    BY <1>2, <2>1, <2>3, <2>4
<1>8. CASE Push(f)
  <2> DEFINE t == [s EXCEPT !.wire = Append(s.wire, current)]
  <2>1. feed' = [feed EXCEPT ![f] = t] /\ served' = [served EXCEPT ![f] = current]
        /\ UNCHANGED <<current, shown, connected, refreshing, cardAlive, breaks>>
    BY <1>8 DEF Push
  <2>2. Append(s.wire, current) \in Seq(Addresses)
    BY <1>1, AppendProperties DEF AddressTypes
  <2>3. t \in AddressStream /\ t.phase = s.phase
    BY <2>2
  <2> HIDE DEF t
  <2>4. served' \in [Followers -> Addresses] /\ shown' \in [Followers -> Addresses]
    BY <2>1 DEF AddressTypes
  <2>5. QED
    BY <1>2, <2>1, <2>3, <2>4
<1>9. CASE ServeError(f)
  <2>1. feed' = [feed EXCEPT ![f] = Dropped(s)] /\ connected' = (connected /\ f # "card")
        /\ UNCHANGED <<current, served, shown, refreshing, cardAlive, breaks>>
    BY <1>9 DEF ServeError
  <2>2. Dropped(s) \in AddressStream /\ Dropped(s).phase = "waiting"
    BY <1>1, Dropping DEF AddressStream
  <2>3. connected' \in BOOLEAN /\ (f = "card" => ~connected')
        /\ (f # "card" => connected' = connected) /\ breaks' \in 0 .. MaxBreaks
    BY <2>1 DEF AddressTypes
  <2>4. QED
    BY <1>3, <2>1, <2>2, <2>3
<1>10. QED
  BY <1>4, <1>5, <1>6, <1>7, <1>8, <1>9

LEMMA AddressStep == AddressInv /\ [AddressNext]_addressVars => AddressInv'
<1> SUFFICES ASSUME AddressInv, [AddressNext]_addressVars PROVE AddressInv'
  OBVIOUS
<1> AddressTypes /\ BadgeIsHonest
  BY DEF AddressInv
<1>1. ASSUME NEW f \in Followers,
             Connect(f) \/ Break(f) \/ Reconnect(f) \/ Receive(f) \/ Push(f) \/ ServeError(f)
      PROVE  AddressInv'
  BY <1>1, FollowerStep
<1>2. CASE LeaveHome
  <2>1. feed["card"] \in AddressStream
    BY TheCard DEF AddressTypes
  <2>2. Closed(feed["card"]) \in AddressStream
    BY <2>1, Closing DEF AddressStream
  <2>3. feed' = [feed EXCEPT !["card"] = Closed(feed["card"])]
    BY <1>2 DEF LeaveHome
  <2>4. feed' \in [Followers -> AddressStream]
    BY <2>2, <2>3, TheCard, FeedChanged
  <2>5. QED
    BY <1>2, <2>4 DEF LeaveHome, AddressInv, AddressTypes, BadgeIsHonest
<1>3. CASE EnterHome
  <2>1. feed' = [feed EXCEPT !["card"] = Subscribed(NewStream)]
    BY <1>3 DEF EnterHome
  <2>2. feed' \in [Followers -> AddressStream] /\ feed'["card"].phase = "connecting"
    BY <2>1, FreshFeed, TheCard, FeedChanged
  <2>3. shown' \in [Followers -> Addresses]
    BY <1>3, AddressNumbers DEF EnterHome, AddressTypes
  <2>4. QED
    BY <1>3, <2>2, <2>3 DEF EnterHome, AddressInv, AddressTypes, BadgeIsHonest
<1>4. CASE Refresh \/ RefreshAnswered
  BY <1>4 DEF Refresh, RefreshAnswered, AddressInv, AddressTypes, BadgeIsHonest
<1>5. CASE NewAddress \/ RefreshRuns
  <2>1. current < MaxAddress => current + 1 \in Addresses
    BY AddressNumbers DEF AddressTypes, Addresses
  <2>2. current' \in Addresses
    BY <1>5, <2>1 DEF NewAddress, RefreshRuns, AddressTypes
  <2>3. refreshing' \in {"idle", "asked", "answered"}
        /\ UNCHANGED <<feed, served, shown, connected, cardAlive, breaks>>
    BY <1>5 DEF NewAddress, RefreshRuns, AddressTypes
  <2>4. QED
    BY <2>2, <2>3 DEF AddressInv, AddressTypes, BadgeIsHonest
<1>6. CASE UNCHANGED addressVars
  BY <1>6 DEF addressVars, AddressInv, AddressTypes, BadgeIsHonest
<1>7. QED
  BY <1>1, <1>2, <1>3, <1>4, <1>5, <1>6 DEF AddressNext

LEMMA AddressInvariant == AddressSpec => []AddressInv
BY AddressInitial, AddressStep, PTL DEF AddressSpec

\* The badge of the address card says Live exactly while its socket is open, however the
\* connections open, fail and are closed and however often the page is left and entered.
THEOREM BadgeHonest == AddressSpec => []BadgeIsHonest
<1>1. AddressInv => BadgeIsHonest
  BY DEF AddressInv
<1>2. QED
  BY <1>1, AddressInvariant, PTL

---------------------------------------------------------------------------
(* Notifications and the loading bar *)

Toast == [id : 1 .. MaxToasts, kind : Kinds]

ToastTypes ==
  /\ notifications \in Seq(Toast) /\ Len(notifications) <= MaxVisible
  /\ toastTimers \subseteq 1 .. MaxToasts /\ added \in 0 .. MaxToasts
  /\ detail \in 0 .. MaxToasts

\* The counter of the service is the number of requests under way.
LoadingOK ==
  /\ inFlight \in 0 .. MaxRequests /\ loadingCount = inFlight
  /\ isLoading \in BOOLEAN /\ overlay \in BOOLEAN
  /\ isLoading <=> inFlight > 0

NotifyInv == ToastTypes /\ LoadingOK

LEMMA NotifyNumbers == MaxVisible \in Nat \ {0} /\ MaxToasts \in Nat /\ MaxRequests \in Nat
BY NotifyBounds DEF NotifyBounds

LEMMA NewestAreFew ==
  ASSUME NEW S, NEW items \in Seq(S), NEW n \in Nat
  PROVE  Newest(items, n) \in Seq(S) /\ Len(Newest(items, n)) <= n
<1>1. Len(items) \in Nat /\ \A i \in 1 .. Len(items) : items[i] \in S
  BY LenProperties
<1>2. CASE Len(items) > n
  <2> DEFINE m == Len(items) - n + 1
             r == SubSeq(items, m, Len(items))
  <2>1. m \in Int /\ Len(items) \in Int /\ \A i \in m .. Len(items) : items[i] \in S
    BY <1>1, <1>2
  <2>2. r \in Seq(S) /\ Len(r) = IF m <= Len(items) THEN Len(items) - m + 1 ELSE 0
    BY <2>1, SubSeqProperties
  <2>3. Newest(items, n) = r
    BY <1>2 DEF Newest
  <2> HIDE DEF r
  <2>4. Len(r) <= n
    BY <1>1, <2>2
  <2>5. QED
    BY <2>2, <2>3, <2>4
<1>3. CASE ~(Len(items) > n)
  BY <1>1, <1>3 DEF Newest
<1>4. QED
  BY <1>2, <1>3

LEMMA WithoutIsFewer ==
  ASSUME ToastTypes, NEW id
  PROVE  Without(id) \in Seq(Toast) /\ Len(Without(id)) <= MaxVisible
<1> DEFINE K == {i \in DOMAIN notifications : notifications[i].id # id}
<1>1. notifications \in Seq(Toast) /\ Len(notifications) <= MaxVisible /\ Len(notifications) \in Nat
  BY LenProperties DEF ToastTypes
<1>2. K \in SUBSET (DOMAIN notifications)
  OBVIOUS
<1>3. Without(id) = Filtered(notifications, K)
  BY DEF Without
<1> HIDE DEF K
<1>4. Filtered(notifications, K) \in Seq(Toast)
      /\ Len(Filtered(notifications, K)) <= Len(notifications)
      /\ Len(Filtered(notifications, K)) \in Nat
  BY <1>1, <1>2, FilterKeepsOrder
<1>5. QED
  BY <1>1, <1>3, <1>4, NotifyNumbers

LEMMA NotifyInitial == NotifyInit => NotifyInv
<1> SUFFICES ASSUME NotifyInit PROVE NotifyInv
  OBVIOUS
<1>1. <<>> \in Seq(Toast) /\ Len(<<>>) = 0
  BY EmptySeq
<1>2. ToastTypes
  BY <1>1, NotifyNumbers DEF NotifyInit, ToastTypes
<1>3. LoadingOK
  <2>1. inFlight \in 0 .. MaxRequests /\ ~(inFlight > 0)
    BY NotifyNumbers DEF NotifyInit
  <2>2. loadingCount = inFlight /\ isLoading = FALSE /\ overlay = FALSE
    BY DEF NotifyInit
  <2>3. QED
    BY <2>1, <2>2, Zenon DEF LoadingOK
<1>4. QED
  BY <1>2, <1>3 DEF NotifyInv

LEMMA ToastStep ==
  ASSUME ToastTypes,
         \/ \E kind \in Kinds : AddNotification(kind)
         \/ \E i \in DOMAIN notifications :
              DismissNotification(notifications[i]) \/ ShowDetail(notifications[i])
         \/ \E id \in 1 .. MaxToasts : ToastTimer(id)
         \/ DismissAll \/ CloseDetail
  PROVE  ToastTypes' /\ UNCHANGED <<requestVars, overlay>>
<1>1. ASSUME NEW kind \in Kinds, AddNotification(kind)
      PROVE  ToastTypes' /\ UNCHANGED <<requestVars, overlay>>
  <2> DEFINE item == [id |-> added + 1, kind |-> kind]
             more == Append(notifications, item)
  <2>1. added + 1 \in 1 .. MaxToasts /\ added + 1 \in 0 .. MaxToasts
    BY <1>1, NotifyNumbers DEF AddNotification, ToastTypes
  <2>2. item \in Toast
    BY <2>1 DEF Toast
  <2>3. added' = added + 1 /\ notifications' = Newest(more, MaxVisible)
        /\ toastTimers' = toastTimers \union {added + 1} /\ UNCHANGED <<requestVars, overlay, detail>>
    BY <1>1 DEF AddNotification
  <2> HIDE DEF item
  <2>4. more \in Seq(Toast)
    BY <2>2, AppendProperties DEF ToastTypes
  <2> HIDE DEF more
  <2>5. notifications' \in Seq(Toast) /\ Len(notifications') <= MaxVisible
    BY <2>3, <2>4, NewestAreFew, NotifyNumbers
  <2>6. QED
    BY <2>1, <2>3, <2>5 DEF ToastTypes
<1>2. ASSUME NEW i \in DOMAIN notifications,
             DismissNotification(notifications[i]) \/ ShowDetail(notifications[i])
      PROVE  ToastTypes' /\ UNCHANGED <<requestVars, overlay>>
  <2>1. CASE DismissNotification(notifications[i])
    BY <2>1, WithoutIsFewer DEF DismissNotification, ToastTypes
  <2>2. CASE ShowDetail(notifications[i])
    <3>1. notifications[i] \in Toast
      BY LenProperties DEF ToastTypes
    <3>2. notifications[i].id \in 0 .. MaxToasts
      BY <3>1, NotifyNumbers DEF Toast
    <3>3. QED
      BY <2>2, <3>2 DEF ShowDetail, ToastTypes, requestVars
  <2>3. QED
    BY <1>2, <2>1, <2>2
<1>3. ASSUME NEW id \in 1 .. MaxToasts, ToastTimer(id)
      PROVE  ToastTypes' /\ UNCHANGED <<requestVars, overlay>>
  BY <1>3, WithoutIsFewer DEF ToastTimer, ToastTypes
<1>4. CASE DismissAll
  <2>1. <<>> \in Seq(Toast) /\ Len(<<>>) = 0
    BY EmptySeq
  <2>2. 0 <= MaxVisible
    BY NotifyNumbers
  <2>3. QED
    BY <1>4, <2>1, <2>2 DEF DismissAll, ToastTypes
<1>5. CASE CloseDetail
  BY <1>5, NotifyNumbers DEF CloseDetail, ToastTypes
<1>6. QED
  BY <1>1, <1>2, <1>3, <1>4, <1>5

LEMMA NotifyStep == NotifyInv /\ [NotifyNext]_notifyVars => NotifyInv'
<1> SUFFICES ASSUME NotifyInv, [NotifyNext]_notifyVars PROVE NotifyInv'
  OBVIOUS
<1> ToastTypes /\ LoadingOK
  BY DEF NotifyInv
<1>1. ASSUME ToastTypes', UNCHANGED <<requestVars, overlay>> PROVE NotifyInv'
  BY <1>1 DEF requestVars, LoadingOK, NotifyInv
<1>2. CASE \/ \E kind \in Kinds : AddNotification(kind)
           \/ \E i \in DOMAIN notifications :
                DismissNotification(notifications[i]) \/ ShowDetail(notifications[i])
           \/ \E id \in 1 .. MaxToasts : ToastTimer(id)
           \/ DismissAll \/ CloseDetail
  BY <1>1, <1>2, ToastStep
<1>3. ASSUME UNCHANGED <<notifications, toastTimers, added, detail>> PROVE ToastTypes'
  BY <1>3 DEF ToastTypes
<1>4. CASE RequestStarts
  <2>1. LoadingOK'
    BY <1>4, NotifyNumbers DEF RequestStarts, LoadingOK
  <2>2. QED
    BY <1>3, <1>4, <2>1 DEF RequestStarts, NotifyInv
<1>5. CASE RequestEnds
  <2>1. Decremented = inFlight - 1 /\ inFlight - 1 \in 0 .. MaxRequests
    BY <1>5, NotifyNumbers DEF RequestEnds, Decremented, LoadingOK
  <2>2. inFlight' = inFlight - 1 /\ loadingCount' = inFlight - 1 /\ overlay' = overlay
        /\ isLoading' = (IF inFlight - 1 = 0 THEN FALSE ELSE isLoading) /\ inFlight > 0
    BY <1>5, <2>1 DEF RequestEnds
  <2>3. isLoading' \in BOOLEAN /\ (isLoading' <=> inFlight' > 0)
    <3>1. CASE inFlight - 1 = 0
      BY <2>1, <2>2, <3>1
    <3>2. CASE inFlight - 1 # 0
      BY <2>1, <2>2, <3>2 DEF LoadingOK
    <3>3. QED
      BY <3>1, <3>2
  <2>4. LoadingOK'
    BY <2>1, <2>2, <2>3 DEF LoadingOK
  <2>5. QED
    BY <1>3, <1>5, <2>4 DEF RequestEnds, NotifyInv
<1>6. CASE LoadingEffect
  <2>1. LoadingOK'
    BY <1>6 DEF LoadingEffect, LoadingOK, requestVars
  <2>2. QED
    BY <1>3, <1>6, <2>1 DEF LoadingEffect, NotifyInv
<1>7. CASE UNCHANGED notifyVars
  BY <1>1, <1>3, <1>7 DEF notifyVars, requestVars
<1>8. QED
  BY <1>2, <1>4, <1>5, <1>6, <1>7 DEF NotifyNext

LEMMA NotifyInvariant == NotifySpec => []NotifyInv
BY NotifyInitial, NotifyStep, PTL DEF NotifySpec

\* The loading bar is on exactly while a request is under way, however requests overlap.
THEOREM LoadingHonest == NotifySpec => []LoadingWhileInFlight
<1>1. NotifyInv => LoadingWhileInFlight
  BY DEF NotifyInv, LoadingOK, LoadingWhileInFlight
<1>2. QED
  BY <1>1, NotifyInvariant, PTL

---------------------------------------------------------------------------
(* The log *)

LogStream == StreamType(LogLine, Requests)
Displayed == {ParseLogLine(l) : l \in LogLine}
Panel == [overlay : {"none", "shown", "disposed"}, timers : 0 .. 2]

LogTypes ==
  /\ logPanel \in Panel
  /\ logStreams \in Seq(LogStream) /\ Len(logStreams) <= MaxOpens
  /\ stream \in 0 .. Len(logStreams)
  /\ lines \in Seq(Displayed) /\ Len(lines) <= maxLines
  /\ written \in 0 .. MaxWritten /\ logBreaks \in 0 .. MaxLogBreaks

\* Every stream but the one the drawer holds has ended.
LogOthersEnded == \A s \in DOMAIN logStreams : s # stream => Ended(logStreams[s])

\* Lines are numbered as they are written: those on the way are newer than those displayed,
\* the later the newer, and none is newer than the last one written.
Rising(w) == \A i, j \in DOMAIN w : i < j => w[i].n < w[j].n
NoneAfter(w, k) == \A i \in DOMAIN w : w[i].n <= k
Newer(w, ls) == \A i \in DOMAIN w : \A j \in DOMAIN ls : ls[j].n < w[i].n
LogOrder ==
  /\ LinesInOrder /\ NoneAfter(lines, written)
  /\ \A s \in DOMAIN logStreams : /\ Rising(logStreams[s].wire)
                                  /\ NoneAfter(logStreams[s].wire, written)
                                  /\ Newer(logStreams[s].wire, lines)

LogInv == LogTypes /\ LogOthersEnded /\ LogOrder

LEMMA LogNumbers ==
  /\ MaxOpens \in Nat /\ MaxWritten \in Nat /\ MaxLogBreaks \in Nat
  /\ maxLines \in Nat \ {0}
BY LogBounds DEF LogBounds

LEMMA QuietWire ==
  ASSUME NEW s, Quiet(s), NEW k, NEW ls
  PROVE  Rising(s.wire) /\ NoneAfter(s.wire, k) /\ Newer(s.wire, ls)
<1>1. s.wire = <<>> /\ DOMAIN <<>> = {}
  BY DEF Quiet
<1>2. DOMAIN s.wire = {}
  BY <1>1
<1>3. QED
  BY <1>2 DEF Rising, NoneAfter, Newer

LEMMA ParsedNumber == \A l : ParseLogLine(l).n = l.n
BY DEF ParseLogLine

LEMMA LineNumbers ==
  /\ \A l \in LogLine : l.n \in Nat
  /\ \A d \in Displayed : d.n \in Nat
<1>1. \A l \in LogLine : l.n \in Nat
  BY LogNumbers DEF LogLine
<1>2. QED
  BY <1>1, ParsedNumber DEF Displayed

LEMMA LogInitial == LogInit => LogInv
<1> SUFFICES ASSUME LogInit PROVE LogInv
  OBVIOUS
<1>1. logStreams = <<>> /\ lines = <<>> /\ stream = 0 /\ written = 0 /\ logBreaks = 0
      /\ logPanel = [overlay |-> "none", timers |-> 0]
  BY DEF LogInit, NewDrawer
<1>2. <<>> \in Seq(LogStream) /\ <<>> \in Seq(Displayed) /\ Len(<<>>) = 0 /\ DOMAIN <<>> = {}
  BY EmptySeq
<1>3. LogTypes
  BY <1>1, <1>2, LogNumbers DEF LogTypes, Panel
<1>4. LogOthersEnded /\ LogOrder
  BY <1>1, <1>2 DEF LogOthersEnded, LogOrder, LinesInOrder, NoneAfter
<1>5. QED
  BY <1>3, <1>4 DEF LogInv

\* The drawer is opened: the stream it held ends, a new one takes its place.
LEMMA LogOpens == ASSUME LogInv, Open PROVE LogInv'
<1> LogTypes /\ LogOthersEnded /\ LogOrder
  BY DEF LogInv
<1> DEFINE old == Cleanup(logStreams, stream)
           new == Sent(Subscribed(NewStream), "{}")
           n == Len(logStreams)
<1>1. n \in Nat /\ DOMAIN logStreams = 1 .. n /\ logStreams \in Seq(LogStream)
      /\ \A s \in 1 .. n : logStreams[s] \in LogStream
  BY LenProperties DEF LogTypes
<1>2. old = Released(logStreams, stream)
  BY DEF Cleanup, Released
<1>3. old \in Seq(LogStream) /\ Len(old) = n /\ DOMAIN old = 1 .. n
      /\ \A s \in 1 .. n : Ended(old[s])
  <2>1. /\ logStreams \in Seq(StreamType(LogLine, Requests)) /\ stream \in 0 .. Len(logStreams)
        /\ \A s \in DOMAIN logStreams : s # stream => Ended(logStreams[s])
    BY DEF LogStream, LogTypes, LogOthersEnded
  <2> HIDE DEF old
  <2>2. QED
    BY <1>2, <2>1, HeldStreamEnds DEF LogStream
<1>4. new \in LogStream /\ Quiet(new)
  <2>1. "{}" \in Requests
    BY DEF Requests
  <2>2. \A m \in Requests : /\ Sent(Subscribed(NewStream), m) \in LogStream
                            /\ Quiet(Sent(Subscribed(NewStream), m))
    BY NewSubscription DEF LogStream
  <2>3. QED
    BY <2>1, <2>2
<1>5. /\ logStreams' = Append(old, new) /\ lines' = <<>> /\ stream' = n + 1
      /\ logPanel' = OpenedDrawer(logPanel) /\ n < MaxOpens /\ UNCHANGED <<written, logBreaks>>
  BY DEF Open
<1> HIDE DEF old, new
<1>6. /\ logStreams' \in Seq(LogStream) /\ Len(logStreams') = n + 1
      /\ logStreams'[n + 1] = new /\ \A s \in 1 .. n : logStreams'[s] = old[s]
  BY <1>3, <1>4, <1>5, AppendProperties
<1>7. DOMAIN logStreams' = 1 .. (n + 1)
  BY <1>6, LenProperties
<1>8. \A s \in 1 .. (n + 1) : s = n + 1 \/ s \in 1 .. n
  BY <1>1
<1>9. OpenedDrawer(logPanel) \in Panel
  BY DEF OpenedDrawer, Panel, LogTypes
<1>10. <<>> \in Seq(Displayed) /\ Len(<<>>) = 0 /\ DOMAIN <<>> = {}
  BY EmptySeq
<1>11. LogTypes'
  BY <1>1, <1>5, <1>6, <1>9, <1>10, LogNumbers DEF LogTypes
<1>12. LogOthersEnded'
  BY <1>3, <1>5, <1>6, <1>7, <1>8 DEF LogOthersEnded
<1>13. LogOrder'
  <2>1. \A s \in DOMAIN logStreams' : Quiet(logStreams'[s])
    BY <1>3, <1>4, <1>6, <1>7, <1>8 DEF Ended
  <2>2. LinesInOrder' /\ NoneAfter(lines, written)'
    BY <1>5, <1>10 DEF LinesInOrder, NoneAfter
  <2>3. QED
    BY <2>1, <2>2, QuietWire DEF LogOrder
<1>14. QED
  BY <1>11, <1>12, <1>13 DEF LogInv

\* One stream changes, and not what is displayed or written: an ended one stays as it was, and
\* what comes by another came by it before.
LEMMA LogStreamStep ==
  ASSUME LogInv, NEW s \in DOMAIN logStreams, NEW t \in LogStream,
         logStreams' = [logStreams EXCEPT ![s] = t], s # stream => Ended(t),
         Quiet(t) \/ t.wire = logStreams[s].wire,
         UNCHANGED <<logPanel, stream, lines, written>>, logBreaks' \in 0 .. MaxLogBreaks
  PROVE  LogInv'
<1> LogTypes /\ LogOthersEnded /\ LogOrder
  BY DEF LogInv
<1>1. /\ logStreams' \in Seq(LogStream) /\ Len(logStreams') = Len(logStreams)
      /\ DOMAIN logStreams' = DOMAIN logStreams
      /\ \A x \in DOMAIN logStreams : logStreams'[x] = IF x = s THEN t ELSE logStreams[x]
  BY OneStreamChanged DEF LogTypes
<1>2. LogTypes'
  BY <1>1 DEF LogTypes
<1>3. LogOthersEnded'
  BY <1>1 DEF LogOthersEnded
<1>4. ASSUME NEW x \in DOMAIN logStreams
      PROVE  /\ Rising(logStreams'[x].wire) /\ NoneAfter(logStreams'[x].wire, written)
             /\ Newer(logStreams'[x].wire, lines)
  <2>1. CASE x = s /\ Quiet(t)
    BY <1>1, <2>1, QuietWire
  <2>2. CASE x # s \/ t.wire = logStreams[s].wire
    <3>1. logStreams'[x].wire = logStreams[x].wire
      BY <1>1, <2>2
    <3>2. QED
      BY <3>1 DEF LogOrder
  <2>3. QED
    BY <2>1, <2>2
<1>5. LogOrder'
  <2>1. LinesInOrder' /\ NoneAfter(lines, written)'
    BY DEF LogOrder, LinesInOrder, NoneAfter
  <2>2. QED
    BY <1>1, <1>4, <2>1 DEF LogOrder
<1>6. QED
  BY <1>2, <1>3, <1>5 DEF LogInv

\* A line is displayed: the oldest on its way, newer than all that are displayed.
LEMMA LineShown ==
  ASSUME LogInv, NEW s \in DOMAIN logStreams, ShowLine(s)
  PROVE  LogInv' /\ s = stream /\ lines' # <<>>
<1> LogTypes /\ LogOthersEnded /\ LogOrder
  BY DEF LogInv
<1> DEFINE w == logStreams[s].wire
           t == [logStreams[s] EXCEPT !.wire = Tail(w)]
           p == ParseLogLine(Head(w))
           all == <<p>> \o lines
           m == IF Len(all) < maxLines THEN Len(all) ELSE maxLines
<1>1. /\ w # <<>> /\ logStreams' = [logStreams EXCEPT ![s] = t]
      /\ lines' = SubSeq(all, 1, m) /\ UNCHANGED <<logPanel, stream, written, logBreaks>>
  BY DEF ShowLine
<1>2. logStreams[s] \in LogStream
  BY LenProperties DEF LogTypes
<1>3. /\ w \in Seq(LogLine)
      /\ \A x \in Seq(LogLine) : [logStreams[s] EXCEPT !.wire = x] \in LogStream
      /\ \A x : [logStreams[s] EXCEPT !.wire = x].wire = x
  BY <1>2, StreamFields DEF LogStream
<1>4. s = stream
  BY <1>1 DEF LogOthersEnded, Ended, Quiet
<1> HIDE DEF w
<1>5. /\ Len(w) \in Nat /\ DOMAIN w = 1 .. Len(w) /\ 1 \in 1 .. Len(w)
      /\ \A i \in 1 .. Len(w) : w[i] \in LogLine
  BY <1>1, <1>3, LenProperties, EmptySeq
<1>6. Head(w) = w[1] /\ w[1] \in LogLine
  BY <1>1, <1>3, <1>5
<1> DEFINE v == Tail(w)
<1>7. /\ v \in Seq(LogLine) /\ DOMAIN v = 1 .. (Len(w) - 1)
      /\ \A i \in 1 .. (Len(w) - 1) : v[i] = w[i + 1]
  BY <1>1, <1>3, <1>5, HeadTailProperties, LenProperties
<1>8. t \in LogStream /\ t.wire = v
  BY <1>3, <1>7
<1> HIDE DEF t, v
<1>9. /\ logStreams' \in Seq(LogStream) /\ Len(logStreams') = Len(logStreams)
      /\ DOMAIN logStreams' = DOMAIN logStreams
      /\ \A x \in DOMAIN logStreams : logStreams'[x] = IF x = s THEN t ELSE logStreams[x]
  BY <1>1, <1>8, OneStreamChanged DEF LogTypes
\* The lines displayed now.
<1>10. p \in Displayed /\ p.n = w[1].n /\ p.n \in Nat
  BY <1>6, ParsedNumber, LineNumbers DEF Displayed
<1> HIDE DEF p
<1>11. /\ lines \in Seq(Displayed) /\ Len(lines) \in Nat /\ DOMAIN lines = 1 .. Len(lines)
       /\ \A i \in 1 .. Len(lines) : lines[i] \in Displayed /\ lines[i].n \in Nat
  BY LenProperties, LineNumbers DEF LogTypes
<1>12. /\ all \in Seq(Displayed) /\ Len(all) = Len(lines) + 1 /\ all[1] = p
       /\ \A i \in 2 .. (Len(lines) + 1) : all[i] = lines[i - 1]
  <2>1. <<p>> \in Seq(Displayed) /\ Len(<<p>>) = 1 /\ <<p>>[1] = p
    BY <1>10
  <2>2. /\ all \in Seq(Displayed) /\ Len(all) = 1 + Len(lines)
        /\ \A i \in 1 .. (1 + Len(lines)) : all[i] = IF i <= 1 THEN <<p>>[i] ELSE lines[i - 1]
    BY <1>11, <2>1, ConcatProperties
  <2>3. QED
    BY <1>11, <2>1, <2>2
<1> HIDE DEF all
<1>13. m \in Nat /\ m <= maxLines /\ m <= Len(lines) + 1 /\ m >= 1
  BY <1>11, <1>12, LogNumbers
<1> HIDE DEF m
<1>14. \A i \in 1 .. m : all[i] \in Displayed
  BY <1>11, <1>12, <1>13, LenProperties
<1>15. /\ lines' \in Seq(Displayed) /\ Len(lines') = m /\ DOMAIN lines' = 1 .. m
       /\ \A i \in 1 .. m : lines'[i] = all[i]
  <2>1. /\ lines' \in Seq(Displayed) /\ Len(lines') = m
        /\ \A i \in 1 .. m : lines'[i] = all[1 + i - 1]
    BY <1>1, <1>13, <1>14, SubSeqProperties
  <2>2. \A i \in 1 .. m : 1 + i - 1 = i
    BY <1>13
  <2>3. QED
    BY <2>1, <2>2, LenProperties
<1>16. /\ lines'[1].n = w[1].n
       /\ \A i \in 2 .. m : i - 1 \in 1 .. Len(lines) /\ lines'[i].n = lines[i - 1].n
  BY <1>10, <1>11, <1>12, <1>13, <1>15
<1>17. /\ \A i, j \in 1 .. Len(w) : i < j => w[i].n < w[j].n
       /\ \A i \in 1 .. Len(w) : w[i].n <= written /\ w[i].n \in Nat
       /\ \A i \in 1 .. Len(w) : \A j \in 1 .. Len(lines) : lines[j].n < w[i].n
       /\ \A i \in 1 .. Len(lines) : lines[i].n <= written
       /\ \A i, j \in 1 .. Len(lines) : i < j => lines[i].n > lines[j].n
  BY <1>5, <1>11, LineNumbers DEF LogOrder, Rising, NoneAfter, Newer, LinesInOrder, w
<1>18. LinesInOrder'
  <2>1. ASSUME NEW i \in 1 .. m, NEW j \in 1 .. m, i < j PROVE lines'[i].n > lines'[j].n
    <3>1. j \in 2 .. m
      BY <1>13, <2>1
    <3>2. CASE i = 1
      BY <1>5, <1>11, <1>16, <1>17, <3>1, <3>2
    <3>3. CASE i # 1
      <4>1. i \in 2 .. m /\ i - 1 < j - 1
        BY <1>13, <2>1, <3>3
      <4>2. QED
        BY <1>16, <1>17, <3>1, <4>1
    <3>4. QED
      BY <3>2, <3>3
  <2>2. QED
    BY <1>15, <2>1 DEF LinesInOrder
<1>19. \A i \in 1 .. m : i = 1 \/ i \in 2 .. m
  BY <1>13
<1>20. NoneAfter(lines', written)
  BY <1>5, <1>15, <1>16, <1>17, <1>19 DEF NoneAfter
<1>21. \A i \in 1 .. (Len(w) - 1) : i + 1 \in 1 .. Len(w) /\ 1 < i + 1 /\ i \in Nat
  BY <1>5
<1>22. Rising(v) /\ NoneAfter(v, written)
  <2>1. \A i \in 1 .. (Len(w) - 1) : v[i].n <= written
    BY <1>7, <1>17, <1>21
  <2>2. ASSUME NEW i \in 1 .. (Len(w) - 1), NEW j \in 1 .. (Len(w) - 1), i < j
        PROVE  v[i].n < v[j].n
    <3>1. i + 1 \in 1 .. Len(w) /\ j + 1 \in 1 .. Len(w) /\ i + 1 < j + 1
      BY <1>21, <2>2
    <3>2. QED
      BY <1>7, <1>17, <3>1
  <2>3. QED
    BY <1>7, <2>1, <2>2 DEF Rising, NoneAfter
<1>23. Newer(v, lines')
  <2>1. ASSUME NEW i \in 1 .. (Len(w) - 1), NEW j \in 1 .. m PROVE lines'[j].n < v[i].n
    <3>1. CASE j = 1
      BY <1>5, <1>7, <1>16, <1>17, <1>21, <3>1
    <3>2. CASE j # 1
      BY <1>7, <1>16, <1>17, <1>19, <1>21, <3>2
    <3>3. QED
      BY <3>1, <3>2
  <2>2. QED
    BY <1>7, <1>15, <2>1 DEF Newer
<1>24. LogTypes'
  BY <1>1, <1>9, <1>13, <1>15 DEF LogTypes
<1>25. LogOthersEnded'
  BY <1>1, <1>4, <1>9 DEF LogOthersEnded
<1>26. ASSUME NEW x \in DOMAIN logStreams
       PROVE  /\ Rising(logStreams'[x].wire) /\ NoneAfter(logStreams'[x].wire, written)
              /\ Newer(logStreams'[x].wire, lines')
  <2>1. CASE x = s
    BY <1>8, <1>9, <1>22, <1>23, <2>1
  <2>2. CASE x # s
    <3>1. logStreams'[x] = logStreams[x] /\ Quiet(logStreams[x])
      BY <1>4, <1>9, <2>2 DEF LogOthersEnded, Ended
    <3>2. QED
      BY <3>1, QuietWire
  <2>3. QED
    BY <2>1, <2>2
<1>27. LogOrder'
  <2>1. NoneAfter(lines, written)'
    BY <1>1, <1>20 DEF NoneAfter
  <2>2. QED
    BY <1>1, <1>9, <1>18, <1>26, <2>1 DEF LogOrder
<1>28. lines' # <<>>
  BY <1>13, <1>15, EmptySeq
<1>29. QED
  BY <1>4, <1>24, <1>25, <1>27, <1>28 DEF LogInv

\* The server writes a line: it is sent on the stream the drawer holds, if at all.
LEMMA LineWritten == ASSUME LogInv, NEW level \in Levels, Write(level) PROVE LogInv'
<1> LogTypes /\ LogOthersEnded /\ LogOrder
  BY DEF LogInv
<1> DEFINE n == written + 1
           item == [n |-> n, level |-> level]
           t(s) == IF logStreams[s].request = Silent THEN logStreams[s]
                   ELSE [logStreams[s] EXCEPT !.wire = Append(@, item)]
<1>1. /\ n \in 1 .. MaxWritten /\ n \in 0 .. MaxWritten /\ written \in Nat
      /\ written' = n /\ UNCHANGED <<logPanel, stream, lines, logBreaks>>
  BY LogNumbers DEF Write, LogTypes
<1>2. logStreams' = [s \in DOMAIN logStreams |-> t(s)]
  BY <1>1 DEF Write
<1>3. item \in LogLine /\ item.n = n
  BY <1>1 DEF LogLine
<1> HIDE DEF item
<1>4. /\ DOMAIN logStreams = 1 .. Len(logStreams) /\ Len(logStreams) \in Nat
      /\ \A s \in DOMAIN logStreams : logStreams[s] \in LogStream
  BY LenProperties DEF LogTypes
<1>5. ASSUME NEW s \in DOMAIN logStreams
      PROVE  /\ t(s) \in LogStream
             /\ s # stream => t(s) = logStreams[s]
             /\ Rising(t(s).wire) /\ NoneAfter(t(s).wire, n) /\ Newer(t(s).wire, lines)
  <2> DEFINE w == logStreams[s].wire
  <2>1. /\ w \in Seq(LogLine) /\ \A v \in Seq(LogLine) : [logStreams[s] EXCEPT !.wire = v] \in LogStream
        /\ \A v : [logStreams[s] EXCEPT !.wire = v].wire = v
    BY <1>4, StreamFields DEF LogStream
  <2>2. Rising(w) /\ NoneAfter(w, written) /\ Newer(w, lines) /\ NoneAfter(lines, written)
    BY DEF LogOrder
  <2> HIDE DEF w
  <2>3. /\ Len(w) \in Nat /\ DOMAIN w = 1 .. Len(w)
        /\ \A i \in 1 .. Len(w) : w[i] \in LogLine /\ w[i].n \in Nat
    BY <2>1, LenProperties, LineNumbers
  <2>4. CASE logStreams[s].request = Silent
    <3>1. NoneAfter(w, n)
      BY <1>1, <2>2, <2>3 DEF NoneAfter
    <3>2. QED
      BY <1>4, <2>2, <2>4, <3>1 DEF w
  <2>5. CASE logStreams[s].request # Silent
    <3> DEFINE v == Append(w, item)
    <3>1. s = stream
      BY <2>5 DEF LogOthersEnded, Ended, Quiet
    <3>2. /\ v \in Seq(LogLine) /\ Len(v) = Len(w) + 1 /\ v[Len(w) + 1] = item
          /\ \A i \in 1 .. Len(w) : v[i] = w[i]
      BY <1>3, <2>1, AppendProperties
    <3>3. DOMAIN v = 1 .. (Len(w) + 1)
      BY <3>2, LenProperties
    <3>4. t(s) = [logStreams[s] EXCEPT !.wire = v]
      BY <2>5 DEF w
    <3> HIDE DEF v
    <3>5. t(s) \in LogStream /\ t(s).wire = v
      BY <2>1, <3>2, <3>4
    <3>6. \A i \in 1 .. (Len(w) + 1) : i = Len(w) + 1 \/ i \in 1 .. Len(w)
      BY <2>3
    <3>7. \A i \in 1 .. (Len(w) + 1) : v[i].n \in Nat /\ v[i].n <= n
      BY <1>1, <1>3, <2>2, <2>3, <3>2, <3>6 DEF NoneAfter
    <3>8. ASSUME NEW i \in 1 .. (Len(w) + 1), NEW j \in 1 .. (Len(w) + 1), i < j
          PROVE  v[i].n < v[j].n
      <4>1. i \in 1 .. Len(w)
        BY <2>3, <3>8
      <4>2. CASE j = Len(w) + 1
        BY <1>1, <1>3, <2>2, <2>3, <3>2, <4>1, <4>2 DEF NoneAfter
      <4>3. CASE j \in 1 .. Len(w)
        BY <2>2, <2>3, <3>2, <3>8, <4>1, <4>3 DEF Rising
      <4>4. QED
        BY <3>6, <4>2, <4>3
    <3>9. ASSUME NEW i \in 1 .. (Len(w) + 1), NEW j \in DOMAIN lines PROVE lines[j].n < v[i].n
      <4>1. lines[j].n \in Nat /\ lines[j].n <= written
        BY <2>2, LenProperties, LineNumbers DEF LogTypes, NoneAfter
      <4>2. CASE i = Len(w) + 1
        BY <1>1, <1>3, <3>2, <4>1, <4>2
      <4>3. CASE i \in 1 .. Len(w)
        BY <2>2, <2>3, <3>2, <4>3 DEF Newer
      <4>4. QED
        BY <3>6, <4>2, <4>3
    <3>10. Rising(v) /\ NoneAfter(v, n) /\ Newer(v, lines)
      BY <3>3, <3>7, <3>8, <3>9 DEF Rising, NoneAfter, Newer
    <3>11. QED
      BY <3>1, <3>5, <3>10
  <2>6. QED
    BY <2>4, <2>5
<1> HIDE DEF t
<1>6. DOMAIN logStreams' = DOMAIN logStreams /\ \A s \in DOMAIN logStreams : logStreams'[s] = t(s)
  BY <1>2
<1>7. logStreams' \in Seq(LogStream) /\ Len(logStreams') = Len(logStreams)
  <2>1. logStreams' \in [1 .. Len(logStreams) -> LogStream]
    BY <1>2, <1>4, <1>5
  <2>2. QED
    BY <1>4, <2>1
<1>8. LogTypes'
  BY <1>1, <1>7 DEF LogTypes
<1>9. LogOthersEnded'
  BY <1>1, <1>5, <1>6 DEF LogOthersEnded
<1>10. LogOrder'
  <2>1. NoneAfter(lines, written)'
    <3>1. \A i \in DOMAIN lines : lines[i].n \in Nat /\ lines[i].n <= written
      BY LenProperties, LineNumbers DEF LogTypes, LogOrder, NoneAfter
    <3>2. QED
      BY <1>1, <3>1 DEF NoneAfter
  <2>2. LinesInOrder'
    BY <1>1 DEF LogOrder, LinesInOrder
  <2>3. QED
    BY <1>1, <1>5, <1>6, <2>1, <2>2 DEF LogOrder
<1>11. QED
  BY <1>8, <1>9, <1>10 DEF LogInv

LEMMA LogStep == LogInv /\ [LogNext]_logVars => LogInv'
<1> SUFFICES ASSUME LogInv, [LogNext]_logVars PROVE LogInv'
  OBVIOUS
<1> LogTypes /\ LogOthersEnded /\ LogOrder
  BY DEF LogInv
<1>1. CASE Open
  BY <1>1, LogOpens
<1>2. ASSUME logPanel' \in Panel, UNCHANGED <<logStreams, stream, lines, written, logBreaks>>
      PROVE  LogInv'
  BY <1>2 DEF LogInv, LogTypes, LogOthersEnded, LogOrder, LinesInOrder, NoneAfter
<1>3. CASE Dismiss \/ PanelTimer \/ Navigate
  <2>1. logPanel.overlay \in {"none", "shown", "disposed"} /\ logPanel.timers \in 0 .. 2
        /\ logPanel \in Panel
    BY DEF LogTypes, Panel
  <2>2. logPanel.timers < 2 => ClosingDrawer(logPanel) \in Panel
    BY <2>1 DEF ClosingDrawer, Panel
  <2>3. logPanel.timers > 0 => TimerFired(logPanel) \in Panel
    BY <2>1 DEF TimerFired, Panel
  <2>4. NavigatedDrawer(logPanel) \in Panel
    BY <2>1 DEF NavigatedDrawer, Panel
  <2>5. logPanel' \in Panel /\ UNCHANGED <<logStreams, stream, lines, written, logBreaks>>
    BY <1>3, <2>2, <2>3, <2>4 DEF Dismiss, InReach, MaxSlides, PanelTimer, Navigate
  <2>6. QED
    BY <1>2, <2>5
<1>4. ASSUME NEW s \in DOMAIN logStreams,
             ShowLine(s) \/ LogConnect(s) \/ LogBreak(s) \/ LogReconnect(s)
      PROVE  LogInv'
  <2>1. logStreams[s] \in LogStream /\ logBreaks \in 0 .. MaxLogBreaks
    BY LenProperties DEF LogTypes
  <2>2. Alive(logStreams[s]) => s = stream
    BY DEF LogOthersEnded, Ended
  <2>3. CASE ShowLine(s)
    BY <2>3, LineShown
  <2>4. CASE LogConnect(s)
    <3> DEFINE t == Opened(logStreams[s], <<>>)
    <3>1. \A g \in Seq(Requests) : /\ Opened(logStreams[s], g) \in LogStream
                                   /\ Opened(logStreams[s], g).wire = logStreams[s].wire
      BY <2>1, Opening DEF LogStream
    <3>2. t \in LogStream /\ t.wire = logStreams[s].wire
      BY <3>1, EmptySeq
    <3>3. s = stream
      BY <2>2, <2>4 DEF LogConnect, Alive
    <3>4. logStreams' = [logStreams EXCEPT ![s] = t]
          /\ UNCHANGED <<logPanel, stream, lines, written, logBreaks>>
      BY <2>4 DEF LogConnect
    <3> HIDE DEF t
    <3>5. QED
      BY <2>1, <3>2, <3>3, <3>4, LogStreamStep
  <2>5. CASE LogBreak(s)
    <3> DEFINE t == Dropped(logStreams[s])
    <3>1. t \in LogStream /\ Quiet(t)
      BY <2>1, Dropping DEF LogStream
    <3>2. s = stream
      BY <2>2, <2>5 DEF LogBreak, HasSocket, Alive
    <3>3. logStreams' = [logStreams EXCEPT ![s] = t] /\ UNCHANGED <<logPanel, stream, lines, written>>
          /\ logBreaks' = logBreaks + 1 /\ logBreaks < MaxLogBreaks
      BY <2>5 DEF LogBreak
    <3> HIDE DEF t
    <3>4. logBreaks' \in 0 .. MaxLogBreaks
      BY <2>1, <3>3, LogNumbers
    <3>5. QED
      BY <3>1, <3>2, <3>3, <3>4, LogStreamStep
  <2>6. CASE LogReconnect(s)
    <3> DEFINE t == Reconnecting(logStreams[s])
    <3>1. t \in LogStream /\ t.wire = logStreams[s].wire
      BY <2>1, Reconnection DEF LogStream
    <3>2. s = stream
      BY <2>2, <2>6 DEF LogReconnect, Alive
    <3>3. logStreams' = [logStreams EXCEPT ![s] = t]
          /\ UNCHANGED <<logPanel, stream, lines, written, logBreaks>>
      BY <2>6 DEF LogReconnect
    <3> HIDE DEF t
    <3>4. QED
      BY <2>1, <3>1, <3>2, <3>3, LogStreamStep
  <2>7. QED
    BY <1>4, <2>3, <2>4, <2>5, <2>6
<1>5. ASSUME NEW level \in Levels, Write(level) PROVE LogInv'
  BY <1>5, LineWritten
<1>6. CASE UNCHANGED logVars
  <2>1. UNCHANGED <<logPanel, logStreams, stream, lines, written, logBreaks>>
    BY <1>6 DEF logVars
  <2>2. QED
    BY <1>2, <2>1 DEF LogTypes
<1>7. QED
  BY <1>1, <1>3, <1>4, <1>5, <1>6 DEF LogNext

LEMMA LogInvariant == LogSpec => []LogInv
BY LogInitial, LogStep, PTL DEF LogSpec

\* However often the drawer is opened, and at whatever moment of a connection, one log stream
\* runs at most, the one it holds.
THEOREM OneLog == LogSpec => []OneLogStream
<1>1. LogInv => OneLogStream
  BY DEF LogInv, LogOthersEnded, Ended, OneLogStream
<1>2. QED
  BY <1>1, LogInvariant, PTL

\* The lines displayed are in the order they were written, newest first and none twice, for any
\* cut of the list and any breaks of the connection.
THEOREM LinesOrdered == LogSpec => []LinesInOrder
<1>1. LogInv => LinesInOrder
  BY DEF LogInv, LogOrder
<1>2. QED
  BY <1>1, LogInvariant, PTL

---------------------------------------------------------------------------
(* LogDrawer implements StreamPromise.  The stream the drawer holds is never one that has    *)
(* ended, so that it is the one that runs.                                                   *)

LogHeld == stream # 0 => Alive(logStreams[stream])

\* One step as StreamPromise sees it.
LogRefines == LogHeld' /\ [LogPromise!Next]_(LogPromise!vars)

LogRunning == {s \in DOMAIN logStreams : Alive(logStreams[s])}

LEMMA LogRunningIsHeld ==
  /\ LogInv /\ LogHeld => LogRunning = {stream} \ {0}
  /\ LogInv' /\ LogHeld' => LogRunning' = {stream'} \ {0}
<1>1. LogInv => /\ stream \in 0 .. Len(logStreams) /\ DOMAIN logStreams = 1 .. Len(logStreams)
                /\ Len(logStreams) \in Nat
                /\ \A s \in DOMAIN logStreams : s # stream => ~Alive(logStreams[s])
  BY LenProperties DEF LogInv, LogTypes, LogOthersEnded, Ended
<1>2. ASSUME LogInv, LogHeld PROVE LogRunning = {stream} \ {0}
  <2>1. \A s : s \in LogRunning <=> s = stream /\ s # 0
    BY <1>1, <1>2 DEF LogRunning, LogHeld
  <2>2. QED
    BY <2>1
<1>3. LogInv' => /\ stream' \in 0 .. Len(logStreams') /\ DOMAIN logStreams' = 1 .. Len(logStreams')
                 /\ Len(logStreams') \in Nat
                 /\ \A s \in DOMAIN logStreams' : s # stream' => ~Alive(logStreams'[s])
  BY LenProperties DEF LogInv, LogTypes, LogOthersEnded, Ended
<1>4. ASSUME LogInv', LogHeld' PROVE LogRunning' = {stream'} \ {0}
  <2>1. \A s : s \in LogRunning' <=> s = stream' /\ s # 0
    BY <1>3, <1>4 DEF LogRunning, LogHeld
  <2>2. QED
    BY <2>1
<1>5. QED
  BY <1>2, <1>4

\* A step on the streams there are, which keeps the one held alive.
LEMMA LogQuietStep ==
  ASSUME LogInv, LogInv', LogHeld, LogHeld', stream' = stream, lines' = lines,
         Len(logStreams') = Len(logStreams)
  PROVE  LogRefines
<1>1. LogRunning' = LogRunning
  BY LogRunningIsHeld
<1>2. UNCHANGED LogPromise!vars
  BY <1>1 DEF LogRunning, LogPromise!vars
<1>3. QED
  BY <1>2 DEF LogRefines

LEMMA LogPromiseStep == LogInv /\ LogInv' /\ LogHeld /\ [LogNext]_logVars => LogRefines
<1> SUFFICES ASSUME LogInv, LogInv', LogHeld, [LogNext]_logVars PROVE LogRefines
  OBVIOUS
<1>0. /\ logStreams \in Seq(LogStream) /\ stream \in 0 .. Len(logStreams)
      /\ Len(logStreams) \in Nat /\ DOMAIN logStreams = 1 .. Len(logStreams)
      /\ \A s \in DOMAIN logStreams : logStreams[s] \in LogStream
  BY LenProperties DEF LogInv, LogTypes
<1>1. CASE Open
  <2> DEFINE old == Cleanup(logStreams, stream)
             new == Sent(Subscribed(NewStream), "{}")
             n == Len(logStreams)
  <2>1. /\ logStreams' = Append(old, new) /\ stream' = n + 1 /\ lines' = <<>>
    BY <1>1 DEF Open
  <2>2. old \in Seq(LogStream) /\ Len(old) = n
    <3>1. old = Released(logStreams, stream)
      BY DEF Cleanup, Released
    <3>2. \A s \in DOMAIN logStreams : s # stream => Ended(logStreams[s])
      BY DEF LogInv, LogOthersEnded
    <3>3. Released(logStreams, stream) \in Seq(LogStream) /\ Len(Released(logStreams, stream)) = n
      BY <1>0, <3>2, HeldStreamEnds DEF LogStream
    <3>4. QED
      BY <3>1, <3>3
  <2>3. new.phase = "connecting" /\ new \in LogStream
    <3>1. "{}" \in Requests
      BY DEF Requests
    <3>2. \A m \in Requests : /\ Sent(Subscribed(NewStream), m).phase = "connecting"
                              /\ Sent(Subscribed(NewStream), m) \in LogStream
      BY NewSubscription DEF LogStream
    <3>3. QED
      BY <3>1, <3>2
  <2> HIDE DEF old, new
  <2>4. Len(logStreams') = n + 1 /\ logStreams'[n + 1] = new
    BY <2>1, <2>2, <2>3, AppendProperties
  <2>5. LogHeld'
    BY <2>1, <2>3, <2>4 DEF LogHeld, Alive
  <2>6. LogRunning' = {n + 1}
    BY <1>0, <2>1, <2>5, LogRunningIsHeld
  <2>7. LogPromise!Begin
    BY <2>1, <2>4, <2>6 DEF LogPromise!Begin, LogRunning
  <2>8. QED
    BY <2>5, <2>7 DEF LogRefines, LogPromise!Next
<1>2. ASSUME UNCHANGED <<logStreams, stream, lines>> PROVE LogRefines
  <2>1. LogHeld'
    BY <1>2 DEF LogHeld
  <2>2. QED
    BY <1>2, <2>1, LogQuietStep
<1>3. ASSUME NEW s \in DOMAIN logStreams, NEW t, logStreams' = [logStreams EXCEPT ![s] = t],
             Alive(t) \/ t.phase = logStreams[s].phase, stream' = stream
      PROVE  LogHeld' /\ Len(logStreams') = Len(logStreams)
  <2>1. LogHeld'
    BY <1>0, <1>3 DEF LogHeld, Alive
  <2>2. DOMAIN logStreams' = DOMAIN logStreams
    BY <1>3
  <2>3. Len(logStreams') \in Nat /\ DOMAIN logStreams' = 1 .. Len(logStreams')
    BY LenProperties DEF LogInv, LogTypes
  <2>4. Len(logStreams') = Len(logStreams)
    BY <1>0, <2>2, <2>3
  <2>5. QED
    BY <2>1, <2>4
<1>4. ASSUME NEW s \in DOMAIN logStreams, ShowLine(s) PROVE LogRefines
  <2> DEFINE t == [logStreams[s] EXCEPT !.wire = Tail(logStreams[s].wire)]
  <2>1. logStreams' = [logStreams EXCEPT ![s] = t] /\ stream' = stream
    BY <1>4 DEF ShowLine
  <2>2. t.phase = logStreams[s].phase
    BY <1>0 DEF LogStream, StreamType
  <2> HIDE DEF t
  <2>3. LogHeld' /\ Len(logStreams') = Len(logStreams)
    BY <1>3, <2>1, <2>2
  <2>4. s = stream /\ lines' # <<>>
    BY <1>4, LineShown
  <2>5. LogRunning' = LogRunning /\ LogRunning # {}
    <3>1. LogRunning = {stream} \ {0} /\ LogRunning' = {stream} \ {0} /\ stream # 0
      BY <1>0, <2>1, <2>3, <2>4, LogRunningIsHeld
    <3>2. QED
      BY <3>1
  <2>6. LogPromise!Show
    BY <2>3, <2>4, <2>5 DEF LogPromise!Show, LogRunning
  <2>7. QED
    BY <2>3, <2>6 DEF LogRefines, LogPromise!Next
<1>5. ASSUME NEW s \in DOMAIN logStreams, LogConnect(s) \/ LogBreak(s) \/ LogReconnect(s)
      PROVE  LogRefines
  <2>1. /\ Opened(logStreams[s], <<>>).phase = "open" /\ Dropped(logStreams[s]).phase = "waiting"
        /\ Reconnecting(logStreams[s]).phase = "connecting"
    BY <1>0 DEF LogStream, StreamType, Opened, Dropped, Disconnected, Reconnecting
  <2>2. PICK t : logStreams' = [logStreams EXCEPT ![s] = t] /\ Alive(t)
    BY <1>5, <2>1 DEF LogConnect, LogBreak, LogReconnect, Alive
  <2>3. stream' = stream /\ lines' = lines
    BY <1>5 DEF LogConnect, LogBreak, LogReconnect
  <2>4. LogHeld' /\ Len(logStreams') = Len(logStreams)
    BY <1>3, <2>2, <2>3
  <2>5. QED
    BY <2>3, <2>4, LogQuietStep
<1>6. ASSUME NEW level \in Levels, Write(level) PROVE LogRefines
  <2>1. stream' = stream /\ lines' = lines
    BY <1>6 DEF Write
  <2>2. /\ DOMAIN logStreams' = DOMAIN logStreams
        /\ \A s \in DOMAIN logStreams : logStreams'[s].phase = logStreams[s].phase
    <3>1. logStreams' = [s \in DOMAIN logStreams |->
                           IF logStreams[s].request = Silent THEN logStreams[s]
                           ELSE [logStreams[s] EXCEPT
                                   !.wire = Append(@, [n |-> written', level |-> level])]]
      BY <1>6 DEF Write
    <3>2. QED
      BY <1>0, <3>1 DEF LogStream, StreamType
  <2>3. Len(logStreams') = Len(logStreams)
    <3>1. Len(logStreams') \in Nat /\ DOMAIN logStreams' = 1 .. Len(logStreams')
      BY LenProperties DEF LogInv, LogTypes
    <3>2. QED
      BY <1>0, <2>2, <3>1
  <2>4. LogHeld'
    BY <1>0, <2>1, <2>2 DEF LogHeld, Alive
  <2>5. QED
    BY <2>1, <2>3, <2>4, LogQuietStep
<1>7. CASE UNCHANGED logVars
  BY <1>2, <1>7 DEF logVars
<1>8. QED
  BY <1>1, <1>2, <1>4, <1>5, <1>6, <1>7 DEF LogNext, Dismiss, PanelTimer, Navigate

LEMMA LogPromiseInit == LogInit => LogHeld /\ LogPromise!Init
<1> SUFFICES ASSUME LogInit PROVE LogHeld /\ LogPromise!Init
  OBVIOUS
<1>1. logStreams = <<>> /\ lines = <<>> /\ stream = 0
  BY DEF LogInit
<1>2. Len(<<>>) = 0 /\ DOMAIN <<>> = {}
  BY EmptySeq
<1>3. QED
  BY <1>1, <1>2 DEF LogHeld, LogPromise!Init

\* To whoever reads the log, whatever happens to connections and to the drawer is a step of
\* StreamPromise or invisible: a line comes by the newest stream only, a stream that was left
\* never runs or adds a line again, and only opening the drawer empties the list.
THEOREM LogKeepsPromise == LogSpec => LogPromiseKept
<1>1. LogInv /\ LogInv' /\ LogHeld /\ [LogNext]_logVars
        => LogHeld' /\ [LogPromise!Next]_(LogPromise!vars)
  BY LogPromiseStep DEF LogRefines
<1>2. QED
  BY <1>1, LogPromiseInit, LogInvariant, PTL DEF LogSpec, LogPromiseKept, LogPromise!Spec

---------------------------------------------------------------------------
(* The resolution of a record *)

PageRequests == {"record"}
PageStream == StreamType(STRING, PageRequests)
Row == [server : STRING, by : Nat]

OverviewTypes ==
  /\ dbRecord \in Purposes \union {"gone"} /\ record \in Purposes \union {"none"}
  /\ alive \in BOOLEAN /\ loadingRecord \in BOOLEAN
  /\ resolveStreams \in Seq(PageStream)
  /\ resolveStream \in 0 .. Len(resolveStreams)
  /\ resolveResults \in Seq(Row)
  /\ \A i \in DOMAIN resolveResults : resolveResults[i].by \in DOMAIN resolveStreams
  /\ asked \in [1 .. MaxLoads -> 0 .. Len(Servers)]
  /\ made \in 0 .. MaxLoads /\ ovBreaks \in 0 .. MaxOvBreaks

\* Every stream but the one the page holds has ended.
PageOthersEnded == \A s \in DOMAIN resolveStreams : s # resolveStream => Ended(resolveStreams[s])

\* No server has two rows; the rows on the page came by the stream it holds.
RowsOK ==
  /\ \A i, j \in DOMAIN resolveResults :
       resolveResults[i].server = resolveResults[j].server => i = j
  /\ alive => \A i \in DOMAIN resolveResults : resolveResults[i].by = resolveStream

\* Every stream was made for the answer to a call.
CallsOK == IsFiniteSet(loads) /\ Cardinality(loads) + Len(resolveStreams) <= made

OverviewInv == OverviewTypes /\ PageOthersEnded /\ RowsOK /\ CallsOK

LEMMA OverviewNumbers ==
  /\ MaxLoads \in Nat \ {0} /\ MaxOvBreaks \in Nat
  /\ Servers \in Seq(STRING) /\ Len(Servers) \in Nat \ {0} /\ DOMAIN Servers = 1 .. Len(Servers)
  /\ \A k \in 1 .. Len(Servers) : Servers[k] \in STRING
<1>1. MaxLoads \in Nat \ {0} /\ MaxOvBreaks \in Nat /\ Servers \in Seq(STRING) /\ Servers # <<>>
  BY OverviewBounds DEF OverviewBounds
<1>2. QED
  BY <1>1, LenProperties, EmptySeq

LEMMA OverviewInitial == OverviewInit => OverviewInv
<1> SUFFICES ASSUME OverviewInit PROVE OverviewInv
  OBVIOUS
<1>1. <<>> \in Seq(PageStream) /\ <<>> \in Seq(Row) /\ Len(<<>>) = 0 /\ DOMAIN <<>> = {}
  BY EmptySeq
<1>2. asked \in [1 .. MaxLoads -> 0 .. Len(Servers)]
  BY OverviewNumbers DEF OverviewInit
<1>3. made \in 0 .. MaxLoads /\ ovBreaks \in 0 .. MaxOvBreaks
  BY OverviewNumbers DEF OverviewInit
<1>4. OverviewTypes
  BY <1>1, <1>2, <1>3 DEF OverviewInit, OverviewTypes
<1>5. PageOthersEnded /\ RowsOK
  BY <1>1 DEF OverviewInit, PageOthersEnded, RowsOK
<1>6. CallsOK
  <2>1. IsFiniteSet(loads) /\ Cardinality(loads) = 1
    BY FS_Singleton DEF OverviewInit
  <2>2. made = 1 /\ Len(resolveStreams) = 0
    BY <1>1 DEF OverviewInit
  <2>3. QED
    BY <2>1, <2>2 DEF CallsOK
<1>7. QED
  BY <1>4, <1>5, <1>6 DEF OverviewInv

\* A call that is answered, and one that is made.
LEMMA CallCount ==
  ASSUME OverviewInv
  PROVE  /\ Cardinality(loads) \in Nat /\ Len(resolveStreams) \in Nat /\ made \in Nat
         /\ Cardinality(loads) + Len(resolveStreams) <= made /\ IsFiniteSet(loads)
         /\ \A c \in loads : /\ IsFiniteSet(loads \ {c})
                             /\ Cardinality(loads \ {c}) = Cardinality(loads) - 1
         /\ \A c \in loads : \A d : /\ IsFiniteSet((loads \ {c}) \union {d})
                                    /\ Cardinality((loads \ {c}) \union {d}) <= Cardinality(loads)
                                    /\ Cardinality((loads \ {c}) \union {d}) \in Nat
         /\ \A d : /\ IsFiniteSet(loads \union {d}) /\ Cardinality(loads \union {d}) \in Nat
                  /\ Cardinality(loads \union {d}) <= Cardinality(loads) + 1
<1>1. /\ IsFiniteSet(loads) /\ Cardinality(loads) + Len(resolveStreams) <= made
      /\ resolveStreams \in Seq(PageStream) /\ made \in 0 .. MaxLoads
  BY DEF OverviewInv, OverviewTypes, CallsOK
<1>2. Cardinality(loads) \in Nat /\ Len(resolveStreams) \in Nat /\ made \in Nat
  BY <1>1, FS_CardinalityType, LenProperties, OverviewNumbers
<1>3. ASSUME NEW c \in loads
      PROVE  IsFiniteSet(loads \ {c}) /\ Cardinality(loads \ {c}) = Cardinality(loads) - 1
  BY <1>1, FS_RemoveElement
<1>4. ASSUME NEW S, IsFiniteSet(S), NEW d
      PROVE  /\ IsFiniteSet(S \union {d}) /\ Cardinality(S) \in Nat
             /\ Cardinality(S \union {d}) \in Nat
             /\ Cardinality(S \union {d}) <= Cardinality(S) + 1
  <2>1. IsFiniteSet(S \union {d}) /\ Cardinality(S) \in Nat
        /\ Cardinality(S \union {d}) = IF d \in S THEN Cardinality(S) ELSE Cardinality(S) + 1
    BY <1>4, FS_AddElement, FS_CardinalityType
  <2>2. QED
    BY <2>1
<1>5. ASSUME NEW c \in loads, NEW d
      PROVE  /\ IsFiniteSet((loads \ {c}) \union {d})
             /\ Cardinality((loads \ {c}) \union {d}) <= Cardinality(loads)
             /\ Cardinality((loads \ {c}) \union {d}) \in Nat
  <2> DEFINE S == loads \ {c}
  <2>1. IsFiniteSet(S) /\ Cardinality(S) = Cardinality(loads) - 1
    BY <1>3
  <2> HIDE DEF S
  <2>2. /\ IsFiniteSet(S \union {d}) /\ Cardinality(S \union {d}) \in Nat
        /\ Cardinality(S \union {d}) <= Cardinality(S) + 1 /\ Cardinality(S) \in Nat
    BY <1>4, <2>1
  <2>3. Cardinality(S \union {d}) <= Cardinality(loads)
    BY <1>2, <2>1, <2>2
  <2>4. QED
    BY <2>2, <2>3 DEF S
<1>6. QED
  BY <1>1, <1>2, <1>3, <1>4, <1>5

\* What stopResolve leaves of the streams.
LEMMA ResolveStops ==
  ASSUME OverviewInv
  PROVE  /\ StopResolve(resolveStreams) \in Seq(PageStream)
         /\ Len(StopResolve(resolveStreams)) = Len(resolveStreams)
         /\ Len(resolveStreams) \in Nat /\ DOMAIN resolveStreams = 1 .. Len(resolveStreams)
         /\ DOMAIN StopResolve(resolveStreams) = 1 .. Len(resolveStreams)
         /\ \A s \in 1 .. Len(resolveStreams) : Ended(StopResolve(resolveStreams)[s])
<1> OverviewTypes /\ PageOthersEnded
  BY DEF OverviewInv
<1> DEFINE old == StopResolve(resolveStreams)
<1>1. old = Released(resolveStreams, resolveStream)
  BY DEF StopResolve, Released
<1> HIDE DEF old
<1>2. Len(resolveStreams) \in Nat /\ DOMAIN resolveStreams = 1 .. Len(resolveStreams)
  BY LenProperties DEF OverviewTypes
<1>3. /\ old \in Seq(PageStream) /\ Len(old) = Len(resolveStreams)
      /\ DOMAIN old = 1 .. Len(resolveStreams)
      /\ \A s \in 1 .. Len(resolveStreams) : Ended(old[s])
  <2>1. /\ resolveStreams \in Seq(StreamType(STRING, PageRequests))
        /\ resolveStream \in 0 .. Len(resolveStreams)
        /\ \A s \in DOMAIN resolveStreams : s # resolveStream => Ended(resolveStreams[s])
    BY DEF PageStream, OverviewTypes, PageOthersEnded
  <2>2. QED
    BY <1>1, <2>1, HeldStreamEnds DEF PageStream
<1>4. QED
  BY <1>2, <1>3 DEF old

\* startResolve: the stream held ends and the rows go before the new one is made.
LEMMA ResolveStarts ==
  ASSUME OverviewInv, NEW c \in loads, loads' = loads \ {c},
         StartResolve, UNCHANGED <<dbRecord, alive, made, ovBreaks>>,
         record' \in Purposes \union {"none"}, loadingRecord' \in BOOLEAN
  PROVE  OverviewInv'
<1> OverviewTypes /\ PageOthersEnded /\ RowsOK
  BY DEF OverviewInv
<1> DEFINE old == StopResolve(resolveStreams)
           new == Subscribed(NewStream)
           n == Len(resolveStreams)
<1>1. /\ old \in Seq(PageStream) /\ Len(old) = n /\ n \in Nat /\ DOMAIN old = 1 .. n
      /\ \A s \in 1 .. n : Ended(old[s])
  BY ResolveStops
<1>2. new \in PageStream /\ Quiet(new)
  BY NewSubscription DEF PageStream
<1>3. /\ resolveStreams' = Append(old, new) /\ resolveStream' = n + 1 /\ resolveResults' = <<>>
      /\ asked' = asked
  BY DEF StartResolve
<1> HIDE DEF old, new
<1>4. /\ resolveStreams' \in Seq(PageStream) /\ Len(resolveStreams') = n + 1
      /\ resolveStreams'[n + 1] = new /\ \A s \in 1 .. n : resolveStreams'[s] = old[s]
  BY <1>1, <1>2, <1>3, AppendProperties
<1>5. DOMAIN resolveStreams' = 1 .. (n + 1)
  BY <1>4, LenProperties
<1>6. \A s \in 1 .. (n + 1) : s = n + 1 \/ s \in 1 .. n
  BY <1>1
<1>7. <<>> \in Seq(Row) /\ DOMAIN <<>> = {}
  BY EmptySeq
<1>8. OverviewTypes'
  <2>1. resolveStream' \in 0 .. Len(resolveStreams')
    BY <1>1, <1>3, <1>4
  <2>2. QED
    BY <1>3, <1>4, <1>7, <2>1 DEF OverviewTypes
<1>9. PageOthersEnded'
  BY <1>1, <1>3, <1>4, <1>5, <1>6 DEF PageOthersEnded
<1>10. RowsOK'
  BY <1>3, <1>7 DEF RowsOK
<1>11. CallsOK'
  <2>1. IsFiniteSet(loads') /\ Cardinality(loads') = Cardinality(loads) - 1
    BY CallCount
  <2>2. Cardinality(loads) + n <= made /\ Cardinality(loads) \in Nat /\ made \in Nat /\ n \in Nat
    BY CallCount
  <2>3. Cardinality(loads') + Len(resolveStreams') <= made'
    BY <1>4, <2>1, <2>2
  <2>4. QED
    BY <2>1, <2>3 DEF CallsOK
<1>12. QED
  BY <1>8, <1>9, <1>10, <1>11 DEF OverviewInv

\* One stream changes, the rows stay.
LEMMA PageStreamStep ==
  ASSUME OverviewInv, NEW s \in DOMAIN resolveStreams, NEW t \in PageStream,
         resolveStreams' = [resolveStreams EXCEPT ![s] = t], s # resolveStream => Ended(t),
         UNCHANGED <<dbRecord, alive, record, loadingRecord, resolveResults, resolveStream,
                     loads, made>>,
         asked' \in [1 .. MaxLoads -> 0 .. Len(Servers)], ovBreaks' \in 0 .. MaxOvBreaks
  PROVE  OverviewInv'
<1> OverviewTypes /\ PageOthersEnded /\ RowsOK
  BY DEF OverviewInv
<1>1. /\ resolveStreams' \in Seq(PageStream) /\ Len(resolveStreams') = Len(resolveStreams)
      /\ DOMAIN resolveStreams' = DOMAIN resolveStreams
      /\ \A x \in DOMAIN resolveStreams :
           resolveStreams'[x] = IF x = s THEN t ELSE resolveStreams[x]
  BY OneStreamChanged DEF OverviewTypes
<1>2. OverviewTypes'
  BY <1>1 DEF OverviewTypes
<1>3. PageOthersEnded'
  BY <1>1 DEF PageOthersEnded
<1>4. RowsOK'
  BY DEF RowsOK
<1>5. CallsOK'
  BY <1>1 DEF OverviewInv, CallsOK
<1>6. QED
  BY <1>2, <1>3, <1>4, <1>5 DEF OverviewInv

\* An answer arrives: it takes the place of the row of its server.
LEMMA AnswerShown ==
  ASSUME OverviewInv, NEW s \in DOMAIN resolveStreams, ResolutionArrives(s)
  PROVE  OverviewInv' /\ s = resolveStream /\ resolveResults' # <<>>
<1> OverviewTypes /\ PageOthersEnded /\ RowsOK
  BY DEF OverviewInv
<1> DEFINE w == resolveStreams[s].wire
           t == [resolveStreams[s] EXCEPT !.wire = Tail(w)]
           item == [server |-> Head(w), by |-> s]
           K == {i \in DOMAIN resolveResults : resolveResults[i].server # item.server}
           kept == Filtered(resolveResults, K)
<1>1. /\ w # <<>> /\ resolveStreams' = [resolveStreams EXCEPT ![s] = t]
      /\ resolveResults' = Append(kept, item)
      /\ UNCHANGED <<dbRecord, alive, record, loadingRecord, resolveStream, asked, loads, made,
                     ovBreaks>>
  BY DEF ResolutionArrives, ShowAnswer
<1>2. resolveStreams[s] \in PageStream /\ s \in Nat
  BY LenProperties DEF OverviewTypes
<1>3. w \in Seq(STRING)
      /\ \A v \in Seq(STRING) : [resolveStreams[s] EXCEPT !.wire = v] \in PageStream
  BY <1>2, StreamFields DEF PageStream
<1>4. s = resolveStream
  BY <1>1 DEF PageOthersEnded, Ended, Quiet
<1>5. Head(w) \in STRING /\ Tail(w) \in Seq(STRING)
  BY <1>1, <1>3, HeadTailProperties
<1>6. t \in PageStream
  BY <1>3, <1>5
<1>7. item \in Row /\ item.server = Head(w) /\ item.by = s
  BY <1>2, <1>5 DEF Row
<1> HIDE DEF w, t, item
<1>8. K \in SUBSET (DOMAIN resolveResults)
      /\ \A i \in K : i \in DOMAIN resolveResults /\ resolveResults[i].server # item.server
  OBVIOUS
<1> HIDE DEF K
<1>9. /\ kept \in Seq(Row) /\ Len(kept) \in Nat /\ DOMAIN kept = 1 .. Len(kept)
      /\ \E f \in [DOMAIN kept -> K] :
           /\ \A k \in DOMAIN kept : kept[k] = resolveResults[f[k]]
           /\ \A k, l \in DOMAIN kept : k # l => f[k] # f[l]
  BY <1>8, FilterKeepsOrder DEF OverviewTypes
<1> HIDE DEF kept
<1>10. PICK f \in [1 .. Len(kept) -> K] :
           /\ \A k \in 1 .. Len(kept) : kept[k] = resolveResults[f[k]]
           /\ \A k, l \in 1 .. Len(kept) : k # l => f[k] # f[l]
  BY <1>9
<1>11. /\ resolveResults' \in Seq(Row) /\ Len(resolveResults') = Len(kept) + 1
       /\ resolveResults'[Len(kept) + 1] = item
       /\ \A k \in 1 .. Len(kept) : resolveResults'[k] = kept[k]
  BY <1>1, <1>7, <1>9, AppendProperties
<1>12. DOMAIN resolveResults' = 1 .. (Len(kept) + 1)
  BY <1>11, LenProperties
<1>13. \A k \in 1 .. (Len(kept) + 1) : k = Len(kept) + 1 \/ k \in 1 .. Len(kept)
  BY <1>9
<1>14. \A k \in 1 .. Len(kept) :
         /\ f[k] \in DOMAIN resolveResults /\ resolveResults'[k] = resolveResults[f[k]]
         /\ resolveResults'[k].server # item.server
  BY <1>8, <1>10, <1>11
<1>15. ASSUME NEW k \in 1 .. (Len(kept) + 1), NEW l \in 1 .. (Len(kept) + 1),
              resolveResults'[k].server = resolveResults'[l].server
       PROVE  k = l
  <2>1. CASE k \in 1 .. Len(kept) /\ l \in 1 .. Len(kept)
    <3>1. resolveResults[f[k]].server = resolveResults[f[l]].server
      BY <1>14, <1>15, <2>1
    <3>2. f[k] = f[l]
      BY <1>14, <2>1, <3>1 DEF RowsOK
    <3>3. QED
      BY <1>10, <2>1, <3>2
  <2>2. CASE k = Len(kept) + 1 /\ l = Len(kept) + 1
    BY <2>2
  <2>3. CASE k = Len(kept) + 1 /\ l \in 1 .. Len(kept)
    BY <1>11, <1>14, <1>15, <2>3
  <2>4. CASE l = Len(kept) + 1 /\ k \in 1 .. Len(kept)
    BY <1>11, <1>14, <1>15, <2>4
  <2>5. QED
    BY <1>13, <2>1, <2>2, <2>3, <2>4
<1>16. ASSUME NEW k \in 1 .. (Len(kept) + 1)
       PROVE  /\ resolveResults'[k].by \in DOMAIN resolveStreams
              /\ alive => resolveResults'[k].by = resolveStream
  <2>1. CASE k = Len(kept) + 1
    BY <1>4, <1>7, <1>11, <2>1
  <2>2. CASE k \in 1 .. Len(kept)
    BY <1>14, <2>2 DEF OverviewTypes, RowsOK
  <2>3. QED
    BY <1>13, <2>1, <2>2
<1>17. /\ resolveStreams' \in Seq(PageStream) /\ Len(resolveStreams') = Len(resolveStreams)
       /\ DOMAIN resolveStreams' = DOMAIN resolveStreams
       /\ \A x \in DOMAIN resolveStreams :
            resolveStreams'[x] = IF x = s THEN t ELSE resolveStreams[x]
  BY <1>1, <1>6, OneStreamChanged DEF OverviewTypes
<1>18. OverviewTypes'
  BY <1>1, <1>11, <1>12, <1>16, <1>17 DEF OverviewTypes
<1>19. PageOthersEnded'
  BY <1>1, <1>4, <1>17 DEF PageOthersEnded
<1>20. RowsOK'
  BY <1>1, <1>12, <1>15, <1>16 DEF RowsOK
<1>21. CallsOK'
  BY <1>1, <1>17 DEF OverviewInv, CallsOK
<1>22. resolveResults' # <<>>
  BY <1>9, <1>11, EmptySeq
<1>23. QED
  BY <1>4, <1>18, <1>19, <1>20, <1>21, <1>22 DEF OverviewInv

LEMMA PageStep ==
  ASSUME OverviewInv,
         \/ ReloadRecord \/ Destroy \/ EditRecord
         \/ \E c \in loads : RecordLoaded(c) \/ LoadFailed(c) \/ ServeLoad(c)
  PROVE  OverviewInv'
<1> OverviewTypes /\ PageOthersEnded /\ RowsOK
  BY DEF OverviewInv
<1>1. ASSUME UNCHANGED <<alive, streamVars, ovBreaks>>, loadingRecord' \in BOOLEAN,
             dbRecord' \in Purposes \union {"gone"}, record' \in Purposes \union {"none"},
             made' \in 0 .. MaxLoads, IsFiniteSet(loads'),
             Cardinality(loads') + Len(resolveStreams) <= made'
      PROVE  OverviewInv'
  BY <1>1 DEF streamVars, OverviewInv, OverviewTypes, PageOthersEnded, RowsOK, CallsOK
<1>2. CASE ReloadRecord
  <2>1. made + 1 \in 0 .. MaxLoads
    BY <1>2, OverviewNumbers DEF ReloadRecord, OverviewTypes
  <2>2. made' = made + 1 /\ \E d : loads' = loads \union {d}
    BY <1>2 DEF ReloadRecord
  <2>3. IsFiniteSet(loads') /\ Cardinality(loads') + Len(resolveStreams) <= made'
    <3>1. PICK d : loads' = loads \union {d}
      BY <2>2
    <3>2. /\ IsFiniteSet(loads') /\ Cardinality(loads') \in Nat /\ Cardinality(loads) \in Nat
          /\ Cardinality(loads') <= Cardinality(loads) + 1
          /\ Cardinality(loads) + Len(resolveStreams) <= made
          /\ Len(resolveStreams) \in Nat /\ made \in Nat
      BY <3>1, CallCount
    <3>3. QED
      BY <2>2, <3>2
  <2>4. QED
    BY <1>1, <1>2, <2>1, <2>2, <2>3 DEF ReloadRecord, OverviewTypes
<1>3. CASE Destroy
  <2> DEFINE old == StopResolve(resolveStreams)
             n == Len(resolveStreams)
  <2>1. /\ old \in Seq(PageStream) /\ Len(old) = n /\ n \in Nat /\ DOMAIN old = 1 .. n
        /\ DOMAIN resolveStreams = 1 .. n /\ \A s \in 1 .. n : Ended(old[s])
    BY ResolveStops
  <2>2. /\ alive' = FALSE /\ resolveStreams' = old /\ resolveStream' = 0
        /\ UNCHANGED <<dbRecord, record, loadingRecord, resolveResults, asked, loads, made, ovBreaks>>
    BY <1>3 DEF Destroy
  <2> HIDE DEF old
  <2>3. 0 \in 0 .. n
    BY <2>1
  <2>4. OverviewTypes'
    BY <2>1, <2>2, <2>3 DEF OverviewTypes
  <2>5. PageOthersEnded' /\ RowsOK'
    BY <2>1, <2>2 DEF PageOthersEnded, RowsOK
  <2>6. CallsOK'
    BY <2>1, <2>2 DEF OverviewInv, CallsOK
  <2>7. QED
    BY <2>4, <2>5, <2>6 DEF OverviewInv
<1>4. CASE EditRecord
  BY <1>1, <1>4 DEF EditRecord, OverviewTypes, OverviewInv, CallsOK
<1>5. ASSUME NEW c \in loads, RecordLoaded(c) PROVE OverviewInv'
  <2>1. record' \in Purposes \union {"none"} /\ loadingRecord' \in BOOLEAN
        /\ loads' = loads \ {c} /\ UNCHANGED <<dbRecord, alive, made, ovBreaks>>
    BY <1>5 DEF RecordLoaded
  <2>2. CASE StartResolve
    BY <2>1, <2>2, ResolveStarts
  <2>3. CASE UNCHANGED streamVars
    <3>1. IsFiniteSet(loads') /\ Cardinality(loads') + Len(resolveStreams) <= made'
      BY <2>1, CallCount
    <3>2. QED
      BY <1>1, <2>1, <2>3, <3>1 DEF OverviewTypes
  <2>4. QED
    BY <1>5, <2>2, <2>3 DEF RecordLoaded
<1>6. ASSUME NEW c \in loads, LoadFailed(c) \/ ServeLoad(c) PROVE OverviewInv'
  <2>1. loads' = loads \ {c} \/ \E d : loads' = (loads \ {c}) \union {d}
    BY <1>6 DEF LoadFailed, ServeLoad
  <2>2. IsFiniteSet(loads') /\ Cardinality(loads') + Len(resolveStreams) <= made
    <3>1. CASE loads' = loads \ {c}
      <4>1. /\ Cardinality(loads) + Len(resolveStreams) <= made /\ Cardinality(loads) \in Nat
            /\ Len(resolveStreams) \in Nat /\ made \in Nat
        BY CallCount
      <4>2. IsFiniteSet(loads') /\ Cardinality(loads') = Cardinality(loads) - 1
        BY <3>1, CallCount
      <4>3. QED
        BY <4>1, <4>2
    <3>2. CASE \E d : loads' = (loads \ {c}) \union {d}
      <4>1. PICK d : loads' = (loads \ {c}) \union {d}
        BY <3>2
      <4>2. /\ IsFiniteSet(loads') /\ Cardinality(loads') <= Cardinality(loads)
            /\ Cardinality(loads') \in Nat
        BY <4>1, CallCount
      <4>3. /\ Cardinality(loads) + Len(resolveStreams) <= made /\ Cardinality(loads) \in Nat
            /\ Len(resolveStreams) \in Nat /\ made \in Nat
        BY CallCount
      <4>4. QED
        BY <4>2, <4>3
    <3>3. QED
      BY <2>1, <3>1, <3>2
  <2>3. QED
    BY <1>1, <1>6, <2>2 DEF LoadFailed, ServeLoad, OverviewTypes
<1>7. QED
  BY <1>2, <1>3, <1>4, <1>5, <1>6

LEMMA PageStreamSteps ==
  ASSUME OverviewInv, NEW s \in DOMAIN resolveStreams,
         \/ ResolutionArrives(s) \/ ResolveConnect(s) \/ ResolveBreak(s)
         \/ ResolveReconnect(s) \/ Resolve(s) \/ ResolveError(s)
  PROVE  OverviewInv'
<1> OverviewTypes /\ PageOthersEnded
  BY DEF OverviewInv
<1> DEFINE r == resolveStreams[s]
           Known == UNCHANGED <<dbRecord, alive, record, loadingRecord, resolveResults,
                                resolveStream, loads, made>>
<1>1. r \in PageStream /\ ovBreaks \in 0 .. MaxOvBreaks
      /\ asked \in [1 .. MaxLoads -> 0 .. Len(Servers)]
  BY LenProperties DEF OverviewTypes
<1>2. (Alive(r) \/ r.request # Silent) => s = resolveStream
  BY DEF PageOthersEnded, Ended, Quiet
<1>3. CASE ResolutionArrives(s)
  BY <1>3, AnswerShown
<1>4. CASE ResolveConnect(s)
  <2>1. \A m \in Seq(PageRequests) : Opened(r, m) \in PageStream
    BY <1>1, Opening DEF PageStream
  <2>2. s = resolveStream
    BY <1>2, <1>4 DEF ResolveConnect, Alive
  <2>3. "record" \in PageRequests
    BY DEF PageRequests
  <2> DEFINE t == Opened(r, <<"record">>)
  <2>4. t \in PageStream
    <3>1. <<"record">> \in Seq(PageRequests)
      BY <2>3
    <3>2. QED
      BY <2>1, <3>1
  <2>5. resolveStreams' = [resolveStreams EXCEPT ![s] = t] /\ asked' = [asked EXCEPT ![s] = 0]
        /\ Known /\ ovBreaks' = ovBreaks
    BY <1>4, <2>2 DEF ResolveConnect
  <2> HIDE DEF t
  <2>6. 0 \in 0 .. Len(Servers)
    BY OverviewNumbers
  <2>7. asked' \in [1 .. MaxLoads -> 0 .. Len(Servers)]
    BY <1>1, <2>5, <2>6
  <2>8. ovBreaks' \in 0 .. MaxOvBreaks
    BY <1>1, <2>5
  <2>9. QED
    BY <2>2, <2>4, <2>5, <2>7, <2>8, PageStreamStep
<1>5. CASE ResolveBreak(s)
  <2> DEFINE t == Dropped(r)
  <2>1. t \in PageStream
    BY <1>1, Dropping DEF PageStream
  <2>2. s = resolveStream
    BY <1>2, <1>5 DEF ResolveBreak, HasSocket, Alive
  <2>3. resolveStreams' = [resolveStreams EXCEPT ![s] = t] /\ Known /\ asked' = asked
        /\ ovBreaks' = ovBreaks + 1 /\ ovBreaks < MaxOvBreaks
    BY <1>5 DEF ResolveBreak
  <2> HIDE DEF t
  <2>4. ovBreaks' \in 0 .. MaxOvBreaks
    BY <1>1, <2>3, OverviewNumbers
  <2>5. QED
    BY <1>1, <2>1, <2>2, <2>3, <2>4, PageStreamStep
<1>6. CASE ResolveReconnect(s)
  <2> DEFINE t == Reconnecting(r)
  <2>1. t \in PageStream
    BY <1>1, Reconnection DEF PageStream
  <2>2. s = resolveStream
    BY <1>2, <1>6 DEF ResolveReconnect, Alive
  <2>3. resolveStreams' = [resolveStreams EXCEPT ![s] = t] /\ Known /\ asked' = asked
        /\ ovBreaks' = ovBreaks
    BY <1>6 DEF ResolveReconnect
  <2> HIDE DEF t
  <2>4. QED
    BY <1>1, <2>1, <2>2, <2>3, PageStreamStep
<1>7. CASE Resolve(s)
  <2> DEFINE k == (asked[s] % Len(Servers)) + 1
             t == [r EXCEPT !.wire = <<Servers[k]>>]
  <2>1. s = resolveStream
    BY <1>2, <1>7 DEF Resolve
  <2>2. resolveStreams' = [resolveStreams EXCEPT ![s] = t] /\ Known /\ ovBreaks' = ovBreaks
        /\ asked' = [asked EXCEPT ![s] = k]
    BY <1>7 DEF Resolve
  <2>3. ASSUME NEW n \in Nat, NEW m \in Nat \ {0} PROVE (n % m) + 1 \in 1 .. m
    <3>1. n % m \in 0 .. (m - 1)
      OBVIOUS
    <3>2. QED
      BY <3>1
  <2>4. s \in 1 .. MaxLoads
    <3>1. /\ Cardinality(loads) + Len(resolveStreams) <= made /\ Cardinality(loads) \in Nat
          /\ Len(resolveStreams) \in Nat /\ made \in 0 .. MaxLoads
      BY CallCount DEF OverviewTypes
    <3>2. s \in 1 .. Len(resolveStreams)
      BY LenProperties DEF OverviewTypes
    <3>3. QED
      BY <3>1, <3>2, OverviewNumbers
  <2>5. k \in 1 .. Len(Servers)
    <3>1. asked[s] \in Nat /\ Len(Servers) \in Nat \ {0}
      BY <1>1, <2>4, OverviewNumbers
    <3>2. QED
      BY <2>3, <3>1
  <2> HIDE DEF k
  <2>6. t \in PageStream
    <3>1. Servers[k] \in STRING
      BY <2>5, OverviewNumbers
    <3>2. <<Servers[k]>> \in Seq(STRING)
      BY <3>1
    <3>3. \A v \in Seq(STRING) : [r EXCEPT !.wire = v] \in PageStream
      BY <1>1, StreamFields DEF PageStream
    <3>4. QED
      BY <3>2, <3>3
  <2> HIDE DEF t
  <2>7. k \in 0 .. Len(Servers)
    BY <2>5, OverviewNumbers
  <2>8. asked' \in [1 .. MaxLoads -> 0 .. Len(Servers)]
    BY <1>1, <2>2, <2>7
  <2>9. QED
    BY <1>1, <2>1, <2>2, <2>6, <2>8, PageStreamStep
<1>8. CASE ResolveError(s)
  <2> DEFINE t == Dropped(r)
  <2>1. t \in PageStream
    BY <1>1, Dropping DEF PageStream
  <2>2. s = resolveStream
    BY <1>2, <1>8 DEF ResolveError
  <2>3. resolveStreams' = [resolveStreams EXCEPT ![s] = t] /\ Known /\ asked' = asked
        /\ ovBreaks' = ovBreaks
    BY <1>8 DEF ResolveError
  <2> HIDE DEF t
  <2>4. QED
    BY <1>1, <2>1, <2>2, <2>3, PageStreamStep
<1>9. QED
  BY <1>3, <1>4, <1>5, <1>6, <1>7, <1>8


LEMMA OverviewStep == OverviewInv /\ [OverviewNext]_ovVars => OverviewInv'
<1> SUFFICES ASSUME OverviewInv, [OverviewNext]_ovVars PROVE OverviewInv'
  OBVIOUS
<1>1. CASE \/ ReloadRecord \/ Destroy \/ EditRecord
           \/ \E c \in loads : RecordLoaded(c) \/ LoadFailed(c) \/ ServeLoad(c)
  BY <1>1, PageStep
<1>2. CASE \E s \in DOMAIN resolveStreams :
              \/ ResolutionArrives(s) \/ ResolveConnect(s) \/ ResolveBreak(s)
              \/ ResolveReconnect(s) \/ Resolve(s) \/ ResolveError(s)
  <2>1. PICK s \in DOMAIN resolveStreams :
              \/ ResolutionArrives(s) \/ ResolveConnect(s) \/ ResolveBreak(s)
              \/ ResolveReconnect(s) \/ Resolve(s) \/ ResolveError(s)
    BY <1>2
  <2>2. QED
    BY <2>1, PageStreamSteps
<1>3. CASE UNCHANGED ovVars
  BY <1>3 DEF ovVars, streamVars, OverviewInv, OverviewTypes, PageOthersEnded, RowsOK, CallsOK
<1>4. QED
  BY <1>1, <1>2, <1>3 DEF OverviewNext

LEMMA OverviewInvariant == OverviewSpec => []OverviewInv
BY OverviewInitial, OverviewStep, PTL DEF OverviewSpec

\* However the answers to several loads, the reconnections and the end of the page fall
\* together, one resolve stream runs at most, the one the page holds.
THEOREM OneResolve == OverviewSpec => []OneResolveStream
<1>1. OverviewInv => OneResolveStream
  BY DEF OverviewInv, PageOthersEnded, Ended, OneResolveStream
<1>2. QED
  BY <1>1, OverviewInvariant, PTL

\* The rows of a displayed record are one for each server, and none is left from before the
\* record was loaded again, for any list of servers.
THEOREM RowsOfResolve == OverviewSpec => []RowsOfThisResolve
<1>1. OverviewInv => RowsOfThisResolve
  BY DEF OverviewInv, RowsOK, RowsOfThisResolve
<1>2. QED
  BY <1>1, OverviewInvariant, PTL

---------------------------------------------------------------------------
(* RecordOverview implements StreamPromise, with the same argument: the stream the page     *)
(* holds is never one that has ended.                                                       *)

PageHeld == resolveStream # 0 => Alive(resolveStreams[resolveStream])

\* One step as StreamPromise sees it.
PageRefines == PageHeld' /\ [ResolvePromise!Next]_(ResolvePromise!vars)

PageRunning == {s \in DOMAIN resolveStreams : Alive(resolveStreams[s])}

LEMMA PageRunningIsHeld ==
  /\ OverviewInv /\ PageHeld => PageRunning = {resolveStream} \ {0}
  /\ OverviewInv' /\ PageHeld' => PageRunning' = {resolveStream'} \ {0}
<1>1. OverviewInv => /\ resolveStream \in 0 .. Len(resolveStreams)
                     /\ DOMAIN resolveStreams = 1 .. Len(resolveStreams)
                     /\ Len(resolveStreams) \in Nat
                     /\ \A s \in DOMAIN resolveStreams :
                          s # resolveStream => ~Alive(resolveStreams[s])
  BY LenProperties DEF OverviewInv, OverviewTypes, PageOthersEnded, Ended
<1>2. ASSUME OverviewInv, PageHeld PROVE PageRunning = {resolveStream} \ {0}
  <2>1. \A s : s \in PageRunning <=> s = resolveStream /\ s # 0
    BY <1>1, <1>2 DEF PageRunning, PageHeld
  <2>2. QED
    BY <2>1
<1>3. OverviewInv' => /\ resolveStream' \in 0 .. Len(resolveStreams')
                      /\ DOMAIN resolveStreams' = 1 .. Len(resolveStreams')
                      /\ Len(resolveStreams') \in Nat
                      /\ \A s \in DOMAIN resolveStreams' :
                           s # resolveStream' => ~Alive(resolveStreams'[s])
  BY LenProperties DEF OverviewInv, OverviewTypes, PageOthersEnded, Ended
<1>4. ASSUME OverviewInv', PageHeld' PROVE PageRunning' = {resolveStream'} \ {0}
  <2>1. \A s : s \in PageRunning' <=> s = resolveStream' /\ s # 0
    BY <1>3, <1>4 DEF PageRunning, PageHeld
  <2>2. QED
    BY <2>1
<1>5. QED
  BY <1>2, <1>4

\* A step on the streams there are, which keeps the one held alive.
LEMMA PageQuietStep ==
  ASSUME OverviewInv, OverviewInv', PageHeld, PageHeld',
         resolveStream' = resolveStream, resolveResults' = resolveResults,
         Len(resolveStreams') = Len(resolveStreams)
  PROVE  PageRefines
<1>1. PageRunning' = PageRunning
  BY PageRunningIsHeld
<1>2. UNCHANGED ResolvePromise!vars
  BY <1>1 DEF PageRunning, ResolvePromise!vars
<1>3. QED
  BY <1>2 DEF PageRefines

\* An answer to loadRecord that starts the stream begins a new one, also on a page that is gone.
LEMMA ResolveBegins ==
  ASSUME OverviewInv, OverviewInv', StartResolve
  PROVE  PageRefines
<1> DEFINE old == StopResolve(resolveStreams)
           new == Subscribed(NewStream)
           n == Len(resolveStreams)
<1>1. /\ old \in Seq(PageStream) /\ Len(old) = n /\ n \in Nat
  BY ResolveStops
<1>2. new \in PageStream /\ new.phase = "connecting"
  BY NewSubscription DEF PageStream
<1>3. resolveStreams' = Append(old, new) /\ resolveStream' = n + 1 /\ resolveResults' = <<>>
  BY DEF StartResolve
<1> HIDE DEF old, new
<1>4. Len(resolveStreams') = n + 1 /\ resolveStreams'[n + 1] = new
  BY <1>1, <1>2, <1>3, AppendProperties
<1>5. PageHeld'
  BY <1>2, <1>3, <1>4 DEF PageHeld, Alive
<1>6. PageRunning' = {n + 1}
  BY <1>1, <1>3, <1>5, PageRunningIsHeld
<1>7. ResolvePromise!Begin
  BY <1>3, <1>4, <1>6 DEF ResolvePromise!Begin, PageRunning
<1>8. QED
  BY <1>5, <1>7 DEF PageRefines, ResolvePromise!Next

\* ngOnDestroy ends the stream that runs.
LEMMA ResolveEnds ==
  ASSUME OverviewInv, OverviewInv', PageHeld, Destroy
  PROVE  PageRefines
<1>1. /\ resolveStreams' = StopResolve(resolveStreams) /\ resolveStream' = 0
      /\ resolveResults' = resolveResults
  BY DEF Destroy
<1>2. PageHeld'
  BY <1>1 DEF PageHeld
<1>3. Len(resolveStreams') = Len(resolveStreams)
  BY <1>1, ResolveStops
<1>4. PageRunning' = {}
  BY <1>1, <1>2, PageRunningIsHeld
<1>5. ResolvePromise!End
  BY <1>1, <1>3, <1>4 DEF ResolvePromise!End, PageRunning
<1>6. QED
  BY <1>2, <1>5 DEF PageRefines, ResolvePromise!Next

LEMMA PagePromiseStep ==
  OverviewInv /\ OverviewInv' /\ PageHeld /\ [OverviewNext]_ovVars => PageRefines
<1> SUFFICES ASSUME OverviewInv, OverviewInv', PageHeld, [OverviewNext]_ovVars
             PROVE  PageRefines
  OBVIOUS
<1>0. /\ resolveStream \in 0 .. Len(resolveStreams) /\ Len(resolveStreams) \in Nat
      /\ DOMAIN resolveStreams = 1 .. Len(resolveStreams)
      /\ \A s \in DOMAIN resolveStreams : resolveStreams[s] \in PageStream
  BY LenProperties DEF OverviewInv, OverviewTypes
<1>1. ASSUME UNCHANGED <<resolveStreams, resolveStream, resolveResults>> PROVE PageRefines
  <2>1. PageHeld'
    BY <1>1 DEF PageHeld
  <2>2. QED
    BY <1>1, <2>1, PageQuietStep
<1>2. ASSUME NEW c \in loads, RecordLoaded(c) PROVE PageRefines
  <2>1. CASE recordDoesDdns(c.answer)
    BY <1>2, <2>1, ResolveBegins DEF RecordLoaded
  <2>2. CASE ~recordDoesDdns(c.answer)
    BY <1>1, <1>2, <2>2 DEF RecordLoaded, streamVars
  <2>3. QED
    BY <2>1, <2>2
<1>3. ASSUME NEW s \in DOMAIN resolveStreams, NEW t,
             resolveStreams' = [resolveStreams EXCEPT ![s] = t],
             Alive(t) \/ t.phase = resolveStreams[s].phase, resolveStream' = resolveStream
      PROVE  PageHeld' /\ Len(resolveStreams') = Len(resolveStreams)
  <2>1. PageHeld'
    BY <1>0, <1>3 DEF PageHeld, Alive
  <2>2. DOMAIN resolveStreams' = DOMAIN resolveStreams
    BY <1>3
  <2>3. Len(resolveStreams') \in Nat /\ DOMAIN resolveStreams' = 1 .. Len(resolveStreams')
    BY LenProperties DEF OverviewInv, OverviewTypes
  <2>4. Len(resolveStreams') = Len(resolveStreams)
    BY <1>0, <2>2, <2>3
  <2>5. QED
    BY <2>1, <2>4
<1>4. ASSUME NEW s \in DOMAIN resolveStreams, ResolutionArrives(s) PROVE PageRefines
  <2> DEFINE t == [resolveStreams[s] EXCEPT !.wire = Tail(resolveStreams[s].wire)]
  <2>1. resolveStreams' = [resolveStreams EXCEPT ![s] = t] /\ resolveStream' = resolveStream
    BY <1>4 DEF ResolutionArrives
  <2>2. t.phase = resolveStreams[s].phase
    BY <1>0 DEF PageStream, StreamType
  <2> HIDE DEF t
  <2>3. PageHeld' /\ Len(resolveStreams') = Len(resolveStreams)
    BY <1>3, <2>1, <2>2
  <2>4. s = resolveStream /\ resolveResults' # <<>>
    BY <1>4, AnswerShown
  <2>5. PageRunning' = PageRunning /\ PageRunning # {}
    <3>1. PageRunning = {resolveStream} \ {0} /\ PageRunning' = {resolveStream} \ {0}
          /\ resolveStream # 0
      BY <1>0, <2>1, <2>3, <2>4, PageRunningIsHeld
    <3>2. QED
      BY <3>1
  <2>6. ResolvePromise!Show
    BY <2>3, <2>4, <2>5 DEF ResolvePromise!Show, PageRunning
  <2>7. QED
    BY <2>3, <2>6 DEF PageRefines, ResolvePromise!Next
<1>5. ASSUME NEW s \in DOMAIN resolveStreams,
             \/ ResolveConnect(s) \/ ResolveBreak(s) \/ ResolveReconnect(s)
             \/ Resolve(s) \/ ResolveError(s)
      PROVE  PageRefines
  <2>1. /\ \A g : Opened(resolveStreams[s], g).phase = "open"
        /\ Dropped(resolveStreams[s]).phase = "waiting"
        /\ Reconnecting(resolveStreams[s]).phase = "connecting"
        /\ \A w : [resolveStreams[s] EXCEPT !.wire = w].phase = resolveStreams[s].phase
    BY <1>0 DEF PageStream, StreamType, Opened, Dropped, Disconnected, Reconnecting
  <2>2. PICK t : /\ resolveStreams' = [resolveStreams EXCEPT ![s] = t]
                 /\ Alive(t) \/ t.phase = resolveStreams[s].phase
    <3>1. CASE ResolveConnect(s)
      BY <2>1, <3>1 DEF ResolveConnect, Alive
    <3>2. CASE ResolveBreak(s) \/ ResolveError(s)
      BY <2>1, <3>2 DEF ResolveBreak, ResolveError, Alive
    <3>3. CASE ResolveReconnect(s)
      BY <2>1, <3>3 DEF ResolveReconnect, Alive
    <3>4. CASE Resolve(s)
      BY <2>1, <3>4 DEF Resolve
    <3>5. QED
      BY <1>5, <3>1, <3>2, <3>3, <3>4
  <2>3. resolveStream' = resolveStream /\ resolveResults' = resolveResults
    BY <1>5 DEF ResolveConnect, ResolveBreak, ResolveReconnect, Resolve, ResolveError
  <2>4. PageHeld' /\ Len(resolveStreams') = Len(resolveStreams)
    BY <1>3, <2>2, <2>3
  <2>5. QED
    BY <2>3, <2>4, PageQuietStep
<1>6. CASE Destroy
  BY <1>6, ResolveEnds
<1>7. ASSUME ReloadRecord \/ EditRecord \/ \E c \in loads : LoadFailed(c) \/ ServeLoad(c)
      PROVE  PageRefines
  BY <1>1, <1>7 DEF ReloadRecord, EditRecord, LoadFailed, ServeLoad, streamVars
<1>8. CASE UNCHANGED ovVars
  BY <1>1, <1>8 DEF ovVars, streamVars
<1>9. QED
  BY <1>2, <1>4, <1>5, <1>6, <1>7, <1>8 DEF OverviewNext

LEMMA PagePromiseInit == OverviewInit => PageHeld /\ ResolvePromise!Init
<1> SUFFICES ASSUME OverviewInit PROVE PageHeld /\ ResolvePromise!Init
  OBVIOUS
<1>1. resolveStreams = <<>> /\ resolveResults = <<>> /\ resolveStream = 0
  BY DEF OverviewInit
<1>2. Len(<<>>) = 0 /\ DOMAIN <<>> = {}
  BY EmptySeq
<1>3. QED
  BY <1>1, <1>2 DEF PageHeld, ResolvePromise!Init

\* To whoever looks at the page of a record, whatever happens to loads, connections and the
\* page is a step of StreamPromise or invisible: answers come by the newest stream only, a
\* stream that was left never runs or adds a row again, and rows go only when a stream begins.
THEOREM PageKeepsPromise == OverviewSpec => ResolvePromiseKept
<1>1. OverviewInv /\ OverviewInv' /\ PageHeld /\ [OverviewNext]_ovVars
        => PageHeld' /\ [ResolvePromise!Next]_(ResolvePromise!vars)
  BY PagePromiseStep DEF PageRefines
<1>2. QED
  BY <1>1, PagePromiseInit, OverviewInvariant, PTL
     DEF OverviewSpec, ResolvePromiseKept, ResolvePromise!Spec

---------------------------------------------------------------------------
(* The parts together *)

StreamsInv ==
  active \in StreamParts /\ AddressInv /\ LogInv /\ OverviewInv /\ NotifyInv

LEMMA StreamsStep == StreamsInv /\ [StreamsNext]_streamsVars => StreamsInv'
<1> SUFFICES ASSUME StreamsInv, [StreamsNext]_streamsVars PROVE StreamsInv'
  OBVIOUS
<1>1. /\ active' = active
      /\ [AddressNext]_addressVars /\ [LogNext]_logVars
      /\ [OverviewNext]_ovVars /\ [NotifyNext]_notifyVars
  BY DEF StreamsNext, streamsVars
<1>2. AddressInv'
  BY <1>1, AddressStep DEF StreamsInv
<1>3. LogInv'
  BY <1>1, LogStep DEF StreamsInv
<1>4. OverviewInv'
  BY <1>1, OverviewStep DEF StreamsInv
<1>5. NotifyInv'
  BY <1>1, NotifyStep DEF StreamsInv
<1>6. QED
  BY <1>1, <1>2, <1>3, <1>4, <1>5 DEF StreamsInv

LEMMA PartsTyped == StreamsInv => StreamsTypeOK
<1> SUFFICES ASSUME StreamsInv PROVE StreamsTypeOK
  OBVIOUS
<1>1. AddressTypeOK
  BY DEF StreamsInv, AddressInv, AddressTypes, Addresses, AddressStream, Requests, AddressTypeOK
<1>2. LogTypeOK
  <2>1. logPanel \in Panel
    BY DEF StreamsInv, LogInv, LogTypes
  <2>2. \A k \in 0 .. 2 : k \in 0 .. (MaxOpens + 2)
    BY LogNumbers
  <2>3. logPanel \in DrawerType(MaxOpens + 2)
    BY <2>1, <2>2 DEF Panel, DrawerType
  <2>4. QED
    BY <2>3 DEF StreamsInv, LogInv, LogTypes, LogStream, Requests, LogTypeOK
<1>3. OverviewTypeOK
  BY DEF StreamsInv, OverviewInv, OverviewTypes, OverviewTypeOK
<1>4. NotifyTypeOK
  BY DEF StreamsInv, NotifyInv, ToastTypes, LoadingOK, Toast, NotifyTypeOK
<1>5. QED
  BY <1>1, <1>2, <1>3, <1>4 DEF StreamsInv, StreamsTypeOK

LEMMA StreamsInvariant == StreamsSpec => []StreamsInv
<1>1. StreamsInit => StreamsInv
  BY AddressInitial, LogInitial, OverviewInitial, NotifyInitial DEF StreamsInit, StreamsInv
<1>2. QED
  BY <1>1, StreamsStep, PTL DEF StreamsSpec

\* Every variable of the four parts keeps its type, whichever of them runs.
THEOREM StreamsTyped == StreamsSpec => []StreamsTypeOK
BY StreamsInvariant, PartsTyped, PTL

\* What was proved of each part holds of the part as it stands beside the others in the
\* composition that is model-checked: the composition adds no behaviour to any of them.
THEOREM PagesCorrect ==
  StreamsSpec => /\ [](/\ BadgeIsHonest /\ LoadingWhileInFlight /\ OneLogStream /\ LinesInOrder
                      /\ OneResolveStream /\ RowsOfThisResolve)
                 /\ LogPromiseKept /\ ResolvePromiseKept
<1>1. StreamsInv => /\ BadgeIsHonest /\ LoadingWhileInFlight /\ OneLogStream /\ LinesInOrder
                    /\ OneResolveStream /\ RowsOfThisResolve
  <2> SUFFICES ASSUME StreamsInv
               PROVE  /\ BadgeIsHonest /\ LoadingWhileInFlight /\ OneLogStream /\ LinesInOrder
                      /\ OneResolveStream /\ RowsOfThisResolve
    OBVIOUS
  <2>1. BadgeIsHonest /\ LoadingWhileInFlight
    BY DEF StreamsInv, AddressInv, NotifyInv, LoadingOK, LoadingWhileInFlight
  <2>2. OneLogStream /\ LinesInOrder
    BY DEF StreamsInv, LogInv, LogOthersEnded, LogOrder, Ended, OneLogStream, LinesInOrder
  <2>3. OneResolveStream /\ RowsOfThisResolve
    BY DEF StreamsInv, OverviewInv, PageOthersEnded, Ended, RowsOK, OneResolveStream,
           RowsOfThisResolve
  <2>4. QED
    BY <2>1, <2>2, <2>3
<1>2. StreamsInit => LogHeld /\ LogPromise!Init /\ PageHeld /\ ResolvePromise!Init
  BY LogPromiseInit, PagePromiseInit DEF StreamsInit
<1>3. StreamsInv /\ StreamsInv' /\ LogHeld /\ PageHeld /\ [StreamsNext]_streamsVars
        => /\ LogHeld' /\ [LogPromise!Next]_(LogPromise!vars)
           /\ PageHeld' /\ [ResolvePromise!Next]_(ResolvePromise!vars)
  <2>1. [StreamsNext]_streamsVars => [LogNext]_logVars /\ [OverviewNext]_ovVars
    BY DEF StreamsNext, streamsVars
  <2>2. StreamsInv => LogInv /\ OverviewInv
    BY DEF StreamsInv
  <2>3. StreamsInv' => LogInv' /\ OverviewInv'
    BY DEF StreamsInv
  <2>4. QED
    BY <2>1, <2>2, <2>3, LogPromiseStep, PagePromiseStep DEF LogRefines, PageRefines
<1>4. QED
  BY <1>1, <1>2, <1>3, StreamsInvariant, PTL
     DEF StreamsSpec, LogPromiseKept, LogPromise!Spec, ResolvePromiseKept, ResolvePromise!Spec
=============================================================================
