--------------------------- MODULE RecordOverview ---------------------------
(***************************************************************************)
(* The overview page of one record (pages/overview): loading the record    *)
(* and following how the DNS servers resolve it, with the handlers         *)
(* GetRecords and StreamResolveRecord of the server.  One component        *)
(* instance: from ngOnInit to ngOnDestroy, and the calls answered later.   *)
(* The page's tasks are in RecordTasks.tla.                                *)
(*                                                                         *)
(* A record is its purpose, "gone" when the server does not list it.       *)
(* Calls are answered with what the server holds when it handles them, and *)
(* their answers arrive in any order.                                      *)
(***************************************************************************)
EXTENDS ApiStream, Filter, Naturals, FiniteSets

CONSTANTS
    Servers,        \* the DNS servers of the configuration, in their order
    MaxLoads,       \* bound: how often the record is loaded
    MaxOvBreaks     \* bound: how often a connection or an attempt fails

ASSUME OverviewBounds ==
    /\ Servers \in Seq(STRING) /\ Servers # <<>>
    /\ MaxLoads \in Nat \ {0} /\ MaxOvBreaks \in Nat

Purposes == {"ddns", "cert", "both"}

VARIABLES
    dbRecord,           \* the record the server holds
    alive,              \* the page is displayed
    record,             \* the signal, "none" for null
    loadingRecord,
    resolveResults,     \* the rows, each with the stream it came by
    resolveStreams,     \* the streams made so far
    resolveStream,      \* the one the page holds, 0 for null
    asked,              \* how many servers of its round the handler has answered
    loads,              \* the calls of loadRecord under way
    made,               \* how many there were
    ovBreaks

streamVars == <<resolveResults, resolveStreams, resolveStream, asked>>
ovVars == <<dbRecord, alive, record, loadingRecord, streamVars, loads, made, ovBreaks>>

recordDoesDdns(r) == r \in {"ddns", "both"}

-----------------------------------------------------------------------------
(* The resolve stream.                                                     *)

\* mutant: the stream held is overwritten, not closed.
ForgetResolve(ss) == ss

\* stopResolve: leave the subscriptions, close the stream.
StopResolve(ss) ==
    IF resolveStream = 0 THEN ss ELSE [ss EXCEPT ![resolveStream] = Closed(Unsubscribed(@))]

\* mutant: the rows of the stream before stay on the page.
RestartResolve ==
    /\ resolveStreams' = Append(StopResolve(resolveStreams), Subscribed(NewStream))
    /\ resolveStream' = Len(resolveStreams) + 1
    /\ UNCHANGED <<resolveResults, asked>>

\* startResolve, for a record that does DDNS.
StartResolve ==
    /\ resolveStreams' = Append(StopResolve(resolveStreams), Subscribed(NewStream))
    /\ resolveStream' = Len(resolveStreams) + 1
    /\ resolveResults' = <<>>
    /\ UNCHANGED asked

-----------------------------------------------------------------------------
(* The page.                                                               *)

OverviewInit ==
    /\ dbRecord \in Purposes \cup {"gone"}
    /\ alive = TRUE
    /\ record = "none" /\ loadingRecord = TRUE
    /\ resolveResults = <<>> /\ resolveStreams = <<>> /\ resolveStream = 0
    /\ asked = [s \in 1..MaxLoads |-> 0]
    /\ loads = {[n |-> 1, answer |-> "none"]} /\ made = 1
    /\ ovBreaks = 0

\* reloadRecord: the record drawer has saved.
ReloadRecord ==
    /\ alive /\ record # "none" /\ made < MaxLoads
    /\ made' = made + 1
    /\ loadingRecord' = TRUE
    /\ loads' = loads \cup {[n |-> made', answer |-> "none"]}
    /\ UNCHANGED <<dbRecord, alive, record, streamVars, ovBreaks>>

\* ngOnDestroy stops the stream; the calls under way are not cancelled.
Destroy ==
    /\ alive
    /\ alive' = FALSE
    /\ resolveStreams' = StopResolve(resolveStreams)
    /\ resolveStream' = 0
    /\ UNCHANGED <<dbRecord, record, loadingRecord, resolveResults, asked, loads, made, ovBreaks>>

\* The answer to loadRecord arrives, possibly at a page that is gone: the record
\* is looked up in it, and the resolve stream is started for one that does DDNS.
RecordLoaded(c) ==
    /\ c.answer \in Purposes \cup {"gone"}
    /\ loads' = loads \ {c}
    /\ loadingRecord' = FALSE
    /\ record' = IF c.answer = "gone" THEN "none" ELSE c.answer
    /\ IF recordDoesDdns(c.answer) THEN StartResolve ELSE UNCHANGED streamVars
    /\ UNCHANGED <<dbRecord, alive, made, ovBreaks>>

LoadFailed(c) ==
    /\ c.answer = "failed"
    /\ loads' = loads \ {c}
    /\ loadingRecord' = FALSE
    /\ UNCHANGED <<dbRecord, alive, record, streamVars, made, ovBreaks>>

\* A server's row is replaced by its newest answer.
ShowAnswer(rows, row) ==
    Append(Filtered(rows, {i \in DOMAIN rows : rows[i].server # row.server}), row)

ResolutionArrives(s) ==
    /\ resolveStreams[s].wire # <<>>
    /\ resolveStreams' = [resolveStreams EXCEPT ![s].wire = Tail(@)]
    /\ resolveResults' =
          ShowAnswer(resolveResults, [server |-> Head(resolveStreams[s].wire), by |-> s])
    /\ UNCHANGED <<dbRecord, alive, record, loadingRecord, resolveStream, asked, loads, made, ovBreaks>>

\* mutant: the record is sent once, when the stream is made.
ConnectUnasked(s) ==
    /\ resolveStreams[s].phase = "connecting"
    /\ resolveStreams' = [resolveStreams EXCEPT ![s] = Opened(@, <<>>)]
    /\ asked' = [asked EXCEPT ![s] = 0]
    /\ UNCHANGED <<dbRecord, alive, record, loadingRecord, resolveResults, resolveStream,
                   loads, made, ovBreaks>>

\* connect$: the page sends the record by the stream it holds.
ResolveConnect(s) ==
    /\ resolveStreams[s].phase = "connecting"
    /\ resolveStreams' = [resolveStreams EXCEPT
            ![s] = Opened(@, IF s = resolveStream THEN <<"record">> ELSE <<>>)]
    /\ asked' = [asked EXCEPT ![s] = 0]
    /\ UNCHANGED <<dbRecord, alive, record, loadingRecord, resolveResults, resolveStream,
                   loads, made, ovBreaks>>

ResolveBreak(s) ==
    /\ HasSocket(resolveStreams[s]) /\ ovBreaks < MaxOvBreaks
    /\ resolveStreams' = [resolveStreams EXCEPT ![s] = Dropped(@)]
    /\ ovBreaks' = ovBreaks + 1
    /\ UNCHANGED <<dbRecord, alive, record, loadingRecord, resolveResults, resolveStream, asked,
                   loads, made>>

ResolveReconnect(s) ==
    /\ resolveStreams[s].phase = "waiting"
    /\ resolveStreams' = [resolveStreams EXCEPT ![s] = Reconnecting(@)]
    /\ UNCHANGED <<dbRecord, alive, record, loadingRecord, resolveResults, resolveStream, asked,
                   loads, made, ovBreaks>>

-----------------------------------------------------------------------------
(* The server.                                                             *)

ServeLoad(c) ==
    /\ c.answer = "none"
    /\ \E answer \in {dbRecord, "failed"} :
          loads' = (loads \ {c}) \cup {[c EXCEPT !.answer = answer]}
    /\ UNCHANGED <<dbRecord, alive, record, loadingRecord, streamVars, made, ovBreaks>>

\* The record is edited or deleted, on this page or elsewhere.
EditRecord ==
    /\ dbRecord # "gone"
    /\ dbRecord' \in (Purposes \cup {"gone"}) \ {dbRecord}
    /\ UNCHANGED <<alive, record, loadingRecord, streamVars, loads, made, ovBreaks>>

\* The handler looks the record up when it starts, then writes one answer for
\* every server in their order, round after round.  At most one is in transit.
Resolve(s) ==
    /\ resolveStreams[s].request # Silent /\ resolveStreams[s].wire = <<>>
    /\ asked[s] > 0 \/ dbRecord # "gone"
    /\ resolveStreams' = [resolveStreams EXCEPT ![s].wire = <<Servers[(asked[s] % Len(Servers)) + 1]>>]
    /\ asked' = [asked EXCEPT ![s] = (@ % Len(Servers)) + 1]
    /\ UNCHANGED <<dbRecord, alive, record, loadingRecord, resolveResults, resolveStream,
                   loads, made, ovBreaks>>

\* A record that is gone when the handler starts: the error ends the connection.
ResolveError(s) ==
    /\ resolveStreams[s].request # Silent /\ asked[s] = 0 /\ dbRecord = "gone"
    /\ resolveStreams' = [resolveStreams EXCEPT ![s] = Dropped(@)]
    /\ UNCHANGED <<dbRecord, alive, record, loadingRecord, resolveResults, resolveStream, asked,
                   loads, made, ovBreaks>>

OverviewNext ==
    \/ ReloadRecord \/ Destroy \/ EditRecord
    \/ \E c \in loads : RecordLoaded(c) \/ LoadFailed(c) \/ ServeLoad(c)
    \/ \E s \in DOMAIN resolveStreams :
          \/ ResolutionArrives(s) \/ ResolveConnect(s) \/ ResolveBreak(s)
          \/ ResolveReconnect(s) \/ Resolve(s) \/ ResolveError(s)

OfStream(s, A(_)) == s \in DOMAIN resolveStreams /\ A(s)

\* Timers fire, sockets open or fail, messages in transit arrive, handlers go
\* on to the next server.  Nothing is assumed of calls, users or failures.
OverviewFairness ==
    \A s \in 1..MaxLoads :
        /\ WF_ovVars(OfStream(s, ResolutionArrives))
        /\ WF_ovVars(OfStream(s, ResolveConnect))
        /\ WF_ovVars(OfStream(s, ResolveReconnect))
        /\ WF_ovVars(OfStream(s, Resolve))

OverviewSpec == OverviewInit /\ [][OverviewNext]_ovVars /\ OverviewFairness

-----------------------------------------------------------------------------
OverviewTypeOK ==
    /\ dbRecord \in Purposes \cup {"gone"} /\ record \in Purposes \cup {"none"}
    /\ alive \in BOOLEAN /\ loadingRecord \in BOOLEAN
    /\ \A i \in DOMAIN resolveResults : resolveResults[i].by \in DOMAIN resolveStreams
    /\ resolveStream \in 0..Len(resolveStreams)
    /\ asked \in [1..MaxLoads -> 0..Len(Servers)]
    /\ made \in 0..MaxLoads /\ ovBreaks \in 0..MaxOvBreaks

\* However answers to several loads, reconnections and the end of the page fall
\* together, the page never has two resolve streams running: startResolve stops
\* the one it holds first.
OneResolveStream ==
    \A s \in DOMAIN resolveStreams : Alive(resolveStreams[s]) => s = resolveStream

\* The rows of a displayed record: one for each server, none left from before
\* the record was loaded again.
RowsOfThisResolve ==
    alive /\ recordDoesDdns(record) =>
        /\ \A i, j \in DOMAIN resolveResults :
              resolveResults[i].server = resolveResults[j].server => i = j
        /\ \A i \in DOMAIN resolveResults : resolveResults[i].by = resolveStream

\* What the reader of the page sees of this module, and what StreamPromise says of it: every
\* resolve stream begins with no rows, rows come by the newest one only, and a stream the
\* page has left, by loading again or by going, stays over.
ResolvePromise == INSTANCE StreamPromise WITH
    made <- Len(resolveStreams),
    running <- {s \in DOMAIN resolveStreams : Alive(resolveStreams[s])},
    content <- resolveResults

ResolvePromiseKept == ResolvePromise!Spec

\* A DDNS record that stays on the page and in the database gets an answer of
\* every server, also when connections fail: the record is sent again on connect.
EveryServerAnswers ==
    [](alive /\ recordDoesDdns(record) =>
        <>(\/ ~alive \/ ~recordDoesDdns(record) \/ dbRecord = "gone"
           \/ \A n \in DOMAIN Servers :
                 \E i \in DOMAIN resolveResults : resolveResults[i].server = Servers[n]))
=============================================================================
