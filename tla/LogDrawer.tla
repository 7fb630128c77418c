----------------------------- MODULE LogDrawer ------------------------------
(***************************************************************************)
(* The log drawer (drawers/log/log-drawer.component.ts) and the handler    *)
(* StreamLog (pkg/web/api/log.go) that feeds it.  The drawer belongs to    *)
(* the application component and lives as long as the tab.                 *)
(*                                                                         *)
(* Every open() makes a stream.  Log lines are numbered in the order in    *)
(* which the server writes them; a line has a level, or is not JSON.       *)
(***************************************************************************)
EXTENDS ApiStream, Drawer, FiniteSets

CONSTANTS
    MaxOpens,       \* bound: how often the drawer is opened
    MaxWritten,     \* bound: how many lines the server writes
    maxLines,       \* the component's maxLines (800)
    MaxLogBreaks    \* bound: how often a connection or an attempt fails

ASSUME LogBounds ==
    /\ MaxOpens \in Nat /\ MaxWritten \in Nat /\ MaxLogBreaks \in Nat
    /\ maxLines \in Nat \ {0}

Levels == {"text", "info", "panic"}

VARIABLES
    logPanel,       \* the drawer
    logStreams,     \* the streams made so far, one for each open()
    stream,         \* the one the component holds and listens to, 0 for null
    lines,          \* the lines displayed, newest first
    written,        \* how many lines the server has written
    logBreaks

logVars == <<logPanel, logStreams, stream, lines, written, logBreaks>>

\* levelClass and parseLogLine: what is not a JSON object is shown as an error.
ParseLogLine(line) ==
    [n |-> line.n,
     levelClass |-> CASE line.level \in {"text", "error", "fatal", "panic"} -> "level-error"
                      [] line.level \in {"warn", "warning"} -> "level-warning"
                      [] line.level \in {"info", "trace"} -> "level-" \o line.level
                      [] OTHER -> "level-debug"]

LogLine == [n: 1..MaxWritten, level: Levels]

LogInit ==
    /\ logPanel = NewDrawer /\ logStreams = <<>> /\ stream = 0
    /\ lines = <<>> /\ written = 0 /\ logBreaks = 0

\* mutant: the previous stream is forgotten, not closed.
CleanupForgotten(ss, current) == ss

\* cleanupStream: unsubscribe from the messages, close the stream.
Cleanup(ss, current) ==
    IF current = 0 THEN ss ELSE [ss EXCEPT ![current] = Closed(Unsubscribed(@))]

\* open(): also reachable while the drawer is shown or slides out, with the
\* keyboard.  The request is sent once, right after the subscription.
Open ==
    /\ Len(logStreams) < MaxOpens
    /\ logPanel' = OpenedDrawer(logPanel)
    /\ lines' = <<>>
    /\ logStreams' = Append(Cleanup(logStreams, stream), Sent(Subscribed(NewStream), "{}"))
    /\ stream' = Len(logStreams) + 1
    /\ UNCHANGED <<written, logBreaks>>

\* Backdrop or Escape: the template closes the panel only, the stream goes on.
Dismiss ==
    /\ InReach(logPanel)
    /\ logPanel' = ClosingDrawer(logPanel)
    /\ UNCHANGED <<logStreams, stream, lines, written, logBreaks>>

PanelTimer ==
    /\ logPanel.timers > 0
    /\ logPanel' = TimerFired(logPanel)
    /\ UNCHANGED <<logStreams, stream, lines, written, logBreaks>>

Navigate ==
    /\ OnScreen(logPanel)
    /\ logPanel' = NavigatedDrawer(logPanel)
    /\ UNCHANGED <<logStreams, stream, lines, written, logBreaks>>

\* A line arrives: it is put first, the list is cut at maxLines.
ShowLine(s) ==
    /\ logStreams[s].wire # <<>>
    /\ logStreams' = [logStreams EXCEPT ![s].wire = Tail(@)]
    /\ lines' = LET all == <<ParseLogLine(Head(logStreams[s].wire))>> \o lines
                IN SubSeq(all, 1, IF Len(all) < maxLines THEN Len(all) ELSE maxLines)
    /\ UNCHANGED <<logPanel, stream, written, logBreaks>>

\* Nothing is sent on connect: what open() sent is flushed if this is the first
\* socket of the stream and its first attempt.
LogConnect(s) ==
    /\ logStreams[s].phase = "connecting"
    /\ logStreams' = [logStreams EXCEPT ![s] = Opened(@, <<>>)]
    /\ UNCHANGED <<logPanel, stream, lines, written, logBreaks>>

LogBreak(s) ==
    /\ HasSocket(logStreams[s]) /\ logBreaks < MaxLogBreaks
    /\ logStreams' = [logStreams EXCEPT ![s] = Dropped(@)]
    /\ logBreaks' = logBreaks + 1
    /\ UNCHANGED <<logPanel, stream, lines, written>>

LogReconnect(s) ==
    /\ logStreams[s].phase = "waiting"
    /\ logStreams' = [logStreams EXCEPT ![s] = Reconnecting(@)]
    /\ UNCHANGED <<logPanel, stream, lines, written, logBreaks>>

\* The server writes a line: every running handler has a listener and passes the
\* line on; lines written before the handler started are not sent.
Write(level) ==
    /\ written < MaxWritten
    /\ written' = written + 1
    /\ logStreams' = [s \in DOMAIN logStreams |->
                         IF logStreams[s].request = Silent THEN logStreams[s]
                         ELSE [logStreams[s] EXCEPT
                                 !.wire = Append(@, [n |-> written', level |-> level])]]
    /\ UNCHANGED <<logPanel, stream, lines, logBreaks>>

LogNext ==
    \/ Open \/ Dismiss \/ PanelTimer \/ Navigate
    \/ \E s \in DOMAIN logStreams :
          ShowLine(s) \/ LogConnect(s) \/ LogBreak(s) \/ LogReconnect(s)
    \/ \E level \in Levels : Write(level)

LogSpec == LogInit /\ [][LogNext]_logVars

-----------------------------------------------------------------------------
LogTypeOK ==
    /\ logPanel \in DrawerType(MaxOpens + 2)
    /\ logStreams \in Seq(StreamType(LogLine, {"{}"})) /\ Len(logStreams) <= MaxOpens
    /\ stream \in 0..Len(logStreams)
    /\ Len(lines) <= maxLines
    /\ written \in 0..MaxWritten /\ logBreaks \in 0..MaxLogBreaks

\* Opening the drawer again and again, at any moment of a connection, never
\* leaves a second stream running: cleanupStream comes before streamLog.
OneLogStream ==
    \A s \in DOMAIN logStreams : Alive(logStreams[s]) => s = stream

\* What is displayed is one run of the log: every line once, the newest first,
\* nothing of an earlier opening between them, whatever connection it came by.
LinesInOrder ==
    \A i, j \in DOMAIN lines : i < j => lines[i].n > lines[j].n

\* What the reader of the log sees of this module, and what StreamPromise says of it: a line
\* comes by the newest stream only, and the list is emptied by open() and by nothing else.
LogPromise == INSTANCE StreamPromise WITH
    made <- Len(logStreams),
    running <- {s \in DOMAIN logStreams : Alive(logStreams[s])},
    content <- lines

LogPromiseKept == LogPromise!Spec
=============================================================================
