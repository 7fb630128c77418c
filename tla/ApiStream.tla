----------------------------- MODULE ApiStream ------------------------------
(***************************************************************************)
(* One websocket stream of the browser client: what ApiService.stream      *)
(* (global/services/api/api.service.ts) returns, as a value and the        *)
(* operators that change it.  A page holds such values in its state and    *)
(* applies an operator in each of its steps.                               *)
(*                                                                         *)
(* phase     "cold"        returned, nobody has subscribed to messages$    *)
(*           "connecting"  a socket was created and is being opened        *)
(*           "open"        the socket is open                              *)
(*           "waiting"     the socket is gone, the timer of retry or       *)
(*                         repeat is running                               *)
(*           "closed"      close() was called                              *)
(* queue     what was sent while the socket is being opened; the           *)
(*           WebSocketSubject keeps it and flushes it on open              *)
(* request   the message the server answers on this connection, Silent     *)
(*           when none reached it: the server starts a streaming handler   *)
(*           with the first message of a connection                        *)
(* wire      messages the server wrote to this connection and the browser  *)
(*           has not handled yet                                           *)
(*                                                                         *)
(* The delays of retry and repeat are not modelled: a timer fires at any   *)
(* time after it was started.  Retries are unlimited (no caller passes     *)
(* maxRetries), so messages$ never fails and the error callbacks of the    *)
(* pages are never called.                                                 *)
(***************************************************************************)
EXTENDS Sequences

Silent == "silent"

NewStream == [phase |-> "cold", queue |-> <<>>, request |-> Silent, wire |-> <<>>]

\* The connection is gone with everything in it.
Disconnected(s, phase) ==
    [s EXCEPT !.phase = phase, !.queue = <<>>, !.request = Silent, !.wire = <<>>]

\* The first subscription to messages$ creates the socket (defer); a later
\* one shares it (shareReplay).
Subscribed(s) == IF s.phase = "cold" THEN [s EXCEPT !.phase = "connecting"] ELSE s

\* The last subscriber has left: shareReplay's refCount tears the source down.
Unsubscribed(s) ==
    IF s.phase = "closed" THEN s ELSE Disconnected(s, "cold")

\* send(): outgoing$ is a Subject.  Without a socket nobody listens to it and
\* the message is gone.
Sent(s, m) ==
    CASE s.phase = "connecting" -> [s EXCEPT !.queue = Append(@, m)]
      [] s.phase = "open"       -> [s EXCEPT !.request = IF @ = Silent THEN m ELSE @]
      [] OTHER                  -> s

\* The socket opens.  openObserver runs first: what the subscribers of
\* connect$ send joins the queue, then the queue is flushed.
Opened(s, greetings) ==
    LET flushed == s.queue \o greetings
    IN [s EXCEPT !.phase = "open", !.queue = <<>>,
                 !.request = IF flushed = <<>> THEN Silent ELSE Head(flushed)]

\* The socket fails to open, fails, or is closed by the server: retry (errors)
\* or repeat (clean ends) starts its timer.
Dropped(s) == Disconnected(s, "waiting")

\* The timer fires: the source is subscribed again and creates a new socket.
Reconnecting(s) == [s EXCEPT !.phase = "connecting"]

\* close(): kill$ ends the retries and the subscription to the socket.
Closed(s) == Disconnected(s, "closed")

\* A socket exists in one of these phases, and one may exist again in Alive.
HasSocket(s) == s.phase \in {"connecting", "open"}
Alive(s) == s.phase \in {"connecting", "open", "waiting"}

StreamType(messages, requests) ==
    [phase: {"cold", "connecting", "open", "waiting", "closed"},
     queue: Seq(requests), request: requests \cup {Silent}, wire: Seq(messages)]
=============================================================================
