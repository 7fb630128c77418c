--------------------------- MODULE AddressStreams ---------------------------
(***************************************************************************)
(* The current public address as the browser shows it: the address card    *)
(* of the home page (sections/address-card) and the toolbar of the         *)
(* application (app.ts), each with a stream of its own, and the handler    *)
(* StreamAddress (pkg/web/api/address.go) that serves them.                *)
(*                                                                         *)
(* An address is the id of its row, 0 is "no current address".  The rows   *)
(* are numbered in the order in which they become current.                 *)
(***************************************************************************)
EXTENDS ApiStream, Naturals

CONSTANTS
    MaxAddress,     \* bound: how many addresses become current
    MaxBreaks       \* bound: how often a connection or an attempt fails

ASSUME AddressBounds == MaxAddress \in Nat \ {0} /\ MaxBreaks \in Nat

Followers == {"card", "toolbar"}

VARIABLES
    current,        \* the current address of the database
    feed,           \* feed[f]: the stream of follower f
    served,         \* served[f]: `current` of f's handler, the address it last sent
    shown,          \* shown[f]: the signal address / currentAddress of f
    connected,      \* the card's Live badge
    refreshing,     \* the card's refresh call: "idle", "asked", "answered"
    cardAlive,      \* the home page is displayed
    breaks

addressVars ==
    <<current, feed, served, shown, connected, refreshing, cardAlive, breaks>>

Mounted(f) == f = "toolbar" \/ cardAlive

AddressInit ==
    /\ current \in 0..1
    /\ feed = [f \in Followers |-> Subscribed(NewStream)]
    /\ served = [f \in Followers |-> 0]
    /\ shown = [f \in Followers |-> 0]
    /\ connected = FALSE
    /\ refreshing = "idle"
    /\ cardAlive = TRUE
    /\ breaks = 0

-----------------------------------------------------------------------------
(* The browser.                                                            *)

\* mutant: the request is sent once, when the page is made, as the log drawer does.
ConnectSilently(f) ==
    /\ feed[f].phase = "connecting"
    /\ feed' = [feed EXCEPT ![f] = Opened(@, <<>>)]
    /\ served' = [served EXCEPT ![f] = 0]
    /\ connected' = (connected \/ f = "card")
    /\ UNCHANGED <<current, shown, refreshing, cardAlive, breaks>>

\* The socket opens; the connect$ subscriber sends the request again, and the
\* card turns its badge to Live.
Connect(f) ==
    /\ feed[f].phase = "connecting"
    /\ feed' = [feed EXCEPT ![f] = Opened(@, << "{}" >>)]
    /\ served' = [served EXCEPT ![f] = 0]
    /\ connected' = (connected \/ f = "card")
    /\ UNCHANGED <<current, shown, refreshing, cardAlive, breaks>>

\* mutant: terminate$ is not observed.
BreakUnnoticed(f) ==
    /\ HasSocket(feed[f]) /\ breaks < MaxBreaks
    /\ feed' = [feed EXCEPT ![f] = Dropped(@)]
    /\ breaks' = breaks + 1
    /\ UNCHANGED <<current, served, shown, connected, refreshing, cardAlive>>

\* A connection, or the attempt to open one, fails or is ended by the server.
\* The close event reaches terminate$ and the badge turns to Offline.
Break(f) ==
    /\ HasSocket(feed[f]) /\ breaks < MaxBreaks
    /\ feed' = [feed EXCEPT ![f] = Dropped(@)]
    /\ connected' = (connected /\ f # "card")
    /\ breaks' = breaks + 1
    /\ UNCHANGED <<current, served, shown, refreshing, cardAlive>>

Reconnect(f) ==
    /\ feed[f].phase = "waiting"
    /\ feed' = [feed EXCEPT ![f] = Reconnecting(@)]
    /\ UNCHANGED <<current, served, shown, connected, refreshing, cardAlive, breaks>>

\* A message arrives: toSignal keeps the last one.
Receive(f) ==
    /\ feed[f].wire # <<>>
    /\ shown' = [shown EXCEPT ![f] = Head(feed[f].wire)]
    /\ feed' = [feed EXCEPT ![f].wire = Tail(@)]
    /\ UNCHANGED <<current, served, connected, refreshing, cardAlive, breaks>>

\* The user leaves the home page: ngOnDestroy closes the card's stream.
LeaveHome ==
    /\ cardAlive
    /\ cardAlive' = FALSE
    /\ feed' = [feed EXCEPT !["card"] = Closed(@)]
    /\ UNCHANGED <<current, served, shown, connected, refreshing, breaks>>

\* The user comes back: a new component with signals and a stream of its own.
\* An answer to the refresh of the old one has no effect on it.
EnterHome ==
    /\ ~cardAlive
    /\ cardAlive' = TRUE
    /\ feed' = [feed EXCEPT !["card"] = Subscribed(NewStream)]
    /\ shown' = [shown EXCEPT !["card"] = 0]
    /\ connected' = FALSE
    /\ refreshing' = "idle"
    /\ UNCHANGED <<current, served, breaks>>

\* "Refresh now", disabled while a refresh runs.
Refresh ==
    /\ cardAlive /\ refreshing = "idle"
    /\ refreshing' = "asked"
    /\ UNCHANGED <<current, feed, served, shown, connected, cardAlive, breaks>>

RefreshAnswered ==
    /\ cardAlive /\ refreshing = "answered"
    /\ refreshing' = "idle"
    /\ UNCHANGED <<current, feed, served, shown, connected, cardAlive, breaks>>

-----------------------------------------------------------------------------
(* The server.                                                             *)

\* A refresh makes a new address current: started by the scheduler, or by the
\* card's call, which is answered whether or not the address changed.
NewAddress ==
    /\ current < MaxAddress
    /\ current' = current + 1
    /\ UNCHANGED <<feed, served, shown, connected, refreshing, cardAlive, breaks>>

RefreshRuns ==
    /\ refreshing = "asked"
    /\ refreshing' = "answered"
    /\ \/ current < MaxAddress /\ current' = current + 1
       \/ UNCHANGED current
    /\ UNCHANGED <<feed, served, shown, connected, cardAlive, breaks>>

\* The handler finds another address than the one it sent last.
Push(f) ==
    /\ feed[f].request # Silent
    /\ current # 0 /\ served[f] # current
    /\ served' = [served EXCEPT ![f] = current]
    /\ feed' = [feed EXCEPT ![f].wire = Append(@, current)]
    /\ UNCHANGED <<current, shown, connected, refreshing, cardAlive, breaks>>

\* Without a current address the query fails, the handler returns the error and
\* the connection is closed.
ServeError(f) ==
    /\ feed[f].request # Silent /\ current = 0
    /\ feed' = [feed EXCEPT ![f] = Dropped(@)]
    /\ connected' = (connected /\ f # "card")
    /\ UNCHANGED <<current, served, shown, refreshing, cardAlive, breaks>>

AddressNext ==
    \/ \E f \in Followers :
          Connect(f) \/ Break(f) \/ Reconnect(f) \/ Receive(f) \/ Push(f) \/ ServeError(f)
    \/ LeaveHome \/ EnterHome \/ Refresh \/ RefreshAnswered
    \/ NewAddress \/ RefreshRuns

\* Timers fire, sockets open or fail, messages in transit arrive and handlers
\* poll.  Nothing is assumed of the user, of the address or of failures.
AddressFairness ==
    \A f \in Followers :
        /\ WF_addressVars(Connect(f)) /\ WF_addressVars(Reconnect(f))
        /\ WF_addressVars(Receive(f)) /\ WF_addressVars(Push(f))

AddressSpec == AddressInit /\ [][AddressNext]_addressVars /\ AddressFairness

-----------------------------------------------------------------------------
AddressTypeOK ==
    /\ current \in 0..MaxAddress /\ breaks \in 0..MaxBreaks
    /\ feed \in [Followers -> StreamType(0..MaxAddress, {"{}"})]
    /\ served \in [Followers -> 0..MaxAddress]
    /\ shown \in [Followers -> 0..MaxAddress]
    /\ connected \in BOOLEAN /\ cardAlive \in BOOLEAN
    /\ refreshing \in {"idle", "asked", "answered"}

\* The badge of the card says Live exactly while its socket is open, whatever
\* failed in between (connect$ and terminate$ of api.service.ts).
BadgeIsHonest == cardAlive => (connected <=> feed["card"].phase = "open")

\* A page that stays displayed ends up with the current address, also after
\* connections failed: the stream reconnects, and the request is sent again on
\* every connection.
AddressFollowed ==
    \A f \in Followers :
        [](current # 0 => <>(shown[f] = current \/ ~Mounted(f)))
=============================================================================
