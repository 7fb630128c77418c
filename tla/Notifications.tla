--------------------------- MODULE Notifications ----------------------------
(***************************************************************************)
(* The service behind every message and the loading bar                    *)
(* (notify.service.ts), the interceptor that counts requests, and the      *)
(* components that show them: notification-container, error, loading.      *)
(***************************************************************************)
EXTENDS Filter, Naturals, Sequences, FiniteSets

CONSTANTS
    MaxVisible,     \* addNotification keeps this many (5)
    MaxToasts,      \* bound: how many notifications are added
    MaxRequests     \* bound: how many requests are under way at a time

ASSUME NotifyBounds ==
    MaxVisible \in Nat \ {0} /\ MaxToasts \in Nat /\ MaxRequests \in Nat

Kinds == {"info", "error"}

VARIABLES
    notifications,  \* the signal: items, oldest first
    toastTimers,    \* ids a timer of addNotification is running for
    added,          \* how many were added; an id is a number, the code's a UUID
    inFlight,       \* HTTP requests under way
    loadingCount,
    isLoading,      \* the signal
    overlay,        \* LoadingComponent's overlay has the bar attached
    detail          \* the dialog with an error's text, an id, 0 for none

notifyVars == <<notifications, toastTimers, added, inFlight, loadingCount, isLoading, overlay, detail>>
requestVars == <<inFlight, loadingCount, isLoading>>

NotifyInit ==
    /\ notifications = <<>> /\ toastTimers = {} /\ added = 0 /\ detail = 0
    /\ inFlight = 0 /\ loadingCount = 0 /\ isLoading = FALSE /\ overlay = FALSE

\* mutant: cut when there are more than one too many.
NewestLate(items, n) == IF Len(items) > n + 1 THEN SubSeq(items, Len(items) - n, Len(items)) ELSE items

Newest(items, n) == IF Len(items) > n THEN SubSeq(items, Len(items) - n + 1, Len(items)) ELSE items

\* mutant: no timer for a notification that takes another's place.
AddWithoutTimer(kind) ==
    /\ added < MaxToasts
    /\ added' = added + 1
    /\ notifications' = Newest(Append(notifications, [id |-> added', kind |-> kind]), MaxVisible)
    /\ toastTimers' = IF Len(notifications) = MaxVisible THEN toastTimers ELSE toastTimers \cup {added'}
    /\ UNCHANGED <<requestVars, overlay, detail>>

\* message() and error(): the oldest are dropped, their timers go on.
AddNotification(kind) ==
    /\ added < MaxToasts
    /\ added' = added + 1
    /\ notifications' = Newest(Append(notifications, [id |-> added', kind |-> kind]), MaxVisible)
    /\ toastTimers' = toastTimers \cup {added'}
    /\ UNCHANGED <<requestVars, overlay, detail>>

Without(id) ==
    Filtered(notifications, {i \in DOMAIN notifications : notifications[i].id # id})

\* dismissNotification, by the button of a toast.
DismissNotification(item) ==
    /\ notifications' = Without(item.id)
    /\ UNCHANGED <<toastTimers, added, requestVars, overlay, detail>>

\* ... and by its timer, of a notification that may be gone.
ToastTimer(id) ==
    /\ id \in toastTimers
    /\ toastTimers' = toastTimers \ {id}
    /\ notifications' = Without(id)
    /\ UNCHANGED <<added, requestVars, overlay, detail>>

\* The button is there for more than one notification.
DismissAll ==
    /\ Len(notifications) > 1
    /\ notifications' = <<>>
    /\ UNCHANGED <<toastTimers, added, requestVars, overlay, detail>>

\* presentErrorDetailModal: the dialog stays when the toast goes.
ShowDetail(item) ==
    /\ item.kind = "error" /\ detail = 0
    /\ detail' = item.id
    /\ UNCHANGED <<notifications, toastTimers, added, requestVars, overlay>>

CloseDetail ==
    /\ detail # 0
    /\ detail' = 0
    /\ UNCHANGED <<notifications, toastTimers, added, requestVars, overlay>>

\* The interceptor: loading() before the request, dismiss() when it ends, with
\* an answer, an error, or because nobody waits for it any more.
RequestStarts ==
    /\ inFlight < MaxRequests
    /\ inFlight' = inFlight + 1
    /\ loadingCount' = loadingCount + 1
    /\ isLoading' = TRUE
    /\ UNCHANGED <<notifications, toastTimers, added, overlay, detail>>

Decremented == IF loadingCount > 0 THEN loadingCount - 1 ELSE 0

\* mutant: the bar goes with the first request that ends.
RequestEndsBar ==
    /\ inFlight > 0
    /\ inFlight' = inFlight - 1
    /\ loadingCount' = Decremented
    /\ isLoading' = FALSE
    /\ UNCHANGED <<notifications, toastTimers, added, overlay, detail>>

RequestEnds ==
    /\ inFlight > 0
    /\ inFlight' = inFlight - 1
    /\ loadingCount' = Decremented
    /\ isLoading' = IF Decremented = 0 THEN FALSE ELSE isLoading
    /\ UNCHANGED <<notifications, toastTimers, added, overlay, detail>>

\* LoadingComponent's effect runs some time after the signal has changed.
LoadingEffect ==
    /\ overlay # isLoading
    /\ overlay' = isLoading
    /\ UNCHANGED <<notifications, toastTimers, added, requestVars, detail>>

NotifyNext ==
    \/ \E kind \in Kinds : AddNotification(kind)
    \/ \E i \in DOMAIN notifications :
          DismissNotification(notifications[i]) \/ ShowDetail(notifications[i])
    \/ \E id \in 1..MaxToasts : ToastTimer(id)
    \/ DismissAll \/ CloseDetail \/ RequestStarts \/ RequestEnds \/ LoadingEffect

\* Timers fire; effects run.
NotifyFairness ==
    /\ \A id \in 1..MaxToasts : WF_notifyVars(ToastTimer(id))
    /\ WF_notifyVars(LoadingEffect)

NotifySpec == NotifyInit /\ [][NotifyNext]_notifyVars /\ NotifyFairness

-----------------------------------------------------------------------------
NotifyTypeOK ==
    /\ notifications \in Seq([id: 1..MaxToasts, kind: Kinds]) /\ Len(notifications) <= MaxVisible
    /\ toastTimers \subseteq 1..MaxToasts /\ added \in 0..MaxToasts
    /\ inFlight \in 0..MaxRequests /\ loadingCount \in 0..MaxRequests
    /\ isLoading \in BOOLEAN /\ overlay \in BOOLEAN /\ detail \in 0..MaxToasts

\* "True while any request is in flight" (notify.service.ts:21), however
\* requests overlap and end.
LoadingWhileInFlight == isLoading <=> inFlight > 0

\* Nothing stays on the screen for good: a notification that outlives the ones
\* it pushed out, or comes when the stack is full, goes as well.
ToastsGo == \A id \in 1..MaxToasts :
    (\E i \in DOMAIN notifications : notifications[i].id = id)
        ~> (\A i \in DOMAIN notifications : notifications[i].id # id)
=============================================================================
