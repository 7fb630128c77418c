--------------------------- MODULE StreamPromise ----------------------------
(***************************************************************************)
(* What a page that follows something on the server promises to the one    *)
(* who looks at it, free of sockets, retries and calls under way: one      *)
(* stream at a time, each begun on an emptied display, and none that was   *)
(* left ever runs again or adds anything.  Losing and regaining a          *)
(* connection is not seen here.  LogDrawer and RecordOverview are both     *)
(* shown to implement this module.                                         *)
(***************************************************************************)
EXTENDS Naturals, Sequences

VARIABLES made,     \* how many streams were begun
          running,  \* those that are running, by number
          content   \* what is displayed

vars == <<made, running, content>>

Init == made = 0 /\ running = {} /\ content = <<>>

\* Whatever ran before is over.
Begin ==
  /\ made' = made + 1
  /\ running' = {made'}
  /\ content' = <<>>

\* Something arrives: the display changes, and not into an empty one.
Show ==
  /\ running # {}
  /\ content' # <<>>
  /\ UNCHANGED <<made, running>>

\* The page goes; what was displayed last is of no concern.
End ==
  /\ running' = {}
  /\ UNCHANGED <<made, content>>

Next == Begin \/ Show \/ End

Spec == Init /\ [][Next]_vars
=============================================================================
