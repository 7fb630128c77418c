------------------------------- MODULE Drawer -------------------------------
(***************************************************************************)
(* The side panel every form is shown in (components/drawer), as a value   *)
(* and the operators that change it.                                       *)
(*                                                                         *)
(* overlay   "none"      reference is null                                 *)
(*           "shown"     the overlay is on the screen, also while it       *)
(*                       slides out                                        *)
(*           "disposed"  the browser's back or forward button disposed the *)
(*                       overlay (disposeOnNavigation), reference is kept  *)
(* timers    how many times close() has started its 240 ms timer           *)
(***************************************************************************)
EXTENDS Naturals

NewDrawer == [overlay |-> "none", timers |-> 0]

MaxSlides == 2      \* bound: timers under way while the user still acts on the drawer

DrawerType(maxTimers) ==
    [overlay: {"none", "shown", "disposed"}, timers: 0..maxTimers]

\* open() returns early while there is a reference, whatever became of its overlay.
OpenedDrawer(d) == IF d.overlay = "none" THEN [d EXCEPT !.overlay = "shown"] ELSE d

\* close() starts a timer on every call and never cancels one.
ClosingDrawer(d) == IF d.overlay = "none" THEN d ELSE [d EXCEPT !.timers = @ + 1]

\* The timer disposes whatever reference is set when it fires.
TimerFired(d) == [overlay |-> "none", timers |-> d.timers - 1]

\* Back or forward in the browser.
NavigatedDrawer(d) == IF d.overlay = "shown" THEN [d EXCEPT !.overlay = "disposed"] ELSE d

OnScreen(d) == d.overlay = "shown"

\* What is in the drawer can be used until it is disposed, also while it slides
\* out; what is behind it is reached with the keyboard at any time.
InReach(d) == OnScreen(d) /\ d.timers < MaxSlides
=============================================================================
