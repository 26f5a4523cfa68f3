------------------------ MODULE RouteGuidanceSystem ------------------------
(***************************************************************************)
(* The route guidance hook and the HMI over the bus.  Of the bus, what     *)
(* StickyChannel promises is kept: the HMI hears some of the frames, in    *)
(* order, and the newest, which a reconnect repeats.                       *)
(***************************************************************************)
EXTENDS RouteGuidanceView

VARIABLE unheard   \* the newest frame has not come to the HMI yet

vars == <<hookVars, view, unheard>>

Init == HookInit /\ ViewInit /\ unheard = FALSE

(* To be sent a frame again that has come already changes nothing.         *)
Hook ==
  /\ HookNext
  /\ unheard' = (sticky' # NoFrame /\ (unheard \/ sticky' # sticky))
  /\ UNCHANGED view

(* A frame comes live, or with the snapshot after a reconnect.             *)
Hears ==
  /\ sticky # NoFrame
  /\ view' = OnFrame(view, sticky)
  /\ unheard' = FALSE
  /\ UNCHANGED hookVars

(* The HMI starts anew: its state is empty and the snapshot comes again.   *)
HmiRestarts ==
  /\ view # NoView
  /\ view' = NoView
  /\ unheard' = (sticky # NoFrame)
  /\ UNCHANGED hookVars

Next == Hook \/ Hears \/ HmiRestarts

Spec == Init /\ [][Next]_vars

-----------------------------------------------------------------------------
(***************************************************************************)
(* The HMI merges frames that each carry only some keys and may miss any   *)
(* but the last.  Once it has heard the newest, what it lists is what the  *)
(* hook has in those slots, unless the hook has flushed them behind a zero *)
(* it holds back (rgd_hook.c:1365-1371).                                   *)
(***************************************************************************)
ShowsHooksSlots ==
  ~unheard /\ listPresent =>
    \A s \in Members(view.order) :
      view.man[s].idx = slotIdx[s] /\ view.man[s].ver = slotVer[s]

=============================================================================
