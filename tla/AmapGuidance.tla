---------------------------- MODULE AmapGuidance ----------------------------
(***************************************************************************)
(* When guidance begins and ends: the router before the route guidance     *)
(* (AmapRouteGuidance.java, AmapProtocolDetector.java and the soft-        *)
(* inactive hold of AmapV38Compat.java) and the gating behind it           *)
(* (RouteGuidance.onFrame()).  A source like Amap says 1/0/0, a route with *)
(* no maneuver that is not visible, in the middle of a route: the router   *)
(* holds the guidance, first as a probe, then, when progress shows what it *)
(* talks to, in a mode of its own, each with a timer that ends the hold.   *)
(*                                                                         *)
(* Frames and timers run under the route guidance's monitor, and so are    *)
(* steps.  A frame is a whole snapshot, as the hook sends it; what it says *)
(* besides the fields that decide about guidance is whether it shows       *)
(* progress and whether it is evidence of guidance.  Which maneuver the    *)
(* display keeps in the compatibility mode is left open.                   *)
(***************************************************************************)
EXTENDS Integers

Unknown == -1     \* the value -1
Absent == -2      \* a field that a frame does not have
NoRoute == [state |-> Unknown, count |-> 0, visible |-> Unknown,
            supports |-> Unknown]

VARIABLES
  mode,        \* "legacy", "probing", "v38"
  sourceName,  \* "", "amap", "other"
  activeRouteSeen,
  raw,         \* what the frames said last
  state,       \* what the route guidance was told
  rgActive, running,
  held,        \* softInactiveStartedMs is set
  graceOver,   \* softInactiveExpired
  fresh,       \* evidence since the soft timer last looked at its deadline
  committed,   \* there is a committed snapshot
  probing,     \* [on, threads]: probeTimerRunning, and the timer threads,
               \* those of the generation ("current") and older ones
  soft,        \* the same for the soft-inactive timer
  named,       \* history: visible_in_app was sent since the last disconnect
  last         \* history: what the last step was

routerVars == <<mode, sourceName, activeRouteSeen, raw, committed>>
holdVars == <<held, graceOver, fresh>>
timers == <<probing, soft>>
vars == <<routerVars, state, rgActive, running, holdVars, timers, named, last>>

NoTimer == [on |-> FALSE, threads |-> {}]

Init ==
  /\ mode = "legacy" /\ sourceName = "" /\ activeRouteSeen = FALSE
  /\ raw = NoRoute /\ state = NoRoute /\ rgActive = FALSE /\ running = FALSE
  /\ held = FALSE /\ graceOver = FALSE /\ fresh = FALSE /\ committed = FALSE
  /\ probing = NoTimer /\ soft = NoTimer
  /\ named = FALSE /\ last = "none"

\* A zero names no maneuver, and the hook keeps a field once iOS sent it.
Frames ==
  {f \in [state : 0..2, count : 0..1, visible : {Absent, 0, 1},
          supports : 0..1, source : {"", "amap", "other"},
          progress : BOOLEAN, evidence : BOOLEAN, disconnect : BOOLEAN] :
     /\ f.state = 0 => f.count = 0
     /\ f.disconnect => f.state = 0 /\ f.supports = 1 /\ f.visible = Absent
     /\ f.state = 0 \/ f.supports = 0 => ~f.progress /\ ~f.evidence}

-----------------------------------------------------------------------------
(* A timer is cancelled by a newer generation, for which its thread looks  *)
(* when it wakes.                                                          *)
Aged(threads) == IF threads = {} THEN {} ELSE {"old"}

Cancelled(t) == IF t.on THEN [on |-> FALSE, threads |-> Aged(t.threads)] ELSE t

Ensured(t) ==
  IF t.on THEN t
  ELSE [on |-> TRUE, threads |-> Aged(t.threads) \cup {"current"}]

-----------------------------------------------------------------------------
(* RouteGuidance.onFrame(): the fields are merged; if one that bears on it *)
(* has changed, guidance begins or ends.  `touch' stands for those outside *)
(* the model: the maneuver's state and its icon.                           *)

Want(s) ==
  /\ s.supports # 0 /\ s.state # 0
  /\ IF s.visible # Unknown THEN s.visible = 1 ELSE s.state >= 1 \/ s.count > 0

Gate(touch) ==
  rgActive' = IF state' # state \/ state'.state = 0 \/ touch THEN Want(state')
              ELSE rgActive

Main(s, count, visible, supports, touch) ==
  /\ state' = [state |-> s,
               count |-> IF count # Absent THEN count
                         ELSE IF s = 0 THEN 0 ELSE state.count,
               visible |-> IF visible # Absent THEN visible ELSE state.visible,
               supports |-> supports]
  /\ Gate(touch)

\* The frame as it came.
Forward(f) ==
  IF f.disconnect THEN state' = NoRoute /\ rgActive' = FALSE
  ELSE \E touch \in BOOLEAN :
         Main(f.state, f.count, f.visible, f.supports, touch)

(* protectProbeFrame(): an invisible route becomes one of unknown          *)
(* visibility, and no maneuvers become no word of maneuvers.               *)
ForwardProtected(f) ==
  \E touch \in BOOLEAN :
    Main(f.state, IF f.count = 0 THEN Absent ELSE f.count,
         IF f.visible = 0 THEN Unknown ELSE f.visible, f.supports, touch)

-----------------------------------------------------------------------------
(* The cases of AmapRouteGuidance.onFrame(), in its order.  raw' is the    *)
(* merged state.                                                           *)

SoftInactive(r) == r.state = 1 /\ r.count = 0 /\ r.visible = 0

\* v38.disable() and v38.reset().
Disable == held' = FALSE /\ graceOver' = FALSE
Cancel == probing' = Cancelled(probing) /\ soft' = Cancelled(soft)

SourceChanged(f) == mode # "legacy" /\ f.source = "other"

ReleaseSource(f) ==
  /\ SourceChanged(f)
  /\ Cancel /\ Disable /\ mode' = "legacy" /\ activeRouteSeen' = FALSE
  /\ Forward(f) /\ UNCHANGED committed

HardClear(f) == f.state = 0 \/ f.supports = 0 \/ f.disconnect

ClearHard(f) ==
  /\ ~SourceChanged(f) /\ HardClear(f)
  /\ Cancel /\ Disable /\ mode' = "legacy" /\ activeRouteSeen' = FALSE
  /\ committed' = FALSE /\ Forward(f)

Routed(f) == ~SourceChanged(f) /\ ~HardClear(f)

ObserveActiveRoute ==
  activeRouteSeen' = (activeRouteSeen \/ raw'.state > 1 \/ raw'.count > 0
                        \/ raw'.visible # 0)

ShouldBeginProbe ==
  sourceName' # "other" /\ activeRouteSeen' /\ SoftInactive(raw')

Legacy(f) ==
  /\ Routed(f) /\ mode = "legacy" /\ ObserveActiveRoute /\ ~ShouldBeginProbe
  /\ Forward(f) /\ UNCHANGED <<mode, committed, held, graceOver, timers>>

\* Mutant: the timer is left to the next frame.
BeginProbe_NoTimer(f) ==
  /\ Routed(f) /\ mode = "legacy" /\ ObserveActiveRoute /\ ShouldBeginProbe
  /\ mode' = "probing" /\ ForwardProtected(f)
  /\ UNCHANGED <<committed, held, graceOver, timers>>

BeginProbe(f) ==
  /\ Routed(f) /\ mode = "legacy" /\ ObserveActiveRoute /\ ShouldBeginProbe
  /\ mode' = "probing" /\ ForwardProtected(f)
  /\ probing' = Ensured(probing)
  /\ UNCHANGED <<committed, held, graceOver, soft>>

VisibleAgain(f) ==
  /\ Routed(f) /\ mode = "probing" /\ ObserveActiveRoute /\ raw'.visible = 1
  /\ probing' = Cancelled(probing) /\ Disable /\ mode' = "legacy"
  /\ Forward(f) /\ UNCHANGED <<committed, soft>>

Confirms(f) == raw'.visible # 1 /\ (f.state > 1 \/ f.count > 0 \/ f.progress)

KeepProbing(f) ==
  /\ Routed(f) /\ mode = "probing" /\ ObserveActiveRoute
  /\ raw'.visible # 1 /\ ~Confirms(f)
  /\ probing' = Ensured(probing) /\ ForwardProtected(f)
  /\ UNCHANGED <<mode, committed, held, graceOver, soft>>

(* v38.process() and normalizeActiveV38Visibility().  A soft-inactive      *)
(* frame is held: the committed snapshot goes out, or the frame without    *)
(* its visibility; after the grace it passes.  Else the frame goes out or  *)
(* is committed, or the committed snapshot is kept, and an invisible route *)
(* becomes one of unknown visibility.                                      *)
Hold(f, was) ==
  /\ held' = TRUE /\ graceOver' = FALSE /\ committed' = was
  /\ \E touch \in BOOLEAN :
       Main(f.state, IF was THEN 1 ELSE f.count,
            IF was \/ f.visible = 0 THEN Unknown ELSE f.visible,
            f.supports, touch)

Pass(f) == graceOver' = TRUE /\ Forward(f) /\ UNCHANGED <<held, committed>>

Display(f, was) ==
  /\ held' = FALSE /\ graceOver' = FALSE
  /\ committed' \in {was, was \/ f.count = 1}
  /\ \E touch \in BOOLEAN, kept \in {FALSE, committed'} :
       Main(f.state, IF kept THEN 1 ELSE f.count,
            IF raw'.visible = 0 THEN Unknown
            ELSE IF kept THEN raw'.visible ELSE f.visible,
            f.supports, touch)

\* process(), which finds the grace over or not, a commit or none.
Process(f, over, was) ==
  IF ~SoftInactive(raw') THEN Display(f, was)
  ELSE IF over THEN Pass(f) ELSE Hold(f, was)

\* syncSoftInactiveTimer()
SyncSoft ==
  soft' = IF held' /\ ~graceOver' THEN Ensured(soft) ELSE Cancelled(soft)

ConfirmV38(f) ==
  /\ Routed(f) /\ mode = "probing" /\ ObserveActiveRoute /\ Confirms(f)
  /\ mode' = "v38" /\ probing' = Cancelled(probing)
  /\ \E seeded \in {committed, committed \/ f.count = 1} :
       Process(f, FALSE, seeded)
  /\ SyncSoft

V38(f) ==
  /\ Routed(f) /\ mode = "v38" /\ ObserveActiveRoute
  /\ Process(f, graceOver, committed) /\ SyncSoft
  /\ UNCHANGED <<mode, probing>>

OnFrame(f) ==
  /\ running /\ (named /\ ~f.disconnect => f.visible # Absent)
  /\ sourceName' = IF f.source = "" THEN sourceName ELSE f.source
  /\ raw' = [state |-> f.state, count |-> f.count,
             visible |-> IF f.visible = Absent THEN raw.visible ELSE f.visible,
             supports |-> f.supports]
  /\ \/ ReleaseSource(f) \/ ClearHard(f) \/ Legacy(f) \/ BeginProbe(f)
     \/ VisibleAgain(f) \/ KeepProbing(f) \/ ConfirmV38(f) \/ V38(f)
  /\ fresh' = (held' /\ (f.evidence \/ fresh))
  /\ named' = (~f.disconnect /\ (named \/ f.visible # Absent))
  /\ last' = IF HardClear(f) \/ sourceName' = "other" THEN "clear" ELSE "frame"
  /\ UNCHANGED running

-----------------------------------------------------------------------------
(* The timers' threads wake, look whether they are still meant, and end    *)
(* the hold: the route guidance hears what was kept from it.               *)

WithoutThread(t, th) == [t EXCEPT !.threads = @ \ {th}]

\* Mutant: the probe ends without a word to the route guidance.
ProbeExpires_Silently ==
  /\ probing.on /\ mode = "probing"
  /\ probing' = [WithoutThread(probing, "current") EXCEPT !.on = FALSE]
  /\ mode' = "legacy" /\ Disable /\ last' = "probe"
  /\ UNCHANGED <<state, rgActive>>

ProbeExpires ==
  /\ probing.on /\ mode = "probing"
  /\ probing' = [WithoutThread(probing, "current") EXCEPT !.on = FALSE]
  /\ mode' = "legacy" /\ Disable /\ last' = "probe"
  /\ Main(raw.state, 0, 0, raw.supports, FALSE)

ProbeTimer(th) ==
  /\ th \in probing.threads
  /\ \/ th = "current" /\ ProbeExpires
     \/ /\ ~(th = "current" /\ probing.on /\ mode = "probing")
        /\ probing' = WithoutThread(probing, th) /\ last' = "frame"
        /\ UNCHANGED <<mode, held, graceOver, state, rgActive>>
  /\ UNCHANGED <<sourceName, activeRouteSeen, raw, committed, running, fresh,
                 soft, named>>

SoftExpires ==
  /\ soft.on /\ held /\ ~graceOver
  /\ IF fresh THEN UNCHANGED <<soft, held, graceOver, state, rgActive>>
     ELSE /\ soft' = [WithoutThread(soft, "current") EXCEPT !.on = FALSE]
          /\ graceOver' = TRUE /\ held' = FALSE
          /\ Main(1, 0, 0, raw.supports, FALSE)
  /\ fresh' = FALSE /\ last' = "soft"

SoftTimer(th) ==
  /\ th \in soft.threads
  /\ \/ th = "current" /\ SoftExpires
     \/ /\ ~(th = "current" /\ soft.on /\ held /\ ~graceOver)
        /\ soft' = WithoutThread(soft, th) /\ last' = "frame"
        /\ UNCHANGED <<holdVars, state, rgActive>>
  /\ UNCHANGED <<routerVars, running, probing, named>>

(* start() and stop(): the router forgets everything, the route guidance   *)
(* keeps its fields.                                                       *)
Restart(on) ==
  /\ running = ~on /\ running' = on
  /\ Cancel /\ Disable /\ mode' = "legacy" /\ sourceName' = ""
  /\ activeRouteSeen' = FALSE /\ raw' = NoRoute /\ committed' = FALSE
  /\ fresh' = FALSE /\ rgActive' = FALSE /\ named' = FALSE /\ last' = "clear"
  /\ UNCHANGED state

Next ==
  \/ \E f \in Frames : OnFrame(f)
  \/ \E th \in {"current", "old"} : ProbeTimer(th) \/ SoftTimer(th)
  \/ \E on \in BOOLEAN : Restart(on)

Spec == Init /\ [][Next]_vars

(* Timers run out.                                                         *)
Fairness == WF_vars(ProbeTimer("current")) /\ WF_vars(SoftTimer("current"))

FairSpec == Spec /\ Fairness

-----------------------------------------------------------------------------
(***************************************************************************)
(* In the legacy mode the route guidance believes what the phone said, as  *)
(* if there were no router, also when a probe or a hold has just ended and *)
(* its protected frames have to be made up for; and a source known to be   *)
(* another than Amap is always in that mode (AmapRouteGuidance.java:56-92, *)
(* 311-327; docs/ios27-amap-v38-merge.md:78).                              *)
(***************************************************************************)
LegacyIsMain ==
  /\ mode = "legacy" /\ named =>
       /\ state.state = raw.state /\ state.count = raw.count
       /\ state.visible = raw.visible
  /\ sourceName = "other" => mode = "legacy"
  /\ rgActive => Want(state)

(***************************************************************************)
(* While a route is probed or held, guidance ends only by a hard clear, by *)
(* another source or by a timer, and by the soft timer only when nothing   *)
(* was heard of the guidance since its deadline was set; and a phone that  *)
(* stays at 1/0/0 without evidence of guidance loses it in the end         *)
(* (AmapRouteGuidance.java:94-132, 236-309).                               *)
(***************************************************************************)
Graces ==
  /\ [][rgActive /\ ~rgActive' /\ mode # "legacy" =>
          \/ last' \in {"clear", "probe"}
          \/ last' = "soft" /\ ~fresh]_vars
  /\ SoftInactive(raw) /\ named /\ mode # "legacy"
       ~> ~rgActive \/ ~(SoftInactive(raw) /\ named) \/ fresh
=============================================================================
