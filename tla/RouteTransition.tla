--------------------------- MODULE RouteTransition ---------------------------
(***************************************************************************)
(* The distances of a transition (c_render/maneuver.c: maneuver_draw() and *)
(* the camera; route_path.c: the height of the route).  Two routes, each   *)
(* with an extension before and after it, are joined to one path, and the  *)
(* arrow's head moves along it from where it rests on the first to where   *)
(* it will rest on the second.  Then the second is drawn alone: nothing    *)
(* may jump.                                                               *)
(*                                                                         *)
(* A transition is the length of its first and second route, the slide it  *)
(* starts from -- 1, or 0 if the first was never slid in -- and whether    *)
(* each route is lifted where it crosses itself.  Lengths are thousandths; *)
(* a middle is kept as the sum of its two ends.                            *)
(***************************************************************************)
EXTENDS Integers

Ext        == 500     \* ROUTE_EXTEND, and HEIGHT_ENTRY_DIST
RampDist   == 1500    \* HEIGHT_RAMP_DIST
XfadeHalf  == 200     \* XFADE_HALF
ExitReach  == 350     \* maneuver_exit_road_reach()
EntryReach == 300     \* maneuver_entry_road_reach()
MinRoute   == 400     \* the straight arrow is 500 long
MaxRoute   == 2300    \* a full round is 2250 long

AtLeast(a, b) == IF a < b THEN b ELSE a
AtMost(a, b)  == IF a > b THEN b ELSE a
Within(n, lo, hi) == AtMost(AtLeast(n, lo), hi)

Transition(slug, next, start, lifts, nextLifts) ==
  [slug |-> slug, next |-> next, start |-> start, lifts |-> lifts, nextLifts |-> nextLifts]

(* The path: extension, route, extension; and the same again.              *)
Total(t) == t.slug + t.next + 4 * Ext

\* Mutant: the second ramp begins where the first route ends.
Restart_Early(t) == t.slug + Ext

Restart(t) == t.slug + 2 * Ext

\* Where the head rests on a route alone.
RestingHead(len) == Ext + len

-----------------------------------------------------------------------------
(* The window: maneuver_draw() with compute_slide_params().                *)

StartHead(t) == Within(Ext + t.start * t.slug, 0, t.slug + 2 * Ext)
StartTail(t) == AtLeast(StartHead(t) - t.slug, 0)

EndHead(t) == Total(t) - Ext
EndTail(t) == EndHead(t) - t.next

\* Twice the way of the window's middle.
Way(t) == AtLeast((EndTail(t) + EndHead(t)) - (StartTail(t) + StartHead(t)), 20)

(* The slide's new target, start + way / slug, is still more than 1.5,     *)
(* which is how maneuver_is_pushing() knows a push.                        *)
StillPushing(t) == 2 * (t.start * t.slug) + Way(t) > 3 * t.slug

-----------------------------------------------------------------------------
(* spatial_xfade(), from 0, all of the first junction's roads, to          *)
(* 4 * XfadeHalf, all of the second's.                                     *)

CurZoneEnd(t)    == Ext + t.slug + ExitReach
NextZoneStart(t) == AtLeast(Total(t) - Ext - t.next - EntryReach, CurZoneEnd(t))
XfadeMid(t)      == CurZoneEnd(t) + NextZoneStart(t)

\* Mutant: the middle is that of the whole path.
Xfade_Path(t, head) ==
  Within(2 * head - Total(t) + 2 * XfadeHalf, 0, 4 * XfadeHalf)

Xfade(t, head) ==
  Within(2 * head - XfadeMid(t) + 2 * XfadeHalf, 0, 4 * XfadeHalf)

(* update_combined_camera(): it comes up to the head, follows it, and      *)
(* leaves for the next junction.                                           *)
FollowEnd(t) == t.slug + 3 * Ext
IntroEnd(t) ==
  AtMost(AtLeast(StartHead(t) + (3 * t.slug) \div 10, StartHead(t)), FollowEnd(t))
Camera(t, head) ==
  CASE head <= IntroEnd(t) -> "intro"
    [] head > IntroEnd(t) /\ head <= FollowEnd(t) -> "follow"
    [] head > IntroEnd(t) /\ head > FollowEnd(t) -> "release"

-----------------------------------------------------------------------------
(* rpath_extrude_partial(): the height of the route at a distance, in      *)
(* parts of RampDist; the blend down to the second ramp is smooth.         *)

Ramp(d) == Within(d - Ext, 0, RampDist)

LiftAlone(lifts, d) == IF lifts THEN Ramp(d) ELSE 0

Smooth(tenths) == tenths * tenths * (30 - 2 * tenths)     \* of 1000

Lift(t, d) ==
  IF d >= Restart(t) THEN LiftAlone(t.nextLifts, d - Restart(t))
  ELSE IF d > Restart(t) - Ext
  THEN LET tenths == (d - (Restart(t) - Ext)) \div 50
       IN (LiftAlone(t.lifts, d) * (1000 - Smooth(tenths))) \div 1000
  ELSE LiftAlone(t.lifts, d)

-----------------------------------------------------------------------------
(***************************************************************************)
(* The push is not taken for finished before it is: retargeting the slide  *)
(* in the first frame (maneuver.c:2316-2317) leaves it a push.             *)
(***************************************************************************)
PushLasts(t) == StillPushing(t) /\ StartHead(t) < EndHead(t)

(***************************************************************************)
(* The crossfade begins with all of the first junction and ends with all   *)
(* of the second, so that the frame after the commit, which draws only the *)
(* second, shows no other roads (maneuver.c:2256-2267, 208-224).           *)
(***************************************************************************)
RoadsHandOver(t) ==
  /\ Xfade(t, StartHead(t)) = 0
  /\ Xfade(t, EndHead(t)) = 4 * XfadeHalf

(***************************************************************************)
(* The head comes to rest where it does on the second route alone, and the *)
(* route is there as high, from the second route's start on                *)
(* (maneuver.c:2246-2249, 2290; route_path.c:390-427).                     *)
(***************************************************************************)
LandsAtRest(t) ==
  /\ EndHead(t) - Restart(t) = RestingHead(t.next)
  /\ \A d \in {0, Ext, Ext + t.next \div 2, RestingHead(t.next)} :
       Lift(t, Restart(t) + d) = LiftAlone(t.nextLifts, d)

(***************************************************************************)
(* Up to there the first route is as high as it was alone, and its         *)
(* extension, on which it comes down, is no higher and ends on the ground. *)
(***************************************************************************)
ComesDown(t) ==
  /\ \A d \in {0, Ext, Ext + t.slug \div 2, RestingHead(t.slug)} :
       Lift(t, d) = LiftAlone(t.lifts, d)
  /\ \A k \in 0..10 :
       Lift(t, RestingHead(t.slug) + 50 * k) <= LiftAlone(t.lifts, RestingHead(t.slug) + 50 * k)
  /\ Lift(t, Restart(t)) = 0

(***************************************************************************)
(* The camera takes its three parts in order and none is left out: it has  *)
(* come up to the head before it follows, and leaves before the end.       *)
(***************************************************************************)
CameraInOrder(t) ==
  /\ Camera(t, StartHead(t)) = "intro" /\ Camera(t, EndHead(t)) = "release"
  /\ StartHead(t) <= IntroEnd(t) /\ IntroEnd(t) < FollowEnd(t)

(* route_draw_with_fade(): the tail fades in over the first 350, in 24     *)
(* slices, each a piece of the route with an alpha of its own; the rest is *)
(* one piece.  Ends are in 24ths.                                          *)
TailFade == 350       \* ROUTE_TAIL_FADE_DIST
Slices   == 24        \* ROUTE_TAIL_FADE_SLICES

Piece(from, to, cap, tip) == [from |-> from, to |-> to, cap |-> cap, tip |-> tip]

Pieces(head) ==
  LET fade == AtMost(TailFade, head)
  IN {Piece(fade * i, fade * (i + 1), i = 0, i = Slices - 1 /\ fade >= head) :
        i \in IF fade > 0 THEN 0..(Slices - 1) ELSE {}}
     \cup (IF fade < head THEN {Piece(Slices * fade, Slices * head, FALSE, TRUE)} ELSE {})

(***************************************************************************)
(* The pieces are one route: each begins where another ends, one has the   *)
(* cap at its start and one, which ends at the head, the tip               *)
(* (maneuver.c:868-896).                                                   *)
(***************************************************************************)
OneRoute(head) ==
  LET p == Pieces(head)
  IN /\ {x.from : x \in p} \ {0} = {x.to : x \in p} \ {Slices * head}
     /\ \A x \in p : (x.cap <=> x.from = 0) /\ (x.tip <=> x.to = Slices * head)
     /\ head > 0 => \E x \in p : x.tip

TransitionSound(t) ==
  /\ PushLasts(t) /\ RoadsHandOver(t) /\ LandsAtRest(t) /\ ComesDown(t)
  /\ CameraInOrder(t)
  /\ \A head \in {0, TailFade - 1, TailFade, TailFade + 1, StartHead(t), EndHead(t)} :
       OneRoute(head)
=============================================================================
