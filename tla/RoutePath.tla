------------------------------ MODULE RoutePath ------------------------------
(***************************************************************************)
(* c_render/route_path.c: the arrays a route goes through on its way to    *)
(* the screen.  Lines and arcs become points, points a mesh, the mesh      *)
(* batches of vertices; each array has a fixed size and takes no more when *)
(* it is full, so that a route too long for one would lose its end.        *)
(*                                                                         *)
(* A segment is its heading and how far it turns, as a leg of              *)
(* JunctionRoads is; what is counted is an upper bound where it depends on *)
(* exact coordinates.                                                      *)
(***************************************************************************)
EXTENDS JunctionRoads

MaxSegs  == 48      \* RPATH_MAX_SEGS
MaxPts   == 480     \* RPATH_MAX_PTS
MaxMesh  == 7200    \* RMESH_MAX_VERTS
MaxVerts == 1200    \* the vertex buffer of render.c

Segment(heading, turn) == [heading |-> heading, turn |-> turn]
IsArc(seg) == seg.turn # 0
EndOf(seg) == seg.heading + seg.turn

(* rpath_add_line() and rpath_add_arc()                                    *)
AddSegment(segs, seg) ==
  IF Len(segs) >= MaxSegs THEN segs ELSE Append(segs, seg)

Segments(legs) ==
  FoldLeft(AddSegment, << >>,
           [i \in DOMAIN legs |-> Segment(legs[i].heading, legs[i].turn)])

(* Between two segments that meet at an angle an arc is put in, and arcs   *)
(* are shortened for it: on the ring by 14 degrees, or 45 percent of it.   *)
Deflection(a, b) == AngleDist((EndOf(a) - b.heading) % 360, 0)

Trim(seg) ==
  LET most == (45 * AbsOf(seg.turn)) \div 100
      by == IF most < 14 THEN most ELSE 14
  IN IF seg.turn < 0 THEN -by ELSE by

(* rpath_fillet_junctions(), build_filleted_path()                         *)
Fillet(segs) ==
  LET Join(done, seg) ==
        LET prev == Last(done)
            alpha == Deflection(prev, seg)
            bend == IF (seg.heading - EndOf(prev)) % 360 <= 180 THEN alpha ELSE -alpha
        IN IF Len(done) >= MaxSegs - 2 \/ alpha <= 5 \/ alpha >= 175
           THEN Append(done, seg)
           ELSE Front(done) \o
                <<Segment(prev.heading, prev.turn - Trim(prev)),
                  Segment(EndOf(prev), bend),
                  Segment(seg.heading + Trim(seg), seg.turn - Trim(seg))>>
  IN IF Len(segs) < 2 THEN segs ELSE FoldLeft(Join, <<segs[1]>>, Tail(segs))

(* rpath_extend()                                                          *)
Extend(segs) ==
  IF Len(segs) < 1 \/ Len(segs) + 2 > MaxSegs THEN segs
  ELSE <<Segment(segs[1].heading, 0)>> \o segs
         \o <<Segment(EndOf(Last(segs)), 0)>>

(* rpath_xform_append()                                                    *)
XformAppend(segs, more, rot) ==
  FoldLeft(AddSegment, segs,
           [i \in DOMAIN more |-> Segment(more[i].heading + rot, more[i].turn)])

(* rpath_densify(): an arc has a point for every three degrees.  Segments  *)
(* share the point in which they meet.                                     *)
\* Mutant: an arc has a point for every two degrees.
Steps_Two(seg) ==
  IF ~IsArc(seg) THEN 1
  ELSE LET n == AbsOf(seg.turn) \div 2 + 1 IN IF n < 2 THEN 2 ELSE n

Steps(seg) ==
  IF ~IsArc(seg) THEN 1
  ELSE LET n == AbsOf(seg.turn) \div 3 + 1 IN IF n < 2 THEN 2 ELSE n

Points(segs) == 1 + FoldLeft(LAMBDA n, seg : n + Steps(seg), 0, segs)

(* rpath_extrude_partial(): a top and two walls for each two points, a     *)
(* round join where two segments meet at an angle -- and where a shortened *)
(* arc meets a fillet it is no longer quite the tangent of -- two caps,    *)
(* and the tip, in a morph both of its forms.                              *)
Quad == 6
RoundJoin(alpha) ==
  LET fans == IF alpha < 17 THEN 3 ELSE IF alpha < 57 THEN 5 ELSE 8
  IN fans * (3 + Quad) + 2 * Quad
Joint(a, b) ==
  CASE IsArc(a) /\ IsArc(b) -> RoundJoin(17)
    [] ~(IsArc(a) /\ IsArc(b)) /\ Deflection(a, b) >= 2 -> RoundJoin(Deflection(a, b))
    [] OTHER -> 0
Arrow == 24
Bulb  == 16 * 9

MeshVerts(segs) ==
  (Points(segs) - 1) * 3 * Quad
    + FoldLeft(LAMBDA n, i : n + Joint(segs[i], segs[i + 1]), 0,
               [i \in 1..Len(segs) - 1 |-> i])
    + 2 * Quad + Arrow + Bulb

(* rpath_draw(): the mesh in batches of whole triangles.                   *)
Batch(left) == LET n == IF left > MaxVerts THEN MaxVerts ELSE left IN (n \div 3) * 3

-----------------------------------------------------------------------------
(* The primitives of render.c, each with its own use of the buffer.        *)

ClampTo(n, lo, hi) == IF n < lo THEN lo ELSE IF n > hi THEN hi ELSE n

ThickLineVerts == 5 * Quad
RectVerts      == 5 * Quad
DiscVerts(n)   == ClampTo(n, 3, 64) * (3 + Quad)
ArcVerts(n)    == ClampTo(n, 1, 64) * 3 * Quad

(* What the masks are painted with.                                        *)
RingSeg == 64
UturnSeg == 16
ArriveSeg == 24
JointSeg == 32
PrimitiveVerts(road) ==
  CASE road = "spoke"  -> ThickLineVerts
    [] road = "lane"   -> ThickLineVerts
    [] road = "slant"  -> DiscVerts(JointSeg)
    [] road = "bow"    -> ArcVerts(UturnSeg)
    [] road = "ring"   -> ArcVerts(RingSeg)
    [] road = "marker" -> ArcVerts(ArriveSeg)

-----------------------------------------------------------------------------
RouteAlone(m) == Extend(Fillet(Segments(BuildRoute(m))))

(* compute_combined_transform(): the second route is turned until its      *)
(* start carries on the end of the first; where it is put is left out.     *)
Rotation(m, n) == EndOf(Last(RouteAlone(m))) - RouteAlone(n)[1].heading

RouteJoined(m, n) == XformAppend(RouteAlone(m), RouteAlone(n), Rotation(m, n))

(***************************************************************************)
(* No array cuts a route short: the segments, points and mesh of any two   *)
(* maneuvers joined for a transition fit, each batch of it and each        *)
(* primitive of their roads fits the vertex buffer, and the batches leave  *)
(* nothing over (route_path.c:81, 101, 176; render.c:436).                 *)
(***************************************************************************)
JoinedFits(m, n) ==
  LET path == RouteJoined(m, n)
  IN /\ Len(path) = Len(RouteAlone(m)) + Len(RouteAlone(n))
     /\ Points(path) <= MaxPts
     /\ MeshVerts(path) <= MaxMesh
     /\ (MeshVerts(path) % MaxVerts) % 3 = 0
     /\ \A r \in DrawMask(m).roads : PrimitiveVerts(r.road) <= MaxVerts
=============================================================================
