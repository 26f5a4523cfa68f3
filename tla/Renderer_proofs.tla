-------------------------- MODULE Renderer_proofs --------------------------
(***************************************************************************)
(* The renderer for every set of maneuvers and bars and any number of      *)
(* commands on their way, deaths and changes: FeedInv is inductive, and    *)
(* NothingStale follows from it.                                           *)
(***************************************************************************)
EXTENDS RendererSystem, SequenceTheorems, TLAPS

EngineFields == DOMAIN NewEngine

LinkTypeOK ==
  /\ proc \in {"none", "starting", "connected", "drawing"}
  /\ conn \in {"none", "live", "dead", "noted"}
  /\ host \in {"off", "launching", "prepared", "preloading", "waiting", "exposed", "started"}
  /\ DOMAIN eng = EngineFields
  /\ pipe \in Seq(Commands)
  /\ events \in Seq({"READY", "FRAME_READY"})
  /\ want \in Maneuvers \cup {NoManeuver}
  /\ snap \subseteq Bars

(* Java's connection is live as long as the process it was accepted from;  *)
(* a process that does not draw yet has drawn nothing; only a new launch   *)
(* makes another process.                                                  *)
OneProcess ==
  /\ conn = "live" <=> proc \in {"connected", "drawing"}
  /\ proc # "drawing" => got = {} /\ eng = NewEngine
  /\ proc \in {"none", "starting"} => pipe = << >>
  /\ host = "off" => proc = "none"
  /\ host \in {"exposed", "started"} => proc \in {"none", "drawing"}

-----------------------------------------------------------------------------
(* What is on its way between the two.                                     *)

NoFrames == \A i \in 1 .. Len(events) : events[i] # "FRAME_READY"

NoPreloads ==
  /\ \A i \in 1 .. Len(pipe) : pipe[i].cmd # "PRELOAD"
  /\ \A c \in got : c.cmd # "PRELOAD"

(* The preload Java waits for: the maneuver it last sent, with the bar it  *)
(* was sent with.  It is the last command on its way, or the one the turn  *)
(* will apply.                                                             *)
ThePreload(c) ==
  /\ c.cmd = "PRELOAD" /\ c.man = lastCr
  /\ \A b \in snap : c.bar = b

OnTheWay ==
  /\ pipe # << >> /\ ThePreload(pipe[Len(pipe)])
  /\ \A i \in 1 .. Len(pipe) - 1 : pipe[i].cmd # "PRELOAD"
  /\ \A c \in got : c.cmd # "PRELOAD"

TakenIn ==
  /\ pipe = << >>
  /\ \E c \in got : got = {c} /\ ThePreload(c)

NothingComes == pipe = << >> /\ got = {}

-----------------------------------------------------------------------------
(* The engine.                                                             *)

(* No frame is to be announced: the first one of the process has been, or  *)
(* nothing was drawn and only a preload can begin it.                      *)
Settled ==
  /\ ~eng.frame
  /\ eng.cur # NoManeuver => eng.announced
  /\ eng.cur = NoManeuver =>
       /\ eng.phase = "IDLE" /\ ~eng.lit
       /\ \A i \in 1 .. Len(pipe) : pipe[i].cmd = "PRELOAD"
       /\ \A c \in got : c.cmd = "PRELOAD"

(* The preload is drawn, dark, and its frame announced.                    *)
Preloaded ==
  /\ eng.preload /\ eng.cur = lastCr /\ eng.phase = "IDLE"
  /\ ~eng.lit /\ ~eng.frame /\ eng.announced
  /\ eng.late
  /\ \A b \in snap : eng.lateBar = b

(* A window that is in the context though nothing is started is one of a   *)
(* process launched after a death, which has drawn nothing.                *)
DarkInContext == ctx = 74 => eng.cur = NoManeuver

(* Java has yet to see the frame it waits for, and no other will come.     *)
Unseen == NoFrames /\ ~frameReady /\ Settled /\ DarkInContext

FrameNoted == frameReady /\ NoFrames
FrameOnTheWay ==
  /\ ~frameReady /\ events # << >> /\ events[Len(events)] = "FRAME_READY"
  /\ \A i \in 1 .. Len(events) - 1 : events[i] # "FRAME_READY"

(* The frame was announced, once, and nothing else happens to the engine.  *)
Announced ==
  /\ conn \in {"live", "dead"} /\ proc \in {"none", "drawing"}
  /\ NothingComes
  /\ proc = "drawing" => Preloaded
  /\ FrameNoted \/ FrameOnTheWay

-----------------------------------------------------------------------------
(* What holds while Java is at each place.                                 *)

Launching  == NoFrames /\ NothingComes /\ Settled /\ eng.cur = NoManeuver
Prepared   == NoFrames /\ NoPreloads /\ Settled /\ DarkInContext
Preloading == want # NoManeuver /\ Unseen /\ NoPreloads
Waiting    == /\ lastCr # NoManeuver
              /\ \/ Unseen /\ (NoPreloads \/ OnTheWay \/ TakenIn)
                 \/ Announced
Exposed    == /\ lastCr # NoManeuver
              /\ NoFrames /\ NothingComes
              /\ proc = "drawing" => Preloaded

(* START is on its way to the preload, or the preload's bar is on.         *)
StartComes == Len(pipe) = 1 /\ pipe[1].cmd = "START" /\ Preloaded
BarIsOn(b) == pipe = << >> /\ eng.bar = b /\ ~eng.late

Started ==
  /\ NoFrames /\ NoPreloads /\ Settled
  /\ proc = "drawing" =>
       /\ eng.cur # NoManeuver
       /\ \A b \in snap : got = {} /\ (StartComes \/ BarIsOn(b))

ByHost ==
  /\ host = "launching"  => Launching
  /\ host = "prepared"   => Prepared
  /\ host = "preloading" => Preloading
  /\ host = "waiting"    => Waiting
  /\ host = "exposed"    => Exposed
  /\ host = "started"    => Started

FeedInv == LinkTypeOK /\ OneProcess /\ ByHost

-----------------------------------------------------------------------------
(* The engine's operators.                                                 *)

LEMMA NewEngineIs ==
  /\ NewEngine.cur = NoManeuver /\ NewEngine.phase = "IDLE"
  /\ ~NewEngine.lit /\ ~NewEngine.frame
  /\ EngineFields = {"cur", "next", "pend", "phase", "anim", "settle", "preload", "frame",
                     "announced", "lit", "bar", "late", "lateBar"}
BY DEF NewEngine, EngineFields

LEMMA AtOnceKeeps ==
  ASSUME NEW e, DOMAIN e = EngineFields, NEW c
  PROVE  LET f == AtOnce(e, c) IN
         /\ DOMAIN f = EngineFields
         /\ f.cur = e.cur /\ f.frame = e.frame /\ f.announced = e.announced
         /\ c.cmd # "START" => /\ f.phase = e.phase /\ f.lit = e.lit
                               /\ c.cmd # "BARGRAPH" => f = e
BY NewEngineIs DEF AtOnce, StartPreloaded, SettleBar, StartAnim

(* START puts the preload's bar on.                                        *)
LEMMA StartSettlesBar ==
  ASSUME NEW e, DOMAIN e = EngineFields, e.preload, e.late, NEW c, c.cmd = "START"
  PROVE  AtOnce(e, c).bar = e.lateBar /\ ~AtOnce(e, c).late
BY NewEngineIs DEF AtOnce, StartPreloaded, SettleBar, StartAnim

LEMMA TickKeeps ==
  ASSUME NEW e, DOMAIN e = EngineFields
  PROVE  LET f == Tick(e) IN
         /\ DOMAIN f = EngineFields
         /\ f.frame = e.frame /\ f.announced = e.announced
         /\ e.cur # NoManeuver => f.cur # NoManeuver
         /\ e.phase = "IDLE" => f = e
         /\ ~e.late => f.bar = e.bar /\ ~f.late
BY NewEngineIs DEF Tick, Commit, Promote, Push, StartPush, SettleBar

LEMMA DrawnKeeps ==
  ASSUME NEW e, DOMAIN e = EngineFields, NEW ends
  PROVE  LET f == Drawn(e, ends) IN
         /\ DOMAIN f = EngineFields
         /\ f.cur = e.cur /\ f.phase = e.phase /\ f.preload = e.preload /\ f.lit = e.lit
         /\ f.bar = e.bar /\ f.late = e.late /\ f.lateBar = e.lateBar
         /\ IF Announces(e) THEN ~f.frame /\ f.announced
            ELSE f.frame = e.frame /\ f.announced = e.announced
BY NewEngineIs DEF Drawn

LEMMA ManeuverKeeps ==
  ASSUME NEW e, DOMAIN e = EngineFields, NEW c, c.cmd # "PRELOAD"
  PROVE  LET f == ApplyLatest(e, c) IN
         /\ DOMAIN f = EngineFields
         /\ f.frame = e.frame /\ f.announced = e.announced
         /\ e.cur # NoManeuver => f.cur # NoManeuver
BY NewEngineIs DEF ApplyLatest, NoteBar, ApplyManeuver, ColdStart, Enqueue, Push, StartAnim,
   StartPush

LEMMA PreloadMakes ==
  ASSUME NEW e, DOMAIN e = EngineFields, NEW c, c.cmd = "PRELOAD"
  PROVE  LET f == ApplyLatest(e, c) IN
         /\ DOMAIN f = EngineFields
         /\ f.preload /\ f.frame /\ f.cur = c.man /\ f.phase = "IDLE" /\ ~f.lit
         /\ f.late /\ f.lateBar = c.bar
BY NewEngineIs DEF ApplyLatest, NoteBar, PreloadManeuver, SetSlide

-----------------------------------------------------------------------------
(* The renderer's steps.                                                   *)

LEMMA InitFeed == Init => FeedInv
BY NewEngineIs
   DEF Init, RenderInit, FeedInit, FeedInv, LinkTypeOK, OneProcess, ByHost, EngineFields

LEMMA ReadCmdInv ==
  ASSUME FeedInv, ReadCmd, UNCHANGED feedVars
  PROVE  FeedInv'
<1>0. PICK c : c = Head(pipe)
  OBVIOUS
<1>1. /\ proc = "drawing" /\ conn = "live" /\ pipe \in Seq(Commands) /\ pipe # << >>
      /\ eng' = AtOnce(eng, c) /\ pipe' = Tail(pipe)
      /\ got' = IF IsManeuver(c) THEN {c} ELSE got
      /\ UNCHANGED <<proc, events, conn, rendererReady, frameReady>>
      /\ UNCHANGED <<host, ctx, want, lastCr, snap>>
  BY <1>0 DEF ReadCmd, FeedInv, LinkTypeOK, feedVars
<1>2. /\ c = pipe[1] /\ Len(pipe) \in Nat /\ Len(pipe) > 0
      /\ pipe' \in Seq(Commands) /\ Len(pipe') = Len(pipe) - 1
      /\ \A i \in 1 .. Len(pipe') : pipe'[i] = pipe[i + 1] /\ i + 1 \in 1 .. Len(pipe)
  BY <1>0, <1>1
<1>3. /\ DOMAIN eng' = EngineFields
      /\ eng'.cur = eng.cur /\ eng'.frame = eng.frame /\ eng'.announced = eng.announced
      /\ c.cmd = "PRELOAD" => eng' = eng
  BY <1>1, AtOnceKeeps DEF FeedInv, LinkTypeOK
<1>4. LinkTypeOK'
  BY <1>1, <1>2, <1>3 DEF FeedInv, LinkTypeOK
<1>5. OneProcess'
  BY <1>1 DEF FeedInv, OneProcess
<1>6. NoPreloads => NoPreloads'
  BY <1>1, <1>2 DEF NoPreloads
<1>7. Settled => Settled'
  BY <1>1, <1>2, <1>3 DEF Settled
<1>8. NoFrames' = NoFrames
  BY <1>1 DEF NoFrames
<1>9. CASE host = "launching" \/ host = "exposed"
  BY <1>1, <1>9 DEF FeedInv, ByHost, Launching, Exposed, NothingComes
<1>10. CASE host = "prepared"
  BY <1>1, <1>3, <1>4, <1>5, <1>6, <1>7, <1>8, <1>10
     DEF FeedInv, ByHost, Prepared, DarkInContext
<1>11. CASE host = "preloading"
  BY <1>1, <1>3, <1>4, <1>5, <1>6, <1>7, <1>8, <1>11
     DEF FeedInv, ByHost, Preloading, Unseen, DarkInContext
<1>12. CASE host = "waiting"
  <2>1. Unseen /\ (NoPreloads \/ OnTheWay) /\ lastCr # NoManeuver
    BY <1>1, <1>12 DEF FeedInv, ByHost, Waiting, TakenIn, Announced, NothingComes
  <2>2. Unseen'
    BY <1>1, <1>3, <1>7, <1>8, <2>1 DEF Unseen, DarkInContext
  <2>3. ASSUME OnTheWay PROVE OnTheWay' \/ TakenIn'
    <3>1. CASE Len(pipe) = 1
      <4>1. ThePreload(c)' /\ c.cmd = "PRELOAD"
        BY <1>1, <1>2, <2>3, <3>1 DEF OnTheWay, ThePreload
      <4>2. pipe' = << >> /\ got' = {c}
        BY <1>1, <1>2, <3>1, <4>1 DEF IsManeuver
      <4> QED
        BY <1>1, <4>1, <4>2 DEF TakenIn, ThePreload
    <3>2. CASE Len(pipe) # 1
      <4>1. pipe' # << >> /\ pipe'[Len(pipe')] = pipe[Len(pipe)]
        BY <1>2, <3>2
      <4>2. \A i \in 1 .. Len(pipe') - 1 : pipe'[i].cmd # "PRELOAD"
        BY <1>2, <2>3 DEF OnTheWay
      <4>3. c.cmd # "PRELOAD"
        BY <1>2, <2>3, <3>2 DEF OnTheWay
      <4> QED
        BY <1>1, <2>3, <4>1, <4>2, <4>3 DEF OnTheWay, ThePreload
    <3> QED
      BY <3>1, <3>2
  <2> QED
    BY <1>1, <1>4, <1>5, <1>6, <1>12, <2>1, <2>2, <2>3 DEF FeedInv, ByHost, Waiting
<1>13. CASE host = "started"
  <2>1. NoFrames /\ NoPreloads /\ Settled /\ eng.cur # NoManeuver
    BY <1>1, <1>13 DEF FeedInv, ByHost, Started
  <2>2. ASSUME NEW b \in snap PROVE got' = {} /\ BarIsOn(b)'
    <3>1. got = {} /\ StartComes
      BY <1>1, <1>13 DEF FeedInv, ByHost, Started, BarIsOn
    <3>2. c.cmd = "START" /\ pipe' = << >>
      BY <1>1, <1>2, <3>1 DEF StartComes
    <3>3. eng'.bar = eng.lateBar /\ ~eng'.late
      BY <1>1, <3>1, <3>2, StartSettlesBar DEF StartComes, Preloaded, FeedInv, LinkTypeOK
    <3> QED
      BY <1>1, <3>1, <3>2, <3>3 DEF IsManeuver, BarIsOn, StartComes, Preloaded
  <2> QED
    BY <1>1, <1>3, <1>4, <1>5, <1>6, <1>7, <1>8, <1>13, <2>1, <2>2
       DEF FeedInv, ByHost, Started
<1>14. CASE host = "off"
  BY <1>1, <1>14 DEF FeedInv, OneProcess
<1> QED
  BY <1>9, <1>10, <1>11, <1>12, <1>13, <1>14 DEF FeedInv, LinkTypeOK

(* A turn that applies no preload announces nothing.                       *)
LEMMA TurnStaysSettled ==
  ASSUME FeedInv, NEW ends, EndTurn(ends), Settled, \A c \in got : c.cmd # "PRELOAD"
  PROVE  /\ Settled' /\ events' = events
         /\ IF eng.cur = NoManeuver THEN eng'.cur = NoManeuver ELSE eng'.cur # NoManeuver
<1>1. PICK e1 : /\ IF got = {} THEN e1 = eng ELSE \E c \in got : e1 = ApplyLatest(eng, c)
                /\ eng' = Drawn(Tick(e1), ends)
                /\ events' = IF Announces(Tick(e1)) THEN Append(events, "FRAME_READY")
                             ELSE events
  BY DEF EndTurn
<1>2. DOMAIN eng = EngineFields /\ got' = {} /\ pipe' = pipe
  BY DEF FeedInv, LinkTypeOK, EndTurn
<1>3. /\ DOMAIN e1 = EngineFields
      /\ ~e1.frame /\ e1.announced = eng.announced
      /\ eng.cur # NoManeuver => e1.cur # NoManeuver
  <2>1. CASE got = {}
    BY <1>1, <1>2, <2>1 DEF Settled
  <2>2. CASE got # {}
    BY <1>1, <1>2, <2>2, ManeuverKeeps DEF Settled
  <2> QED
    BY <2>1, <2>2
<1>4. CASE eng.cur = NoManeuver
  <2>1. e1 = eng
    BY <1>1, <1>4 DEF Settled
  <2>2. Tick(e1) = eng
    BY <1>2, <1>4, <2>1, TickKeeps DEF Settled
  <2>3. ~Announces(eng)
    BY <1>4 DEF Announces
  <2> QED
    BY <1>1, <1>2, <1>4, <2>2, <2>3, DrawnKeeps DEF Settled
<1>5. CASE eng.cur # NoManeuver
  <2>1. /\ DOMAIN Tick(e1) = EngineFields
        /\ Tick(e1).cur # NoManeuver /\ ~Tick(e1).frame /\ Tick(e1).announced
    BY <1>3, <1>5, TickKeeps DEF Settled
  <2>2. ~Announces(Tick(e1))
    BY <2>1 DEF Announces
  <2> QED
    BY <1>1, <1>2, <1>5, <2>1, <2>2, DrawnKeeps DEF Settled
<1> QED
  BY <1>4, <1>5

(* A turn with nothing to apply leaves a preload as it was drawn.          *)
LEMMA TurnKeepsPreload ==
  ASSUME FeedInv, NEW ends, EndTurn(ends), got = {}, UNCHANGED feedVars, Preloaded
  PROVE  Preloaded' /\ events' = events
<1>1. /\ eng' = Drawn(Tick(eng), ends)
      /\ events' = IF Announces(Tick(eng)) THEN Append(events, "FRAME_READY") ELSE events
  BY DEF EndTurn
<1>2. Tick(eng) = eng /\ ~Announces(eng) /\ DOMAIN eng = EngineFields
  BY TickKeeps DEF Preloaded, FeedInv, LinkTypeOK, Announces
<1> QED
  BY <1>1, <1>2, DrawnKeeps DEF Preloaded, feedVars

(* The turn that applies the preload announces its frame.                  *)
LEMMA TurnDrawsPreload ==
  ASSUME FeedInv, NEW ends, EndTurn(ends), TakenIn, lastCr # NoManeuver, UNCHANGED feedVars
  PROVE  Preloaded' /\ events' = Append(events, "FRAME_READY")
<1>1. PICK c \in got : got = {c} /\ ThePreload(c)
  BY DEF TakenIn
<1> DEFINE e == ApplyLatest(eng, c)
<1>2. /\ eng' = Drawn(Tick(e), ends)
      /\ events' = IF Announces(Tick(e)) THEN Append(events, "FRAME_READY") ELSE events
  BY <1>1 DEF EndTurn
<1>3. /\ DOMAIN e = EngineFields
      /\ e.preload /\ e.frame /\ e.cur = lastCr /\ e.phase = "IDLE" /\ ~e.lit
      /\ e.late /\ e.lateBar = c.bar
  BY <1>1, PreloadMakes DEF ThePreload, FeedInv, LinkTypeOK
<1> HIDE DEF e
<1>4. Tick(e) = e /\ Announces(e)
  BY <1>3, TickKeeps DEF Announces
<1> QED
  BY <1>1, <1>2, <1>3, <1>4, DrawnKeeps DEF Preloaded, ThePreload, feedVars

LEMMA EndTurnInv ==
  ASSUME FeedInv, NEW ends, EndTurn(ends), UNCHANGED feedVars
  PROVE  FeedInv'
<1>1. /\ proc = "drawing" /\ conn = "live" /\ got' = {}
      /\ UNCHANGED <<proc, pipe, conn, rendererReady, frameReady>>
      /\ UNCHANGED <<host, ctx, want, lastCr, snap>>
  BY DEF EndTurn, feedVars
<1>2. DOMAIN eng' = EngineFields /\ events' \in Seq({"READY", "FRAME_READY"})
  <2>1. PICK e1 : /\ IF got = {} THEN e1 = eng ELSE \E c \in got : e1 = ApplyLatest(eng, c)
                  /\ eng' = Drawn(Tick(e1), ends)
                  /\ events' = events \/ events' = Append(events, "FRAME_READY")
    BY DEF EndTurn
  <2>2. DOMAIN e1 = EngineFields
    BY <2>1, ManeuverKeeps, PreloadMakes DEF FeedInv, LinkTypeOK
  <2>3. DOMAIN Tick(e1) = EngineFields
    BY <2>2, TickKeeps
  <2>4. DOMAIN eng' = EngineFields
    BY <2>1, <2>3, DrawnKeeps
  <2>5. events' \in Seq({"READY", "FRAME_READY"})
    BY <2>1 DEF FeedInv, LinkTypeOK
  <2> QED
    BY <2>4, <2>5
<1>3. LinkTypeOK'
  BY <1>1, <1>2 DEF FeedInv, LinkTypeOK
<1>4. OneProcess'
  BY <1>1 DEF FeedInv, OneProcess
<1>5. NoPreloads => NoPreloads'
  BY <1>1 DEF NoPreloads
<1>6. ASSUME NoPreloads PROVE \A c \in got : c.cmd # "PRELOAD"
  BY <1>6 DEF NoPreloads
<1>7. ASSUME events' = events PROVE NoFrames' = NoFrames
  BY <1>7 DEF NoFrames
<1>8. CASE host = "launching"
  <2>1. Settled' /\ events' = events /\ eng'.cur = NoManeuver /\ Launching
    BY <1>8, TurnStaysSettled DEF FeedInv, ByHost, Launching, NothingComes
  <2> QED
    BY <1>1, <1>3, <1>4, <1>7, <1>8, <2>1 DEF FeedInv, ByHost, Launching, NothingComes
<1>9. CASE host = "prepared"
  BY <1>1, <1>3, <1>4, <1>5, <1>6, <1>7, <1>9, TurnStaysSettled
     DEF FeedInv, ByHost, Prepared, DarkInContext
<1>10. CASE host = "preloading"
  BY <1>1, <1>3, <1>4, <1>5, <1>6, <1>7, <1>10, TurnStaysSettled
     DEF FeedInv, ByHost, Preloading, Unseen, DarkInContext
<1>11. CASE host = "waiting"
  <2>1. CASE Unseen /\ (NoPreloads \/ OnTheWay)
    <3>1. \A c \in got : c.cmd # "PRELOAD"
      BY <1>6, <2>1 DEF OnTheWay
    <3>2. Unseen'
      BY <1>1, <1>7, <2>1, <3>1, TurnStaysSettled DEF Unseen, DarkInContext
    <3>3. OnTheWay => OnTheWay'
      BY <1>1 DEF OnTheWay, ThePreload
    <3> QED
      BY <1>1, <1>3, <1>4, <1>5, <1>11, <2>1, <3>2, <3>3 DEF FeedInv, ByHost, Waiting
  <2>2. CASE Unseen /\ TakenIn
    <3>1. Preloaded' /\ events' = Append(events, "FRAME_READY") /\ pipe = << >>
      BY <1>11, <2>2, TurnDrawsPreload DEF FeedInv, ByHost, Waiting, TakenIn
    <3>2. FrameOnTheWay'
      BY <1>1, <2>2, <3>1 DEF FrameOnTheWay, Unseen, NoFrames, FeedInv, LinkTypeOK
    <3> QED
      BY <1>1, <1>3, <1>4, <1>11, <3>1, <3>2
         DEF FeedInv, ByHost, Waiting, Announced, NothingComes
  <2>3. CASE Announced
    <3>1. Preloaded' /\ events' = events
      BY <1>1, <2>3, TurnKeepsPreload DEF Announced, NothingComes
    <3> QED
      BY <1>1, <1>3, <1>4, <1>7, <1>11, <2>3, <3>1
         DEF FeedInv, ByHost, Waiting, Announced, NothingComes, FrameNoted, FrameOnTheWay
  <2> QED
    BY <1>11, <2>1, <2>2, <2>3 DEF FeedInv, ByHost, Waiting
<1>12. CASE host = "exposed"
  <2>1. Preloaded' /\ events' = events
    BY <1>1, <1>12, TurnKeepsPreload DEF FeedInv, ByHost, Exposed, NothingComes
  <2> QED
    BY <1>1, <1>3, <1>4, <1>7, <1>12, <2>1 DEF FeedInv, ByHost, Exposed, NothingComes
<1>13. CASE host = "started"
  <2>1. Settled' /\ events' = events /\ eng'.cur # NoManeuver
    BY <1>1, <1>6, <1>13, TurnStaysSettled DEF FeedInv, ByHost, Started
  <2>2. ASSUME NEW b \in snap PROVE StartComes' \/ BarIsOn(b)'
    <3>1. got = {} /\ (StartComes \/ BarIsOn(b))
      BY <1>1, <1>13 DEF FeedInv, ByHost, Started
    <3>2. CASE StartComes
      BY <1>1, <3>1, <3>2, TurnKeepsPreload DEF StartComes
    <3>3. CASE BarIsOn(b)
      <4>1. eng' = Drawn(Tick(eng), ends) /\ DOMAIN eng = EngineFields
        BY <3>1 DEF EndTurn, FeedInv, LinkTypeOK
      <4> QED
        BY <1>1, <3>3, <4>1, TickKeeps, DrawnKeeps DEF BarIsOn
    <3> QED
      BY <3>1, <3>2, <3>3
  <2> QED
    BY <1>1, <1>3, <1>4, <1>5, <1>7, <1>13, <2>1, <2>2 DEF FeedInv, ByHost, Started
<1>14. CASE host = "off"
  BY <1>1, <1>14 DEF FeedInv, OneProcess
<1> QED
  BY <1>8, <1>9, <1>10, <1>11, <1>12, <1>13, <1>14 DEF FeedInv, LinkTypeOK

(* A process that was just launched, or none.                              *)
Fresh == eng = NewEngine /\ got = {} /\ pipe = << >> /\ NoFrames

LEMMA FreshHost ==
  Fresh => /\ Launching /\ Prepared /\ Settled
           /\ want # NoManeuver /\ ~frameReady => Preloading
           /\ lastCr # NoManeuver /\ ~frameReady => Waiting
BY NewEngineIs DEF Fresh, Launching, Prepared, Preloading, Waiting, Settled, Unseen,
   DarkInContext, NoPreloads, NothingComes

LEMMA FreshHostNext ==
  Fresh' => /\ Launching' /\ Prepared' /\ Settled'
            /\ want' # NoManeuver /\ ~frameReady' => Preloading'
            /\ lastCr' # NoManeuver /\ ~frameReady' => Waiting'
<1>1. (Fresh => /\ Launching /\ Prepared /\ Settled
                /\ want # NoManeuver /\ ~frameReady => Preloading
                /\ lastCr # NoManeuver /\ ~frameReady => Waiting)'
  BY FreshHost, PTL
<1> QED
  BY <1>1

LEMMA ConnectInv ==
  ASSUME FeedInv, Connect, UNCHANGED feedVars
  PROVE  FeedInv'
<1>1. /\ proc = "starting" /\ proc' = "connected" /\ conn' = "live"
      /\ pipe' = << >> /\ events' = << >> /\ frameReady' = FALSE
      /\ UNCHANGED <<eng, got>> /\ UNCHANGED <<host, ctx, want, lastCr, snap>>
  BY DEF Connect, feedVars
<1>2. eng = NewEngine /\ got = {} /\ host \notin {"off", "exposed", "started"}
  BY <1>1 DEF FeedInv, OneProcess
<1>3. Fresh'
  BY <1>1, <1>2 DEF Fresh, NoFrames
<1>4. ByHost'
  BY <1>1, <1>2, <1>3, FreshHostNext DEF FeedInv, ByHost, Preloading, Waiting
<1> QED
  BY <1>1, <1>2, <1>4 DEF FeedInv, LinkTypeOK, OneProcess

LEMMA MarkReadyInv ==
  ASSUME FeedInv, MarkReady, UNCHANGED feedVars
  PROVE  FeedInv'
<1>1. /\ proc = "connected" /\ conn = "live" /\ proc' = "drawing"
      /\ events' = Append(events, "READY")
      /\ UNCHANGED <<eng, got, pipe, conn, frameReady>>
      /\ UNCHANGED <<host, ctx, want, lastCr, snap>>
  BY DEF MarkReady, linkVars, feedVars
<1>2. events \in Seq({"READY", "FRAME_READY"})
  BY DEF FeedInv, LinkTypeOK
<1>3. events' \in Seq({"READY", "FRAME_READY"}) /\ (NoFrames => NoFrames')
  BY <1>1, <1>2 DEF NoFrames
<1>4. host \notin {"off", "exposed", "started"}
  BY <1>1 DEF FeedInv, OneProcess
<1>5. /\ Settled' = Settled /\ NoPreloads' = NoPreloads
      /\ OnTheWay' = OnTheWay /\ TakenIn' = TakenIn
  BY <1>1 DEF Settled, NoPreloads, OnTheWay, TakenIn, ThePreload
<1>6. ByHost'
  BY <1>1, <1>3, <1>4, <1>5 DEF FeedInv, ByHost, Launching, Prepared, Preloading, Waiting,
     Unseen, DarkInContext, NothingComes, Announced
<1> QED
  BY <1>1, <1>3, <1>4, <1>6 DEF FeedInv, LinkTypeOK, OneProcess

LEMMA DieInv ==
  ASSUME FeedInv, Die, UNCHANGED feedVars
  PROVE  FeedInv'
<1>1. /\ proc # "none" /\ proc' = "none" /\ eng' = NewEngine /\ got' = {} /\ pipe' = << >>
      /\ conn' = IF conn = "live" THEN "dead" ELSE conn
      /\ UNCHANGED <<events, frameReady>> /\ UNCHANGED <<host, ctx, want, lastCr, snap>>
  BY DEF Die, feedVars
<1>2. LinkTypeOK' /\ OneProcess'
  BY <1>1 DEF FeedInv, LinkTypeOK, OneProcess, EngineFields
<1>3. NoFrames => Fresh'
  BY <1>1 DEF Fresh, NoFrames
<1>4. CASE host \in {"launching", "prepared", "preloading"}
  BY <1>1, <1>2, <1>3, <1>4, FreshHostNext
     DEF FeedInv, ByHost, Launching, Prepared, Preloading, Unseen
<1>5. CASE host = "waiting" /\ Unseen
  BY <1>1, <1>2, <1>3, <1>5, FreshHostNext DEF FeedInv, ByHost, Waiting, Unseen
<1>6. CASE host = "waiting" /\ Announced
  <2>1. Announced'
    BY <1>1, <1>6 DEF FeedInv, OneProcess, Announced, NothingComes, FrameNoted,
       FrameOnTheWay, NoFrames
  <2> QED
    BY <1>1, <1>2, <1>6, <2>1 DEF FeedInv, ByHost, Waiting
<1>7. CASE host = "exposed"
  BY <1>1, <1>2, <1>7 DEF FeedInv, ByHost, Exposed, NothingComes, NoFrames
<1>8. CASE host = "started"
  <2>1. Fresh'
    BY <1>3, <1>8 DEF FeedInv, ByHost, Started
  <2> QED
    BY <1>1, <1>2, <1>8, <2>1, FreshHostNext DEF FeedInv, ByHost, Started, Prepared, Fresh
<1> QED
  BY <1>1, <1>4, <1>5, <1>6, <1>7, <1>8 DEF FeedInv, LinkTypeOK, OneProcess, ByHost, Waiting

LEMMA ReadEventInv ==
  ASSUME FeedInv, ReadEvent, UNCHANGED feedVars
  PROVE  FeedInv'
<1>1. /\ events \in Seq({"READY", "FRAME_READY"}) /\ events # << >>
      /\ events' = Tail(events)
      /\ frameReady' = (frameReady \/ Head(events) = "FRAME_READY")
      /\ UNCHANGED <<proc, eng, got, pipe, conn>> /\ UNCHANGED <<host, ctx, want, lastCr, snap>>
  BY DEF ReadEvent, feedVars, FeedInv, LinkTypeOK
<1>2. /\ Head(events) = events[1] /\ Len(events) \in Nat /\ Len(events) > 0
      /\ events' \in Seq({"READY", "FRAME_READY"}) /\ Len(events') = Len(events) - 1
      /\ \A i \in 1 .. Len(events') : events'[i] = events[i + 1] /\ i + 1 \in 1 .. Len(events)
  BY <1>1
<1>3. LinkTypeOK' /\ OneProcess'
  BY <1>1, <1>2 DEF FeedInv, LinkTypeOK, OneProcess
<1>4. NoFrames => NoFrames' /\ Head(events) # "FRAME_READY"
  BY <1>2 DEF NoFrames
<1>5. /\ Settled' = Settled /\ NoPreloads' = NoPreloads
      /\ OnTheWay' = OnTheWay /\ TakenIn' = TakenIn /\ Preloaded' = Preloaded
      /\ StartComes' = StartComes /\ \A b \in snap : BarIsOn(b)' = BarIsOn(b)
  BY <1>1 DEF Settled, NoPreloads, OnTheWay, TakenIn, ThePreload, Preloaded, StartComes, BarIsOn
<1>6. FrameNoted => FrameNoted'
  BY <1>1, <1>4 DEF FrameNoted
<1>7. FrameOnTheWay => FrameNoted' \/ FrameOnTheWay'
  <2> SUFFICES ASSUME FrameOnTheWay PROVE FrameNoted' \/ FrameOnTheWay'
    OBVIOUS
  <2>1. CASE Len(events) = 1
    <3>1. Head(events) = "FRAME_READY" /\ NoFrames'
      BY <1>2, <2>1 DEF FrameOnTheWay, NoFrames
    <3> QED
      BY <1>1, <3>1 DEF FrameNoted
  <2>2. CASE Len(events) # 1
    <3>1. events' # << >> /\ events'[Len(events')] = "FRAME_READY"
      BY <1>2, <2>2 DEF FrameOnTheWay
    <3>2. \A i \in 1 .. Len(events') - 1 : events'[i] # "FRAME_READY"
      BY <1>2 DEF FrameOnTheWay
    <3>3. Head(events) # "FRAME_READY"
      BY <1>2, <2>2 DEF FrameOnTheWay
    <3> QED
      BY <1>1, <3>1, <3>2, <3>3 DEF FrameOnTheWay
  <2> QED
    BY <2>1, <2>2
<1>8. ByHost'
  <2>1. host = "waiting" => Waiting'
    BY <1>1, <1>4, <1>5, <1>6, <1>7 DEF FeedInv, ByHost, Waiting, Unseen, DarkInContext,
       NothingComes, Announced
  <2>2. host # "waiting" => ByHost'
    BY <1>1, <1>4, <1>5 DEF FeedInv, ByHost, Launching, Prepared, Preloading,
       Unseen, DarkInContext, NothingComes, Exposed, Started
  <2> QED
    BY <1>1, <2>1, <2>2 DEF ByHost
<1> QED
  BY <1>3, <1>8 DEF FeedInv

-----------------------------------------------------------------------------
(* Java's steps: launches and ends.                                        *)

LEMMA LaunchInv ==
  ASSUME FeedInv, Launched, conn' \in {"none", "dead", "noted"}, UNCHANGED <<want, snap>>
  PROVE  FeedInv'
<1>1. Fresh'
  BY DEF Launched, Fresh, NoFrames
<1>2. LinkTypeOK' /\ OneProcess'
  BY DEF Launched, FeedInv, LinkTypeOK, OneProcess, EngineFields
<1> QED
  BY <1>1, <1>2, FreshHostNext DEF FeedInv, ByHost, Launched

LEMMA KilledIsFresh ==
  ASSUME FeedInv, Killed, UNCHANGED <<want, snap>>,
         host' \in {"off", "launching", "prepared", "started"}
  PROVE  FeedInv'
<1>1. Fresh' /\ proc' = "none" /\ conn' = "none"
  BY DEF Killed, Fresh, NoFrames
<1>2. LinkTypeOK' /\ OneProcess'
  BY DEF Killed, FeedInv, LinkTypeOK, OneProcess, EngineFields
<1> QED
  BY <1>1, <1>2, FreshHostNext DEF FeedInv, ByHost, Started, Prepared

(* A connection given up is one whose process has gone or is not there yet. *)
LEMMA LostLink ==
  ASSUME FeedInv, conn # "live", NoFrames, UNCHANGED procVars, pipe' = << >>
  PROVE  Fresh'
BY DEF FeedInv, OneProcess, procVars, Fresh, NoFrames

LEMMA ClosedLink ==
  ASSUME FeedInv, conn # "live", UNCHANGED procVars, pipe' = << >>, conn' = "none",
         ~frameReady', UNCHANGED <<want, snap>>,
         \/ conn = "noted" /\ host # "launching" /\ UNCHANGED <<host, lastCr>>
         \/ host \in {"preloading", "started"} /\ host' \in {host, "prepared"}
  PROVE  FeedInv'
<1>1. LinkTypeOK' /\ OneProcess' /\ proc' # "drawing"
  BY DEF procVars, FeedInv, LinkTypeOK, OneProcess
<1>2. CASE host = "off"
  BY <1>1, <1>2 DEF FeedInv, ByHost
<1>3. CASE host # "off"
  <2>1. NoFrames
    BY <1>3 DEF FeedInv, LinkTypeOK, ByHost, Prepared, Preloading, Unseen, Waiting, Announced,
       Exposed, Started
  <2>2. Fresh'
    BY <2>1, LostLink
  <2> QED
    BY <1>1, <1>3, <2>2, FreshHostNext DEF FeedInv, ByHost, Started, Prepared, Exposed, Waiting,
       Preloading, Fresh, NothingComes
<1> QED
  BY <1>2, <1>3

LEMMA PrepareInv == FeedInv /\ Prepare => FeedInv'
<1> SUFFICES ASSUME FeedInv, Prepare PROVE FeedInv'
  OBVIOUS
<1>1. Launched /\ conn' \in {"none", "dead", "noted"} /\ UNCHANGED <<want, snap>>
  BY DEF Prepare, FeedInv, OneProcess, LinkTypeOK
<1> QED
  BY <1>1, LaunchInv

LEMMA HandleRendererDiedInv == FeedInv /\ HandleRendererDied => FeedInv'
<1> SUFFICES ASSUME FeedInv, HandleRendererDied PROVE FeedInv'
  OBVIOUS
<1>1. Launched /\ conn' \in {"none", "dead", "noted"} /\ UNCHANGED <<want, snap>>
  BY DEF HandleRendererDied
<1> QED
  BY <1>1, LaunchInv

LEMMA RespawnInv == FeedInv /\ Respawn => FeedInv'
<1> SUFFICES ASSUME FeedInv, Respawn PROVE FeedInv'
  OBVIOUS
<1>1. Launched /\ conn' \in {"none", "dead", "noted"} /\ UNCHANGED <<want, snap>>
  BY DEF Respawn
<1> QED
  BY <1>1, LaunchInv

LEMMA EndsInv ==
  ASSUME FeedInv, ReadyTimeout \/ Abort \/ IgnoreDeath
  PROVE  FeedInv'
BY KilledIsFresh DEF ReadyTimeout, NotReady, Abort, IgnoreDeath, feedVars

LEMMA CloseDeadInv == FeedInv /\ CloseDead => FeedInv'
<1> SUFFICES ASSUME FeedInv, CloseDead PROVE FeedInv'
  OBVIOUS
<1>1. /\ conn = "noted" /\ host # "launching" /\ pipe' = << >> /\ conn' = "none"
      /\ ~frameReady' /\ UNCHANGED procVars /\ UNCHANGED <<want, lastCr, snap, host>>
  BY DEF CloseDead, NoFlags, feedVars
<1> QED
  BY <1>1, ClosedLink

LEMMA SendFailsInv ==
  ASSUME FeedInv, SendFailsFlags, UNCHANGED <<want, snap>>,
         host \in {"preloading", "started"}, host' \in {host, "prepared"}
  PROVE  FeedInv'
BY ClosedLink DEF SendFailsFlags, SendFails, NoFlags

-----------------------------------------------------------------------------
(* Java's steps: what is sent.                                             *)

LEMMA Joined ==
  ASSUME NEW s \in Seq(Commands), NEW t \in Seq(Commands)
  PROVE  /\ s \o t \in Seq(Commands) /\ Len(s \o t) = Len(s) + Len(t)
         /\ \A i \in 1 .. Len(s \o t) :
              \/ i \in 1 .. Len(s) /\ (s \o t)[i] = s[i]
              \/ i - Len(s) \in 1 .. Len(t) /\ (s \o t)[i] = t[i - Len(s)]
BY ConcatProperties, LenProperties

LEMMA CommandIs ==
  /\ \A m \in Maneuvers, b \in Bars :
       Command("PRELOAD", m, b) \in Commands /\ Command("MANEUVER", m, b) \in Commands
  /\ \A b \in Bars : Command("BARGRAPH", NoManeuver, b) \in Commands
  /\ Command("START", NoManeuver, Off) \in Commands
  /\ Command("HIDE", NoManeuver, Off) \in Commands
  /\ Off \in Bars /\ \A m : BarsOf(m) \subseteq Bars
BY RenderAssumption DEF RenderAssumption, Command, Commands, BarsOf

(* Commands other than a preload, sent to an engine that shows something.  *)
LEMMA SentIsSettled ==
  ASSUME FeedInv, NEW cmds \in Seq(Commands), SendOk(cmds), UNCHANGED <<eng, got>>,
         \A i \in 1 .. Len(cmds) : cmds[i].cmd # "PRELOAD",
         NoPreloads, Settled, proc = "drawing" => eng.cur # NoManeuver,
         host \in {"exposed", "started"}
  PROVE  pipe' \in Seq(Commands) /\ NoPreloads' /\ Settled'
<1>1. pipe \in Seq(Commands) /\ (conn = "live" <=> proc = "drawing")
  BY DEF FeedInv, LinkTypeOK, OneProcess
<1>2. CASE conn = "live"
  BY <1>1, <1>2, Joined DEF SendOk, NoPreloads, Settled
<1>3. CASE conn # "live"
  BY <1>1, <1>3 DEF SendOk, NoPreloads, Settled
<1> QED
  BY <1>2, <1>3

LEMMA SendPreloadInv ==
  ASSUME FeedInv, NEW b \in BarsOf(want), SendPreload(b)
  PROVE  FeedInv'
<1> DEFINE c == Command("PRELOAD", want, b)
<1>1. /\ host = "preloading" /\ host' = "waiting" /\ SendOk(<<c>>)
      /\ lastCr' = want /\ snap' = {b}
      /\ UNCHANGED <<want, ctx, proc, eng, got, events, frameReady, conn>>
  BY DEF SendPreload, SendOk, procVars
<1>2. want \in Maneuvers /\ b \in Bars /\ c \in Commands /\ <<c>> \in Seq(Commands)
  BY <1>1, CommandIs DEF FeedInv, LinkTypeOK, ByHost, Preloading
<1>3. c.cmd = "PRELOAD" /\ c.man = want /\ c.bar = b
  BY DEF Command
<1> HIDE DEF c
<1>4. pipe \in Seq(Commands) /\ Unseen /\ NoPreloads /\ want # NoManeuver
  BY <1>1 DEF FeedInv, LinkTypeOK, ByHost, Preloading
<1>5. pipe' \in Seq(Commands) /\ Unseen' /\ (NoPreloads' \/ OnTheWay')
  <2>1. CASE conn = "live"
    <3>1. pipe' = pipe \o <<c>> /\ pipe' \in Seq(Commands) /\ Len(pipe') = Len(pipe) + 1
      BY <1>1, <1>2, <1>4, <2>1, Joined DEF SendOk
    <3>2. /\ \A i \in 1 .. Len(pipe) : pipe'[i] = pipe[i]
          /\ pipe'[Len(pipe')] = c /\ pipe' # << >>
      BY <1>2, <1>4, <3>1
    <3>3. OnTheWay'
      BY <1>1, <1>3, <1>4, <3>1, <3>2 DEF OnTheWay, ThePreload, NoPreloads
    <3>4. Settled'
      BY <1>1, <1>3, <1>4, <3>1, <3>2 DEF Settled, Unseen
    <3> QED
      BY <1>1, <1>4, <3>1, <3>3, <3>4 DEF Unseen, NoFrames, DarkInContext
  <2>2. CASE conn # "live"
    BY <1>1, <1>4, <2>2 DEF SendOk, Unseen, NoFrames, DarkInContext, NoPreloads, Settled
  <2> QED
    BY <2>1, <2>2
<1>6. LinkTypeOK' /\ OneProcess'
  <2>1. proc \in {"none", "starting"} => pipe' = pipe
    BY <1>1 DEF SendOk, FeedInv, OneProcess
  <2> QED
    BY <1>1, <1>2, <1>5, <2>1 DEF FeedInv, LinkTypeOK, OneProcess
<1> QED
  BY <1>1, <1>4, <1>5, <1>6 DEF FeedInv, ByHost, Waiting

LEMMA SendStartInv == FeedInv /\ SendStart => FeedInv'
<1> SUFFICES ASSUME FeedInv, SendStart PROVE FeedInv'
  OBVIOUS
<1> DEFINE c == Command("START", NoManeuver, Off)
<1>1. /\ host = "exposed" /\ host' = "started" /\ SendOk(<<c>>)
      /\ UNCHANGED <<want, ctx, lastCr, snap, proc, eng, got, events, frameReady, conn>>
  BY DEF SendStart, SendOk, procVars
<1>2. c \in Commands /\ c.cmd = "START" /\ <<c>> \in Seq(Commands)
  BY CommandIs DEF Command
<1> HIDE DEF c
<1>3. NoFrames /\ NothingComes /\ lastCr # NoManeuver /\ (proc = "drawing" => Preloaded)
  BY <1>1 DEF FeedInv, ByHost, Exposed
<1>4. NoPreloads /\ Settled /\ (proc = "drawing" => eng.cur # NoManeuver)
  <2>1. CASE proc = "drawing"
    BY <1>3, <2>1 DEF Preloaded, Settled, NoPreloads, NothingComes
  <2>2. CASE proc # "drawing"
    BY <1>3, <2>2, FreshHost DEF FeedInv, OneProcess, Fresh, NothingComes, NoPreloads
  <2> QED
    BY <2>1, <2>2
<1>5. pipe' \in Seq(Commands) /\ NoPreloads' /\ Settled'
  <2>1. \A i \in 1 .. Len(<<c>>) : <<c>>[i].cmd # "PRELOAD"
    BY <1>2
  <2>2. UNCHANGED <<eng, got>> /\ host \in {"exposed", "started"}
    BY <1>1
  <2> QED
    BY <1>1, <1>2, <1>4, <2>1, <2>2, SentIsSettled
<1>6. proc = "drawing" => StartComes' /\ got' = {}
  <2> SUFFICES ASSUME proc = "drawing" PROVE StartComes' /\ got' = {}
    OBVIOUS
  <2>1. conn = "live" /\ Preloaded /\ pipe' = << >> \o <<c>>
    BY <1>1, <1>3 DEF SendOk, FeedInv, OneProcess, NothingComes
  <2>2. Len(pipe') = 1 /\ pipe'[1] = c
    BY <1>2, <2>1
  <2> QED
    BY <1>1, <1>2, <1>3, <2>1, <2>2 DEF StartComes, Preloaded, NothingComes
<1>7. LinkTypeOK' /\ OneProcess'
  BY <1>1, <1>5 DEF FeedInv, LinkTypeOK, OneProcess, SendOk
<1> QED
  BY <1>1, <1>3, <1>4, <1>5, <1>6, <1>7 DEF FeedInv, ByHost, Started, NoFrames

(* What is sent while the renderer is shown.                               *)
LEMMA SentWhileShown ==
  ASSUME FeedInv, host = "started", NEW cmds \in Seq(Commands), SendOk(cmds),
         \A i \in 1 .. Len(cmds) : cmds[i].cmd # "PRELOAD",
         UNCHANGED <<want, procVars>>,
         \/ host' = "started" /\ snap' = {}
         \/ host' = "prepared" /\ ctx' = 72 /\ snap' = snap
  PROVE  FeedInv'
<1>1. /\ NoFrames /\ NoPreloads /\ Settled
      /\ proc = "drawing" => eng.cur # NoManeuver
  BY DEF FeedInv, ByHost, Started
<1>2. UNCHANGED <<proc, eng, got, events, conn>>
  BY DEF procVars, SendOk
<1>3. pipe' \in Seq(Commands) /\ NoPreloads' /\ Settled'
  BY <1>1, <1>2, SentIsSettled
<1>4. LinkTypeOK' /\ OneProcess'
  BY <1>2, <1>3 DEF FeedInv, LinkTypeOK, OneProcess, SendOk
<1> QED
  BY <1>1, <1>2, <1>3, <1>4 DEF FeedInv, ByHost, Started, Prepared, DarkInContext, NoFrames

LEMMA PushManeuverInv ==
  ASSUME FeedInv, NEW b \in BarsOf(want), PushManeuver(b)
  PROVE  FeedInv'
<1> DEFINE cmds == PushCommands(want, b)
<1>1. /\ host = "started" /\ SendOk(cmds)
      /\ UNCHANGED <<want, procVars>> /\ host' = "started" /\ snap' = {}
  BY DEF PushManeuver
<1>2. want \in Maneuvers /\ b \in Bars
  BY CommandIs DEF PushManeuver, FeedInv, LinkTypeOK
<1>3. cmds \in Seq(Commands) /\ \A i \in 1 .. Len(cmds) : cmds[i].cmd # "PRELOAD"
  <2>1. CASE want = Follow
    <3> DEFINE c == Command("MANEUVER", want, Off)
               d == Command("BARGRAPH", NoManeuver, Off)
    <3>1. cmds = <<c, d>>
      BY <2>1 DEF PushCommands
    <3>2. c \in Commands /\ d \in Commands /\ c.cmd = "MANEUVER" /\ d.cmd = "BARGRAPH"
      BY <1>2, CommandIs DEF Command
    <3> HIDE DEF c, d, cmds
    <3> QED
      BY <3>1, <3>2
  <2>2. CASE want # Follow
    <3> DEFINE c == Command("MANEUVER", want, b)
    <3>1. cmds = <<c>>
      BY <2>2 DEF PushCommands
    <3>2. c \in Commands /\ c.cmd = "MANEUVER"
      BY <1>2, CommandIs DEF Command
    <3> HIDE DEF c, cmds
    <3> QED
      BY <3>1, <3>2
  <2> QED
    BY <2>1, <2>2
<1> QED
  BY <1>1, <1>3, SentWhileShown

LEMMA PushBarInv ==
  ASSUME FeedInv, NEW b \in BarsOf(want), PushBar(b)
  PROVE  FeedInv'
<1> DEFINE c == Command("BARGRAPH", NoManeuver, b)
<1>1. /\ host = "started" /\ SendOk(<<c>>)
      /\ UNCHANGED <<want, procVars>> /\ host' = "started" /\ snap' = {}
  BY DEF PushBar
<1>2. c \in Commands /\ c.cmd = "BARGRAPH"
  BY CommandIs DEF Command
<1> HIDE DEF c
<1>3. <<c>> \in Seq(Commands) /\ \A i \in 1 .. Len(<<c>>) : <<c>>[i].cmd # "PRELOAD"
  BY <1>2
<1> QED
  BY <1>1, <1>3, SentWhileShown

LEMMA HideInv == FeedInv /\ Hide => FeedInv'
<1> SUFFICES ASSUME FeedInv, Hide PROVE FeedInv'
  OBVIOUS
<1> DEFINE c == Command("HIDE", NoManeuver, Off)
<1>1. /\ host = "started" /\ host' = "prepared" /\ ctx' = 72 /\ UNCHANGED <<want, snap>>
      /\ (SendOk(<<c>>) /\ UNCHANGED procVars) \/ SendFailsFlags
  BY DEF Hide
<1>2. CASE SendOk(<<c>>) /\ UNCHANGED procVars
  <2>1. c \in Commands /\ c.cmd = "HIDE"
    BY CommandIs DEF Command
  <2> HIDE DEF c
  <2>2. <<c>> \in Seq(Commands) /\ \A i \in 1 .. Len(<<c>>) : <<c>>[i].cmd # "PRELOAD"
    BY <2>1
  <2> QED
    BY <1>1, <1>2, <2>2, SentWhileShown
<1>3. CASE SendFailsFlags
  <2>1. /\ conn # "live" /\ UNCHANGED procVars /\ pipe' = << >> /\ conn' = "none"
        /\ ~frameReady' /\ UNCHANGED <<want, snap>>
    BY <1>1, <1>3 DEF SendFailsFlags, SendFails, NoFlags
  <2> QED
    BY <1>1, <2>1, ClosedLink
<1> QED
  BY <1>1, <1>2, <1>3

-----------------------------------------------------------------------------
(* Java's steps: where nothing is sent.                                    *)

LEMMA QuietSteps ==
  ASSUME FeedInv,
         \/ \E m \in Maneuvers \cup {NoManeuver} : NewState(m)
         \/ BecomePrepared \/ BeginPreload \/ Expose
  PROVE  FeedInv'
<1>1. UNCHANGED <<proc, eng, got, events, pipe, conn, snap>>
  BY DEF NewState, BecomePrepared, BeginPreload, Expose, renderVars, procVars, linkVars
<1>2. /\ NoFrames' = NoFrames /\ NoPreloads' = NoPreloads /\ Settled' = Settled
      /\ NothingComes' = NothingComes
  BY <1>1 DEF NoFrames, NoPreloads, Settled, NothingComes
<1>3. CASE \E m \in Maneuvers \cup {NoManeuver} : NewState(m)
  <2>1. /\ UNCHANGED <<host, ctx, lastCr, frameReady>> /\ want' \in Maneuvers \cup {NoManeuver}
        /\ host \in {"off", "prepared", "started"}
    BY <1>3 DEF NewState, AtRest, renderVars, linkVars
  <2> QED
    BY <1>1, <1>2, <2>1 DEF FeedInv, LinkTypeOK, OneProcess, ByHost, Prepared, Started,
       StartComes, BarIsOn, Preloaded, DarkInContext
<1>4. CASE BecomePrepared
  BY <1>1, <1>2, <1>4 DEF BecomePrepared, FeedInv, LinkTypeOK, OneProcess, ByHost, Launching,
     Prepared, NoPreloads, NothingComes, DarkInContext
<1>5. CASE BeginPreload
  BY <1>1, <1>2, <1>5 DEF BeginPreload, FeedInv, LinkTypeOK, OneProcess, ByHost, Prepared,
     Preloading, Unseen, DarkInContext
<1>6. CASE Expose
  <2>1. /\ Announced /\ NoFrames /\ lastCr # NoManeuver
        /\ host' = "exposed" /\ UNCHANGED <<lastCr, want>>
    BY <1>6 DEF Expose, FrameSeen, FeedInv, ByHost, Waiting, Unseen, Announced, FrameNoted,
       FrameOnTheWay
  <2> QED
    BY <1>1, <1>2, <2>1 DEF FeedInv, LinkTypeOK, OneProcess, ByHost, Exposed, Announced,
       Preloaded
<1> QED
  BY <1>3, <1>4, <1>5, <1>6

-----------------------------------------------------------------------------
(* The system.                                                             *)

LEMMA NextFeed == FeedInv /\ [Next]_vars => FeedInv'
<1> SUFFICES ASSUME FeedInv, [Next]_vars PROVE FeedInv'
  OBVIOUS
<1>1. CASE Renderer /\ UNCHANGED feedVars
  BY <1>1, ConnectInv, MarkReadyInv, ReadCmdInv, EndTurnInv, DieInv DEF Renderer
<1>2. CASE ReadEvent /\ UNCHANGED feedVars
  BY <1>2, ReadEventInv
<1>3. CASE Update
  <2>1. ASSUME NEW b \in BarsOf(want), SendPreload(b) \/ PushManeuver(b) \/ PushBar(b)
        PROVE  FeedInv'
    BY <2>1, SendPreloadInv, PushManeuverInv, PushBarInv
  <2>2. CASE SendPreloadFails \/ PushFails
    BY <2>2, SendFailsInv DEF SendPreloadFails, PushFails
  <2> QED
    BY <1>3, <2>1, <2>2, PrepareInv, QuietSteps, SendStartInv, HideInv, RespawnInv DEF Update
<1>4. CASE Waits
  BY <1>4, QuietSteps, EndsInv DEF Waits
<1>5. CASE Reader
  BY <1>5, HandleRendererDiedInv, EndsInv, CloseDeadInv DEF Reader
<1>6. CASE \E m \in Maneuvers \cup {NoManeuver} : NewState(m)
  BY <1>6, QuietSteps
<1>7. CASE UNCHANGED vars
  <2>1. UNCHANGED <<proc, eng, got, events, pipe, conn, frameReady>>
    BY <1>7 DEF vars, renderVars, procVars, linkVars
  <2>2. UNCHANGED <<host, ctx, want, lastCr, snap>>
    BY <1>7 DEF vars, feedVars
  <2> QED
    BY <2>1, <2>2 DEF FeedInv, LinkTypeOK, OneProcess, ByHost, Launching, Prepared, Preloading,
       Waiting, Exposed, Started, NoFrames, NoPreloads, NothingComes, Settled, DarkInContext,
       Unseen, Announced, FrameNoted, FrameOnTheWay, OnTheWay, TakenIn, ThePreload, Preloaded,
       StartComes, BarIsOn
<1> QED
  BY <1>1, <1>2, <1>3, <1>4, <1>5, <1>6, <1>7 DEF Next

(***************************************************************************)
(* When the cluster is switched to the renderer's window it holds the      *)
(* frame of the preload this exposure waited for, dark until START; and    *)
(* the bar shown then is the preload's -- over deaths of the process at    *)
(* any step, READY of a dead one, lost waits and failed sends              *)
(* (BAPBridge.java:1912-1926, main.c:87-90, 546-558).                      *)
(***************************************************************************)
THEOREM NothingStaleIsShown == Spec => []NothingStale
<1>1. Init => FeedInv
  BY InitFeed
<1>2. FeedInv => NothingStale
  <2> SUFFICES ASSUME FeedInv PROVE NothingStale
    OBVIOUS
  <2>1. ASSUME proc = "drawing", host = "exposed" PROVE eng.preload /\ eng.cur = lastCr
    BY <2>1 DEF FeedInv, ByHost, Exposed, Preloaded
  <2>2. ASSUME proc = "drawing", ctx = 74, eng.lit PROVE host = "started"
    <3>1. host = "waiting" => FALSE
      BY <2>2 DEF FeedInv, ByHost, Waiting, Unseen, Settled, DarkInContext, Announced, Preloaded
    <3>2. host \in {"off", "launching", "prepared", "preloading", "exposed"} => FALSE
      BY <2>2 DEF FeedInv, OneProcess, ByHost, Launching, Prepared, Preloading, Exposed, Unseen,
         Settled, DarkInContext, Preloaded
    <3> QED
      BY <3>1, <3>2 DEF FeedInv, LinkTypeOK
  <2>3. ASSUME host = "started", proc = "drawing", pipe = << >>, NEW b \in snap
        PROVE  eng.bar = b
    BY <2>3 DEF FeedInv, ByHost, Started, StartComes, BarIsOn
  <2> QED
    BY <2>1, <2>2, <2>3 DEF NothingStale, NothingShownEarly, SnapshotComplete
<1> QED
  BY <1>1, <1>2, NextFeed, PTL DEF Spec
============================================================================
