--------------------------- MODULE Display_proofs ---------------------------
(***************************************************************************)
(* What the cluster gets to see of the renderer: its window, for any       *)
(* number of windows lost, calls that fail, context switches, exposures    *)
(* and commands running at a time; the scene drawn in it, for every set of *)
(* maneuvers and bars; and the transitions, for routes of all lengths.     *)
(* The three share no state and are proved one after the other.            *)
(***************************************************************************)
EXTENDS ClusterWindow, ManeuverScene, RouteTransition, TLAPS

-----------------------------------------------------------------------------
(* The window.                                                             *)


Procs == {"starting", "running", "closing", "left", "rushed", "failed", "died"}

(* What keeps LeavesNothing: only a process that never ran has a display   *)
(* it need not restore, only a check that is marked has a thread, and a    *)
(* process that has left does nothing more.                                *)
WindowInv ==
  /\ proc \in Procs
  /\ inflight \in Nat
  /\ focus \in {"none", "reading", "forcing"}
  /\ proc \in {"running", "closing"} => routed
  /\ focus # "none" => checking
  /\ LeavesNothing

(* A manager string can only have been seen on a firmware that has them.   *)
HandshakeInv == seen => strings

-----------------------------------------------------------------------------
(* What a recreation of the window may change.                             *)
LEMMA RecreateSteps ==
  ASSUME Recreate, inflight \in Nat
  PROVE  /\ inflight' \in Nat
         /\ routed' = routed \/ routed' = TRUE
         /\ \/ UNCHANGED <<layout, surface, inflight>>
            \/ surface' = FALSE
            \/ layout' = "stock"
            \/ inflight' > 0
<1>1. CASE recent
  BY <1>1 DEF Recreate
<1>2. CASE NoWindow \/ NoSurface
  BY <1>2 DEF NoWindow, NoSurface
<1>3. CASE WindowMade
  <2>1. /\ routed' = TRUE
        /\ \/ inflight' = inflight + 1
           \/ layout' = "stock" /\ inflight' = inflight
    BY <1>3 DEF WindowMade, RunAsync
  <2>2. QED
    BY <2>1
<1>4. QED
  BY <1>1, <1>2, <1>3 DEF Recreate

(* The turns of the loop: the process goes on running.                     *)
LEMMA LoopWindow ==
  ASSUME WindowInv, Loop
  PROVE  WindowInv'
<1> USE DEF WindowInv
<1>1. CASE ReadCmd
  <2>1. UNCHANGED <<proc, dmdtVars>>
    BY <1>1 DEF ReadCmd, windowVars, outside
  <2>2. proc = "running"
    BY <1>1 DEF ReadCmd, Running
  <2>3. QED
    BY <2>1, <2>2 DEF dmdtVars, LeavesNothing
<1>2. CASE Draw
  <2>1. /\ UNCHANGED <<proc, checking, focus>>
        /\ proc = "running"
        /\ Recreate \/ UNCHANGED <<routed, inflight>>
    BY <1>2 DEF Draw, Running, outside
  <2>2. QED
    BY <2>1, RecreateSteps DEF LeavesNothing
<1>3. CASE CheckAndRecoverWindow
  <2>1. /\ UNCHANGED <<proc, checking, focus>>
        /\ proc = "running"
        /\ Recreate \/ UNCHANGED <<routed, inflight>>
    BY <1>3 DEF CheckAndRecoverWindow, Running, outside
  <2>2. QED
    BY <2>1, RecreateSteps DEF LeavesNothing
<1>4. CASE EnsureFocus
  <2>1. /\ UNCHANGED <<proc, routed, inflight>>
        /\ proc = "running"
        /\ \/ focus' = "reading" /\ checking' = TRUE
           \/ UNCHANGED <<focus, checking>>
    BY <1>4 DEF EnsureFocus, Running, windowVars, outside
  <2>2. QED
    BY <2>1 DEF LeavesNothing
<1>5. QED
  BY <1>1, <1>2, <1>3, <1>4 DEF Loop

(* The threads that run dmdt end, and time passes.                         *)
LEMMA ThreadWindow ==
  ASSUME WindowInv, AsyncDone \/ Checks \/ RecreateAgain \/ ForceAgain
  PROVE  WindowInv'
<1> USE DEF WindowInv
<1>1. CASE AsyncDone
  <2>1. /\ UNCHANGED <<proc, routed, checking, focus>>
        /\ inflight > 0 /\ inflight' = inflight - 1
    BY <1>1 DEF AsyncDone, windowVars, outside
  <2>2. proc # "left"
    BY <2>1 DEF LeavesNothing
  <2>3. QED
    BY <2>1, <2>2 DEF LeavesNothing
<1>2. CASE Checks
  <2>1. UNCHANGED <<proc, inflight>> /\ focus # "none"
    BY <1>2 DEF Checks, FocusForce, FocusRead, windowVars, outside
  <2>2. routed => routed'
    BY <1>2 DEF Checks, FocusForce, FocusRead
  <2>3. \/ focus' = "none"
        \/ focus' = "forcing" /\ checking' = checking
    BY <1>2 DEF Checks, FocusForce, FocusRead
  <2>4. proc # "left"
    BY <2>1 DEF LeavesNothing
  <2>5. QED
    BY <2>1, <2>2, <2>3, <2>4 DEF LeavesNothing
<1>3. CASE RecreateAgain \/ ForceAgain
  BY <1>3 DEF RecreateAgain, ForceAgain, dmdtVars, windowVars, outside,
     LeavesNothing
<1>4. QED
  BY <1>1, <1>2, <1>3

(* The process starts and ends.                                            *)
LEMMA ProcessWindow ==
  ASSUME WindowInv, PlatformInit \/ LeaveLoop \/ Shutdown \/ Die
  PROVE  WindowInv'
<1> USE DEF WindowInv, Procs
<1>1. CASE PlatformInit
  <2>1. /\ UNCHANGED <<checking, focus>>
        /\ inflight' \in Nat
        /\ \/ proc' = "running" /\ routed' = TRUE
           \/ proc' = "failed" /\ routed' = routed
    BY <1>1 DEF PlatformInit, WindowMade, RunAsync, outside
  <2>2. QED
    BY <2>1 DEF LeavesNothing
<1>2. CASE LeaveLoop
  BY <1>2 DEF LeaveLoop, Running, windowVars, dmdtVars, outside, LeavesNothing
<1>3. CASE Shutdown
  <2>1. /\ UNCHANGED <<inflight, checking>>
        /\ routed /\ routed' = FALSE /\ win' = "none"
        /\ layout' = "stock" /\ ctx' = Neutral
        /\ \/ ~checking /\ inflight = 0 /\ proc' = "left"
           \/ proc' = "rushed"
        /\ focus' = IF focus = "reading" THEN "none" ELSE focus
    BY <1>3 DEF Shutdown, RestoreDisplay, Quiet, outside
  <2>2. QED
    BY <2>1 DEF LeavesNothing
<1>4. CASE Die
  <2>1. /\ UNCHANGED <<inflight, checking, routed>>
        /\ proc' = "died"
        /\ focus' = IF focus = "reading" THEN "none" ELSE focus
    BY <1>4 DEF Die, outside
  <2>2. QED
    BY <2>1 DEF LeavesNothing
<1>5. QED
  BY <1>1, <1>2, <1>3, <1>4

(* The display manager, the navigation and the HMI.                        *)
LEMMA OutsideWindow ==
  ASSUME WindowInv, Others \/ Hmi
  PROVE  WindowInv'
<1> USE DEF WindowInv
<1>1. UNCHANGED <<proc, routed, inflight, checking, focus>>
  BY DEF Others, Manage, LoseWindow, Drift, Hmi, ShowBegin, ShowStart, Update,
         HideBegin, HideEnd, windowVars, dmdtVars, outside
<1>2. ASSUME proc = "left"
      PROVE  UNCHANGED <<win, layout>> /\ ctx' \in {ctx, Neutral}
  <2>1. ~Running /\ win = "none"
    BY <1>2 DEF Running, LeavesNothing
  <2>2. QED
    BY <2>1
       DEF Others, Manage, LoseWindow, Drift, Hmi, ShowBegin, ShowStart,
           Update, HideBegin, HideEnd, windowVars
<1>3. QED
  BY <1>1, <1>2 DEF LeavesNothing

LEMMA InitWindow == Init => WindowInv /\ HandshakeInv /\ NoBareContext
BY DEF Init, WindowInv, Procs, HandshakeInv, LeavesNothing, NoBareContext,
   Running

LEMMA NextWindow == WindowInv /\ [Next]_vars => WindowInv'
<1> SUFFICES ASSUME WindowInv, [Next]_vars PROVE WindowInv'
  OBVIOUS
<1>1. CASE UNCHANGED vars
  BY <1>1
     DEF vars, windowVars, dmdtVars, outside, WindowInv, Procs, LeavesNothing
<1>2. QED
  BY <1>1, LoopWindow, ThreadWindow, ProcessWindow, OutsideWindow DEF Next

LEMMA NextHandshake == HandshakeInv /\ [Next]_vars => HandshakeInv'
<1> SUFFICES ASSUME HandshakeInv, [Next]_vars PROVE HandshakeInv'
  OBVIOUS
<1> USE DEF HandshakeInv
<1>1. strings' = strings
  BY DEF Next, PlatformInit, Loop, ReadCmd, Draw, CheckAndRecoverWindow,
         EnsureFocus, LeaveLoop, Shutdown, Die, AsyncDone, Checks, FocusForce,
         FocusRead, RecreateAgain, ForceAgain, Others, Manage, LoseWindow,
         Drift, Hmi, ShowBegin, ShowStart, Update, HideBegin, HideEnd, outside,
         vars
<1>2. seen' = seen \/ CheckAndRecoverWindow
  BY DEF Next, PlatformInit, Loop, ReadCmd, Draw, EnsureFocus, LeaveLoop,
         Shutdown, Die, AsyncDone, Checks, FocusForce, FocusRead,
         RecreateAgain, ForceAgain, Others, Manage, LoseWindow, Drift, Hmi,
         ShowBegin, ShowStart, Update, HideBegin, HideEnd, windowVars, vars
<1>3. CheckAndRecoverWindow => (seen' => seen \/ strings)
  BY DEF CheckAndRecoverWindow, String
<1>4. QED
  BY <1>1, <1>2, <1>3

(* Whatever composes or strips the context, a command that puts it back is *)
(* on its way, or the process has no surface or is not running.            *)
LEMMA NextBare == WindowInv /\ NoBareContext /\ [Next]_vars => NoBareContext'
<1> SUFFICES ASSUME WindowInv, NoBareContext, [Next]_vars
             PROVE  NoBareContext'
  OBVIOUS
<1> DEFINE Kept == proc' = proc /\ UNCHANGED <<layout, surface, inflight>>
<1>0. inflight \in Nat
  BY DEF WindowInv
<1>1. Kept => NoBareContext'
  BY DEF NoBareContext, Running
<1>2. CASE PlatformInit
  <2>1. CASE proc' # "running"
    BY <2>1 DEF NoBareContext, Running
  <2>2. CASE WindowMade
    <3>1. \/ inflight' = inflight + 1
          \/ layout' = "stock"
      BY <2>2 DEF WindowMade, RunAsync
    <3>2. QED
      BY <1>0, <3>1 DEF NoBareContext, Running
  <2>3. QED
    BY <1>2, <2>1, <2>2 DEF PlatformInit
<1>3. CASE Draw \/ CheckAndRecoverWindow
  <2>1. /\ proc' = proc
        /\ Recreate \/ UNCHANGED <<layout, surface, inflight>>
    BY <1>3 DEF Draw, CheckAndRecoverWindow
  <2>2. QED
    BY <1>0, <1>1, <2>1, RecreateSteps DEF NoBareContext, Running
<1>4. CASE ReadCmd \/ EnsureFocus \/ Checks \/ RecreateAgain \/ ForceAgain
  BY <1>1, <1>4 DEF ReadCmd, EnsureFocus, Checks, FocusForce, FocusRead,
     RecreateAgain, ForceAgain, windowVars, dmdtVars
<1>5. CASE AsyncDone
  BY <1>5 DEF AsyncDone, NoBareContext
<1>6. CASE LeaveLoop \/ Shutdown \/ Die
  BY <1>6 DEF LeaveLoop, Shutdown, Die, NoBareContext, Running
<1>7. CASE Others \/ Hmi \/ UNCHANGED vars
  BY <1>1, <1>7
     DEF Others, Manage, LoseWindow, Drift, Hmi, ShowBegin, ShowStart, Update,
         HideBegin, HideEnd, vars, windowVars, dmdtVars
<1>8. QED
  BY <1>2, <1>3, <1>4, <1>5, <1>6, <1>7 DEF Next, Loop

(* The health check and the swap find nothing wrong with a managed window  *)
(* that has its surface, and the rest leaves the window where it is.       *)
LEMMA KeepsHealthy ==
  ASSUME HandshakeInv, [Next]_vars, Running, proc' = "running",
         win = "managed", surface
  PROVE  win' \in {"managed", "disowned", "dead"}
<1>1. CASE Draw
  BY <1>1 DEF Draw, SwapFails
<1>2. CASE CheckAndRecoverWindow
  <2>1. ~Probe1Fails
    BY DEF Probe1Fails
  <2>2. seen => String = "ours"
    BY DEF HandshakeInv, String
  <2>3. ~LostWindow
    BY <2>1, <2>2 DEF LostWindow
  <2>4. QED
    BY <1>2, <2>3 DEF CheckAndRecoverWindow
<1>3. CASE PlatformInit \/ Shutdown \/ Die
  BY <1>3 DEF PlatformInit, Shutdown, Die, Running
<1>4. CASE Manage \/ LoseWindow
  BY <1>4 DEF Manage, LoseWindow
<1>5. CASE ReadCmd \/ EnsureFocus \/ LeaveLoop \/ AsyncDone \/ Checks
           \/ RecreateAgain \/ ForceAgain \/ Hmi \/ UNCHANGED vars
           \/ \E c \in {Map, Other} : Drift(c)
  <2>1. win' = win
    BY <1>5
       DEF ReadCmd, EnsureFocus, LeaveLoop, AsyncDone, Checks, FocusForce,
           FocusRead, RecreateAgain, ForceAgain, Drift, Hmi, ShowBegin,
           ShowStart, Update, HideBegin, HideEnd, vars, windowVars
  <2>2. QED
    BY <2>1
<1>6. QED
  BY <1>1, <1>2, <1>3, <1>4, <1>5 DEF Next, Loop, Others

-----------------------------------------------------------------------------
(***************************************************************************)
(* A process that shut down and found its threads ended within the second  *)
(* leaves no window, no dmdt of its own, context 74 as it was composed and *)
(* the neutral context shown, whatever else was lost, drifted or shown     *)
(* before and is after (platform_shutdown(), platform_qnx.c:903-952).      *)
(***************************************************************************)
THEOREM LeavesClusterAlone == Spec => []LeavesNothing
<1>1. Init => WindowInv
  BY InitWindow
<1>2. WindowInv => LeavesNothing
  BY DEF WindowInv
<1>3. QED
  BY <1>1, <1>2, NextWindow, PTL DEF Spec

(***************************************************************************)
(* While the process runs with a surface, context 74 lacks the native      *)
(* layers only for as long as a command that composes it again is on its   *)
(* way (system_async() runs it in line when no thread can be had,          *)
(* platform_qnx.c:125-150, 320-341).                                       *)
(***************************************************************************)
THEOREM ContextIsRecomposed == Spec => []NoBareContext
<1>1. Init => WindowInv /\ NoBareContext
  BY InitWindow
<1>2. QED
  BY <1>1, NextWindow, NextBare, PTL DEF Spec

(***************************************************************************)
(* Neither the health check nor a swap tears down a window that the        *)
(* display manager shows and that has its surface: a manager string other  *)
(* than ours counts only after ours was seen, which a firmware that fills  *)
(* in none never shows (platform_qnx.c:420-514).                           *)
(***************************************************************************)
THEOREM HealthyWindowIsKept == Spec => HealthyIsKept
<1>1. Init => HandshakeInv
  BY InitWindow
<1>2. HandshakeInv /\ [Next]_vars
        => [ Running /\ proc' = "running" /\ win = "managed" /\ surface
               => win' \in {"managed", "disowned", "dead"} ]_vars
  BY KeepsHealthy
<1>3. QED
  BY <1>1, <1>2, NextHandshake, PTL DEF Spec, HealthyIsKept

-----------------------------------------------------------------------------
(* The scene.                                                              *)

(* The engine: a transition has a next maneuver, the slide of one runs     *)
(* only in it, and without a maneuver nothing goes on.                     *)
EngineOK(e) ==
  /\ DOMAIN e = DOMAIN Engine!NewEngine
  /\ e.phase \in {"IDLE", "SLIDING_IN", "PUSHING"}
  /\ e.phase = "PUSHING" => e.next # NoManeuver
  /\ Engine!IsPushing(e) => e.phase = "PUSHING"
  /\ e.cur = NoManeuver => e.phase = "IDLE" /\ ~e.preload

SceneShape(s) ==
  /\ DOMAIN s = DOMAIN NewScene
  /\ DOMAIN s.screen = DOMAIN NewScreen
  /\ s.fade \in {"dark", "rising", "full"}
  /\ s.alpha \in {"none", "part", "full"}

(* A texture that nothing has struck holds the roads of the maneuver at    *)
(* rest, and the path is its route.                                        *)
TextureIs(e, s) ==
  ~s.struck /\ e.cur # NoManeuver /\ e.phase # "PUSHING" =>
    s.road = <<Plain(e.cur)>> /\ s.path = <<e.cur>>

FadeIs(e, s) == e.lit <=> s.fade # "dark"

(* While nothing asks for a frame the last one shows the engine as it is.  *)
Still(e, s) ==
  ~s.mark /\ ~s.due =>
    /\ s.screen.roads = Wanted(e) /\ s.screen.route = WantedRoute(e)
    /\ s.screen.fade = s.fade /\ s.fade # "rising"
    /\ s.screen.alpha = s.alpha /\ s.alpha # "part"
    /\ s.screen.bar = e.bar
    /\ ~s.screen.turned /\ ~s.screen.settling

StageInv(e, s) ==
  /\ EngineOK(e) /\ SceneShape(s)
  /\ TextureIs(e, s) /\ FadeIs(e, s) /\ Still(e, s)

GotOK ==
  /\ \A c \in got : Engine!IsManeuver(c) /\ c.man # NoManeuver
  /\ \A c, d \in got : c = d

SceneInv ==
  /\ GotOK /\ StageInv(eng, scene)
  /\ scene.over =>
       /\ ~scene.mark /\ ScreenIsCurrent
       /\ scene.alpha # "part" =>
            scene.alpha = IF eng.bar # Off THEN "full" ELSE "none"

-----------------------------------------------------------------------------
LEMMA SceneStarts ==
  ASSUME SceneInit
  PROVE  SceneInv
<1>1. /\ eng = Engine!NewEngine /\ got = {} /\ scene = NewScene
  BY DEF SceneInit
<1>2. EngineOK(eng)
  BY <1>1 DEF EngineOK, Engine!NewEngine, Engine!IsPushing
<1>3. SceneShape(scene)
  BY <1>1 DEF SceneShape, NewScene, NewScreen
<1>4. scene.struck /\ scene.due /\ scene.fade = "dark" /\ ~scene.over /\ ~eng.lit
  BY <1>1 DEF NewScene, Engine!NewEngine
<1>5. StageInv(eng, scene)
  BY <1>2, <1>3, <1>4 DEF StageInv, TextureIs, FadeIs, Still
<1> QED
  BY <1>1, <1>4, <1>5 DEF SceneInv, GotOK

(* A strike leaves nothing to the texture or the last frame.               *)
LEMMA StruckStage ==
  ASSUME NEW e, NEW s, EngineOK(e), SceneShape(s),
         s.struck, s.mark, e.lit <=> s.fade # "dark"
  PROVE  StageInv(e, s)
BY DEF StageInv, TextureIs, FadeIs, Still

LEMMA BeginIs ==
  ASSUME NEW s, NEW fade \in {"dark", "rising", "full"}, SceneShape(s)
  PROVE  /\ SceneShape(Begin(s, fade))
         /\ Begin(s, fade).struck /\ Begin(s, fade).mark
         /\ Begin(s, fade).fade = fade
BY DEF Begin, Strike, SceneShape, NewScene

LEMMA BeginStage ==
  ASSUME NEW e, NEW s, NEW fade \in {"dark", "rising", "full"},
         EngineOK(e), SceneShape(s), e.lit <=> fade # "dark"
  PROVE  StageInv(e, Begin(s, fade))
BY BeginIs, StruckStage

-----------------------------------------------------------------------------
(* The operations of the engine.                                           *)

LEMMA SettleBarIs ==
  ASSUME NEW e, EngineOK(e)
  PROVE  LET a == Engine!SettleBar(e)
         IN /\ EngineOK(a) /\ a.cur = e.cur /\ a.phase = e.phase /\ a.lit = e.lit
            /\ a.next = e.next /\ a.anim = e.anim
            /\ ~e.late => a = e
BY DEF EngineOK, Engine!SettleBar, Engine!IsPushing, Engine!NewEngine

LEMMA PushIs ==
  ASSUME NEW e, NEW m, DOMAIN e = DOMAIN Engine!NewEngine,
         m # NoManeuver, e.cur # NoManeuver
  PROVE  LET a == Engine!Push(e, m)
         IN EngineOK(a) /\ a.lit = e.lit /\ Engine!IsPushing(a)
BY DEF EngineOK, Engine!Push, Engine!StartPush, Engine!IsPushing, Engine!NewEngine

LEMMA NoteBarIs ==
  ASSUME NEW e, NEW c, EngineOK(e)
  PROVE  LET a == Engine!NoteBar(e, c)
         IN /\ EngineOK(a) /\ a.cur = e.cur /\ a.phase = e.phase /\ a.lit = e.lit
            /\ a.next = e.next /\ a.bar = e.bar
BY DEF EngineOK, Engine!NoteBar, Engine!IsPushing, Engine!NewEngine

LEMMA EnqueueIs ==
  ASSUME NEW e, NEW m, EngineOK(e)
  PROVE  LET a == Engine!Enqueue(e, m)
         IN /\ EngineOK(a) /\ a.cur = e.cur /\ a.phase = e.phase /\ a.lit = e.lit
            /\ a.next = e.next /\ a.bar = e.bar
BY DEF EngineOK, Engine!Enqueue, Engine!IsPushing, Engine!NewEngine

LEMMA ColdStartIs ==
  ASSUME NEW e, NEW m, EngineOK(e), m # NoManeuver
  PROVE  EngineOK(Engine!ColdStart(e, m)) /\ Engine!ColdStart(e, m).lit = TRUE
BY DEF EngineOK, Engine!ColdStart, Engine!StartAnim, Engine!IsPushing, Engine!NewEngine

LEMMA PreloadIs ==
  ASSUME NEW e, NEW m, EngineOK(e), m # NoManeuver
  PROVE  /\ EngineOK(Engine!PreloadManeuver(e, m))
         /\ Engine!PreloadManeuver(e, m).lit = FALSE
BY DEF EngineOK, Engine!PreloadManeuver, Engine!SetSlide, Engine!IsPushing, Engine!NewEngine

LEMMA CommitIs ==
  ASSUME NEW e, EngineOK(e), e.phase = "PUSHING"
  PROVE  LET a == [Engine!Commit(e) EXCEPT !.phase = "SLIDING_IN"]
         IN EngineOK(a) /\ a.lit = e.lit /\ a.cur # NoManeuver
BY DEF EngineOK, Engine!Commit, Engine!IsPushing, Engine!NewEngine

LEMMA StartIs ==
  ASSUME NEW e, EngineOK(e), e.preload
  PROVE  EngineOK(Engine!StartPreloaded(e)) /\ Engine!StartPreloaded(e).lit = TRUE
<1> DEFINE a == [Engine!StartAnim(e) EXCEPT !.preload = FALSE,
                    !.phase = "SLIDING_IN", !.lit = TRUE]
<1>1. EngineOK(a) /\ a.lit = TRUE
  BY DEF EngineOK, Engine!StartAnim, Engine!IsPushing, Engine!NewEngine
<1> QED
  BY <1>1, SettleBarIs DEF Engine!StartPreloaded

-----------------------------------------------------------------------------
(* The steps of a turn, each of which keeps StageInv.                      *)

(* What neither strikes nor marks changes nothing that is seen.            *)
LEMMA QuietStage ==
  ASSUME NEW e, NEW a, NEW s, StageInv(e, s), EngineOK(a),
         a.cur = e.cur, a.phase = e.phase, a.lit = e.lit,
         a.next = e.next, a.bar = e.bar
  PROVE  StageInv(a, s)
BY DEF StageInv, TextureIs, FadeIs, Still, Wanted, WantedRoute

LEMMA AppliedStage ==
  ASSUME NEW e, NEW s, NEW c, StageInv(e, s),
         Engine!IsManeuver(c), c.man # NoManeuver
  PROVE  StageInv(Engine!ApplyLatest(e, c), Applied(e, s, c))
<1> DEFINE n == Engine!NoteBar(e, c)
<1>1. /\ EngineOK(e) /\ SceneShape(s) /\ (e.lit <=> s.fade # "dark")
      /\ s.fade \in {"dark", "rising", "full"}
  BY DEF StageInv, FadeIs, SceneShape
<1>2. /\ EngineOK(n) /\ n.cur = e.cur /\ n.phase = e.phase /\ n.lit = e.lit
      /\ n.next = e.next /\ n.bar = e.bar
  BY <1>1, NoteBarIs
<1>3. CASE c.cmd = "PRELOAD"
  <2>1. Engine!ApplyLatest(e, c) = Engine!PreloadManeuver(n, c.man)
    BY <1>3 DEF Engine!ApplyLatest
  <2>2. Applied(e, s, c) = Begin(s, "dark")
    BY <1>3 DEF Applied
  <2> QED
    BY <2>1, <2>2, <1>1, <1>2, PreloadIs, BeginStage
<1>4. CASE c.cmd = "MANEUVER"
  <2>1. Engine!ApplyLatest(e, c) = Engine!ApplyManeuver(n, c.man)
    BY <1>4 DEF Engine!ApplyLatest
  <2>2. CASE e.cur = NoManeuver
    <3>1. Engine!ApplyLatest(e, c) = Engine!ColdStart(n, c.man)
      BY <2>1, <2>2, <1>2 DEF Engine!ApplyManeuver
    <3>2. Applied(e, s, c) = Begin(s, "rising")
      BY <1>4, <2>2 DEF Applied
    <3>3. EngineOK(Engine!ApplyLatest(e, c)) /\ Engine!ApplyLatest(e, c).lit
      BY <3>1, <1>2, ColdStartIs
    <3> QED
      BY <3>2, <3>3, <1>1, BeginStage
  <2>3. CASE e.cur # NoManeuver /\ e.phase = "IDLE"
    <3> DEFINE p == Engine!Push(n, c.man)
               a == [p EXCEPT !.bar = Off]
    <3>1. Engine!ApplyLatest(e, c) = a
      BY <2>1, <2>3, <1>2 DEF Engine!ApplyManeuver
    <3>2. Applied(e, s, c) = Begin(s, s.fade)
      BY <1>4, <2>3 DEF Applied
    <3>3. EngineOK(p) /\ p.lit = e.lit
      BY <1>2, <2>3, PushIs DEF EngineOK
    <3>4. EngineOK(a) /\ a.lit = e.lit
      BY <3>3 DEF EngineOK, Engine!IsPushing, Engine!NewEngine
    <3> HIDE DEF a
    <3> QED
      BY <3>1, <3>2, <3>4, <1>1, BeginStage
  <2>4. CASE e.cur # NoManeuver /\ e.phase # "IDLE"
    <3>1. Engine!ApplyLatest(e, c) = Engine!Enqueue(n, c.man)
      BY <2>1, <2>4, <1>2 DEF Engine!ApplyManeuver
    <3>2. Applied(e, s, c) = s
      BY <1>4, <2>4 DEF Applied
    <3> QED
      BY <3>1, <3>2, <1>2, EnqueueIs, QuietStage
  <2> QED
    BY <2>2, <2>3, <2>4
<1> QED
  BY <1>3, <1>4 DEF Engine!IsManeuver

LEMMA ReadStage ==
  ASSUME NEW e, NEW s, NEW c, StageInv(e, s)
  PROVE  StageInv(Engine!AtOnce(e, c), AtOnce(e, s, c))
<1>1. /\ EngineOK(e) /\ SceneShape(s) /\ (e.lit <=> s.fade # "dark")
  BY DEF StageInv, FadeIs
<1>2. CASE c.cmd = "START" /\ e.preload
  <2>1. Engine!AtOnce(e, c) = Engine!StartPreloaded(e) /\ AtOnce(e, s, c) = Begin(s, "rising")
    BY <1>2 DEF Engine!AtOnce, AtOnce
  <2>2. EngineOK(Engine!AtOnce(e, c)) /\ Engine!AtOnce(e, c).lit
    BY <1>1, <1>2, <2>1, StartIs
  <2> QED
    BY <1>1, <2>1, <2>2, BeginStage
<1>3. CASE c.cmd = "START" /\ ~e.preload
  <2>1. Engine!AtOnce(e, c) = e /\ AtOnce(e, s, c) = s
    BY <1>3 DEF Engine!AtOnce, AtOnce, Engine!StartPreloaded
  <2> QED
    BY <2>1
<1>4. CASE c.cmd = "BARGRAPH"
  <2> DEFINE a == [e EXCEPT !.bar = c.bar]
             t == [s EXCEPT !.mark = TRUE]
  <2>1. Engine!AtOnce(e, c) = a /\ AtOnce(e, s, c) = t
    BY <1>4 DEF Engine!AtOnce, AtOnce
  <2>2. EngineOK(a) /\ a.cur = e.cur /\ a.phase = e.phase /\ a.lit = e.lit
    BY <1>1 DEF EngineOK, Engine!IsPushing, Engine!NewEngine
  <2>3. /\ SceneShape(t) /\ t.mark
        /\ t.struck = s.struck /\ t.road = s.road /\ t.path = s.path /\ t.fade = s.fade
    BY <1>1 DEF SceneShape, NewScene
  <2> QED
    BY <2>1, <2>2, <2>3 DEF StageInv, TextureIs, FadeIs, Still
<1>5. CASE c.cmd \notin {"START", "BARGRAPH"}
  <2>1. Engine!AtOnce(e, c) = e /\ AtOnce(e, s, c) = s
    BY <1>5 DEF Engine!AtOnce, AtOnce
  <2> QED
    BY <2>1
<1> QED
  BY <1>2, <1>3, <1>4, <1>5

(* A transition that the engine is still in after its step slides.         *)
LEMMA TickedStage ==
  ASSUME NEW e, NEW s, StageInv(e, s), NEW t \in Ticked(e, s)
  PROVE  /\ StageInv(Engine!Tick(e), t)
         /\ Engine!Tick(e).phase = "PUSHING" => Engine!IsPushing(Engine!Tick(e))
<1>1. /\ EngineOK(e) /\ SceneShape(s) /\ (e.lit <=> s.fade # "dark")
      /\ s.fade \in {"dark", "rising", "full"}
  BY DEF StageInv, FadeIs, SceneShape
<1>2. CASE e.phase = "PUSHING" /\ ~Engine!IsPushing(e)
  <2> DEFINE c == Engine!Commit(e)
  <2>1. c.pend = e.pend /\ c.lit = e.lit /\ c.cur # NoManeuver /\ DOMAIN c = DOMAIN e
    BY <1>1, <1>2 DEF EngineOK, Engine!Commit, Engine!NewEngine
  <2>2. CASE e.pend # NoManeuver
    <3> DEFINE n == [c EXCEPT !.pend = NoManeuver]
    <3>1. Engine!Tick(e) = Engine!Push(n, c.pend)
      BY <1>2, <2>1, <2>2 DEF Engine!Tick, Engine!Promote
    <3>2. t = Begin(s, s.fade)
      BY <1>2, <2>2 DEF Ticked
    <3>3. DOMAIN n = DOMAIN Engine!NewEngine /\ n.cur # NoManeuver /\ n.lit = e.lit
      BY <1>1, <2>1 DEF EngineOK, Engine!NewEngine
    <3> HIDE DEF n
    <3>4. /\ EngineOK(Engine!Tick(e)) /\ Engine!Tick(e).lit = e.lit
          /\ Engine!IsPushing(Engine!Tick(e))
      BY <2>1, <2>2, <3>1, <3>3, PushIs
    <3> QED
      BY <1>1, <3>2, <3>4, BeginStage
  <2>3. CASE e.pend = NoManeuver
    <3> DEFINE a == [c EXCEPT !.phase = "SLIDING_IN"]
    <3>1. Engine!Tick(e) = a
      BY <1>2, <2>1, <2>3 DEF Engine!Tick
    <3>2. PICK turned \in BOOLEAN : t = [Strike(s) EXCEPT !.light = turned]
      BY <1>2, <2>3 DEF Ticked
    <3>3. EngineOK(a) /\ a.lit = e.lit
      BY <1>1, <1>2, CommitIs
    <3>4. SceneShape(t) /\ t.struck /\ t.mark /\ t.fade = s.fade
      BY <1>1, <3>2 DEF SceneShape, NewScene, Strike
    <3>5. a.phase = "SLIDING_IN"
      BY <1>1, <2>1 DEF EngineOK, Engine!NewEngine
    <3> QED
      BY <1>1, <3>1, <3>3, <3>4, <3>5, StruckStage
  <2> QED
    BY <2>2, <2>3
<1>3. CASE e.phase = "SLIDING_IN" /\ ~Engine!IsAnimating(e) /\ e.pend # NoManeuver
  <2> DEFINE n == [e EXCEPT !.pend = NoManeuver]
  <2>1. Engine!Tick(e) = Engine!Push(n, e.pend)
    BY <1>3 DEF Engine!Tick, Engine!Promote
  <2>2. t = Begin(s, s.fade)
    BY <1>3 DEF Ticked
  <2>3. DOMAIN n = DOMAIN Engine!NewEngine /\ n.cur # NoManeuver /\ n.lit = e.lit
    BY <1>1, <1>3 DEF EngineOK, Engine!NewEngine
  <2> HIDE DEF n
  <2>4. /\ EngineOK(Engine!Tick(e)) /\ Engine!Tick(e).lit = e.lit
        /\ Engine!IsPushing(Engine!Tick(e))
    BY <1>3, <2>1, <2>3, PushIs
  <2> QED
    BY <1>1, <2>2, <2>4, BeginStage
<1>4. CASE e.phase = "SLIDING_IN" /\ ~Engine!IsAnimating(e) /\ e.pend = NoManeuver
  <2> DEFINE i == [e EXCEPT !.phase = "IDLE"]
             a == Engine!SettleBar(i)
  <2>1. Engine!Tick(e) = a
    BY <1>4 DEF Engine!Tick
  <2>2. t = [s EXCEPT !.mark = @ \/ e.late]
    BY <1>4 DEF Ticked
  <2>3. /\ EngineOK(i) /\ i.phase = "IDLE" /\ i.cur = e.cur /\ i.lit = e.lit
        /\ i.late = e.late /\ i.bar = e.bar /\ i.next = e.next
    BY <1>1, <1>4 DEF EngineOK, Engine!IsPushing, Engine!IsAnimating, Engine!NewEngine
  <2> HIDE DEF i
  <2>4. /\ EngineOK(a) /\ a.phase = "IDLE" /\ a.cur = e.cur /\ a.lit = e.lit
        /\ ~e.late => a.bar = e.bar
    <3>1. /\ EngineOK(a) /\ a.cur = i.cur /\ a.phase = i.phase /\ a.lit = i.lit
          /\ a.next = i.next /\ a.anim = i.anim
          /\ ~i.late => a = i
      BY <2>3, SettleBarIs
    <3>2. ~e.late => a = i
      BY <2>3, <3>1
    <3> HIDE DEF a
    <3>3. ~e.late => a.bar = e.bar
      BY <2>3, <3>2
    <3> QED
      BY <2>3, <3>1, <3>3
  <2>5. /\ SceneShape(t) /\ t.mark = (s.mark \/ e.late)
        /\ t.struck = s.struck /\ t.road = s.road /\ t.path = s.path /\ t.fade = s.fade
        /\ t.due = s.due /\ t.screen = s.screen /\ t.alpha = s.alpha
    BY <1>1, <2>2 DEF SceneShape, NewScene
  <2> HIDE DEF a
  <2>6. TextureIs(a, t) /\ FadeIs(a, t)
    BY <1>1, <1>4, <2>4, <2>5 DEF StageInv, TextureIs, FadeIs
  <2>7. Still(a, t)
    BY <1>4, <2>4, <2>5 DEF StageInv, Still, Wanted, WantedRoute
  <2> QED
    BY <2>1, <2>4, <2>5, <2>6, <2>7 DEF StageInv
<1>5. CASE /\ ~(e.phase = "PUSHING" /\ ~Engine!IsPushing(e))
           /\ ~(e.phase = "SLIDING_IN" /\ ~Engine!IsAnimating(e))
  <2>1. Engine!Tick(e) = e /\ t = s
    BY <1>5 DEF Engine!Tick, Ticked
  <2> QED
    BY <1>5, <2>1
<1> QED
  BY <1>2, <1>3, <1>4, <1>5

LEMMA FadedStage ==
  ASSUME NEW e, NEW s, NEW full \in BOOLEAN, StageInv(e, s)
  PROVE  LET t == Faded(s, full)
         IN /\ StageInv(e, t) /\ t.alpha = s.alpha /\ t.due = s.due
            /\ s.mark => t.mark
<1>1. CASE s.fade = "rising"
  <2> DEFINE t == [s EXCEPT !.fade = IF full THEN "full" ELSE "rising", !.mark = TRUE]
  <2>1. SceneShape(s)
    BY DEF StageInv
  <2>2. /\ SceneShape(t) /\ t.mark /\ t.fade # "dark"
        /\ t.struck = s.struck /\ t.road = s.road /\ t.path = s.path
        /\ t.due = s.due /\ t.alpha = s.alpha
    BY <2>1 DEF SceneShape, NewScene
  <2>3. Faded(s, full) = t
    BY <1>1 DEF Faded
  <2> HIDE DEF t
  <2>4. StageInv(e, t)
    BY <1>1, <2>2 DEF StageInv, TextureIs, FadeIs, Still
  <2> QED
    BY <2>2, <2>3, <2>4
<1>2. CASE s.fade # "rising"
  BY <1>2 DEF Faded
<1> QED
  BY <1>1, <1>2

-----------------------------------------------------------------------------
(* Drawing.                                                                *)

LEMMA DrawnIs ==
  ASSUME NEW e, NEW ends, EngineOK(e)
  PROVE  LET a == Engine!Drawn(e, ends)
         IN /\ EngineOK(a) /\ a.cur = e.cur /\ a.phase = e.phase /\ a.lit = e.lit
            /\ a.next = e.next /\ a.bar = e.bar
BY DEF EngineOK, Engine!Drawn, Engine!Announces, Engine!IsPushing, Engine!NewEngine

(* What a frame without and with painting changes.                         *)
Show(s, roads, route) ==
  [s EXCEPT !.screen.roads = roads, !.screen.route = route]

Paint(s, road, path, roads, route) ==
  [s EXCEPT !.struck = FALSE, !.road = road, !.path = path,
            !.screen.roads = roads, !.screen.route = route]

LEMMA ShowIs ==
  ASSUME NEW s, NEW roads, NEW route, SceneShape(s)
  PROVE  LET t == Show(s, roads, route)
         IN /\ SceneShape(t) /\ t.screen.roads = roads /\ t.screen.route = route
            /\ t.road = s.road /\ t.path = s.path
            /\ t.fade = s.fade /\ t.alpha = s.alpha /\ t.over = s.over /\ t.mark = s.mark
            /\ t.light = s.light
BY DEF Show, SceneShape, NewScene, NewScreen

LEMMA PaintIs ==
  ASSUME NEW s, NEW road, NEW path, NEW roads, NEW route, SceneShape(s)
  PROVE  LET t == Paint(s, road, path, roads, route)
         IN /\ SceneShape(t) /\ t.screen.roads = roads /\ t.screen.route = route
            /\ t.road = road /\ t.path = path
            /\ t.fade = s.fade /\ t.alpha = s.alpha /\ t.over = s.over /\ t.mark = s.mark
            /\ t.light = s.light
BY DEF Paint, SceneShape, NewScene, NewScreen

(* Whatever the texture held, what is painted are the engine's roads.      *)
LEMMA PaintedIs ==
  ASSUME NEW e, NEW s, EngineOK(e), SceneShape(s), TextureIs(e, s),
         e.phase = "PUSHING" => Engine!IsPushing(e)
  PROVE  LET t == Painted(e, s)
         IN /\ SceneShape(t) /\ TextureIs(e, t)
            /\ t.screen.roads = Wanted(e) /\ t.screen.route = WantedRoute(e)
            /\ t.fade = s.fade /\ t.alpha = s.alpha /\ t.over = s.over /\ t.mark = s.mark
            /\ t.light = s.light
<1> SUFFICES ASSUME NEW t, t = Painted(e, s)
             PROVE  /\ SceneShape(t) /\ TextureIs(e, t)
                    /\ t.screen.roads = Wanted(e) /\ t.screen.route = WantedRoute(e)
                    /\ t.fade = s.fade /\ t.alpha = s.alpha /\ t.over = s.over
                    /\ t.mark = s.mark /\ t.light = s.light
  OBVIOUS
<1>1. /\ Combined(e) <=> e.phase = "PUSHING"
      /\ e.phase = "PUSHING" => e.cur # NoManeuver
  BY DEF EngineOK, Combined
<1>2. CASE e.cur = NoManeuver
  <2>1. t = Show(s, << >>, << >>)
    BY <1>1, <1>2 DEF Painted, Show, Paint
  <2>2. Wanted(e) = << >> /\ WantedRoute(e) = << >>
    BY <1>2 DEF Wanted, WantedRoute
  <2>3. /\ SceneShape(t) /\ t.screen.roads = << >> /\ t.screen.route = << >>
        /\ t.fade = s.fade /\ t.alpha = s.alpha /\ t.over = s.over /\ t.mark = s.mark
        /\ t.light = s.light
    BY <2>1, ShowIs
  <2> QED
    BY <1>2, <2>2, <2>3 DEF TextureIs
<1>3. CASE e.cur # NoManeuver /\ e.phase = "PUSHING"
  <2>1. t = Paint(s, <<Moved(e.next)>>, <<e.cur, e.next>>,
                   <<Plain(e.cur), Moved(e.next)>>, <<e.cur, e.next>>)
    BY <1>1, <1>3 DEF Painted, Show, Paint
  <2>2. Wanted(e) = <<Plain(e.cur), Moved(e.next)>> /\ WantedRoute(e) = <<e.cur, e.next>>
    BY <1>3 DEF Wanted, WantedRoute
  <2>3. /\ SceneShape(t) /\ t.screen.roads = <<Plain(e.cur), Moved(e.next)>>
        /\ t.screen.route = <<e.cur, e.next>>
        /\ t.fade = s.fade /\ t.alpha = s.alpha /\ t.over = s.over /\ t.mark = s.mark
        /\ t.light = s.light
    BY <2>1, PaintIs
  <2> QED
    BY <1>3, <2>2, <2>3 DEF TextureIs
<1>4. CASE e.cur # NoManeuver /\ e.phase # "PUSHING" /\ s.struck
  <2>1. t = Paint(s, <<Plain(e.cur)>>, <<e.cur>>,
                   <<Plain(e.cur)>>, <<e.cur>>)
    BY <1>1, <1>4 DEF Painted, Show, Paint
  <2>2. Wanted(e) = <<Plain(e.cur)>> /\ WantedRoute(e) = <<e.cur>>
    BY <1>4 DEF Wanted, WantedRoute
  <2>3. /\ SceneShape(t) /\ t.screen.roads = <<Plain(e.cur)>> /\ t.screen.route = <<e.cur>>
        /\ t.road = <<Plain(e.cur)>> /\ t.path = <<e.cur>>
        /\ t.fade = s.fade /\ t.alpha = s.alpha /\ t.over = s.over /\ t.mark = s.mark
        /\ t.light = s.light
    BY <2>1, PaintIs
  <2> QED
    BY <2>2, <2>3 DEF TextureIs
<1>5. CASE e.cur # NoManeuver /\ e.phase # "PUSHING" /\ ~s.struck
  <2>1. t = Show(s, s.road, s.path)
    BY <1>1, <1>5 DEF Painted, Show, Paint
  <2>2. Wanted(e) = <<Plain(e.cur)>> /\ WantedRoute(e) = <<e.cur>>
    BY <1>5 DEF Wanted, WantedRoute
  <2>3. s.road = <<Plain(e.cur)>> /\ s.path = <<e.cur>>
    BY <1>5 DEF TextureIs
  <2>4. /\ SceneShape(t) /\ t.screen.roads = s.road /\ t.screen.route = s.path
        /\ t.road = s.road /\ t.path = s.path
        /\ t.fade = s.fade /\ t.alpha = s.alpha /\ t.over = s.over /\ t.mark = s.mark
        /\ t.light = s.light
    BY <2>1, ShowIs
  <2> QED
    BY <2>2, <2>3, <2>4 DEF TextureIs
<1> QED
  BY <1>2, <1>3, <1>4, <1>5

(* A frame shows the engine, and asks for another while it is not final.   *)
ShowsIt(e, s, f) ==
  /\ StageInv(f.e, f.s) /\ f.e.bar = e.bar
  /\ f.s.screen.roads = Wanted(f.e) /\ f.s.screen.route = WantedRoute(f.e)
  /\ f.s.alpha = s.alpha /\ f.s.over = s.over /\ f.s.mark = s.mark

LEMMA FrameIs ==
  ASSUME NEW e, NEW s, NEW ends \in BOOLEAN, NEW straight \in BOOLEAN,
         EngineOK(e), SceneShape(s), TextureIs(e, s), FadeIs(e, s),
         e.phase = "PUSHING" => Engine!IsPushing(e)
  PROVE  ShowsIt(e, s, Frame(e, s, ends, straight))
<1> DEFINE a == Engine!Drawn(e, ends)
           l == Lit(e, s, straight)
           p == Painted(e, l)
           q == [p EXCEPT
                   !.flag = IF e.cur = NoManeuver THEN @ ELSE {e.cur, e.next} \cap Arrived # {},
                   !.screen.fade = s.fade, !.screen.alpha = s.alpha, !.screen.bar = e.bar]
           t == [q EXCEPT
                   !.screen.turned = q.light, !.screen.settling = a.settle,
                   !.due = \/ NeedsRedraw(a, q) \/ q.fade = "rising"
                           \/ q.alpha = "part"]
<1>1. Frame(e, s, ends, straight) = [e |-> a, s |-> t]
  BY DEF Frame
<1>2. /\ EngineOK(a) /\ a.cur = e.cur /\ a.phase = e.phase /\ a.lit = e.lit
      /\ a.next = e.next /\ a.bar = e.bar
  BY DrawnIs
<1>3. /\ SceneShape(l) /\ TextureIs(e, l)
      /\ l.fade = s.fade /\ l.alpha = s.alpha /\ l.over = s.over /\ l.mark = s.mark
  BY DEF Lit, SceneShape, TextureIs, NewScene
<1> HIDE DEF a, l
<1>4. /\ SceneShape(p) /\ TextureIs(e, p)
      /\ p.screen.roads = Wanted(e) /\ p.screen.route = WantedRoute(e)
      /\ p.fade = s.fade /\ p.alpha = s.alpha /\ p.over = s.over /\ p.mark = s.mark
  BY <1>3, PaintedIs
<1> HIDE DEF p
<1>5. /\ SceneShape(q)
      /\ q.struck = p.struck /\ q.road = p.road /\ q.path = p.path
      /\ q.fade = s.fade /\ q.alpha = s.alpha /\ q.over = s.over /\ q.mark = s.mark
  BY <1>4 DEF SceneShape, NewScene, NewScreen
<1>6. /\ q.screen.roads = p.screen.roads /\ q.screen.route = p.screen.route
      /\ q.screen.fade = s.fade /\ q.screen.alpha = s.alpha /\ q.screen.bar = e.bar
  BY <1>4 DEF SceneShape, NewScene, NewScreen
<1> HIDE DEF q
<1>7. /\ SceneShape(t)
      /\ t.struck = p.struck /\ t.road = p.road /\ t.path = p.path
      /\ t.fade = s.fade /\ t.alpha = s.alpha /\ t.over = s.over /\ t.mark = s.mark
  BY <1>5 DEF SceneShape, NewScene, NewScreen
<1>8. /\ t.screen.roads = Wanted(e) /\ t.screen.route = WantedRoute(e)
      /\ t.screen.fade = s.fade /\ t.screen.alpha = s.alpha /\ t.screen.bar = e.bar
  BY <1>4, <1>5, <1>6 DEF SceneShape, NewScene, NewScreen
<1>9. t.screen.turned = q.light /\ t.screen.settling = a.settle
  BY <1>5 DEF SceneShape, NewScene, NewScreen
<1>10. t.due = (NeedsRedraw(a, q) \/ q.fade = "rising" \/ q.alpha = "part")
  BY <1>5 DEF SceneShape, NewScene
<1> HIDE DEF t
<1>11. ~t.due => ~t.screen.turned /\ ~t.screen.settling /\ t.fade # "rising" /\ t.alpha # "part"
  BY <1>5, <1>7, <1>9, <1>10 DEF NeedsRedraw, Engine!IsAnimating
<1>12. Wanted(a) = Wanted(e) /\ WantedRoute(a) = WantedRoute(e)
  BY <1>2 DEF Wanted, WantedRoute
<1>13. TextureIs(a, t) /\ FadeIs(a, t)
  BY <1>2, <1>4, <1>7 DEF TextureIs, FadeIs
<1>14. Still(a, t)
  BY <1>2, <1>7, <1>8, <1>11, <1>12 DEF Still
<1>15. StageInv(a, t)
  BY <1>2, <1>7, <1>13, <1>14 DEF StageInv
<1> DEFINE f == [e |-> a, s |-> t]
<1>16. f.e = a /\ f.s = t
  OBVIOUS
<1> HIDE DEF f
<1>17. ShowsIt(e, s, f)
  BY <1>2, <1>7, <1>8, <1>12, <1>15, <1>16 DEF ShowsIt
<1> QED
  BY <1>1, <1>17 DEF f

-----------------------------------------------------------------------------
(* The steps.                                                              *)

LEMMA CommandsAre ==
  ASSUME NEW c \in Engine!Commands, Engine!IsManeuver(c)
  PROVE  c.man # NoManeuver
<1>1. \/ c \in [cmd : {"MANEUVER", "PRELOAD"}, man : Maneuvers, bar : Bars]
      \/ c.cmd \in {"START", "HIDE"} \/ c.cmd = "BARGRAPH"
  BY DEF Engine!Commands
<1> QED
  BY <1>1, SceneAssumption DEF Engine!IsManeuver

LEMMA ReadKeepsScene == SceneInv /\ Read => SceneInv'
<1> SUFFICES ASSUME SceneInv, Read PROVE SceneInv'
  OBVIOUS
<1>1. PICK c \in Engine!Commands :
        /\ eng' = Engine!AtOnce(eng, c)
        /\ got' = IF Engine!IsManeuver(c) THEN {c} ELSE got
        /\ scene' = [AtOnce(eng, scene, c) EXCEPT !.over = FALSE]
  BY DEF Read
<1> DEFINE a == AtOnce(eng, scene, c)
<1>2. StageInv(eng', a)
  BY <1>1, ReadStage DEF SceneInv
<1> HIDE DEF a
<1>3. /\ SceneShape(scene') /\ ~scene'.over
      /\ scene'.struck = a.struck /\ scene'.road = a.road /\ scene'.path = a.path
      /\ scene'.fade = a.fade /\ scene'.alpha = a.alpha /\ scene'.screen = a.screen
  BY <1>1, <1>2 DEF StageInv, SceneShape, NewScene, a
<1>4. scene'.mark = a.mark /\ scene'.due = a.due
  BY <1>1, <1>2 DEF StageInv, SceneShape, NewScene, a
<1>5. StageInv(eng', scene')
  BY <1>2, <1>3, <1>4 DEF StageInv, TextureIs, FadeIs, Still
<1>6. GotOK'
  BY <1>1, CommandsAre DEF SceneInv, GotOK
<1> QED
  BY <1>3, <1>5, <1>6 DEF SceneInv, ScreenIsCurrent

LEMMA ResizeKeepsScene == SceneInv /\ Resize => SceneInv'
<1> SUFFICES ASSUME SceneInv, Resize PROVE SceneInv'
  OBVIOUS
<1>1. /\ eng' = eng /\ got' = got
      /\ scene' = [scene EXCEPT !.struck = TRUE, !.due = TRUE, !.road = << >>, !.over = FALSE]
  BY DEF Resize
<1>2. EngineOK(eng) /\ SceneShape(scene) /\ FadeIs(eng, scene)
  BY DEF SceneInv, StageInv
<1>3. /\ SceneShape(scene') /\ ~scene'.over /\ scene'.struck /\ scene'.due
      /\ scene'.fade = scene.fade
  BY <1>1, <1>2 DEF SceneShape, NewScene
<1>4. EngineOK(eng') /\ FadeIs(eng', scene') /\ GotOK'
  BY <1>1, <1>2, <1>3 DEF FadeIs, SceneInv, GotOK
<1>5. StageInv(eng', scene')
  BY <1>3, <1>4 DEF StageInv, TextureIs, Still
<1> QED
  BY <1>3, <1>4, <1>5 DEF SceneInv, ScreenIsCurrent

(* Of what is to be seen only the bar's alpha changes with the turn.       *)
LEMMA AlphaIs ==
  ASSUME NEW alpha \in {"none", "part", "full"}, NEW on \in BOOLEAN,
         NEW next \in AlphaNext(alpha, on)
  PROVE  /\ next \in {"none", "part", "full"}
         /\ next # "part" => next = IF on THEN "full" ELSE "none"
BY DEF AlphaNext

LEMMA TurnKeepsScene == SceneInv /\ Turn => SceneInv'
<1> SUFFICES ASSUME SceneInv, Turn PROVE SceneInv'
  OBVIOUS
<1>1. got' = {}
  BY DEF Turn
<1>2. PICK e1 \in (IF got = {} THEN {eng} ELSE {Engine!ApplyLatest(eng, c) : c \in got}),
           s1 \in (IF got = {} THEN {scene} ELSE {Applied(eng, scene, c) : c \in got}),
           ends \in BOOLEAN, straight \in BOOLEAN, full \in BOOLEAN :
     \E s2 \in Ticked(e1, s1) :
       LET e2 == Engine!Tick(e1)
           s3 == Faded(s2, full)
       IN \E alpha \in AlphaNext(s3.alpha, e2.bar # Off) :
            LET due == \/ s3.due \/ s3.mark \/ NeedsRedraw(e2, s3)
                       \/ alpha # s3.alpha
                s4 == [s3 EXCEPT !.mark = FALSE, !.alpha = alpha, !.over = TRUE]
                drawn == Frame(e2, s4, ends, straight)
            IN IF due THEN eng' = drawn.e /\ scene' = drawn.s
               ELSE eng' = e2 /\ scene' = s4
  BY DEF Turn
<1>3. PICK s2 \in Ticked(e1, s1) :
       LET e2 == Engine!Tick(e1)
           s3 == Faded(s2, full)
       IN \E alpha \in AlphaNext(s3.alpha, e2.bar # Off) :
            LET due == \/ s3.due \/ s3.mark \/ NeedsRedraw(e2, s3)
                       \/ alpha # s3.alpha
                s4 == [s3 EXCEPT !.mark = FALSE, !.alpha = alpha, !.over = TRUE]
                drawn == Frame(e2, s4, ends, straight)
            IN IF due THEN eng' = drawn.e /\ scene' = drawn.s
               ELSE eng' = e2 /\ scene' = s4
  BY <1>2
<1> DEFINE e2 == Engine!Tick(e1)
           s3 == Faded(s2, full)
<1>4. PICK alpha \in AlphaNext(s3.alpha, e2.bar # Off) :
            LET due == \/ s3.due \/ s3.mark \/ NeedsRedraw(e2, s3)
                       \/ alpha # s3.alpha
                s4 == [s3 EXCEPT !.mark = FALSE, !.alpha = alpha, !.over = TRUE]
                drawn == Frame(e2, s4, ends, straight)
            IN IF due THEN eng' = drawn.e /\ scene' = drawn.s
               ELSE eng' = e2 /\ scene' = s4
  BY <1>3
<1> DEFINE due == \/ s3.due \/ s3.mark \/ NeedsRedraw(e2, s3) \/ alpha # s3.alpha
           s4 == [s3 EXCEPT !.mark = FALSE, !.alpha = alpha, !.over = TRUE]
           drawn == Frame(e2, s4, ends, straight)
<1>5. /\ due => eng' = drawn.e /\ scene' = drawn.s
      /\ ~due => eng' = e2 /\ scene' = s4
  BY <1>4
<1>6. StageInv(e1, s1)
  <2>1. CASE got = {}
    BY <1>2, <2>1 DEF SceneInv
  <2>2. CASE got # {}
    <3>1. PICK c \in got : e1 = Engine!ApplyLatest(eng, c)
      BY <1>2, <2>2
    <3>2. PICK d \in got : s1 = Applied(eng, scene, d)
      BY <1>2, <2>2
    <3>3. c = d /\ Engine!IsManeuver(c) /\ c.man # NoManeuver
      BY DEF SceneInv, GotOK
    <3> QED
      BY <3>1, <3>2, <3>3, AppliedStage DEF SceneInv
  <2> QED
    BY <2>1, <2>2
<1>7. /\ StageInv(e2, s2)
      /\ e2.phase = "PUSHING" => Engine!IsPushing(e2)
  BY <1>6, TickedStage
<1>8. StageInv(e2, s3)
  BY <1>7, FadedStage
<1>9. /\ alpha \in {"none", "part", "full"}
      /\ alpha # "part" => alpha = IF e2.bar # Off THEN "full" ELSE "none"
  <2>1. s3.alpha \in {"none", "part", "full"}
    BY <1>8 DEF StageInv, SceneShape
  <2> HIDE DEF s3, e2
  <2> QED
    BY <2>1, AlphaIs
<1> HIDE DEF s3, e2
<1>10. /\ SceneShape(s4) /\ ~s4.mark /\ s4.over /\ s4.alpha = alpha
       /\ s4.struck = s3.struck /\ s4.road = s3.road /\ s4.path = s3.path
       /\ s4.fade = s3.fade /\ s4.screen = s3.screen
  BY <1>8, <1>9 DEF StageInv, SceneShape, NewScene
<1>11. s4.due = s3.due
  BY <1>8 DEF StageInv, SceneShape, NewScene
<1>12. TextureIs(e2, s4) /\ FadeIs(e2, s4)
  BY <1>8, <1>10 DEF StageInv, TextureIs, FadeIs
<1>13. CASE due
  <2> HIDE DEF s4
  <2>1. /\ StageInv(drawn.e, drawn.s) /\ drawn.e.bar = e2.bar
        /\ drawn.s.screen.roads = Wanted(drawn.e)
        /\ drawn.s.screen.route = WantedRoute(drawn.e)
        /\ drawn.s.alpha = s4.alpha /\ drawn.s.over = s4.over /\ drawn.s.mark = s4.mark
    <3>1. EngineOK(e2)
      BY <1>8 DEF StageInv
    <3>2. SceneShape(s4) /\ (e2.phase = "PUSHING" => Engine!IsPushing(e2))
      BY <1>7, <1>10
    <3>3. ShowsIt(e2, s4, drawn)
      BY <1>12, <3>1, <3>2, FrameIs
    <3> HIDE DEF drawn
    <3> QED
      BY <3>3 DEF ShowsIt
  <2>2. eng' = drawn.e /\ scene' = drawn.s
    BY <1>5, <1>13
  <2> HIDE DEF drawn
  <2>3. ~scene'.mark
    BY <1>10, <2>1, <2>2
  <2> QED
    BY <1>1, <1>9, <1>10, <2>1, <2>2, <2>3 DEF SceneInv, ScreenIsCurrent, GotOK
<1>14. CASE ~due
  <2>1. StageInv(e2, s4)
    BY <1>8, <1>10, <1>11, <1>12, <1>14 DEF StageInv, Still
  <2>2. s4.screen.roads = Wanted(e2) /\ s4.screen.route = WantedRoute(e2)
    BY <1>8, <1>10, <1>14 DEF StageInv, Still
  <2> QED
    BY <1>1, <1>5, <1>9, <1>10, <1>14, <2>1, <2>2 DEF SceneInv, ScreenIsCurrent, GotOK
<1> QED
  BY <1>13, <1>14

LEMMA SceneInductive == SceneInv /\ [SceneNext]_sceneVars => SceneInv'
<1>1. ASSUME SceneInv, UNCHANGED sceneVars PROVE SceneInv'
  BY <1>1 DEF sceneVars, SceneInv, GotOK, StageInv, EngineOK, SceneShape, TextureIs, FadeIs,
     Still, ScreenIsCurrent, Wanted, WantedRoute
<1> QED
  BY <1>1, ReadKeepsScene, ResizeKeepsScene, TurnKeepsScene DEF SceneNext

LEMMA SceneInvShows == SceneInv => ScreenIsTrue
<1> SUFFICES ASSUME SceneInv PROVE ScreenIsTrue
  OBVIOUS
<1>1. ScreenIsCurrent
  BY DEF SceneInv, ScreenIsCurrent
<1>2. RestIsFinal
  BY DEF SceneInv, StageInv, Still, SceneShape, FadeIs, RestIsFinal
<1> QED
  BY <1>1, <1>2 DEF ScreenIsTrue

(***************************************************************************)
(* After each turn the screen shows the engine's maneuvers, and when no    *)
(* frame is due the picture is final (maneuver.c:2069, 2122; main.c:241,   *)
(* 592-628, 732), for every set of maneuvers and bars.                     *)
(***************************************************************************)
THEOREM ScreenStaysTrue == SceneSpec => []ScreenIsTrue
<1>1. SceneInit => SceneInv
  BY SceneStarts
<1> QED
  BY <1>1, SceneInductive, SceneInvShows, PTL DEF SceneSpec

-----------------------------------------------------------------------------
(* The lengths of a transition.                                            *)

Transitions ==
  [slug : MinRoute..MaxRoute, next : MinRoute..MaxRoute, start : {0, 1},
   lifts : BOOLEAN, nextLifts : BOOLEAN]

(* The fields of a transition as numbers.                                  *)
LEMMA Fields ==
  ASSUME NEW t \in Transitions
  PROVE  /\ t.slug \in Int /\ t.slug >= 400 /\ t.slug <= 2300
         /\ t.next \in Int /\ t.next >= 400 /\ t.next <= 2300
         /\ (t.start = 0 \/ t.start = 1)
<1>1. t.slug \in MinRoute..MaxRoute /\ t.next \in MinRoute..MaxRoute
  BY DEF Transitions
<1>2. t.start = 0 \/ t.start = 1
  BY DEF Transitions
<1>3. \A n \in MinRoute..MaxRoute : n \in Int /\ n >= 400 /\ n <= 2300
  BY DEF MinRoute, MaxRoute
<1> QED
  BY <1>1, <1>2, <1>3

(* The window's ends: at the start the head is the extension into its      *)
(* route or at its end, at the end it is an extension before the path's.   *)
LEMMA Window ==
  ASSUME NEW t \in Transitions
  PROVE  /\ t.start = 0 => StartHead(t) = 500
         /\ t.start = 1 => StartHead(t) = 500 + t.slug /\ StartTail(t) = 500
         /\ StartTail(t) \in Int /\ StartTail(t) >= 0 /\ StartTail(t) <= 500
         /\ EndHead(t) = t.slug + t.next + 1500
         /\ EndTail(t) = t.slug + 1500
<1>1. t.start = 0 => t.start * t.slug = 0
  BY Fields
<1>2. t.start = 1 => t.start * t.slug = t.slug
  BY Fields
<1>3. t.start = 0 => StartHead(t) = 500
  BY <1>1, Fields DEF StartHead, Within, AtLeast, AtMost, Ext
<1>4. t.start = 1 => StartHead(t) = 500 + t.slug
  BY <1>2, Fields DEF StartHead, Within, AtLeast, AtMost, Ext
<1>5. /\ t.start = 1 => StartTail(t) = 500
      /\ StartTail(t) \in Int /\ StartTail(t) >= 0 /\ StartTail(t) <= 500
  BY <1>3, <1>4, Fields DEF StartTail, AtLeast
<1>6. EndHead(t) = t.slug + t.next + 1500 /\ EndTail(t) = t.slug + 1500
  BY Fields DEF EndHead, EndTail, Total, Ext
<1> QED
  BY <1>3, <1>4, <1>5, <1>6

(* No push is taken for finished in its first frame.                       *)
THEOREM PushesLast ==
  ASSUME NEW t \in Transitions
  PROVE  PushLasts(t)
<1>1. CASE t.start = 0
  <2>1. Way(t) >= 2 * t.slug + t.next + 2000
    BY <1>1, Window, Fields DEF Way, AtLeast
  <2>2. 2 * (t.start * t.slug) = 0
    BY <1>1, Fields
  <2>3. StillPushing(t)
    <3>1. Way(t) \in Int
      BY <1>1, Window, Fields DEF Way, AtLeast
    <3> QED
      BY <2>1, <2>2, <3>1, Fields DEF StillPushing
  <2> QED
    BY <1>1, <2>3, Window, Fields DEF PushLasts
<1>2. CASE t.start = 1
  <2>1. Way(t) = (2 * t.slug + t.next + 3000) - (t.slug + 1000)
    BY <1>2, Window, Fields DEF Way, AtLeast
  <2>2. 2 * (t.start * t.slug) = 2 * t.slug
    BY <1>2, Fields
  <2> QED
    BY <1>2, <2>1, <2>2, Window, Fields DEF PushLasts, StillPushing
<1> QED
  BY <1>1, <1>2, Fields

(* The crossfade has all of the first roads at the start and all of the    *)
(* second at the end.                                                      *)
THEOREM RoadsAreHandedOver ==
  ASSUME NEW t \in Transitions
  PROVE  RoadsHandOver(t)
<1>1. XfadeMid(t) = 2 * t.slug + 2050
  BY Fields DEF XfadeMid, CurZoneEnd, NextZoneStart, AtLeast, Total, Ext, ExitReach, EntryReach
<1>2. Xfade(t, StartHead(t)) = 0
  <2>1. StartHead(t) \in Int /\ StartHead(t) <= 500 + t.slug
    BY Window, Fields
  <2> QED
    BY <1>1, <2>1, Fields DEF Xfade, Within, AtLeast, AtMost, XfadeHalf
<1>3. Xfade(t, EndHead(t)) = 4 * XfadeHalf
  BY <1>1, Window, Fields DEF Xfade, Within, AtLeast, AtMost, XfadeHalf
<1> QED
  BY <1>2, <1>3 DEF RoadsHandOver

(* The head lands where it rests on the second route alone, at its height. *)
THEOREM LandsWhereItRests ==
  ASSUME NEW t \in Transitions
  PROVE  LandsAtRest(t)
<1>1. EndHead(t) - Restart(t) = RestingHead(t.next)
  BY Window, Fields DEF Restart, RestingHead, Ext
<1>2. ASSUME NEW d \in Int, d >= 0
      PROVE  Lift(t, Restart(t) + d) = LiftAlone(t.nextLifts, d)
  <2>1. /\ Restart(t) \in Int /\ Restart(t) + d >= Restart(t)
        /\ (Restart(t) + d) - Restart(t) = d
    BY <1>2, Fields DEF Restart, Ext
  <2> QED
    BY <2>1 DEF Lift
<1>3. \A d \in {0, Ext, Ext + t.next \div 2, RestingHead(t.next)} : d \in Int /\ d >= 0
  BY Fields DEF Ext, RestingHead
<1> QED
  BY <1>1, <1>2, <1>3 DEF LandsAtRest
=============================================================================
