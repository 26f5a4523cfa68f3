--------------------------- MODULE CarPlaySession ---------------------------
(***************************************************************************)
(* The HMI's side of a CarPlay session: CarPlayHook.java, the life of the  *)
(* route guidance objects it makes, and what BAPBridge.java begins and     *)
(* ends for each of them: the gate of the native guidance and the          *)
(* renderer's process, one for all.                                        *)
(*                                                                         *)
(* The device manager's thread calls onActivate(), onDeactivate() and,     *)
(* once a listener is registered, onDeviceStateUpdate().  Threads of their *)
(* own retry the initialisation until the services are there.  The bus     *)
(* reader begins and ends guidance under the route guidance's monitor, and *)
(* the reader of the renderer's connection answers its death.  CarPlayHook *)
(* has no lock, and the bridge's does not cover the beginning of           *)
(* handleRendererDied().                                                   *)
(***************************************************************************)
EXTENDS Integers

CONSTANTS
  Retries,         \* retry threads
  Guidances,       \* route guidance objects, each with its bridge
  Handlers,        \* device state listeners
  None,
  MaxSessions,     \* bound: activations
  MaxDeaths        \* bound: deaths of the renderer

SessionAssumption ==
  /\ None \notin Guidances \cup Handlers
  /\ MaxSessions \in Nat /\ MaxDeaths \in Nat

VARIABLES
  active, registered, retrying,
  listenerProxy,
  listening,  \* the listeners the device manager knows
  services,   \* the stock services are there
  device,     \* the device manager's thread: "idle", "try", "register",
              \* "add", or "stopped": the finally of onDeactivate() is next
  retry,      \* each retry thread: "none", "sleep", "try", "register",
              \* "add", "end"
  routeGuidance,
  started,    \* the route guidances between start() and stop()
  busUp, subscriber,
  guiding,    \* rgActive: those that show a route, their gate closed
  renderer,   \* the bridge whose renderer process runs
  prepared,   \* the bridges that take it to be prepared or started
  reader,     \* [at, of]: the reader of a dead connection: "none", "told",
              \* "launch"
  stayed,     \* history: a retry thread outlived its session
  revived,    \* history: this renderer was launched for no guidance
  sessions, deaths

hookVars == <<active, registered, retrying, listenerProxy, listening,
              services, device, retry, stayed, sessions>>
busVars == <<busUp, subscriber>>
guidanceVars == <<routeGuidance, started, busVars>>
bridgeVars == <<guiding, renderer, prepared, reader, revived, deaths>>
vars == <<hookVars, guidanceVars, bridgeVars>>

NoReader == [at |-> "none", of |-> None]

Init ==
  /\ active = FALSE /\ registered = FALSE /\ retrying = FALSE
  /\ listenerProxy = None /\ listening = {}
  /\ services \in BOOLEAN /\ device = "idle"
  /\ retry = [r \in Retries |-> "none"]
  /\ routeGuidance = None /\ started = {}
  /\ busUp = FALSE /\ subscriber = None
  /\ guiding = {} /\ renderer = None /\ prepared = {} /\ reader = NoReader
  /\ stayed = FALSE /\ revived = FALSE /\ sessions = 0 /\ deaths = 0

(* The stock services may come up after the phone.                         *)
ServicesUp ==
  /\ ~services /\ services' = TRUE
  /\ UNCHANGED <<active, registered, retrying, listenerProxy, listening,
                 device, retry, stayed, sessions, guidanceVars, bridgeVars>>

-----------------------------------------------------------------------------
(* tryInit(), on the device manager's thread and on a retry thread: it     *)
(* looks for the services, makes a route guidance, and registers.  The     *)
(* check of `registered' and the registration are two steps.               *)

\* Objects that nobody refers to are collected and stand for new ones.
Unused == Guidances \ (started \cup guiding \cup prepared
                         \cup {routeGuidance, renderer, subscriber, reader.of})

MakeGuidance ==
  /\ services
  /\ Unused # {} /\ routeGuidance' = CHOOSE g \in Unused : TRUE
  /\ UNCHANGED <<registered, listenerProxy, listening>>

NoServices ==
  /\ ~services
  /\ UNCHANGED <<registered, listenerProxy, listening, routeGuidance>>

SeeRegistered(yes) ==
  /\ registered = yes
  /\ UNCHANGED <<registered, listenerProxy, listening, routeGuidance>>

AddListener ==
  /\ \E h \in Handlers \ listening :
       listenerProxy' = h /\ listening' = listening \cup {h}
  /\ registered' = TRUE
  /\ UNCHANGED routeGuidance

\* One step of a thread at `at' in tryInit(): where it goes, failed or done.
TryInit(at, to, failed, done) ==
  \/ at = "try" /\ MakeGuidance /\ to = "register"
  \/ at = "try" /\ NoServices /\ to = failed
  \/ at = "register" /\ SeeRegistered(TRUE) /\ to = done
  \/ at = "register" /\ SeeRegistered(FALSE) /\ to = "add"
  \/ at = "add" /\ AddListener /\ to = done

\* What tryInit() leaves alone.
InitKeeps == UNCHANGED <<active, services, stayed, sessions, started, busVars,
                         bridgeVars>>

OnActivate ==
  /\ device = "idle" /\ ~active /\ sessions < MaxSessions
  /\ active' = TRUE /\ busUp' = TRUE /\ device' = "try"
  /\ sessions' = sessions + 1
  /\ stayed' = (stayed \/ \E r \in Retries : retry[r] # "none")
  /\ UNCHANGED <<registered, retrying, listenerProxy, listening, services,
                 retry, routeGuidance, started, subscriber, bridgeVars>>

(* startRetryThread() is synchronized and starts one thread.               *)
StartRetry ==
  IF retrying THEN UNCHANGED <<retrying, retry>>
  ELSE \E r \in Retries :
         /\ retry[r] = "none"
         /\ retry' = [retry EXCEPT ![r] = "sleep"] /\ retrying' = TRUE

DeviceInit ==
  /\ \E to \in {"register", "add", "idle", "failed"} :
       /\ TryInit(device, to, "failed", "idle")
       /\ IF to = "failed" THEN StartRetry /\ device' = "idle"
          ELSE device' = to /\ UNCHANGED <<retrying, retry>>
  /\ InitKeeps

(* A retry thread wakes every two seconds and looks at `active'.           *)
Wake(r) ==
  /\ retry[r] = "sleep"
  /\ retry' = [retry EXCEPT ![r] = IF active THEN "try" ELSE "end"]
  /\ UNCHANGED <<active, registered, retrying, listenerProxy, listening,
                 services, device, stayed, sessions, guidanceVars, bridgeVars>>

RetryInit(r) ==
  /\ \E to \in {"register", "add", "sleep", "end"} :
       /\ TryInit(retry[r], to, "sleep", "end")
       /\ retry' = [retry EXCEPT ![r] = to]
  /\ InitKeeps /\ UNCHANGED <<retrying, device>>

RetryEnd(r) ==
  /\ retry[r] = "end"
  /\ retry' = [retry EXCEPT ![r] = "none"] /\ retrying' = FALSE
  /\ UNCHANGED <<active, registered, listenerProxy, listening, services,
                 device, stayed, sessions, guidanceVars, bridgeVars>>

-----------------------------------------------------------------------------
(* The bridge.  Guidance begins with the first active frame: the native    *)
(* gate closes.  It ends by onStop(), which arms a delayed stop, and at    *)
(* once onShutdown(), which takes it back and does the work itself.        *)

BeginGuidance(g) ==
  /\ busUp /\ subscriber = g /\ g \in started \ guiding
  /\ guiding' = guiding \cup {g}
  /\ UNCHANGED <<hookVars, guidanceVars, renderer, prepared, reader, revived,
                 deaths>>

\* It slays any renderer, whoever launched it.
StopCustomRenderer(g) ==
  prepared' = prepared \ {g} /\ renderer' = None /\ revived' = FALSE

\* Mutant: the end of guidance leaves the renderer to the delayed stop.
Shutdown_Deferred(g) ==
  /\ guiding' = guiding \ {g} /\ UNCHANGED <<prepared, renderer, revived>>

\* onShutdown(); the native gate opens behind the renderer's end.
Shutdown(g) == StopCustomRenderer(g) /\ guiding' = guiding \ {g}

EndGuidance(g) ==
  /\ busUp /\ subscriber = g /\ g \in started \cap guiding
  /\ Shutdown(g)
  /\ UNCHANGED <<hookVars, guidanceVars, reader, deaths>>

(* startCustomRenderer(): what runs is slain, and the new process answers  *)
(* READY or is slain too.  The update waits for the thread that does it.   *)
Launch(g) ==
  IF g \in prepared THEN UNCHANGED <<renderer, prepared>>
  ELSE \/ renderer' = g /\ prepared' = prepared \cup {g}
       \/ renderer' = None /\ UNCHANGED prepared

Prepare(g) ==
  /\ busUp /\ subscriber = g /\ g \in (started \cap guiding) \ prepared
  /\ Launch(g) /\ revived' = FALSE
  /\ UNCHANGED <<hookVars, guidanceVars, guiding, reader, deaths>>

(* The process ends; the reader finds the connection still its own.        *)
RendererDies ==
  /\ renderer # None /\ deaths < MaxDeaths /\ reader = NoReader
  /\ renderer' = None /\ deaths' = deaths + 1
  /\ reader' = [at |-> "told", of |-> renderer]
  /\ UNCHANGED <<hookVars, guidanceVars, guiding, prepared, revived>>

(* handleRendererDied(): it slays what runs and looks at the flags, both   *)
(* without the lock, and then launches under it.  The answer comes too     *)
(* soon after the last within the cooldown.                                *)
HandleRendererDied ==
  /\ reader.at = "told" /\ renderer' = None
  /\ \/ /\ reader.of \in prepared
        /\ prepared' = prepared \ {reader.of}
        /\ reader' = [reader EXCEPT !.at = "launch"]
     \/ reader' = NoReader /\ UNCHANGED prepared
  /\ UNCHANGED <<hookVars, guidanceVars, guiding, revived, deaths>>

Relaunch ==
  /\ reader.at = "launch" /\ reader' = NoReader
  /\ Launch(reader.of)
  /\ revived' = (renderer' # None /\ reader.of \notin guiding)
  /\ UNCHANGED <<hookVars, guidanceVars, guiding, deaths>>

-----------------------------------------------------------------------------
(* start() and stop() of a route guidance.                                 *)
StartGuidance(g) ==
  /\ started' = started \cup {g} /\ subscriber' = g /\ busUp' = TRUE
  /\ UNCHANGED bridgeVars

StopGuidance(g) ==
  IF g \in started
  THEN /\ started' = started \ {g} /\ subscriber' = None
       /\ Shutdown(g) /\ UNCHANGED <<reader, deaths>>
  ELSE UNCHANGED <<started, subscriber, bridgeVars>>

(* A device in use starts the guidance; one that is no CarPlay device any  *)
(* more stops it.                                                          *)
OnDeviceStateUpdate ==
  /\ device = "idle" /\ listening # {} /\ routeGuidance # None
  /\ \/ routeGuidance \notin started /\ StartGuidance(routeGuidance)
     \/ /\ routeGuidance \in started /\ StopGuidance(routeGuidance)
        /\ UNCHANGED busUp
  /\ UNCHANGED <<hookVars, routeGuidance>>

(* onDeactivate(): the route guidance and the listener, and in its finally *)
(* the flags and the bus.  A thread in tryInit() does not notice.          *)
OnDeactivate ==
  /\ device = "idle" /\ active
  /\ active' = FALSE /\ device' = "stopped"
  /\ StopGuidance(routeGuidance) /\ routeGuidance' = None
  /\ listening' = IF registered THEN listening \ {listenerProxy} ELSE listening
  /\ stayed' = (stayed \/ \E r \in Retries :
                            retry[r] \in {"try", "register", "add"})
  /\ UNCHANGED <<busUp, registered, retrying, listenerProxy, services, retry,
                 sessions>>

\* Mutant: the finally forgets to take `registered' back.
ForgetSession_KeepsRegistered ==
  /\ device = "stopped" /\ device' = "idle"
  /\ listenerProxy' = None /\ retrying' = FALSE /\ busUp' = FALSE
  /\ UNCHANGED <<active, registered, listening, services, retry,
                 stayed, sessions, routeGuidance, started, subscriber,
                 bridgeVars>>

ForgetSession ==
  /\ device = "stopped" /\ device' = "idle"
  /\ registered' = FALSE /\ listenerProxy' = None /\ retrying' = FALSE
  /\ busUp' = FALSE
  /\ UNCHANGED <<active, listening, services, retry, stayed, sessions,
                 routeGuidance, started, subscriber, bridgeVars>>

RetryStep(r) == Wake(r) \/ RetryInit(r) \/ RetryEnd(r)

Next ==
  \/ ServicesUp \/ OnActivate \/ DeviceInit \/ OnDeviceStateUpdate
  \/ OnDeactivate \/ ForgetSession
  \/ \E r \in Retries : RetryStep(r)
  \/ \E g \in Guidances : BeginGuidance(g) \/ EndGuidance(g) \/ Prepare(g)
  \/ RendererDies \/ HandleRendererDied \/ Relaunch

Spec == Init /\ [][Next]_vars

(* The threads run on.                                                     *)
Fairness ==
  /\ WF_vars(DeviceInit) /\ WF_vars(ForgetSession)
  /\ \A r \in Retries : WF_vars(RetryStep(r))

FairSpec == Spec /\ Fairness

-----------------------------------------------------------------------------
(***************************************************************************)
(* Only a retry thread that outlives its session leaves anything behind.   *)
(* Otherwise the route guidance in use is the only one that runs, only a   *)
(* running one closes the native gate, and after onDeactivate() no         *)
(* listener, no subscription and no bus is left; and no renderer, except   *)
(* one that the reader of a dead connection launched after the end         *)
(* (CarPlayHook.java:93-140, BAPBridge.java:674-726, 2101-2128).           *)
(***************************************************************************)
OnlyLateThreadsLeave ==
  /\ ~stayed =>
       /\ guiding \subseteq started /\ started \subseteq {routeGuidance}
       /\ ~active /\ device = "idle" =>
            started = {} /\ listening = {} /\ subscriber = None /\ ~busUp
  /\ ~stayed /\ guiding = {} /\ reader = NoReader /\ ~revived =>
       renderer = None

(***************************************************************************)
(* In a session whose services are there, a route guidance is made and its *)
(* listener registered, whoever gets to it: the first attempt or a retry   *)
(* (CarPlayHook.java:75-86, 180-213).                                      *)
(***************************************************************************)
ReadyInTheEnd ==
  active /\ services
    ~> ~active \/ (routeGuidance # None /\ listenerProxy \in listening)
=============================================================================
