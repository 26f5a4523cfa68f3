--------------------------- MODULE Guidance_proofs ---------------------------
(***************************************************************************)
(* What a CarPlay session leaves behind, for any number of retry threads,  *)
(* route guidances, listeners, sessions and deaths of the renderer.        *)
(* SessionInv is inductive, and OnlyLateThreadsLeave follows from it.  And *)
(* what the router of Amap's frames lets the route guidance believe, over  *)
(* any frames, timers and disconnects: RouterInv.  The two share nothing.  *)
(***************************************************************************)
EXTENDS MCGuidance, TLAPS

InTryInit == {"try", "register", "add"}
Waiting   == {"sleep"} \cup InTryInit   \* a retry thread that may yet initialise

SessionTypes ==
  /\ DOMAIN retry = Retries
  /\ \A r \in Retries : retry[r] \in {"none", "end"} \cup Waiting
  /\ device \in {"idle", "stopped"} \cup InTryInit
  /\ started \subseteq Guidances
  /\ routeGuidance \in Guidances \cup {None}

(* One thread at a time is on its way through tryInit(), the device        *)
(* manager's or one that retries, and only while the session lasts.        *)
OneInitialises ==
  /\ \A r, s \in Retries : retry[r] # "none" /\ retry[s] # "none" => r = s
  /\ device \in InTryInit => active /\ \A r \in Retries : retry[r] = "none"
  /\ device = "stopped" => ~active
  /\ ~active => \A r \in Retries : retry[r] \notin InTryInit

(* Until it is through nothing is registered; until it has made a route    *)
(* guidance there is none.                                                 *)
NotYet ==
  /\ device \in InTryInit \/ (\E r \in Retries : retry[r] \in Waiting) =>
       ~registered /\ listening = {}
  /\ device = "try" \/ (\E r \in Retries : retry[r] \in {"sleep", "try"}) =>
       routeGuidance = None

(* What runs is what the session refers to.                                *)
InUse ==
  /\ guiding \subseteq started /\ started \subseteq {routeGuidance}
  /\ subscriber \in started \cup {None}
  /\ listening \subseteq {listenerProxy}
  /\ listening # {} => registered

(* What onDeactivate() has ended by its two halves.                        *)
Ended ==
  /\ ~active => /\ routeGuidance = None /\ listening = {}
                /\ started = {} /\ subscriber = None
  /\ ~active /\ device = "idle" => ~registered /\ ~busUp

(* With no guidance, no dead connection to answer and none revived for     *)
(* nobody there is no renderer, whichever threads have stayed.             *)
NoRenderer == guiding = {} /\ reader = Session!NoReader /\ ~revived => renderer = None

SessionInv ==
  /\ SessionTypes
  /\ ~stayed => OneInitialises /\ NotYet /\ InUse /\ Ended
  /\ NoRenderer

-----------------------------------------------------------------------------
LEMMA SessionStarts ==
  ASSUME Session!SessionAssumption, Session!Init
  PROVE  SessionInv
<1>1. \A r \in Retries : retry[r] = "none"
  BY DEF Session!Init
<1>2. SessionTypes
  BY DEF SessionTypes, Session!Init, Waiting
<1>3. OneInitialises /\ NotYet /\ InUse /\ Ended
  BY <1>1 DEF OneInitialises, NotYet, InUse, Ended, InTryInit, Waiting, Session!Init
<1>4. NoRenderer
  BY DEF NoRenderer, Session!Init
<1> QED
  BY <1>2, <1>3, <1>4 DEF SessionInv

(* A step of tryInit() that did not fail, by itself: what its thread was   *)
(* at, what it made, and where it is now.                                  *)
LEMMA TryInitIs ==
  ASSUME Session!SessionAssumption, NEW at, NEW to, NEW failed, NEW done,
         Session!TryInit(at, to, failed, done)
  PROVE  \/ /\ at = "try" /\ to = "register" /\ routeGuidance' \in Guidances
            /\ UNCHANGED <<registered, listenerProxy, listening>>
         \/ /\ at = "try" /\ to = failed
            /\ UNCHANGED <<registered, listenerProxy, listening, routeGuidance>>
         \/ /\ at = "register" /\ registered /\ to = done
            /\ UNCHANGED <<registered, listenerProxy, listening, routeGuidance>>
         \/ /\ at = "register" /\ ~registered /\ to = "add"
            /\ UNCHANGED <<registered, listenerProxy, listening, routeGuidance>>
         \/ /\ at = "add" /\ to = done /\ registered' /\ UNCHANGED routeGuidance
            /\ listening' = listening \cup {listenerProxy'}
<1>1. Session!MakeGuidance => routeGuidance' \in Guidances
  BY DEF Session!MakeGuidance, Session!Unused
<1>2. Session!AddListener => registered' /\ listening' = listening \cup {listenerProxy'}
  BY DEF Session!AddListener
<1> QED
  BY <1>1, <1>2 DEF Session!TryInit, Session!MakeGuidance, Session!NoServices,
     Session!SeeRegistered, Session!AddListener

(* stop() takes the renderer away if there is a guidance to stop; in a     *)
(* session nobody else outlives, that one is the only one.                 *)
LEMMA StopIs ==
  ASSUME Session!SessionAssumption, SessionTypes, NoRenderer,
         Session!StopGuidance(routeGuidance)
  PROVE  /\ started' \subseteq started /\ NoRenderer'
         /\ InUse => started' = {} /\ subscriber' = None /\ guiding' = {}
<1>1. CASE routeGuidance \in started
  <2>1. /\ started' = started \ {routeGuidance} /\ subscriber' = None
        /\ renderer' = None /\ guiding' = guiding \ {routeGuidance}
    BY <1>1 DEF Session!StopGuidance, Session!Shutdown, Session!StopCustomRenderer
  <2>2. started' \subseteq started /\ NoRenderer'
    BY <2>1 DEF NoRenderer
  <2>3. InUse => started' = {} /\ guiding' = {}
    BY <2>1 DEF InUse
  <2> QED
    BY <2>1, <2>2, <2>3
<1>2. CASE routeGuidance \notin started
  <2>1. started' = started /\ subscriber' = subscriber /\ UNCHANGED Session!bridgeVars
    BY <1>2 DEF Session!StopGuidance
  <2>2. InUse => started = {} /\ guiding = {} /\ subscriber = None
    BY <1>2 DEF InUse
  <2> QED
    BY <2>1, <2>2 DEF Session!bridgeVars, NoRenderer
<1> QED
  BY <1>1, <1>2

LEMMA ServicesUpKeeps ==
  ASSUME SessionInv, Session!ServicesUp
  PROVE  SessionInv'
BY DEF SessionInv, Session!ServicesUp, SessionTypes, OneInitialises, NotYet, InUse, Ended,
       NoRenderer, Session!guidanceVars, Session!busVars, Session!bridgeVars

LEMMA OnActivateKeeps ==
  ASSUME SessionInv, Session!OnActivate
  PROVE  SessionInv'
<1>1. /\ device = "idle" /\ ~active /\ active' /\ device' = "try"
      /\ UNCHANGED <<registered, listenerProxy, listening, retry, routeGuidance, started,
                     subscriber, guiding, renderer, reader, revived>>
      /\ ~stayed' => ~stayed /\ \A r \in Retries : retry[r] = "none"
  BY DEF Session!OnActivate, Session!bridgeVars
<1>2. SessionTypes'
  BY <1>1 DEF SessionInv, SessionTypes, InTryInit
<1>3. NoRenderer'
  BY <1>1 DEF SessionInv, NoRenderer
<1>4. ASSUME ~stayed' PROVE OneInitialises' /\ NotYet' /\ InUse' /\ Ended'
  <2>1. OneInitialises /\ NotYet /\ InUse /\ Ended /\ SessionTypes
    BY <1>1, <1>4 DEF SessionInv
  <2>2. OneInitialises'
    BY <1>1, <1>4 DEF OneInitialises, InTryInit
  <2>3. NotYet'
    BY <1>1, <1>4, <2>1 DEF NotYet, Ended
  <2>4. InUse' /\ Ended'
    BY <1>1, <2>1 DEF InUse, Ended
  <2> QED
    BY <2>2, <2>3, <2>4
<1> QED
  BY <1>2, <1>3, <1>4 DEF SessionInv

LEMMA DeviceInitKeeps ==
  ASSUME Session!SessionAssumption, SessionInv, Session!DeviceInit
  PROVE  SessionInv'
<1>1. PICK to \in {"register", "add", "idle", "failed"} :
        /\ Session!TryInit(device, to, "failed", "idle")
        /\ IF to = "failed" THEN Session!StartRetry /\ device' = "idle"
           ELSE device' = to /\ UNCHANGED <<retrying, retry>>
  BY DEF Session!DeviceInit
<1>2. UNCHANGED <<active, stayed, started, subscriber, busUp, guiding, renderer, reader,
                  revived>>
  BY DEF Session!DeviceInit, Session!InitKeeps, Session!busVars, Session!bridgeVars
<1>3. /\ device \in InTryInit
      /\ \/ /\ device = "try" /\ device' = "register" /\ routeGuidance' \in Guidances
            /\ UNCHANGED <<registered, listenerProxy, listening>>
         \/ /\ device = "try" /\ device' = "idle" /\ to = "failed"
            /\ UNCHANGED <<registered, listenerProxy, listening, routeGuidance>>
         \/ /\ device = "register" /\ registered /\ device' = "idle"
            /\ UNCHANGED <<registered, listenerProxy, listening, routeGuidance>>
         \/ /\ device = "register" /\ ~registered /\ device' = "add"
            /\ UNCHANGED <<registered, listenerProxy, listening, routeGuidance>>
         \/ /\ device = "add" /\ device' = "idle" /\ registered' /\ UNCHANGED routeGuidance
            /\ listening' = listening \cup {listenerProxy'}
  BY <1>1, TryInitIs DEF InTryInit
(* At most one thread is started, and only when the attempt has failed.    *)
<1>4. /\ DOMAIN retry' = Retries
      /\ \/ \A r \in Retries : retry'[r] = retry[r]
         \/ /\ device = "try" /\ device' = "idle"
            /\ UNCHANGED <<registered, listenerProxy, listening, routeGuidance>>
            /\ \E q \in Retries :
                 retry'[q] = "sleep" /\ \A r \in Retries : r # q => retry'[r] = retry[r]
  <2>1. CASE UNCHANGED retry
    BY <2>1 DEF SessionInv, SessionTypes
  <2>2. CASE to = "failed" /\ ~retrying
    <3>1. device = "try" /\ device' = "idle"
          /\ UNCHANGED <<registered, listenerProxy, listening, routeGuidance>>
      BY <1>1, <2>2, TryInitIs
    <3>2. PICK q \in Retries : retry' = [retry EXCEPT ![q] = "sleep"]
      BY <1>1, <2>2 DEF Session!StartRetry
    <3> QED
      BY <3>1, <3>2 DEF SessionInv, SessionTypes
  <2> QED
    BY <1>1, <2>1, <2>2 DEF Session!StartRetry
<1>5. SessionTypes'
  BY <1>2, <1>3, <1>4 DEF SessionInv, SessionTypes, InTryInit, Waiting
<1>6. NoRenderer'
  BY <1>2 DEF SessionInv, NoRenderer
<1>7. ASSUME ~stayed' PROVE OneInitialises' /\ NotYet' /\ InUse' /\ Ended'
  <2>1. /\ OneInitialises /\ NotYet /\ InUse /\ Ended /\ SessionTypes
        /\ active /\ ~registered /\ listening = {}
        /\ \A r \in Retries : retry[r] = "none"
    BY <1>2, <1>3, <1>7 DEF SessionInv, OneInitialises, NotYet
  <2>2. OneInitialises'
    BY <1>2, <1>3, <1>4, <2>1 DEF OneInitialises, InTryInit
  <2>3. NotYet'
    <3>1. CASE \A r \in Retries : retry'[r] = retry[r]
      BY <1>3, <2>1, <3>1 DEF NotYet, InTryInit, Waiting
    <3>2. CASE /\ device = "try" /\ device' = "idle"
               /\ UNCHANGED <<registered, listenerProxy, listening, routeGuidance>>
      BY <2>1, <3>2 DEF NotYet, InTryInit
    <3> QED
      BY <1>4, <3>1, <3>2
  <2>4. InUse'
    <3>1. CASE device = "try"
      <4>1. routeGuidance = None
        BY <2>1, <3>1 DEF NotYet
      <4>2. started = {}
        BY <2>1, <4>1 DEF InUse, SessionTypes, Session!SessionAssumption
      <4> QED
        BY <1>2, <1>3, <2>1, <3>1, <4>2 DEF InUse
    <3>2. CASE device # "try"
      BY <1>2, <1>3, <2>1, <3>2 DEF InUse
    <3> QED
      BY <3>1, <3>2
  <2>5. Ended'
    BY <1>2, <2>1 DEF Ended
  <2> QED
    BY <2>2, <2>3, <2>4, <2>5
<1> QED
  BY <1>5, <1>6, <1>7 DEF SessionInv

LEMMA WakeKeeps ==
  ASSUME SessionInv, NEW r \in Retries, Session!Wake(r)
  PROVE  SessionInv'
<1>1. /\ retry[r] = "sleep"
      /\ UNCHANGED <<active, registered, listenerProxy, listening, device, stayed,
                     routeGuidance, started, busUp, subscriber, guiding, renderer, reader,
                     revived>>
  BY DEF Session!Wake, Session!guidanceVars, Session!busVars, Session!bridgeVars
<1>2. /\ DOMAIN retry' = Retries
      /\ \A q \in Retries : q # r => retry'[q] = retry[q]
      /\ retry'[r] = IF active THEN "try" ELSE "end"
  BY DEF Session!Wake, SessionInv, SessionTypes
<1>3. SessionTypes' /\ NoRenderer'
  BY <1>1, <1>2 DEF SessionInv, SessionTypes, NoRenderer, Waiting, InTryInit
<1>4. ASSUME ~stayed' PROVE OneInitialises' /\ NotYet' /\ InUse' /\ Ended'
  <2>1. OneInitialises /\ NotYet /\ InUse /\ Ended
    BY <1>1, <1>4 DEF SessionInv
  <2>2. OneInitialises'
    BY <1>1, <1>2, <2>1 DEF OneInitialises, InTryInit
  <2>3. NotYet'
    BY <1>1, <1>2, <2>1 DEF NotYet, Waiting, InTryInit
  <2>4. InUse' /\ Ended'
    BY <1>1, <2>1 DEF InUse, Ended
  <2> QED
    BY <2>2, <2>3, <2>4
<1> QED
  BY <1>3, <1>4 DEF SessionInv

LEMMA RetryInitKeeps ==
  ASSUME Session!SessionAssumption, SessionInv, NEW r \in Retries, Session!RetryInit(r)
  PROVE  SessionInv'
<1>1. PICK to \in {"register", "add", "sleep", "end"} :
        /\ Session!TryInit(retry[r], to, "sleep", "end")
        /\ retry' = [retry EXCEPT ![r] = to]
  BY DEF Session!RetryInit
<1>2. UNCHANGED <<device, active, stayed, started, subscriber, busUp, guiding, renderer,
                  reader, revived>>
  BY DEF Session!RetryInit, Session!InitKeeps, Session!busVars, Session!bridgeVars
<1>3. /\ DOMAIN retry' = Retries /\ retry'[r] = to
      /\ \A q \in Retries : q # r => retry'[q] = retry[q]
  BY <1>1 DEF SessionInv, SessionTypes
<1>4. /\ retry[r] \in InTryInit
      /\ \/ /\ retry[r] = "try" /\ to = "register" /\ routeGuidance' \in Guidances
            /\ UNCHANGED <<registered, listenerProxy, listening>>
         \/ /\ retry[r] = "try" /\ to = "sleep"
            /\ UNCHANGED <<registered, listenerProxy, listening, routeGuidance>>
         \/ /\ retry[r] = "register" /\ registered /\ to = "end"
            /\ UNCHANGED <<registered, listenerProxy, listening, routeGuidance>>
         \/ /\ retry[r] = "register" /\ ~registered /\ to = "add"
            /\ UNCHANGED <<registered, listenerProxy, listening, routeGuidance>>
         \/ /\ retry[r] = "add" /\ to = "end" /\ registered' /\ UNCHANGED routeGuidance
            /\ listening' = listening \cup {listenerProxy'}
  BY <1>1, TryInitIs DEF InTryInit
<1>5. SessionTypes'
  <2>1. routeGuidance' \in Guidances \cup {None}
    BY <1>4 DEF SessionInv, SessionTypes
  <2>2. \A q \in Retries : retry'[q] \in {"none", "end"} \cup Waiting
    BY <1>1, <1>3 DEF SessionInv, SessionTypes, InTryInit, Waiting
  <2> QED
    BY <1>2, <1>3, <2>1, <2>2 DEF SessionInv, SessionTypes
<1>6. NoRenderer'
  BY <1>2 DEF SessionInv, NoRenderer
<1>7. ASSUME ~stayed' PROVE OneInitialises' /\ NotYet' /\ InUse' /\ Ended'
  <2>1. /\ OneInitialises /\ NotYet /\ InUse /\ Ended /\ SessionTypes
        /\ active /\ ~registered /\ listening = {} /\ device \notin InTryInit
        /\ \A q \in Retries : q # r => retry[q] = "none"
    BY <1>2, <1>4, <1>7 DEF SessionInv, OneInitialises, NotYet, Waiting, InTryInit
  <2>2. OneInitialises'
    BY <1>2, <1>3, <2>1 DEF OneInitialises
  <2>3. NotYet'
    BY <1>2, <1>3, <1>4, <2>1 DEF NotYet, InTryInit, Waiting
  <2>4. InUse'
    <3>1. CASE retry[r] = "try"
      <4>1. routeGuidance = None
        BY <2>1, <3>1 DEF NotYet
      <4>2. started = {}
        BY <2>1, <4>1 DEF InUse, SessionTypes, Session!SessionAssumption
      <4> QED
        BY <1>2, <1>4, <2>1, <3>1, <4>2 DEF InUse
    <3>2. CASE retry[r] # "try"
      BY <1>2, <1>4, <2>1, <3>2 DEF InUse
    <3> QED
      BY <3>1, <3>2
  <2>5. Ended'
    BY <1>2, <2>1 DEF Ended
  <2> QED
    BY <2>2, <2>3, <2>4, <2>5
<1> QED
  BY <1>5, <1>6, <1>7 DEF SessionInv

LEMMA RetryEndKeeps ==
  ASSUME SessionInv, NEW r \in Retries, Session!RetryEnd(r)
  PROVE  SessionInv'
<1>1. /\ retry[r] = "end"
      /\ UNCHANGED <<active, registered, listenerProxy, listening, device, stayed,
                     routeGuidance, started, busUp, subscriber, guiding, renderer, reader,
                     revived>>
  BY DEF Session!RetryEnd, Session!guidanceVars, Session!busVars, Session!bridgeVars
<1>2. /\ DOMAIN retry' = Retries /\ retry'[r] = "none"
      /\ \A q \in Retries : q # r => retry'[q] = retry[q]
  BY DEF Session!RetryEnd, SessionInv, SessionTypes
<1>3. SessionTypes' /\ NoRenderer'
  BY <1>1, <1>2 DEF SessionInv, SessionTypes, NoRenderer
<1>4. ASSUME ~stayed' PROVE OneInitialises' /\ NotYet' /\ InUse' /\ Ended'
  <2>1. OneInitialises /\ NotYet /\ InUse /\ Ended
    BY <1>1, <1>4 DEF SessionInv
  <2>2. OneInitialises'
    BY <1>1, <1>2, <2>1 DEF OneInitialises, InTryInit
  <2>3. NotYet'
    BY <1>1, <1>2, <2>1 DEF NotYet, Waiting, InTryInit
  <2>4. InUse' /\ Ended'
    BY <1>1, <2>1 DEF InUse, Ended
  <2> QED
    BY <2>2, <2>3, <2>4
<1> QED
  BY <1>3, <1>4 DEF SessionInv

-----------------------------------------------------------------------------
(* The bridge changes who is guided and which renderer runs.               *)
LEMMA BridgeKeeps ==
  ASSUME SessionInv, UNCHANGED <<Session!hookVars, Session!guidanceVars>>,
         guiding' \subseteq guiding \cup (started \cap {subscriber}), NoRenderer'
  PROVE  SessionInv'
<1>1. UNCHANGED <<active, registered, listenerProxy, listening, device, retry, stayed,
                  routeGuidance, started, busUp, subscriber>>
  BY DEF Session!hookVars, Session!guidanceVars, Session!busVars
<1>2. SessionTypes'
  BY <1>1 DEF SessionInv, SessionTypes
<1>3. ASSUME ~stayed' PROVE OneInitialises' /\ NotYet' /\ InUse' /\ Ended'
  <2>1. OneInitialises /\ NotYet /\ InUse /\ Ended
    BY <1>1, <1>3 DEF SessionInv
  <2>2. OneInitialises' /\ NotYet'
    BY <1>1, <2>1 DEF OneInitialises, NotYet
  <2>3. InUse' /\ Ended'
    BY <1>1, <2>1 DEF InUse, Ended
  <2> QED
    BY <2>2, <2>3
<1> QED
  BY <1>2, <1>3 DEF SessionInv

LEMMA BeginGuidanceKeeps ==
  ASSUME SessionInv, NEW g \in Guidances, Session!BeginGuidance(g)
  PROVE  SessionInv'
<1>1. /\ guiding' = guiding \cup {g} /\ subscriber = g /\ g \in started
      /\ UNCHANGED <<Session!hookVars, Session!guidanceVars>>
  BY DEF Session!BeginGuidance
<1>2. NoRenderer'
  BY <1>1 DEF NoRenderer
<1>3. guiding' \subseteq guiding \cup (started \cap {subscriber})
  BY <1>1
<1> QED
  BY <1>1, <1>2, <1>3, BridgeKeeps

LEMMA EndGuidanceKeeps ==
  ASSUME SessionInv, NEW g \in Guidances, Session!EndGuidance(g)
  PROVE  SessionInv'
<1>1. /\ guiding' = guiding \ {g} /\ renderer' = None
      /\ UNCHANGED <<Session!hookVars, Session!guidanceVars>>
  BY DEF Session!EndGuidance, Session!Shutdown, Session!StopCustomRenderer
<1>2. NoRenderer'
  BY <1>1 DEF NoRenderer
<1>3. guiding' \subseteq guiding \cup (started \cap {subscriber})
  BY <1>1
<1> QED
  BY <1>1, <1>2, <1>3, BridgeKeeps

LEMMA PrepareKeeps ==
  ASSUME SessionInv, NEW g \in Guidances, Session!Prepare(g)
  PROVE  SessionInv'
<1>1. g \in guiding /\ UNCHANGED <<guiding, Session!hookVars, Session!guidanceVars>>
  BY DEF Session!Prepare
<1>2. NoRenderer'
  BY <1>1 DEF NoRenderer
<1>3. guiding' \subseteq guiding \cup (started \cap {subscriber})
  BY <1>1
<1> QED
  BY <1>1, <1>2, <1>3, BridgeKeeps

LEMMA RendererDiesKeeps ==
  ASSUME SessionInv, Session!RendererDies \/ Session!HandleRendererDied
  PROVE  SessionInv'
<1>1. renderer' = None /\ UNCHANGED <<guiding, Session!hookVars, Session!guidanceVars>>
  BY DEF Session!RendererDies, Session!HandleRendererDied
<1>2. NoRenderer'
  BY <1>1 DEF NoRenderer
<1>3. guiding' \subseteq guiding \cup (started \cap {subscriber})
  BY <1>1
<1> QED
  BY <1>1, <1>2, <1>3, BridgeKeeps

LEMMA RelaunchKeeps ==
  ASSUME SessionInv, Session!Relaunch
  PROVE  SessionInv'
<1>1. /\ revived' = (renderer' # None /\ reader.of \notin guiding)
      /\ UNCHANGED <<guiding, Session!hookVars, Session!guidanceVars>>
  BY DEF Session!Relaunch
<1>2. NoRenderer'
  BY <1>1 DEF NoRenderer
<1>3. guiding' \subseteq guiding \cup (started \cap {subscriber})
  BY <1>1
<1> QED
  BY <1>1, <1>2, <1>3, BridgeKeeps

(* A device state can only come when the session is set up.                *)
LEMMA OnDeviceStateUpdateKeeps ==
  ASSUME Session!SessionAssumption, SessionInv, Session!OnDeviceStateUpdate
  PROVE  SessionInv'
<1>1. /\ device = "idle" /\ listening # {} /\ routeGuidance # None
      /\ \/ Session!StartGuidance(routeGuidance)
         \/ Session!StopGuidance(routeGuidance)
      /\ UNCHANGED <<active, registered, listenerProxy, listening, device, retry, stayed,
                     routeGuidance>>
  BY DEF Session!OnDeviceStateUpdate, Session!hookVars
<1>2. SessionTypes /\ NoRenderer /\ routeGuidance \in Guidances
  BY <1>1 DEF SessionInv, SessionTypes
(* Either way nothing but this guidance and its renderer changes.          *)
<1>3. /\ started' \subseteq Guidances /\ NoRenderer'
      /\ InUse => /\ guiding' \subseteq started' /\ started' \subseteq {routeGuidance}
                  /\ subscriber' \in started' \cup {None}
  <2>1. CASE Session!StartGuidance(routeGuidance)
    <3>1. /\ started' = started \cup {routeGuidance} /\ subscriber' = routeGuidance
          /\ UNCHANGED <<guiding, renderer, reader, revived>>
      BY <2>1 DEF Session!StartGuidance, Session!bridgeVars
    <3> QED
      BY <1>2, <3>1 DEF SessionTypes, NoRenderer, InUse
  <2>2. CASE Session!StopGuidance(routeGuidance)
    BY <1>2, <2>2, StopIs DEF SessionTypes
  <2> QED
    BY <1>1, <2>1, <2>2
<1>4. SessionTypes'
  BY <1>1, <1>2, <1>3 DEF SessionTypes
<1>5. ASSUME ~stayed' PROVE OneInitialises' /\ NotYet' /\ InUse' /\ Ended'
  <2>1. OneInitialises /\ NotYet /\ InUse /\ Ended
    BY <1>1, <1>5 DEF SessionInv
  <2>2. OneInitialises' /\ NotYet'
    BY <1>1, <2>1 DEF OneInitialises, NotYet
  <2>3. InUse'
    BY <1>1, <1>3, <2>1 DEF InUse
  <2>4. Ended'
    BY <1>1, <2>1 DEF Ended
  <2> QED
    BY <2>2, <2>3, <2>4
<1> QED
  BY <1>3, <1>4, <1>5 DEF SessionInv

LEMMA OnDeactivateKeeps ==
  ASSUME Session!SessionAssumption, SessionInv, Session!OnDeactivate
  PROVE  SessionInv'
<1>1. /\ device = "idle" /\ ~active' /\ device' = "stopped"
      /\ Session!StopGuidance(routeGuidance) /\ routeGuidance' = None
      /\ listening' = IF registered THEN listening \ {listenerProxy} ELSE listening
      /\ UNCHANGED <<busUp, registered, listenerProxy, retry>>
      /\ ~stayed' => ~stayed /\ \A r \in Retries : retry[r] \notin InTryInit
  BY DEF Session!OnDeactivate, InTryInit
<1>2. SessionTypes /\ NoRenderer
  BY DEF SessionInv
<1>3. /\ started' \subseteq started /\ NoRenderer'
      /\ InUse => started' = {} /\ subscriber' = None /\ guiding' = {}
  BY <1>1, <1>2, StopIs
<1>4. SessionTypes'
  BY <1>1, <1>2, <1>3 DEF SessionTypes
<1>5. ASSUME ~stayed' PROVE OneInitialises' /\ NotYet' /\ InUse' /\ Ended'
  <2>1. OneInitialises /\ NotYet /\ InUse /\ Ended
    BY <1>1, <1>5 DEF SessionInv
  <2>2. OneInitialises'
    BY <1>1, <1>5, <2>1 DEF OneInitialises, InTryInit
  <2>3. listening' = {}
    BY <1>1, <2>1 DEF InUse
  <2>4. NotYet'
    BY <1>1, <2>1, <2>3 DEF NotYet, InTryInit
  <2>5. InUse' /\ Ended'
    BY <1>1, <1>3, <2>1, <2>3 DEF InUse, Ended
  <2> QED
    BY <2>2, <2>4, <2>5
<1> QED
  BY <1>3, <1>4, <1>5 DEF SessionInv

LEMMA ForgetSessionKeeps ==
  ASSUME SessionInv, Session!ForgetSession
  PROVE  SessionInv'
<1>1. /\ device = "stopped" /\ device' = "idle" /\ ~registered' /\ ~busUp'
      /\ UNCHANGED <<active, listening, retry, stayed, routeGuidance, started, subscriber,
                     guiding, renderer, reader, revived>>
  BY DEF Session!ForgetSession, Session!bridgeVars
<1>2. SessionTypes' /\ NoRenderer'
  BY <1>1 DEF SessionInv, SessionTypes, NoRenderer
<1>3. ASSUME ~stayed' PROVE OneInitialises' /\ NotYet' /\ InUse' /\ Ended'
  <2>1. OneInitialises /\ NotYet /\ InUse /\ Ended /\ ~active
    BY <1>1, <1>3 DEF SessionInv, OneInitialises
  <2>2. OneInitialises'
    BY <1>1, <2>1 DEF OneInitialises, InTryInit
  <2>3. NotYet'
    BY <1>1, <2>1 DEF NotYet, Ended, InTryInit
  <2>4. InUse' /\ Ended'
    BY <1>1, <2>1 DEF InUse, Ended
  <2> QED
    BY <2>2, <2>3, <2>4
<1> QED
  BY <1>2, <1>3 DEF SessionInv

-----------------------------------------------------------------------------
LEMMA SessionSound ==
  ASSUME Session!SessionAssumption
  PROVE  Session!Spec => []SessionInv
<1>1. Session!Init => SessionInv
  BY SessionStarts
<1>2. SessionInv /\ [Session!Next]_(Session!vars) => SessionInv'
  <2> SUFFICES ASSUME SessionInv, [Session!Next]_(Session!vars) PROVE SessionInv'
    OBVIOUS
  <2>1. CASE UNCHANGED Session!vars
    <3>1. /\ UNCHANGED <<Session!hookVars, Session!guidanceVars>>
          /\ UNCHANGED <<guiding, renderer, reader, revived>>
      BY <2>1 DEF Session!vars, Session!bridgeVars
    <3>2. NoRenderer' /\ guiding' \subseteq guiding \cup (started \cap {subscriber})
      BY <3>1 DEF SessionInv, NoRenderer
    <3> QED
      BY <3>1, <3>2, BridgeKeeps
  <2>2. CASE Session!ServicesUp \/ Session!OnActivate \/ Session!DeviceInit
    BY <2>2, ServicesUpKeeps, OnActivateKeeps, DeviceInitKeeps
  <2>3. CASE Session!OnDeviceStateUpdate \/ Session!OnDeactivate \/ Session!ForgetSession
    BY <2>3, OnDeviceStateUpdateKeeps, OnDeactivateKeeps, ForgetSessionKeeps
  <2>4. ASSUME NEW r \in Retries, Session!RetryStep(r)
        PROVE  SessionInv'
    BY <2>4, WakeKeeps, RetryInitKeeps, RetryEndKeeps DEF Session!RetryStep
  <2>5. ASSUME NEW g \in Guidances,
               Session!BeginGuidance(g) \/ Session!EndGuidance(g) \/ Session!Prepare(g)
        PROVE  SessionInv'
    BY <2>5, BeginGuidanceKeeps, EndGuidanceKeeps, PrepareKeeps
  <2>6. CASE Session!RendererDies \/ Session!HandleRendererDied \/ Session!Relaunch
    BY <2>6, RendererDiesKeeps, RelaunchKeeps
  <2> QED
    BY <2>1, <2>2, <2>3, <2>4, <2>5, <2>6 DEF Session!Next
<1> QED
  BY <1>1, <1>2, PTL DEF Session!Spec

(***************************************************************************)
(* Unless a retry thread outlives its session, a CarPlay session leaves    *)
(* nothing behind: no guidance, no closed gate, no listener, subscription  *)
(* or bus, and no renderer that nobody launched anew after the end         *)
(* (CarPlayHook.java:93-140, BAPBridge.java:674-726, 2101-2128).           *)
(***************************************************************************)
THEOREM SessionsLeaveNothing == Session!Spec => []OnlyLateThreadsLeave
<1>1. Session!Spec => []SessionInv
  BY SessionAssumption, SessionSound
<1>2. SessionInv => OnlyLateThreadsLeave
  BY DEF SessionInv, OnlyLateThreadsLeave, Session!OnlyLateThreadsLeave, InUse, Ended,
     NoRenderer
<1> QED
  BY <1>1, <1>2, PTL

-----------------------------------------------------------------------------
(* The router of Amap's frames, by itself.                                 *)

(* Only the compatibility mode holds a guidance.  A probe is of a route    *)
(* without maneuvers that is not visible, so what its timer says for it is *)
(* what the phone said.                                                    *)
RouterInv ==
  /\ mode \in {"legacy", "probing", "v38"}
  /\ mode # "v38" => ~held
  /\ mode = "probing" => raw.count = 0 /\ raw.visible = 0
  /\ Amap!LegacyIsMain

LEMMA RouterStarts == Amap!Init => RouterInv
BY DEF Amap!Init, RouterInv, Amap!LegacyIsMain

(* Whatever a frame brings, guidance is what its fields ask for.           *)
LEMMA MainIs ==
  ASSUME NEW s, NEW count, NEW visible, NEW supports, NEW touch,
         rgActive => Amap!Want(state), Amap!Main(s, count, visible, supports, touch)
  PROVE  /\ state' = [state |-> s,
                      count |-> IF count # Amap!Absent THEN count
                                ELSE IF s = 0 THEN 0 ELSE state.count,
                      visible |-> IF visible # Amap!Absent THEN visible ELSE state.visible,
                      supports |-> supports]
         /\ rgActive' => Amap!Want(state)'
<1>1. Amap!Gate(touch) /\ state' = [state |-> s,
                      count |-> IF count # Amap!Absent THEN count
                                ELSE IF s = 0 THEN 0 ELSE state.count,
                      visible |-> IF visible # Amap!Absent THEN visible ELSE state.visible,
                      supports |-> supports]
  BY DEF Amap!Main
<1>2. CASE state' = state
  BY <1>1, <1>2 DEF Amap!Gate, Amap!Want
<1>3. CASE state' # state
  BY <1>1, <1>3 DEF Amap!Gate, Amap!Want
<1> QED
  BY <1>1, <1>2, <1>3

LEMMA FramesAre ==
  ASSUME NEW f \in Amap!Frames
  PROVE  /\ f.state \in 0 .. 2 /\ f.count \in 0 .. 1 /\ f.count # Amap!Absent
         /\ f.visible \in {Amap!Absent, 0, 1} /\ f.disconnect \in BOOLEAN
<1>1. f \in [state : 0..2, count : 0..1, visible : {Amap!Absent, 0, 1}, supports : 0..1,
            source : {"", "amap", "other"}, progress : BOOLEAN, evidence : BOOLEAN,
            disconnect : BOOLEAN]
  BY DEF Amap!Frames
<1>2. \A n \in 0 .. 1 : n # Amap!Absent
  BY DEF Amap!Absent
<1> QED
  BY <1>1, <1>2

(* A frame that goes out as it came is believed.                           *)
LEMMA ForwardIs ==
  ASSUME NEW f \in Amap!Frames, rgActive => Amap!Want(state), Amap!Forward(f)
  PROVE  /\ rgActive' => Amap!Want(state)'
         /\ ~f.disconnect =>
              /\ state'.state = f.state /\ state'.count = f.count
              /\ f.visible # Amap!Absent => state'.visible = f.visible
<1>1. CASE f.disconnect
  BY <1>1 DEF Amap!Forward
<1>2. CASE ~f.disconnect
  <2>1. PICK touch \in BOOLEAN : Amap!Main(f.state, f.count, f.visible, f.supports, touch)
    BY <1>2 DEF Amap!Forward
  <2>2. /\ rgActive' => Amap!Want(state)'
        /\ state' = [state |-> f.state,
                     count |-> IF f.count # Amap!Absent THEN f.count
                               ELSE IF f.state = 0 THEN 0 ELSE state.count,
                     visible |-> IF f.visible # Amap!Absent THEN f.visible
                                 ELSE state.visible,
                     supports |-> f.supports]
    BY <2>1, MainIs
  <2>3. f.count # Amap!Absent
    BY FramesAre
  <2>4. /\ state'.state = f.state /\ state'.count = f.count
        /\ f.visible # Amap!Absent => state'.visible = f.visible
    BY <2>2, <2>3
  <2> QED
    BY <2>2, <2>4
<1> QED
  BY <1>1, <1>2

(* Whichever way a frame is changed or held, guidance is what is wanted.   *)
LEMMA ProtectedIs ==
  ASSUME NEW f \in Amap!Frames, rgActive => Amap!Want(state), Amap!ForwardProtected(f)
  PROVE  rgActive' => Amap!Want(state)'
BY MainIs DEF Amap!ForwardProtected

LEMMA ProcessIs ==
  ASSUME NEW f \in Amap!Frames, rgActive => Amap!Want(state), NEW over, NEW was,
         Amap!Process(f, over, was)
  PROVE  rgActive' => Amap!Want(state)'
<1>1. ASSUME Amap!Display(f, was)
      PROVE  rgActive' => Amap!Want(state)'
  BY <1>1, MainIs DEF Amap!Display
<1>2. ASSUME Amap!Pass(f)
      PROVE  rgActive' => Amap!Want(state)'
  BY <1>2, ForwardIs DEF Amap!Pass
<1>3. ASSUME Amap!Hold(f, was)
      PROVE  rgActive' => Amap!Want(state)'
  BY <1>3, MainIs DEF Amap!Hold
<1> QED
  BY <1>1, <1>2, <1>3 DEF Amap!Process

LEMMA FrameKeeps ==
  ASSUME RouterInv, NEW f \in Amap!Frames, Amap!OnFrame(f)
  PROVE  RouterInv'
<1>1. /\ mode \in {"legacy", "probing", "v38"} /\ (mode # "v38" => ~held)
      /\ mode = "probing" => raw.count = 0 /\ raw.visible = 0
      /\ sourceName = "other" => mode = "legacy"
      /\ rgActive => Amap!Want(state)
  BY DEF RouterInv, Amap!LegacyIsMain
<1>2. /\ sourceName' = IF f.source = "" THEN sourceName ELSE f.source
      /\ raw'.state = f.state /\ raw'.count = f.count
      /\ f.visible # Amap!Absent => raw'.visible = f.visible
      /\ f.visible = Amap!Absent => raw'.visible = raw.visible
      /\ named' => f.visible # Amap!Absent /\ ~f.disconnect
  BY DEF Amap!OnFrame
<1>3. CASE Amap!ReleaseSource(f) \/ Amap!ClearHard(f)
  <2>1. mode' = "legacy" /\ ~held' /\ Amap!Forward(f)
    BY <1>3 DEF Amap!ReleaseSource, Amap!ClearHard, Amap!Disable
  <2> QED
    BY <1>1, <1>2, <2>1, ForwardIs DEF RouterInv, Amap!LegacyIsMain
<1>4. CASE Amap!Legacy(f) \/ Amap!VisibleAgain(f)
  <2>1. mode' = "legacy" /\ ~held' /\ Amap!Forward(f)
    BY <1>1, <1>4 DEF Amap!Legacy, Amap!VisibleAgain, Amap!Disable
  <2> QED
    BY <1>1, <1>2, <2>1, ForwardIs DEF RouterInv, Amap!LegacyIsMain
<1>5. CASE Amap!BeginProbe(f)
  <2>1. /\ mode = "legacy" /\ mode' = "probing" /\ held' = held
        /\ sourceName' # "other" /\ raw'.count = 0 /\ raw'.visible = 0
        /\ Amap!ForwardProtected(f)
    BY <1>5 DEF Amap!BeginProbe, Amap!ShouldBeginProbe, Amap!SoftInactive
  <2>2. rgActive' => Amap!Want(state)'
    BY <1>1, <2>1, ProtectedIs
  <2> QED
    BY <1>1, <2>1, <2>2 DEF RouterInv, Amap!LegacyIsMain
<1>6. CASE Amap!KeepProbing(f)
  <2>1. /\ mode = "probing" /\ mode' = "probing" /\ held' = held
        /\ ~Amap!SourceChanged(f) /\ ~Amap!Confirms(f) /\ raw'.visible # 1
        /\ Amap!ForwardProtected(f)
    BY <1>6 DEF Amap!KeepProbing, Amap!Routed
  <2>2. rgActive' => Amap!Want(state)'
    BY <1>1, <2>1, ProtectedIs
  <2>3. sourceName' # "other"
    BY <1>1, <1>2, <2>1 DEF Amap!SourceChanged
  <2>4. raw'.count = 0
    <3>1. ~(f.count > 0)
      BY <2>1 DEF Amap!Confirms
    <3>2. f.count = 0
      BY <3>1, FramesAre
    <3> QED
      BY <1>2, <3>2
  <2>5. raw'.visible = 0
    BY <1>1, <1>2, <2>1, FramesAre
  <2> QED
    BY <1>1, <2>1, <2>2, <2>3, <2>4, <2>5 DEF RouterInv, Amap!LegacyIsMain
<1>7. CASE Amap!ConfirmV38(f) \/ Amap!V38(f)
  <2>1. /\ mode # "legacy" /\ mode' = "v38" /\ ~Amap!SourceChanged(f)
        /\ \E over, was : Amap!Process(f, over, was)
    BY <1>7 DEF Amap!ConfirmV38, Amap!V38, Amap!Routed
  <2>2. rgActive' => Amap!Want(state)'
    BY <1>1, <2>1, ProcessIs
  <2>3. sourceName' # "other"
    BY <1>1, <1>2, <2>1 DEF Amap!SourceChanged
  <2> QED
    BY <2>1, <2>2, <2>3 DEF RouterInv, Amap!LegacyIsMain
<1> QED
  BY <1>3, <1>4, <1>5, <1>6, <1>7 DEF Amap!OnFrame

LEMMA ProbeTimerKeeps ==
  ASSUME RouterInv, NEW th, Amap!ProbeTimer(th)
  PROVE  RouterInv'
<1>1. UNCHANGED <<sourceName, raw, named>>
  BY DEF Amap!ProbeTimer
<1>2. CASE UNCHANGED <<mode, held, state, rgActive>>
  BY <1>1, <1>2 DEF RouterInv, Amap!LegacyIsMain, Amap!Want
<1>3. CASE Amap!ProbeExpires
  <2>1. /\ mode = "probing" /\ mode' = "legacy" /\ ~held'
        /\ Amap!Main(raw.state, 0, 0, raw.supports, FALSE)
    BY <1>3 DEF Amap!ProbeExpires, Amap!Disable
  <2>2. rgActive => Amap!Want(state)
    BY DEF RouterInv, Amap!LegacyIsMain
  <2>3. /\ rgActive' => Amap!Want(state)'
        /\ state' = [state |-> raw.state,
                     count |-> IF 0 # Amap!Absent THEN 0
                               ELSE IF raw.state = 0 THEN 0 ELSE state.count,
                     visible |-> IF 0 # Amap!Absent THEN 0 ELSE state.visible,
                     supports |-> raw.supports]
    <3>1. PICK s, u : s = raw.state /\ u = raw.supports
      OBVIOUS
    <3>2. Amap!Main(s, 0, 0, u, FALSE)
      BY <2>1, <3>1
    <3>3. /\ rgActive' => Amap!Want(state)'
          /\ state' = [state |-> s,
                       count |-> IF 0 # Amap!Absent THEN 0
                                 ELSE IF s = 0 THEN 0 ELSE state.count,
                       visible |-> IF 0 # Amap!Absent THEN 0 ELSE state.visible,
                       supports |-> u]
      BY <3>2, <2>2, MainIs
    <3> QED
      BY <3>1, <3>3
  <2>4. state'.state = raw.state /\ state'.count = 0 /\ state'.visible = 0
    <3>1. 0 # Amap!Absent
      BY DEF Amap!Absent
    <3>2. state' = [state |-> raw.state, count |-> 0, visible |-> 0,
                    supports |-> raw.supports]
      BY <2>3, <3>1
    <3> QED
      BY <3>2
  <2>5. raw.count = 0 /\ raw.visible = 0
    BY <2>1 DEF RouterInv
  <2>6. UNCHANGED <<sourceName, raw, named>>
    BY <1>1
  <2>7. Amap!LegacyIsMain'
    BY <2>1, <2>3, <2>4, <2>5, <2>6 DEF Amap!LegacyIsMain
  <2> QED
    BY <2>1, <2>7 DEF RouterInv
<1> QED
  BY <1>2, <1>3 DEF Amap!ProbeTimer

LEMMA SoftTimerKeeps ==
  ASSUME RouterInv, NEW th, Amap!SoftTimer(th)
  PROVE  RouterInv'
<1>1. UNCHANGED <<mode, sourceName, raw, named>>
  BY DEF Amap!SoftTimer, Amap!routerVars
<1>2. CASE UNCHANGED <<held, state, rgActive>>
  BY <1>1, <1>2 DEF RouterInv, Amap!LegacyIsMain, Amap!Want
<1>3. CASE held /\ ~held' /\ Amap!Main(1, 0, 0, raw.supports, FALSE)
  <2>1. mode = "v38" /\ (rgActive => Amap!Want(state)) /\ sourceName # "other"
    BY <1>3 DEF RouterInv, Amap!LegacyIsMain
  <2>2. rgActive' => Amap!Want(state)'
    BY <1>3, <2>1, MainIs
  <2> QED
    BY <1>1, <2>1, <2>2 DEF RouterInv, Amap!LegacyIsMain
<1> QED
  BY <1>2, <1>3 DEF Amap!SoftTimer, Amap!SoftExpires, Amap!holdVars

LEMMA RestartKeeps ==
  ASSUME RouterInv, NEW on, Amap!Restart(on)
  PROVE  RouterInv'
BY DEF Amap!Restart, Amap!Disable, RouterInv, Amap!LegacyIsMain

(***************************************************************************)
(* In the legacy mode the route guidance believes what the phone said, as  *)
(* if there were no router in front of it; a source other than Amap is     *)
(* always in that mode; and guidance is never shown unless its fields ask  *)
(* for it (AmapRouteGuidance.java:56-92, 311-327).                         *)
(***************************************************************************)
THEOREM LegacyIsBelieved == Amap!Spec => []LegacyIsMain
<1>1. Amap!Init => RouterInv
  BY RouterStarts
<1>2. RouterInv /\ [Amap!Next]_Amap!vars => RouterInv'
  <2> SUFFICES ASSUME RouterInv, [Amap!Next]_Amap!vars PROVE RouterInv'
    OBVIOUS
  <2>1. CASE UNCHANGED Amap!vars
    BY <2>1 DEF Amap!vars, Amap!routerVars, Amap!holdVars, RouterInv, Amap!LegacyIsMain,
                Amap!Want
  <2>2. ASSUME NEW f \in Amap!Frames, Amap!OnFrame(f)
        PROVE  RouterInv'
    BY <2>2, FrameKeeps
  <2>3. ASSUME NEW th, Amap!ProbeTimer(th) \/ Amap!SoftTimer(th)
        PROVE  RouterInv'
    BY <2>3, ProbeTimerKeeps, SoftTimerKeeps
  <2>4. ASSUME NEW on, Amap!Restart(on)
        PROVE  RouterInv'
    BY <2>4, RestartKeeps
  <2> QED
    BY <2>1, <2>2, <2>3, <2>4 DEF Amap!Next
<1>3. RouterInv => LegacyIsMain
  BY DEF RouterInv, LegacyIsMain
<1> QED
  BY <1>1, <1>2, <1>3, PTL DEF Amap!Spec
=============================================================================
