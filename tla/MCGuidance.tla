----------------------------- MODULE MCGuidance -----------------------------
(***************************************************************************)
(* For TLC: the route guidance hook by itself, and on the HMI the CarPlay  *)
(* session by itself and the router of Amap's frames by itself.  The three *)
(* share no state here: a behaviour takes the steps of one of them, so the *)
(* reachable states are those of each.                                     *)
(***************************************************************************)
EXTENDS MCRouteGuidance

CONSTANTS Retries, Guidances, Handlers, None, MaxSessions, MaxDeaths

VARIABLES
  active, registered, retrying, listenerProxy, listening, services, device,
  retry, routeGuidance, started, busUp, subscriber, guiding, renderer,
  prepared, reader, stayed, revived, sessions, deaths

VARIABLES
  mode, sourceName, activeRouteSeen, raw, state, rgActive, running, held,
  graceOver, fresh, committed, probing, soft, named, last

Session == INSTANCE CarPlaySession
Amap == INSTANCE AmapGuidance

ASSUME SessionAssumption == Session!SessionAssumption

sessionVars ==
  <<active, registered, retrying, listenerProxy, listening, services, device,
    retry, routeGuidance, started, busUp, subscriber, guiding, renderer,
    prepared, reader, stayed, revived, sessions, deaths>>
amapVars ==
  <<mode, sourceName, activeRouteSeen, raw, state, rgActive, running, held,
    graceOver, fresh, committed, probing, soft, named, last>>

VARIABLE who  \* whose steps this behaviour takes

allVars == <<hookVars, sessionVars, amapVars, who>>

HookStep ==
  who = "hook" /\ HookNext /\ UNCHANGED <<sessionVars, amapVars, who>>
SessionStep ==
  who = "session" /\ Session!Next /\ UNCHANGED <<hookVars, amapVars, who>>
AmapStep ==
  who = "amap" /\ Amap!Next /\ UNCHANGED <<hookVars, sessionVars, who>>

EachInit ==
  /\ HookInit /\ Session!Init /\ Amap!Init
  /\ who \in {"hook", "session", "amap"}

EachSpec ==
  /\ EachInit
  /\ [][HookStep \/ SessionStep \/ AmapStep]_allVars
  /\ HookFairness /\ Session!Fairness /\ Amap!Fairness

(* What a session leaves behind (CarPlayHook.java:93-140).                 *)
OnlyLateThreadsLeave == Session!OnlyLateThreadsLeave

(* What a session comes to (CarPlayHook.java:75-86, 180-213).              *)
ReadyInTheEnd == Session!ReadyInTheEnd

(* What the route guidance believes (AmapRouteGuidance.java:56-92).        *)
LegacyIsMain == Amap!LegacyIsMain

(* What ends a held guidance (AmapRouteGuidance.java:94-132, 236-309).     *)
Graces == Amap!Graces
=============================================================================
