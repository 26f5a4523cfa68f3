--------------------------- MODULE StickyChannel ---------------------------
(***************************************************************************)
(* What the bus promises to the modules on the Java side, without threads, *)
(* sockets or buffers: a publication may be lost, but                      *)
(*   - live traffic is handed over at most once and in the order it was    *)
(*     published, over all connections and all lives of dio_manager;       *)
(*   - a replay never takes a listener back to an older value.             *)
(* It does not promise that live traffic is newer than a replay before it. *)
(***************************************************************************)
EXTENDS Integers

CONSTANTS Types,   \* the sticky bus types
          Torn     \* what a listener gets when two frames ran together

VARIABLES
  pub,        \* publications so far; a payload is its number
  listener,   \* types somebody listens to
  seen,       \* type -> what its listener was given last, 0 for nothing yet
  lastLive    \* the last payload that came live

chanVars == <<pub, listener, seen, lastLive>>

Init ==
  /\ pub = 0
  /\ listener = {}
  /\ seen = [t \in Types |-> 0]
  /\ lastLive = 0

Publish ==
  /\ pub' = pub + 1
  /\ UNCHANGED <<listener, seen, lastLive>>

Hear(t, v) ==
  seen' = IF t \in listener THEN [seen EXCEPT ![t] = v] ELSE seen

DeliverLive(t, v) ==
  /\ lastLive < v /\ v =< pub
  /\ Hear(t, v)
  /\ lastLive' = v
  /\ UNCHANGED <<pub, listener>>

DeliverReplay(t, v) ==
  /\ 0 < v /\ v =< pub
  /\ seen[t] =< v
  /\ Hear(t, v)
  /\ UNCHANGED <<pub, listener, lastLive>>

DeliverTorn(t) ==
  /\ Hear(t, Torn)
  /\ UNCHANGED <<pub, listener, lastLive>>

Subscribe(t) ==
  /\ t \notin listener
  /\ listener' = listener \cup {t}
  /\ UNCHANGED <<pub, seen, lastLive>>

Unsubscribe(t) ==
  /\ t \in listener
  /\ listener' = listener \ {t}
  /\ seen' = [seen EXCEPT ![t] = 0]
  /\ UNCHANGED <<pub, lastLive>>

Next ==
  \/ Publish
  \/ \E t \in Types :
       \/ \E v \in 1 .. pub : DeliverLive(t, v) \/ DeliverReplay(t, v)
       \/ DeliverTorn(t)
       \/ Subscribe(t)
       \/ Unsubscribe(t)

Spec == Init /\ [][Next]_chanVars
=============================================================================
