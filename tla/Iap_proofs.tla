---------------------------- MODULE Iap_proofs ----------------------------
(***************************************************************************)
(* The reading side of the cover art hook.  The watched descriptors and    *)
(* their streams, for any number of threads, descriptors, streams and      *)
(* openings: DescriptorInv is inductive, and what TLC checks of the marks  *)
(* and the streams follows from it.  The images of one stream, for any     *)
(* number of sessions, images and packets and any limit: ImageInv is       *)
(* inductive, and every image the worker should get arrives whole and in   *)
(* order.                                                                  *)
(***************************************************************************)
EXTENDS IapDescriptors, ImageStream, FiniteSetTheorems, WellFoundedInduction, TLAPS

Exclusive == {"flag"} \cup Closing
Steps     == {"idle"} \cup Reading \cup Exclusive
Of(t, f, steps) == call[t].fd = f /\ call[t].at \in steps

DescriptorTypeOK ==
  /\ kind \in [Fds -> {"closed", "usb", "file", "socket"}]
  /\ opening \in [Fds -> Nat] /\ probed \in [Fds -> Nat]
  /\ DOMAIN skip = Fds /\ DOMAIN iap2 = Fds
  /\ DOMAIN streams = Streams
  /\ \A s \in Streams :
       /\ DOMAIN streams[s] = {"fd", "active", "packets", "calls", "buffer", "bytes"}
       /\ streams[s].calls \in Nat
       /\ streams[s].active => streams[s].fd \in Fds
  /\ DOMAIN call = Threads
  /\ \A t \in Threads :
       /\ DOMAIN call[t] = {"at", "fd", "of", "s"}
       /\ call[t].at \in Steps
       /\ call[t].at # "idle" => call[t].fd \in Fds
       /\ call[t].at \in {"work", "wipe"} => call[t].s \in Streams

(* open() and close() of one number are one call's at a time; what open()  *)
(* returned as the endpoint is on the list until close() takes it off.     *)
OneOwner ==
  /\ \A t, u \in Threads : \A f \in Fds :
       Of(t, f, Exclusive) /\ Of(u, f, Exclusive) => t = u
  /\ \A t \in Threads : \A f \in Fds :
       /\ Of(t, f, Exclusive) => kind[f] # "closed"
       /\ Of(t, f, {"flag"}) => kind[f] # "socket"
Listed ==
  \A f \in Fds : kind[f] = "usb" /\ (\A t \in Threads : ~Of(t, f, Exclusive)) => iap2[f]

(* A number has one stream; a stream without an owner has no buffer.       *)
OneStream ==
  /\ \A r, s \in Streams :
       streams[r].active /\ streams[s].active /\ streams[r].fd = streams[s].fd => r = s
  /\ \A s \in Streams : ~streams[s].active => ~streams[s].buffer
  /\ NoLeak

(* Of a number that was never closed under a read: ...                     *)
Mine(s, f) == streams[s].active /\ streams[s].fd = f

(* ... while it is closed or being closed nobody reads it, it has no mark, *)
(* and the stream it had is found and gone; ...                            *)
Gone(f) ==
  /\ \A t \in Threads : ~Of(t, f, Reading)
  /\ ~skip[f]
ClosedIsGone(f) ==
  /\ kind[f] = "closed" => Gone(f) /\ \A s \in Streams : ~Mine(s, f)
  /\ \A t \in Threads :
       /\ Of(t, f, Closing) => Gone(f)
       /\ Of(t, f, {"wipe"}) => \A s \in Streams : Mine(s, f) => s = call[t].s
       /\ Of(t, f, {"close"}) => \A s \in Streams : ~Mine(s, f)

(* ... what is read and held is of its present opening, and what was held  *)
(* without a packet was probed in it.                                      *)
OfThisOpening(f) ==
  /\ \A t \in Threads : Of(t, f, Reading) => call[t].of = opening[f]
  /\ \A s \in Streams : Mine(s, f) =>
       /\ streams[s].bytes \subseteq {opening[f]}
       /\ streams[s].calls =< probed[f] \/ probed[f] >= ProbeLimit
  /\ kind[f] = "socket" /\ skip[f] => probed[f] >= ProbeLimit

Unraced == \A f \in Fds \ raced : ClosedIsGone(f) /\ OfThisOpening(f)

(* Where no number was, close() wipes its own.                             *)
WipesOwn == raced = {} => \A t \in Threads : At(t, "wipe") => Mine(call[t].s, call[t].fd)

DescriptorInv == DescriptorTypeOK /\ OneOwner /\ Listed /\ OneStream /\ Unraced /\ WipesOwn

-----------------------------------------------------------------------------
(* Every set of streams that is not empty has a lowest one.                *)
LEMMA LowestIsOne ==
  ASSUME NEW S \in SUBSET Streams, S # {}
  PROVE  Lowest(S) \in S
<1>1. S \subseteq Nat
  BY FdAssumption DEF Streams
<1>2. IsWellFoundedOn(OpToRel(<, Nat), Nat)
  BY NatLessThanWellFounded
<1>3. PICK x \in S : \A y \in S : ~(<<y, x>> \in OpToRel(<, Nat))
  BY <1>1, <1>2, WFMin
<1>4. ASSUME NEW y \in S, y < x
      PROVE  FALSE
  <2>1. <<y, x>> \in OpToRel(<, Nat)
    BY <1>1, <1>4, <<y, x>> \in Nat \X Nat DEF OpToRel
  <2> QED
    BY <2>1, <1>3
<1>5. \A y \in S : x =< y
  BY <1>1, <1>4, x \in Nat
<1> QED
  BY <1>5 DEF Lowest

(* A call that begins, one that goes on and one that returns change what   *)
(* their own thread does and nothing else.                                 *)
LEMMA EntersIs ==
  ASSUME DescriptorTypeOK, NEW t \in Threads, NEW f \in Fds, NEW step \in Steps,
         Enters(t, f, step)
  PROVE  /\ call[t].at = "idle" /\ DOMAIN call' = Threads
         /\ \A u \in Threads : u # t => call'[u] = call[u]
         /\ DOMAIN call'[t] = {"at", "fd", "of", "s"}
         /\ call'[t].at = step /\ call'[t].fd = f /\ call'[t].of = opening'[f]
BY DEF DescriptorTypeOK, Enters, At, Idle

LEMMA GotoIs ==
  ASSUME DescriptorTypeOK, NEW t \in Threads, NEW step \in Steps, Goto(t, step)
  PROVE  /\ DOMAIN call' = Threads
         /\ \A u \in Threads : u # t => call'[u] = call[u]
         /\ DOMAIN call'[t] = {"at", "fd", "of", "s"}
         /\ call'[t].at = step /\ call'[t].fd = call[t].fd
         /\ call'[t].of = call[t].of /\ call'[t].s = call[t].s
BY DEF DescriptorTypeOK, Goto

LEMMA ReturnIs ==
  ASSUME DescriptorTypeOK, NEW t \in Threads, Return(t)
  PROVE  /\ DOMAIN call' = Threads
         /\ \A u \in Threads : u # t => call'[u] = call[u]
         /\ DOMAIN call'[t] = {"at", "fd", "of", "s"}
         /\ call'[t].at = "idle"
BY DEF DescriptorTypeOK, Return, Idle

LEMMA StartsSound == Init => DescriptorInv
<1> SUFFICES ASSUME Init PROVE DescriptorInv
  OBVIOUS
<1>1. /\ \A t \in Threads : call[t].at = "idle"
      /\ \A s \in Streams : ~streams[s].active /\ ~streams[s].buffer
      /\ \A f \in Fds : kind[f] = "closed" /\ ~skip[f]
  BY DEF Init, Idle, Empty
<1>2. DescriptorTypeOK
  BY DEF DescriptorTypeOK, Init, Idle, Empty, Steps
<1>3. OneOwner /\ Listed /\ WipesOwn
  BY <1>1 DEF OneOwner, Listed, WipesOwn, Of, Exclusive, Closing, At
<1>4. OneStream
  BY <1>1 DEF OneStream, NoLeak, Init
<1>5. Unraced
  BY <1>1 DEF Unraced, ClosedIsGone, OfThisOpening, Gone, Mine, Of, Reading, Closing
<1> QED
  BY <1>2, <1>3, <1>4, <1>5 DEF DescriptorInv

(* open(): the number was closed, so nothing of an earlier opening is left *)
(* of it unless it was closed under a read.                                *)
LEMMA OpenKeeps ==
  ASSUME DescriptorInv, NEW t \in Threads, NEW f \in Fds,
         NEW k \in {"usb", "file", "socket"}, Open(t, f, k)
  PROVE  DescriptorInv'
<1>1. DescriptorTypeOK /\ OneOwner /\ Listed /\ OneStream /\ Unraced /\ WipesOwn
  BY DEF DescriptorInv
<1>2. /\ kind[f] = "closed" /\ kind' = [kind EXCEPT ![f] = k]
      /\ opening' = [opening EXCEPT ![f] = @ + 1]
      /\ UNCHANGED <<skip, iap2, streams, probed, raced, leaked>>
      /\ k = "socket" => At(t, "idle") /\ UNCHANGED call
      /\ k # "socket" => Enters(t, f, "flag")
  BY DEF Open
<1>3. /\ \A u \in Threads : u # t => call'[u] = call[u]
      /\ DOMAIN call' = Threads /\ DOMAIN call'[t] = {"at", "fd", "of", "s"}
      /\ call[t].at = "idle"
      /\ \/ k = "socket" /\ call'[t] = call[t]
         \/ k # "socket" /\ call'[t].at = "flag" /\ call'[t].fd = f
  <2>1. CASE k = "socket"
    BY <1>1, <1>2, <2>1 DEF At, DescriptorTypeOK
  <2>2. CASE k # "socket"
    BY <1>1, <1>2, <2>2, EntersIs DEF Steps, Exclusive
  <2> QED
    BY <2>1, <2>2
<1>4. /\ kind'[f] = k /\ \A g \in Fds : g # f => kind'[g] = kind[g]
      /\ \A g \in Fds : g # f => opening'[g] = opening[g]
  BY <1>1, <1>2 DEF DescriptorTypeOK
<1>5. DescriptorTypeOK'
  <2>1. /\ kind' \in [Fds -> {"closed", "usb", "file", "socket"}]
        /\ opening' \in [Fds -> Nat] /\ (probed \in [Fds -> Nat])'
        /\ (DOMAIN skip = Fds /\ DOMAIN iap2 = Fds)'
    BY <1>1, <1>2 DEF DescriptorTypeOK
  <2>2. \A u \in Threads :
          /\ DOMAIN call'[u] = {"at", "fd", "of", "s"} /\ call'[u].at \in Steps
          /\ call'[u].at # "idle" => call'[u].fd \in Fds
          /\ call'[u].at \in {"work", "wipe"} => call'[u].s \in Streams
    BY <1>1, <1>3 DEF DescriptorTypeOK, Steps, Exclusive
  <2> QED
    BY <1>1, <1>2, <1>3, <2>1, <2>2 DEF DescriptorTypeOK
<1>6. OneOwner'
  BY <1>1, <1>2, <1>3, <1>4 DEF OneOwner, Of, Exclusive, Closing
<1>7. Listed'
  BY <1>1, <1>2, <1>3, <1>4 DEF Listed, Of, Exclusive, Closing
<1>8. OneStream'
  BY <1>1, <1>2 DEF OneStream, NoLeak
<1>9. Unraced'
  <2> SUFFICES ASSUME NEW g \in Fds \ raced PROVE ClosedIsGone(g)' /\ OfThisOpening(g)'
    BY <1>2 DEF Unraced
  <2>1. ClosedIsGone(g) /\ OfThisOpening(g)
    BY <1>1 DEF Unraced
  <2>2. \A u \in Threads : Of(u, g, Reading)' => Of(u, g, Reading) /\ call'[u] = call[u]
    BY <1>3 DEF Of, Reading
  <2>3. \A u \in Threads : Of(u, g, Closing)' => Of(u, g, Closing) /\ call'[u] = call[u]
    BY <1>3 DEF Of, Closing
  <2>4. \A s \in Streams : Mine(s, g)' <=> Mine(s, g)
    BY <1>2 DEF Mine
  <2>5. ClosedIsGone(g)'
    BY <1>2, <1>3, <1>4, <2>1, <2>2, <2>3, <2>4 DEF ClosedIsGone, Gone, Of, Closing
  <2>6. OfThisOpening(g)'
    <3>1. CASE g = f
      <4>1. Gone(f) /\ \A s \in Streams : ~Mine(s, f)
        BY <1>2, <2>1, <3>1 DEF ClosedIsGone
      <4> QED
        BY <1>2, <2>2, <2>4, <3>1, <4>1 DEF OfThisOpening, Gone
    <3>2. CASE g # f
      BY <1>2, <1>4, <2>1, <2>2, <2>4, <3>2 DEF OfThisOpening
    <3> QED
      BY <3>1, <3>2
  <2> QED
    BY <2>5, <2>6
<1>10. WipesOwn'
  BY <1>1, <1>2, <1>3 DEF WipesOwn, At, Mine
<1> QED
  BY <1>5, <1>6, <1>7, <1>8, <1>9, <1>10 DEF DescriptorInv

(* The flags are set: a number just opened has no reader and no stream.    *)
LEMMA SetFlagsKeeps ==
  ASSUME DescriptorInv, NEW t \in Threads, SetFlags(t)
  PROVE  DescriptorInv'
<1>1. DescriptorTypeOK /\ OneOwner /\ Listed /\ OneStream /\ Unraced /\ WipesOwn
  BY DEF DescriptorInv
<1>2. PICK f \in Fds : f = call[t].fd
  BY <1>1 DEF DescriptorTypeOK, SetFlags, At
<1>3. /\ call[t].at = "flag" /\ kind[f] \notin {"closed", "socket"}
      /\ iap2' = [iap2 EXCEPT ![f] = kind[f] = "usb"]
      /\ skip' = [skip EXCEPT ![f] = kind[f] # "usb"]
      /\ UNCHANGED <<kind, opening, streams, probed, raced, leaked>>
      /\ \A u \in Threads : u # t => ~Of(u, f, Closing)
  BY <1>1, <1>2 DEF SetFlags, At, OneOwner, Of, Exclusive
<1>4. /\ \A u \in Threads : u # t => call'[u] = call[u]
      /\ DOMAIN call' = Threads /\ DOMAIN call'[t] = {"at", "fd", "of", "s"}
      /\ call'[t].at = "idle"
  BY <1>1, ReturnIs DEF SetFlags
<1>5. DescriptorTypeOK'
  BY <1>1, <1>3, <1>4 DEF DescriptorTypeOK, Steps
<1>6. OneOwner'
  BY <1>1, <1>3, <1>4 DEF OneOwner, Of, Exclusive, Closing
<1>7. Listed'
  <2> SUFFICES ASSUME NEW g \in Fds, kind[g] = "usb",
                      (\A u \in Threads : ~Of(u, g, Exclusive))'
               PROVE  iap2'[g]
    BY <1>3 DEF Listed
  <2>1. CASE g = f
    BY <1>1, <1>3, <2>1 DEF DescriptorTypeOK
  <2>2. CASE g # f
    <3>1. \A u \in Threads : ~Of(u, g, Exclusive)
      BY <1>2, <1>4, <2>2 DEF Of
    <3> QED
      BY <1>1, <1>3, <2>2, <3>1 DEF Listed, DescriptorTypeOK
  <2> QED
    BY <2>1, <2>2
<1>8. OneStream'
  BY <1>1, <1>3 DEF OneStream, NoLeak
<1>9. Unraced'
  <2> SUFFICES ASSUME NEW g \in Fds \ raced PROVE ClosedIsGone(g)' /\ OfThisOpening(g)'
    BY <1>3 DEF Unraced
  <2>1. ClosedIsGone(g) /\ OfThisOpening(g)
    BY <1>1 DEF Unraced
  <2>2. \A u \in Threads : Of(u, g, Reading)' => Of(u, g, Reading) /\ call'[u] = call[u]
    BY <1>4 DEF Of, Reading
  <2>3. \A u \in Threads :
          Of(u, g, Closing)' => Of(u, g, Closing) /\ call'[u] = call[u] /\ g # f
    BY <1>3, <1>4 DEF Of, Closing
  <2>4. \A s \in Streams : Mine(s, g)' <=> Mine(s, g)
    BY <1>3 DEF Mine
  <2>5. g # f => skip'[g] = skip[g]
    BY <1>1, <1>3 DEF DescriptorTypeOK
  <2>6. ClosedIsGone(g)'
    <3>1. (kind[g] = "closed" => Gone(g) /\ \A s \in Streams : ~Mine(s, g))'
      BY <1>3, <2>1, <2>2, <2>4, <2>5 DEF ClosedIsGone, Gone
    <3>2. ASSUME NEW u \in Threads, Of(u, g, Closing)'
          PROVE  /\ Of(u, g, Closing) /\ call'[u] = call[u]
                 /\ Gone(g)'
      BY <2>1, <2>2, <2>3, <2>5, <3>2 DEF ClosedIsGone, Gone
    <3>3. ASSUME NEW u \in Threads
          PROVE  (/\ Of(u, g, Closing) => Gone(g)
                  /\ Of(u, g, {"wipe"}) => \A s \in Streams : Mine(s, g) => s = call[u].s
                  /\ Of(u, g, {"close"}) => \A s \in Streams : ~Mine(s, g))'
      BY <2>1, <2>4, <3>2 DEF ClosedIsGone, Of, Closing
    <3> QED
      BY <3>1, <3>3 DEF ClosedIsGone
  <2>7. OfThisOpening(g)'
    BY <1>3, <2>1, <2>2, <2>4, <2>5 DEF OfThisOpening
  <2> QED
    BY <2>6, <2>7
<1>10. WipesOwn'
  BY <1>1, <1>3, <1>4 DEF WipesOwn, At, Mine
<1> QED
  BY <1>5, <1>6, <1>7, <1>8, <1>9, <1>10 DEF DescriptorInv

(* read(): while the number is being closed this is the race; otherwise    *)
(* the call is one of the present opening.                                 *)
LEMMA ReadKeeps ==
  ASSUME DescriptorInv, NEW t \in Threads, NEW f \in Fds, Read(t, f)
  PROVE  DescriptorInv'
<1>1. DescriptorTypeOK /\ OneOwner /\ Listed /\ OneStream /\ Unraced /\ WipesOwn
  BY DEF DescriptorInv
<1>2. /\ kind[f] # "closed"
      /\ UNCHANGED <<kind, opening, skip, iap2, streams, probed, leaked>>
      /\ raced \subseteq raced'
      /\ f \notin raced' => \A u \in Threads : ~Of(u, f, Closing)
  BY DEF Read, Doing, Of
<1>3. /\ \A u \in Threads : u # t => call'[u] = call[u]
      /\ DOMAIN call' = Threads /\ DOMAIN call'[t] = {"at", "fd", "of", "s"}
      /\ call[t].at = "idle"
      /\ call'[t].at = "wants" /\ call'[t].fd = f /\ call'[t].of = opening[f]
  BY <1>1, EntersIs DEF Read, Steps, Reading
<1>4. DescriptorTypeOK'
  BY <1>1, <1>2, <1>3 DEF DescriptorTypeOK, Steps, Reading
<1>5. OneOwner'
  BY <1>1, <1>2, <1>3 DEF OneOwner, Of, Exclusive, Closing
<1>6. Listed'
  BY <1>1, <1>2, <1>3 DEF Listed, Of, Exclusive, Closing
<1>7. OneStream'
  BY <1>1, <1>2 DEF OneStream, NoLeak
<1>8. Unraced'
  <2> SUFFICES ASSUME NEW g \in Fds \ raced' PROVE ClosedIsGone(g)' /\ OfThisOpening(g)'
    BY DEF Unraced
  <2>1. ClosedIsGone(g) /\ OfThisOpening(g)
    BY <1>1, <1>2 DEF Unraced
  <2>2. \A u \in Threads : Of(u, g, Reading)' => g = f \/ Of(u, g, Reading)
    BY <1>3 DEF Of, Reading
  <2>3. \A u \in Threads : Of(u, g, Closing)' =>
          Of(u, g, Closing) /\ call'[u] = call[u] /\ g # f
    BY <1>2, <1>3 DEF Of, Closing
  <2>4. \A s \in Streams : Mine(s, g)' <=> Mine(s, g)
    BY <1>2 DEF Mine
  <2>5. ClosedIsGone(g)'
    <3>1. (kind[g] = "closed" => Gone(g) /\ \A s \in Streams : ~Mine(s, g))'
      BY <1>2, <2>1, <2>2, <2>4 DEF ClosedIsGone, Gone
    <3>2. ASSUME NEW u \in Threads, Of(u, g, Closing)'
          PROVE  Gone(g)'
      BY <1>2, <2>1, <2>2, <2>3, <3>2 DEF ClosedIsGone, Gone
    <3>3. ASSUME NEW u \in Threads
          PROVE  (/\ Of(u, g, Closing) => Gone(g)
                  /\ Of(u, g, {"wipe"}) => \A s \in Streams : Mine(s, g) => s = call[u].s
                  /\ Of(u, g, {"close"}) => \A s \in Streams : ~Mine(s, g))'
      BY <2>1, <2>3, <2>4, <3>2 DEF ClosedIsGone, Of, Closing
    <3> QED
      BY <3>1, <3>3 DEF ClosedIsGone
  <2>6. OfThisOpening(g)'
    <3>1. \A u \in Threads : Of(u, g, Reading)' => call'[u].of = opening[g]
      BY <1>3, <2>1 DEF OfThisOpening, Of, Reading
    <3> QED
      BY <1>2, <2>1, <2>4, <3>1 DEF OfThisOpening
  <2> QED
    BY <2>5, <2>6
<1>9. WipesOwn'
  BY <1>1, <1>2, <1>3 DEF WipesOwn, At, Mine
<1> QED
  BY <1>4, <1>5, <1>6, <1>7, <1>8, <1>9 DEF DescriptorInv

LEMMA WantsKeeps ==
  ASSUME DescriptorInv, NEW t \in Threads, Wants(t)
  PROVE  DescriptorInv'
<1>1. DescriptorTypeOK /\ OneOwner /\ Listed /\ OneStream /\ Unraced /\ WipesOwn
  BY DEF DescriptorInv
<1>2. /\ call[t].at = "wants"
      /\ UNCHANGED <<kind, opening, skip, iap2, streams, probed, raced, leaked>>
  BY DEF Wants, At
<1>3. /\ \A u \in Threads : u # t => call'[u] = call[u]
      /\ DOMAIN call' = Threads /\ DOMAIN call'[t] = {"at", "fd", "of", "s"}
      /\ \/ call'[t].at = "idle"
         \/ /\ call'[t].at = "find" /\ call'[t].fd = call[t].fd
            /\ call'[t].of = call[t].of
  BY <1>1, ReturnIs, GotoIs DEF Wants, Steps, Reading
<1>4. DescriptorTypeOK'
  BY <1>1, <1>2, <1>3 DEF DescriptorTypeOK, Steps, Reading
<1>5. OneOwner' /\ Listed'
  BY <1>1, <1>2, <1>3 DEF OneOwner, Listed, Of, Exclusive, Closing
<1>6. OneStream'
  BY <1>1, <1>2 DEF OneStream, NoLeak
<1>7. Unraced'
  <2> SUFFICES ASSUME NEW g \in Fds \ raced PROVE ClosedIsGone(g)' /\ OfThisOpening(g)'
    BY <1>2 DEF Unraced
  <2>1. ClosedIsGone(g) /\ OfThisOpening(g)
    BY <1>1 DEF Unraced
  <2>2. \A u \in Threads :
          Of(u, g, Reading)' => Of(u, g, Reading) /\ call'[u].of = call[u].of
    BY <1>2, <1>3 DEF Of, Reading
  <2>3. \A u \in Threads : Of(u, g, Closing)' => Of(u, g, Closing) /\ call'[u] = call[u]
    BY <1>3 DEF Of, Closing
  <2>4. \A s \in Streams : Mine(s, g)' <=> Mine(s, g)
    BY <1>2 DEF Mine
  <2>5. ClosedIsGone(g)'
    BY <1>2, <2>1, <2>2, <2>3, <2>4 DEF ClosedIsGone, Gone, Of, Closing
  <2>6. OfThisOpening(g)'
    BY <1>2, <2>1, <2>2, <2>4 DEF OfThisOpening
  <2> QED
    BY <2>5, <2>6
<1>8. WipesOwn'
  BY <1>1, <1>2, <1>3 DEF WipesOwn, At, Mine
<1> QED
  BY <1>4, <1>5, <1>6, <1>7, <1>8 DEF DescriptorInv

(* get_stream(): the number's own stream, or the lowest without an owner.  *)
LEMMA CandidateIs ==
  ASSUME NEW f \in Fds, Candidates(f) # {}
  PROVE  LET s == Lowest(Candidates(f)) IN
         /\ s \in Streams
         /\ streams[s].active => Mine(s, f)
         /\ ~streams[s].active => \A r \in Streams : ~Mine(r, f)
<1>1. CASE StreamsOf(f) # {}
  <2>1. Lowest(Candidates(f)) \in StreamsOf(f)
    BY <1>1, LowestIsOne DEF StreamsOf, Candidates
  <2> QED
    BY <2>1 DEF StreamsOf, Mine
<1>2. CASE StreamsOf(f) = {}
  <2>1. Lowest(Candidates(f)) \in FreeStreams
    BY <1>2, LowestIsOne DEF FreeStreams, Candidates
  <2> QED
    BY <1>2, <2>1 DEF StreamsOf, FreeStreams, Mine
<1> QED
  BY <1>1, <1>2

LEMMA FindStreamKeeps ==
  ASSUME DescriptorInv, NEW t \in Threads, FindStream(t)
  PROVE  DescriptorInv'
<1>1. DescriptorTypeOK /\ OneOwner /\ Listed /\ OneStream /\ Unraced /\ WipesOwn
  BY DEF DescriptorInv
<1>2. PICK f \in Fds : f = call[t].fd
  BY <1>1 DEF DescriptorTypeOK, FindStream, At
<1>3. PICK s : s = Lowest(Candidates(f))
  OBVIOUS
<1>4. /\ call[t].at = "find"
      /\ UNCHANGED <<kind, opening, skip, iap2, probed, raced>>
      /\ \/ Candidates(f) = {} /\ Return(t) /\ UNCHANGED <<streams, leaked>>
         \/ /\ Candidates(f) # {}
            /\ call' = [call EXCEPT ![t].at = "work", ![t].s = s]
            /\ \/ streams[s].active /\ UNCHANGED <<streams, leaked>>
               \/ /\ ~streams[s].active
                  /\ streams' = [streams EXCEPT ![s] = [Empty EXCEPT !.fd = f, !.active = TRUE]]
                  /\ leaked' = (leaked \/ streams[s].buffer)
  BY <1>2, <1>3 DEF FindStream, At
<1>5. Candidates(f) # {} =>
         /\ s \in Streams
         /\ ~streams[s].active => \A r \in Streams : ~Mine(r, f)
  BY <1>3, CandidateIs
<1>6. /\ \A u \in Threads : u # t => call'[u] = call[u]
      /\ DOMAIN call' = Threads /\ DOMAIN call'[t] = {"at", "fd", "of", "s"}
      /\ \/ call'[t].at = "idle"
         \/ /\ call'[t].at = "work" /\ call'[t].fd = f
            /\ call'[t].of = call[t].of /\ call'[t].s \in Streams
  <2>1. CASE Return(t)
    BY <1>1, <2>1, ReturnIs
  <2>2. CASE Candidates(f) # {} /\ call' = [call EXCEPT ![t].at = "work", ![t].s = s]
    BY <1>1, <1>2, <1>5, <2>2 DEF DescriptorTypeOK
  <2> QED
    BY <1>4, <2>1, <2>2
(* Either no stream changes, or one without an owner is taken.             *)
<1>7. /\ \A r \in Streams : streams'[r] = streams[r] \/ (r = s /\ s \in Streams)
      /\ DOMAIN streams' = Streams
      /\ \/ UNCHANGED <<streams, leaked>>
         \/ /\ s \in Streams /\ ~streams[s].active
            /\ \A r \in Streams : ~Mine(r, f)
            /\ streams'[s] = [fd |-> f, active |-> TRUE, packets |-> FALSE, calls |-> 0,
                              buffer |-> FALSE, bytes |-> {}]
            /\ leaked' = (leaked \/ streams[s].buffer)
            /\ \A r \in Streams : r # s => streams'[r] = streams[r]
  <2>1. CASE UNCHANGED <<streams, leaked>>
    BY <1>1, <2>1 DEF DescriptorTypeOK
  <2>2. CASE /\ Candidates(f) # {} /\ ~streams[s].active
             /\ streams' = [streams EXCEPT ![s] = [Empty EXCEPT !.fd = f, !.active = TRUE]]
             /\ leaked' = (leaked \/ streams[s].buffer)
    <3>1. PICK e : e = [Empty EXCEPT !.fd = f, !.active = TRUE]
      OBVIOUS
    <3>2. e = [fd |-> f, active |-> TRUE, packets |-> FALSE, calls |-> 0,
               buffer |-> FALSE, bytes |-> {}]
      BY <3>1 DEF Empty
    <3>3. streams' = [streams EXCEPT ![s] = e] /\ DOMAIN streams = Streams
      BY <1>1, <2>2, <3>1 DEF DescriptorTypeOK
    <3>4. /\ s \in Streams /\ ~streams[s].active
          /\ \A r \in Streams : ~Mine(r, f)
      BY <1>5, <2>2
    <3>5. /\ DOMAIN streams' = Streams /\ streams'[s] = e
          /\ \A r \in Streams : r # s => streams'[r] = streams[r]
      BY <3>3, <3>4
    <3> QED
      BY <2>2, <3>2, <3>4, <3>5
  <2> QED
    BY <1>4, <2>1, <2>2
<1>8. DescriptorTypeOK'
  <2>1. \A r \in Streams :
          /\ DOMAIN streams'[r] = {"fd", "active", "packets", "calls", "buffer", "bytes"}
          /\ streams'[r].calls \in Nat
          /\ streams'[r].active => streams'[r].fd \in Fds
    BY <1>1, <1>7 DEF DescriptorTypeOK
  <2>2. \A u \in Threads :
          /\ DOMAIN call'[u] = {"at", "fd", "of", "s"} /\ call'[u].at \in Steps
          /\ call'[u].at # "idle" => call'[u].fd \in Fds
          /\ call'[u].at \in {"work", "wipe"} => call'[u].s \in Streams
    BY <1>1, <1>6 DEF DescriptorTypeOK, Steps, Reading
  <2> QED
    BY <1>1, <1>4, <1>6, <1>7, <2>1, <2>2 DEF DescriptorTypeOK
<1>9. OneOwner' /\ Listed'
  <2>1. \A u \in Threads, g \in Fds :
          /\ Of(u, g, Exclusive)' <=> Of(u, g, Exclusive)
          /\ Of(u, g, {"flag"})' <=> Of(u, g, {"flag"})
    BY <1>4, <1>6 DEF Of, Exclusive, Closing
  <2> QED
    BY <1>1, <1>4, <2>1 DEF OneOwner, Listed
<1>10. OneStream'
  <2>1. CASE UNCHANGED <<streams, leaked>>
    BY <1>1, <2>1 DEF OneStream, NoLeak
  <2>2. CASE /\ s \in Streams /\ ~streams[s].active
             /\ \A r \in Streams : ~Mine(r, f)
             /\ streams'[s].fd = f /\ streams'[s].active /\ ~streams'[s].buffer
             /\ leaked' = (leaked \/ streams[s].buffer)
             /\ \A r \in Streams : r # s => streams'[r] = streams[r]
    <3>1. \A r \in Streams : r # s /\ streams[r].active => streams[r].fd # f
      BY <2>2 DEF Mine
    <3>2. ASSUME NEW r \in Streams, NEW q \in Streams,
                 (streams[r].active /\ streams[q].active /\ streams[r].fd = streams[q].fd)'
          PROVE  r = q
      BY <1>1, <2>2, <3>1, <3>2 DEF OneStream
    <3>3. \A r \in Streams : ~streams'[r].active => ~streams'[r].buffer
      BY <1>1, <2>2 DEF OneStream
    <3>4. NoLeak'
      BY <1>1, <2>2 DEF OneStream, NoLeak
    <3> QED
      BY <3>2, <3>3, <3>4 DEF OneStream
  <2> QED
    BY <1>7, <2>1, <2>2
<1>11. Unraced'
  <2> SUFFICES ASSUME NEW g \in Fds \ raced PROVE ClosedIsGone(g)' /\ OfThisOpening(g)'
    BY <1>4 DEF Unraced
  <2>1. ClosedIsGone(g) /\ OfThisOpening(g)
    BY <1>1 DEF Unraced
  <2>2. \A u \in Threads :
          Of(u, g, Reading)' => Of(u, g, Reading) /\ call'[u].of = call[u].of
    BY <1>2, <1>4, <1>6 DEF Of, Reading
  <2>3. \A u \in Threads : Of(u, g, Closing)' => Of(u, g, Closing) /\ call'[u] = call[u]
    BY <1>6 DEF Of, Closing
  <2>4. g # f => \A r \in Streams : Mine(r, g)' <=> (Mine(r, g) /\ streams'[r] = streams[r])
    BY <1>7 DEF Mine
  <2>5. g = f => kind[g] # "closed" /\ \A u \in Threads : ~Of(u, g, Closing)
    BY <1>2, <1>4, <2>1 DEF ClosedIsGone, Gone, Of, Reading
  <2>6. ClosedIsGone(g)'
    BY <1>4, <2>1, <2>2, <2>3, <2>4, <2>5 DEF ClosedIsGone, Gone, Of, Closing
  <2>7. OfThisOpening(g)'
    <3>1. ASSUME NEW r \in Streams, Mine(r, g)'
          PROVE  \/ Mine(r, g) /\ streams'[r] = streams[r]
                 \/ streams'[r].bytes = {} /\ streams'[r].calls = 0
      BY <1>7, <3>1 DEF Mine
    <3>2. probed[g] \in Nat
      BY <1>1 DEF DescriptorTypeOK
    <3> QED
      BY <1>4, <2>1, <2>2, <3>1, <3>2 DEF OfThisOpening
  <2> QED
    BY <2>6, <2>7
<1>12. WipesOwn'
  BY <1>1, <1>4, <1>6, <1>7 DEF WipesOwn, At, Mine, DescriptorTypeOK
<1> QED
  BY <1>8, <1>9, <1>10, <1>11, <1>12 DEF DescriptorInv

(* close() begins: the marks go; a read() under it is the race.            *)
LEMMA CloseKeeps ==
  ASSUME DescriptorInv, NEW t \in Threads, NEW f \in Fds, Close(t, f)
  PROVE  DescriptorInv'
<1>1. DescriptorTypeOK /\ OneOwner /\ Listed /\ OneStream /\ Unraced /\ WipesOwn
  BY DEF DescriptorInv
<1>2. /\ kind[f] # "closed"
      /\ UNCHANGED <<kind, opening, streams, probed, leaked>>
      /\ iap2' = [iap2 EXCEPT ![f] = FALSE] /\ skip' = [skip EXCEPT ![f] = FALSE]
      /\ raced \subseteq raced'
      /\ f \notin raced' => \A u \in Threads : ~Of(u, f, Reading)
      /\ \A u \in Threads : ~Of(u, f, Exclusive)
  BY DEF Close, Cleared, Doing, Of, Exclusive
<1>3. /\ \A u \in Threads : u # t => call'[u] = call[u]
      /\ DOMAIN call' = Threads /\ DOMAIN call'[t] = {"at", "fd", "of", "s"}
      /\ call[t].at = "idle" /\ call'[t].at = "search" /\ call'[t].fd = f
  BY <1>1, EntersIs DEF Close, Steps, Exclusive, Closing
<1>4. DescriptorTypeOK'
  BY <1>1, <1>2, <1>3 DEF DescriptorTypeOK, Steps, Exclusive, Closing
<1>5. OneOwner'
  BY <1>1, <1>2, <1>3 DEF OneOwner, Of, Exclusive, Closing
<1>6. Listed'
  BY <1>1, <1>2, <1>3 DEF Listed, Of, Exclusive, Closing, DescriptorTypeOK
<1>7. OneStream'
  BY <1>1, <1>2 DEF OneStream, NoLeak
<1>8. Unraced'
  <2> SUFFICES ASSUME NEW g \in Fds \ raced' PROVE ClosedIsGone(g)' /\ OfThisOpening(g)'
    BY DEF Unraced
  <2>1. ClosedIsGone(g) /\ OfThisOpening(g)
    BY <1>1, <1>2 DEF Unraced
  <2>2. \A u \in Threads :
          Of(u, g, Reading)' => Of(u, g, Reading) /\ call'[u] = call[u] /\ g # f
    BY <1>2, <1>3 DEF Of, Reading
  <2>3. \A u \in Threads : Of(u, g, Closing)' =>
          \/ u = t /\ g = f /\ call'[u].at = "search"
          \/ Of(u, g, Closing) /\ call'[u] = call[u]
    BY <1>3 DEF Of, Closing
  <2>4. \A s \in Streams : Mine(s, g)' <=> Mine(s, g)
    BY <1>2 DEF Mine
  <2>5. /\ g # f => skip'[g] = skip[g]
        /\ g = f => ~skip'[g]
    BY <1>1, <1>2 DEF DescriptorTypeOK
  <2>6. ClosedIsGone(g)'
    <3>1. (kind[g] = "closed" => Gone(g) /\ \A s \in Streams : ~Mine(s, g))'
      BY <1>2, <2>1, <2>2, <2>4, <2>5 DEF ClosedIsGone, Gone
    <3>2. ASSUME NEW u \in Threads, Of(u, g, Closing)'
          PROVE  Gone(g)'
      BY <1>2, <2>1, <2>2, <2>3, <2>5, <3>2 DEF ClosedIsGone, Gone
    <3>3. ASSUME NEW u \in Threads
          PROVE  (/\ Of(u, g, Closing) => Gone(g)
                  /\ Of(u, g, {"wipe"}) => \A s \in Streams : Mine(s, g) => s = call[u].s
                  /\ Of(u, g, {"close"}) => \A s \in Streams : ~Mine(s, g))'
      BY <2>1, <2>3, <2>4, <3>2 DEF ClosedIsGone, Of, Closing
    <3> QED
      BY <3>1, <3>3 DEF ClosedIsGone
  <2>7. OfThisOpening(g)'
    BY <1>2, <2>1, <2>2, <2>4, <2>5 DEF OfThisOpening
  <2> QED
    BY <2>6, <2>7
<1>9. WipesOwn'
  BY <1>1, <1>2, <1>3 DEF WipesOwn, At, Mine
<1> QED
  BY <1>4, <1>5, <1>6, <1>7, <1>8, <1>9 DEF DescriptorInv

(* What the work under the stream's lock may do to the table: nothing, add *)
(* to the stream of the call's own number, or give that stream back.       *)
Fills(s, f, from, more) ==
  /\ Mine(s, f) /\ streams'[s].active /\ streams'[s].fd = f
  /\ streams'[s].bytes = streams[s].bytes \cup {from}
  /\ streams'[s].calls = streams[s].calls + more
Frees(s, f) == Mine(s, f) /\ ~streams'[s].active /\ ~streams'[s].buffer /\ streams'[s].calls = 0

LEMMA ReleasedIs ==
  ASSUME DescriptorTypeOK, NEW s \in Streams, streams' = Released(s)
  PROVE  /\ DOMAIN streams' = Streams
         /\ \A r \in Streams : r # s => streams'[r] = streams[r]
         /\ DOMAIN streams'[s] = {"fd", "active", "packets", "calls", "buffer", "bytes"}
         /\ ~streams'[s].active /\ ~streams'[s].buffer /\ streams'[s].calls = 0
<1>1. PICK e : e = Empty
  OBVIOUS
<1>2. streams' = [streams EXCEPT ![s] = e]
  BY <1>1 DEF Released
<1>3. /\ DOMAIN streams' = Streams /\ streams'[s] = e
      /\ \A r \in Streams : r # s => streams'[r] = streams[r]
  BY <1>2 DEF DescriptorTypeOK
<1>4. /\ DOMAIN e = {"fd", "active", "packets", "calls", "buffer", "bytes"}
      /\ ~e.active /\ ~e.buffer /\ e.calls = 0
  BY <1>1 DEF Empty
<1> QED
  BY <1>3, <1>4

LEMMA FedIs ==
  ASSUME DescriptorTypeOK, NEW s \in Streams, NEW from, NEW packet \in BOOLEAN,
         streams' = Fed(s, from, packet)
  PROVE  /\ DOMAIN streams' = Streams
         /\ \A r \in Streams : r # s => streams'[r] = streams[r]
         /\ DOMAIN streams'[s] = {"fd", "active", "packets", "calls", "buffer", "bytes"}
         /\ streams'[s].active = streams[s].active /\ streams'[s].fd = streams[s].fd
         /\ streams'[s].bytes = streams[s].bytes \cup {from}
         /\ streams'[s].calls = IF packet THEN streams[s].calls ELSE streams[s].calls + 1
BY DEF Fed, DescriptorTypeOK

LEMMA WorkKeeps ==
  ASSUME DescriptorInv, NEW t \in Threads, Work(t)
  PROVE  DescriptorInv'
<1>1. DescriptorTypeOK /\ OneOwner /\ Listed /\ OneStream /\ Unraced /\ WipesOwn
  BY DEF DescriptorInv
<1>2. PICK f \in Fds, s \in Streams : f = call[t].fd /\ s = call[t].s
  BY <1>1 DEF DescriptorTypeOK, Work, At
<1>3. /\ call[t].at = "work" /\ UNCHANGED <<kind, opening, raced, leaked>>
      /\ \/ UNCHANGED <<skip, iap2, streams, probed>>
         \/ /\ StillOwns(f, s) /\ streams' = Fed(s, call[t].of, TRUE)
            /\ UNCHANGED <<skip, iap2, probed>>
         \/ /\ StillOwns(f, s)
            /\ probed' = [probed EXCEPT ![f] = IF @ < ProbeLimit THEN @ + 1 ELSE @]
            /\ \/ /\ streams[s].calls + 1 >= ProbeLimit
                  /\ streams' = Released(s) /\ Marked(f)
               \/ streams' = Fed(s, call[t].of, FALSE) /\ UNCHANGED <<skip, iap2>>
  BY <1>2 DEF Work, At
<1>4. /\ \A u \in Threads : u # t => call'[u] = call[u]
      /\ DOMAIN call' = Threads /\ DOMAIN call'[t] = {"at", "fd", "of", "s"}
      /\ call'[t].at = "idle"
  BY <1>1, ReturnIs DEF Work
<1>5. /\ UNCHANGED iap2
      /\ \/ UNCHANGED <<skip, streams, probed>>
         \/ Fills(s, f, call[t].of, 0) /\ UNCHANGED <<skip, probed>>
         \/ /\ probed' = [probed EXCEPT ![f] = IF @ < ProbeLimit THEN @ + 1 ELSE @]
            /\ \/ Fills(s, f, call[t].of, 1) /\ UNCHANGED skip
               \/ /\ Frees(s, f) /\ streams[s].calls + 1 >= ProbeLimit
                  /\ skip' = [skip EXCEPT ![f] = TRUE]
  <2>1. streams[s].calls \in Nat
    BY <1>1 DEF DescriptorTypeOK
  <2>2. StillOwns(f, s) <=> Mine(s, f)
    BY DEF StillOwns, Mine
  <2>3. Mine(s, f) /\ streams' = Fed(s, call[t].of, TRUE) => Fills(s, f, call[t].of, 0)
    <3> SUFFICES ASSUME Mine(s, f), streams' = Fed(s, call[t].of, TRUE)
                 PROVE  Fills(s, f, call[t].of, 0)
      OBVIOUS
    <3>1. /\ streams'[s].active = streams[s].active /\ streams'[s].fd = streams[s].fd
          /\ streams'[s].bytes = streams[s].bytes \cup {call[t].of}
          /\ streams'[s].calls = streams[s].calls
      BY <1>1, FedIs
    <3>2. streams[s].calls = streams[s].calls + 0
      BY <2>1
    <3> QED
      BY <3>1, <3>2 DEF Mine, Fills
  <2>4. Mine(s, f) /\ streams' = Fed(s, call[t].of, FALSE) => Fills(s, f, call[t].of, 1)
    BY <1>1, <2>1, FedIs DEF Mine, Fills
  <2>5. Mine(s, f) /\ streams' = Released(s) => Frees(s, f)
    BY <1>1, ReleasedIs DEF Frees
  <2> QED
    BY <1>3, <2>2, <2>3, <2>4, <2>5 DEF Marked
<1>6. /\ DOMAIN streams' = Streams
      /\ \A r \in Streams : r # s => streams'[r] = streams[r]
      /\ streams' = streams \/
           DOMAIN streams'[s] = {"fd", "active", "packets", "calls", "buffer", "bytes"}
  <2>1. CASE UNCHANGED streams
    BY <1>1, <2>1 DEF DescriptorTypeOK
  <2>2. CASE streams' = Released(s)
    BY <1>1, <2>2, ReleasedIs
  <2>3. CASE \E b \in BOOLEAN : streams' = Fed(s, call[t].of, b)
    BY <1>1, <2>3, FedIs
  <2> QED
    BY <1>3, <2>1, <2>2, <2>3
<1>7. DescriptorTypeOK'
  <2>1. \A r \in Streams :
          /\ DOMAIN streams'[r] = {"fd", "active", "packets", "calls", "buffer", "bytes"}
          /\ streams'[r].calls \in Nat
          /\ streams'[r].active => streams'[r].fd \in Fds
    BY <1>1, <1>5, <1>6 DEF DescriptorTypeOK, Fills, Frees
  <2>2. probed' \in [Fds -> Nat] /\ DOMAIN skip' = Fds
    BY <1>1, <1>5 DEF DescriptorTypeOK
  <2>3. \A u \in Threads :
          /\ DOMAIN call'[u] = {"at", "fd", "of", "s"} /\ call'[u].at \in Steps
          /\ call'[u].at # "idle" => call'[u].fd \in Fds
          /\ call'[u].at \in {"work", "wipe"} => call'[u].s \in Streams
    BY <1>1, <1>4 DEF DescriptorTypeOK, Steps
  <2> QED
    BY <1>1, <1>3, <1>4, <1>5, <1>6, <2>1, <2>2, <2>3 DEF DescriptorTypeOK
<1>8. \A u \in Threads, g \in Fds :
        /\ Of(u, g, Exclusive)' <=> Of(u, g, Exclusive)
        /\ Of(u, g, {"flag"})' <=> Of(u, g, {"flag"})
        /\ Of(u, g, Closing)' => Of(u, g, Closing) /\ call'[u] = call[u]
        /\ Of(u, g, Reading)' => Of(u, g, Reading) /\ call'[u].of = call[u].of
  BY <1>3, <1>4 DEF Of, Exclusive, Closing, Reading
<1>9. OneOwner' /\ Listed'
  BY <1>1, <1>3, <1>5, <1>8 DEF OneOwner, Listed
<1>10. OneStream'
  <2>1. CASE UNCHANGED streams
    BY <1>1, <1>3, <2>1 DEF OneStream, NoLeak
  <2>2. CASE Fills(s, f, call[t].of, 0) \/ Fills(s, f, call[t].of, 1)
    BY <1>1, <1>3, <1>6, <2>2 DEF OneStream, NoLeak, Fills, Mine
  <2>3. CASE Frees(s, f)
    BY <1>1, <1>3, <1>6, <2>3 DEF OneStream, NoLeak, Frees
  <2> QED
    BY <1>5, <2>1, <2>2, <2>3
<1>11. \A r \in Streams, g \in Fds : Mine(r, g)' => Mine(r, g)
  BY <1>5, <1>6 DEF Mine, Fills, Frees
<1>12. \A r \in Streams, g \in Fds : g # f /\ Mine(r, g) => streams'[r] = streams[r]
  BY <1>5, <1>6 DEF Mine, Fills, Frees
<1>13. Unraced'
  <2> SUFFICES ASSUME NEW g \in Fds \ raced PROVE ClosedIsGone(g)' /\ OfThisOpening(g)'
    BY <1>3 DEF Unraced
  <2>1. ClosedIsGone(g) /\ OfThisOpening(g)
    BY <1>1 DEF Unraced
  <2>2. g = f => kind[g] # "closed" /\ \A u \in Threads : ~Of(u, g, Closing)
    BY <1>2, <1>3, <2>1 DEF ClosedIsGone, Gone, Of, Reading
  <2>3. g # f => skip'[g] = skip[g] /\ probed'[g] = probed[g]
    BY <1>1, <1>5 DEF DescriptorTypeOK
  <2>4. ClosedIsGone(g)'
    BY <1>3, <1>8, <1>11, <2>1, <2>2, <2>3 DEF ClosedIsGone, Gone, Of, Closing
  <2>5. CASE g # f
    BY <1>3, <1>6, <1>8, <1>11, <1>12, <2>1, <2>3, <2>4, <2>5 DEF OfThisOpening, Mine
  <2>6. CASE g = f
    <3>1. /\ probed[f] \in Nat /\ ProbeLimit \in Nat
          /\ \A r \in Streams : streams[r].calls \in Nat
          /\ call[t].of = opening[f]
      BY <1>1, <1>2, <1>3, <2>1, <2>6, FdAssumption
         DEF DescriptorTypeOK, OfThisOpening, Of, Reading
    <3>2. /\ probed'[f] = probed[f] \/ probed'[f] = probed[f] + 1
          /\ probed[f] >= ProbeLimit => probed'[f] >= ProbeLimit
      BY <1>1, <1>5, <3>1 DEF DescriptorTypeOK
    <3>3. ASSUME NEW r \in Streams, Mine(r, f)'
          PROVE  /\ streams'[r].bytes \subseteq {opening[f]}
                 /\ streams'[r].calls =< probed'[f] \/ probed'[f] >= ProbeLimit
      <4>1. /\ Mine(r, f) /\ streams[r].bytes \subseteq {opening[f]}
            /\ streams[r].calls =< probed[f] \/ probed[f] >= ProbeLimit
        BY <1>11, <2>1, <2>6, <3>3 DEF OfThisOpening
      <4>2. CASE streams'[r] = streams[r]
        BY <3>1, <3>2, <4>1, <4>2
      <4>3. CASE r = s /\ Fills(s, f, call[t].of, 0)
        BY <3>1, <3>2, <4>1, <4>3 DEF Fills
      <4>4. CASE /\ r = s /\ Fills(s, f, call[t].of, 1)
                 /\ probed' = [probed EXCEPT ![f] = IF @ < ProbeLimit THEN @ + 1 ELSE @]
        <5>1. streams'[r].bytes \subseteq {opening[f]}
          BY <3>1, <4>1, <4>4 DEF Fills
        <5>2. streams'[r].calls = streams[r].calls + 1
          BY <4>4 DEF Fills
        <5>3. probed'[f] = IF probed[f] < ProbeLimit THEN probed[f] + 1 ELSE probed[f]
          BY <1>1, <4>4 DEF DescriptorTypeOK
        <5> QED
          BY <3>1, <4>1, <5>1, <5>2, <5>3
      <4> QED
        BY <1>5, <1>6, <3>3, <4>2, <4>3, <4>4 DEF Frees, Mine
    <3>4. kind'[f] = "socket" /\ skip'[f] => probed'[f] >= ProbeLimit
      <4>1. CASE UNCHANGED skip
        BY <1>3, <2>1, <2>6, <3>2, <4>1 DEF OfThisOpening
      <4>2. CASE /\ Frees(s, f) /\ streams[s].calls + 1 >= ProbeLimit
                 /\ probed' = [probed EXCEPT ![f] = IF @ < ProbeLimit THEN @ + 1 ELSE @]
        <5>1. streams[s].calls =< probed[f] \/ probed[f] >= ProbeLimit
          BY <2>1, <2>6, <4>2 DEF OfThisOpening, Frees
        <5>2. probed'[f] = IF probed[f] < ProbeLimit THEN probed[f] + 1 ELSE probed[f]
          BY <1>1, <4>2 DEF DescriptorTypeOK
        <5> QED
          BY <3>1, <4>2, <5>1, <5>2
      <4> QED
        BY <1>5, <4>1, <4>2
    <3>5. \A u \in Threads : Of(u, f, Reading)' => call'[u].of = opening'[f]
      BY <1>3, <1>8, <2>1, <2>6 DEF OfThisOpening
    <3>6. \A r \in Streams : Mine(r, f)' =>
            /\ streams'[r].bytes \subseteq {opening'[f]}
            /\ streams'[r].calls =< probed'[f] \/ probed'[f] >= ProbeLimit
      BY <1>3, <3>3
    <3>7. OfThisOpening(f)'
      BY <3>4, <3>5, <3>6 DEF OfThisOpening
    <3> QED
      BY <2>4, <2>6, <3>7
  <2> QED
    BY <2>4, <2>5, <2>6
<1>14. WipesOwn'
  <2> SUFFICES ASSUME raced = {}, NEW u \in Threads, At(u, "wipe")'
               PROVE  Mine(call[u].s, call[u].fd)'
    BY <1>3 DEF WipesOwn
  <2>1. /\ u # t /\ call'[u] = call[u] /\ At(u, "wipe") /\ Mine(call[u].s, call[u].fd)
        /\ call[u].fd \in Fds /\ call[u].s \in Streams
    BY <1>1, <1>4 DEF WipesOwn, At, DescriptorTypeOK
  <2>2. ClosedIsGone(f)
    BY <1>1 DEF Unraced
  <2>3. call[u].fd # f
    BY <1>2, <1>3, <2>1, <2>2 DEF ClosedIsGone, Gone, Of, Reading, Closing, At
  <2> QED
    BY <1>12, <2>1, <2>3 DEF Mine
<1> QED
  BY <1>7, <1>9, <1>10, <1>13, <1>14 DEF DescriptorInv

(* close() looks for the stream and finds the one the number has, if any.  *)
LEMMA SearchKeeps ==
  ASSUME DescriptorInv, NEW t \in Threads, Search(t)
  PROVE  DescriptorInv'
<1>1. DescriptorTypeOK /\ OneOwner /\ Listed /\ OneStream /\ Unraced /\ WipesOwn
  BY DEF DescriptorInv
<1>2. PICK f \in Fds : f = call[t].fd
  BY <1>1 DEF DescriptorTypeOK, Search, At
<1>3. /\ call[t].at = "search"
      /\ UNCHANGED <<kind, opening, skip, iap2, streams, probed, raced, leaked>>
      /\ call' = [call EXCEPT ![t].at = IF StreamsOf(f) = {} THEN "close" ELSE "wipe",
                              ![t].s = IF StreamsOf(f) = {} THEN NoOne
                                       ELSE Lowest(StreamsOf(f))]
  BY <1>2 DEF Search, At
<1>4. /\ \A u \in Threads : u # t => call'[u] = call[u]
      /\ DOMAIN call' = Threads /\ DOMAIN call'[t] = {"at", "fd", "of", "s"}
      /\ call'[t].fd = f
      /\ \/ call'[t].at = "close" /\ \A r \in Streams : ~Mine(r, f)
         \/ call'[t].at = "wipe" /\ call'[t].s \in Streams /\ Mine(call'[t].s, f)
  <2>1. StreamsOf(f) # {} => Lowest(StreamsOf(f)) \in StreamsOf(f)
    BY LowestIsOne DEF StreamsOf
  <2>2. CASE StreamsOf(f) = {}
    <3>1. \A r \in Streams : ~Mine(r, f)
      BY <2>2 DEF StreamsOf, Mine
    <3> QED
      BY <1>1, <1>2, <1>3, <2>2, <3>1 DEF DescriptorTypeOK
  <2>3. CASE StreamsOf(f) # {}
    <3>1. PICK s \in Streams : s = Lowest(StreamsOf(f)) /\ Mine(s, f)
      BY <2>1, <2>3 DEF StreamsOf, Mine
    <3> QED
      BY <1>1, <1>2, <1>3, <2>3, <3>1 DEF DescriptorTypeOK
  <2> QED
    BY <2>2, <2>3
<1>5. DescriptorTypeOK'
  <2>1. \A u \in Threads :
          /\ DOMAIN call'[u] = {"at", "fd", "of", "s"} /\ call'[u].at \in Steps
          /\ call'[u].at # "idle" => call'[u].fd \in Fds
          /\ call'[u].at \in {"work", "wipe"} => call'[u].s \in Streams
    BY <1>1, <1>4 DEF DescriptorTypeOK, Steps, Exclusive, Closing
  <2> QED
    BY <1>1, <1>3, <1>4, <2>1 DEF DescriptorTypeOK
<1>6. \A u \in Threads, g \in Fds :
        /\ Of(u, g, Exclusive)' <=> Of(u, g, Exclusive)
        /\ Of(u, g, {"flag"})' <=> Of(u, g, {"flag"})
        /\ Of(u, g, Closing)' => Of(u, g, Closing) /\ (u = t => g = f)
        /\ Of(u, g, Reading)' => Of(u, g, Reading) /\ call'[u].of = call[u].of
  BY <1>2, <1>3, <1>4 DEF Of, Exclusive, Closing, Reading
<1>7. OneOwner' /\ Listed'
  BY <1>1, <1>3, <1>6 DEF OneOwner, Listed
<1>8. OneStream'
  BY <1>1, <1>3 DEF OneStream, NoLeak
<1>9. Unraced'
  <2> SUFFICES ASSUME NEW g \in Fds \ raced PROVE ClosedIsGone(g)' /\ OfThisOpening(g)'
    BY <1>3 DEF Unraced
  <2>1. ClosedIsGone(g) /\ OfThisOpening(g)
    BY <1>1 DEF Unraced
  <2>2. \A r \in Streams : Mine(r, g)' <=> Mine(r, g)
    BY <1>3 DEF Mine
  <2>3. (kind[g] = "closed" => Gone(g) /\ \A s \in Streams : ~Mine(s, g))'
    BY <1>3, <1>6, <2>1, <2>2 DEF ClosedIsGone, Gone
  <2>4. ASSUME NEW u \in Threads, Of(u, g, Closing)'
        PROVE  Gone(g)'
    BY <1>3, <1>6, <2>1, <2>4 DEF ClosedIsGone, Gone
  <2>5. ASSUME NEW u \in Threads, u # t
        PROVE  (/\ Of(u, g, Closing) => Gone(g)
                /\ Of(u, g, {"wipe"}) => \A s \in Streams : Mine(s, g) => s = call[u].s
                /\ Of(u, g, {"close"}) => \A s \in Streams : ~Mine(s, g))'
    BY <1>4, <2>1, <2>2, <2>4, <2>5 DEF ClosedIsGone, Of, Closing
  <2>6. (/\ Of(t, g, Closing) => Gone(g)
         /\ Of(t, g, {"wipe"}) => \A s \in Streams : Mine(s, g) => s = call[t].s
         /\ Of(t, g, {"close"}) => \A s \in Streams : ~Mine(s, g))'
    <3>1. CASE g = f
      <4>1. \A r, q \in Streams : Mine(r, f) /\ Mine(q, f) => r = q
        BY <1>1 DEF OneStream, Mine
      <4> QED
        BY <1>4, <2>2, <2>4, <3>1, <4>1 DEF Of
    <3>2. CASE g # f
      BY <1>4, <3>2 DEF Of
    <3> QED
      BY <3>1, <3>2
  <2>7. ClosedIsGone(g)'
    BY <2>3, <2>5, <2>6 DEF ClosedIsGone
  <2>8. OfThisOpening(g)'
    BY <1>3, <1>6, <2>1, <2>2 DEF OfThisOpening
  <2> QED
    BY <2>7, <2>8
<1>10. WipesOwn'
  BY <1>1, <1>3, <1>4 DEF WipesOwn, At, Mine
<1> QED
  BY <1>5, <1>7, <1>8, <1>9, <1>10 DEF DescriptorInv

(* The stream found is wiped: without a race it is the number's own.       *)
LEMMA WipeKeeps ==
  ASSUME DescriptorInv, NEW t \in Threads, Wipe(t)
  PROVE  DescriptorInv'
<1>1. DescriptorTypeOK /\ OneOwner /\ Listed /\ OneStream /\ Unraced /\ WipesOwn
  BY DEF DescriptorInv
<1>2. PICK f \in Fds, s \in Streams : f = call[t].fd /\ s = call[t].s
  BY <1>1 DEF DescriptorTypeOK, Wipe, At
<1>3. /\ call[t].at = "wipe" /\ streams' = Released(s)
      /\ UNCHANGED <<kind, opening, skip, iap2, probed, raced, leaked>>
  BY <1>2 DEF Wipe, At, Wiped
<1>4. /\ \A u \in Threads : u # t => call'[u] = call[u]
      /\ DOMAIN call' = Threads /\ DOMAIN call'[t] = {"at", "fd", "of", "s"}
      /\ call'[t].at = "close" /\ call'[t].fd = f
  BY <1>1, <1>2, GotoIs DEF Wipe, Steps, Exclusive, Closing
<1>5. /\ DOMAIN streams' = Streams
      /\ \A r \in Streams : r # s => streams'[r] = streams[r]
      /\ DOMAIN streams'[s] = {"fd", "active", "packets", "calls", "buffer", "bytes"}
      /\ ~streams'[s].active /\ ~streams'[s].buffer /\ streams'[s].calls = 0
  BY <1>1, <1>3, ReleasedIs
<1>6. DescriptorTypeOK'
  <2>1. \A r \in Streams :
          /\ DOMAIN streams'[r] = {"fd", "active", "packets", "calls", "buffer", "bytes"}
          /\ streams'[r].calls \in Nat
          /\ streams'[r].active => streams'[r].fd \in Fds
    BY <1>1, <1>5 DEF DescriptorTypeOK
  <2>2. \A u \in Threads :
          /\ DOMAIN call'[u] = {"at", "fd", "of", "s"} /\ call'[u].at \in Steps
          /\ call'[u].at # "idle" => call'[u].fd \in Fds
          /\ call'[u].at \in {"work", "wipe"} => call'[u].s \in Streams
    BY <1>1, <1>4 DEF DescriptorTypeOK, Steps, Exclusive, Closing
  <2> QED
    BY <1>1, <1>3, <1>4, <1>5, <2>1, <2>2 DEF DescriptorTypeOK
<1>7. \A u \in Threads, g \in Fds :
        /\ Of(u, g, Exclusive)' <=> Of(u, g, Exclusive)
        /\ Of(u, g, {"flag"})' <=> Of(u, g, {"flag"})
        /\ Of(u, g, Closing)' => Of(u, g, Closing)
        /\ Of(u, g, Reading)' => Of(u, g, Reading) /\ call'[u].of = call[u].of
  BY <1>2, <1>3, <1>4 DEF Of, Exclusive, Closing, Reading
<1>8. OneOwner' /\ Listed'
  BY <1>1, <1>3, <1>7 DEF OneOwner, Listed
<1>9. OneStream'
  BY <1>1, <1>3, <1>5 DEF OneStream, NoLeak
<1>10. \A r \in Streams, g \in Fds :
         Mine(r, g)' => Mine(r, g) /\ r # s /\ streams'[r] = streams[r]
  BY <1>5 DEF Mine
<1>11. Unraced'
  <2> SUFFICES ASSUME NEW g \in Fds \ raced PROVE ClosedIsGone(g)' /\ OfThisOpening(g)'
    BY <1>3 DEF Unraced
  <2>1. ClosedIsGone(g) /\ OfThisOpening(g)
    BY <1>1 DEF Unraced
  <2>2. (kind[g] = "closed" => Gone(g) /\ \A r \in Streams : ~Mine(r, g))'
    BY <1>3, <1>7, <1>10, <2>1 DEF ClosedIsGone, Gone
  <2>3. ASSUME NEW u \in Threads, Of(u, g, Closing)'
        PROVE  Gone(g)'
    BY <1>3, <1>7, <2>1, <2>3 DEF ClosedIsGone, Gone
  <2>4. ASSUME NEW u \in Threads, u # t
        PROVE  (/\ Of(u, g, Closing) => Gone(g)
                /\ Of(u, g, {"wipe"}) => \A r \in Streams : Mine(r, g) => r = call[u].s
                /\ Of(u, g, {"close"}) => \A r \in Streams : ~Mine(r, g))'
    BY <1>4, <1>10, <2>1, <2>3, <2>4 DEF ClosedIsGone, Of, Closing
  <2>5. (/\ Of(t, g, Closing) => Gone(g)
         /\ Of(t, g, {"wipe"}) => \A r \in Streams : Mine(r, g) => r = call[t].s
         /\ Of(t, g, {"close"}) => \A r \in Streams : ~Mine(r, g))'
    <3>1. CASE g = f
      <4>1. \A r \in Streams : Mine(r, f) => r = s
        BY <1>2, <1>3, <2>1, <3>1 DEF ClosedIsGone, Of
      <4> QED
        BY <1>4, <1>10, <2>3, <3>1, <4>1 DEF Of
    <3>2. CASE g # f
      BY <1>4, <3>2 DEF Of
    <3> QED
      BY <3>1, <3>2
  <2>6. ClosedIsGone(g)'
    BY <2>2, <2>4, <2>5 DEF ClosedIsGone
  <2>7. OfThisOpening(g)'
    BY <1>3, <1>7, <1>10, <2>1 DEF OfThisOpening
  <2> QED
    BY <2>6, <2>7
<1>12. WipesOwn'
  <2> SUFFICES ASSUME raced = {}, NEW u \in Threads, At(u, "wipe")'
               PROVE  Mine(call[u].s, call[u].fd)'
    BY <1>3 DEF WipesOwn
  <2>1. /\ u # t /\ call'[u] = call[u] /\ At(u, "wipe") /\ Mine(call[u].s, call[u].fd)
        /\ call[u].fd \in Fds /\ call[u].s \in Streams /\ Mine(s, f)
    BY <1>1, <1>2, <1>3, <1>4 DEF WipesOwn, At, DescriptorTypeOK
  <2>2. call[u].fd # f
    BY <1>1, <1>2, <1>3, <2>1 DEF OneOwner, Of, Exclusive, Closing, At
  <2>3. call[u].s # s
    BY <2>1, <2>2 DEF Mine
  <2> QED
    BY <1>5, <2>1, <2>3 DEF Mine
<1> QED
  BY <1>6, <1>8, <1>9, <1>11, <1>12 DEF DescriptorInv

(* The kernel's close(): by now nothing of the number is left.             *)
LEMMA RealCloseKeeps ==
  ASSUME DescriptorInv, NEW t \in Threads, RealClose(t)
  PROVE  DescriptorInv'
<1>1. DescriptorTypeOK /\ OneOwner /\ Listed /\ OneStream /\ Unraced /\ WipesOwn
  BY DEF DescriptorInv
<1>2. PICK f \in Fds : f = call[t].fd
  BY <1>1 DEF DescriptorTypeOK, RealClose, At
<1>3. /\ call[t].at = "close"
      /\ kind' = [kind EXCEPT ![f] = "closed"] /\ probed' = [probed EXCEPT ![f] = 0]
      /\ UNCHANGED <<opening, skip, iap2, streams, raced, leaked>>
  BY <1>2 DEF RealClose, At
<1>4. /\ \A u \in Threads : u # t => call'[u] = call[u]
      /\ DOMAIN call' = Threads /\ DOMAIN call'[t] = {"at", "fd", "of", "s"}
      /\ call'[t].at = "idle"
  BY <1>1, ReturnIs DEF RealClose
<1>5. /\ kind'[f] = "closed" /\ \A g \in Fds : g # f => kind'[g] = kind[g]
      /\ \A g \in Fds : g # f => probed'[g] = probed[g]
  BY <1>1, <1>3 DEF DescriptorTypeOK
<1>6. \A u \in Threads : u # t => ~Of(u, f, Exclusive)
  BY <1>1, <1>2, <1>3 DEF OneOwner, Of, Exclusive, Closing
<1>7. DescriptorTypeOK'
  BY <1>1, <1>3, <1>4 DEF DescriptorTypeOK, Steps
<1>8. \A u \in Threads, g \in Fds :
        /\ Of(u, g, Exclusive)' => Of(u, g, Exclusive) /\ g # f
        /\ Of(u, g, {"flag"})' => Of(u, g, {"flag"})
        /\ Of(u, g, Closing)' => Of(u, g, Closing) /\ call'[u] = call[u] /\ g # f
        /\ Of(u, g, Reading)' => Of(u, g, Reading) /\ call'[u] = call[u]
        /\ g # f /\ Of(u, g, Exclusive) => Of(u, g, Exclusive)'
  BY <1>2, <1>4, <1>6 DEF Of, Exclusive, Closing, Reading
<1>9. OneOwner'
  <2>1. (\A u, v \in Threads : \A g \in Fds :
           Of(u, g, Exclusive) /\ Of(v, g, Exclusive) => u = v)'
    BY <1>1, <1>8 DEF OneOwner
  <2>2. ASSUME NEW u \in Threads, NEW g \in Fds
        PROVE  (/\ Of(u, g, Exclusive) => kind[g] # "closed"
                /\ Of(u, g, {"flag"}) => kind[g] # "socket")'
    BY <1>1, <1>5, <1>8 DEF OneOwner
  <2> QED
    BY <2>1, <2>2 DEF OneOwner
<1>10. Listed'
  <2> SUFFICES ASSUME NEW g \in Fds, kind'[g] = "usb",
                      (\A u \in Threads : ~Of(u, g, Exclusive))'
               PROVE  iap2'[g]
    BY DEF Listed
  <2>1. g # f /\ kind[g] = "usb"
    BY <1>5
  <2>2. \A u \in Threads : ~Of(u, g, Exclusive)
    BY <1>8, <2>1
  <2> QED
    BY <1>1, <1>3, <2>1, <2>2 DEF Listed
<1>11. OneStream'
  BY <1>1, <1>3 DEF OneStream, NoLeak
<1>12. Unraced'
  <2> SUFFICES ASSUME NEW g \in Fds \ raced PROVE ClosedIsGone(g)' /\ OfThisOpening(g)'
    BY <1>3 DEF Unraced
  <2>1. ClosedIsGone(g) /\ OfThisOpening(g)
    BY <1>1 DEF Unraced
  <2>2. \A r \in Streams : Mine(r, g)' <=> Mine(r, g)
    BY <1>3 DEF Mine
  <2>3. g = f => Gone(f) /\ \A r \in Streams : ~Mine(r, f)
    BY <1>2, <1>3, <2>1 DEF ClosedIsGone, Of, Closing
  <2>4. ClosedIsGone(g)'
    <3>1. (kind[g] = "closed" => Gone(g) /\ \A s \in Streams : ~Mine(s, g))'
      BY <1>3, <1>5, <1>8, <2>1, <2>2, <2>3 DEF ClosedIsGone, Gone
    <3>2. ASSUME NEW u \in Threads, Of(u, g, Closing)'
          PROVE  Gone(g)'
      BY <1>3, <1>8, <2>1, <3>2 DEF ClosedIsGone, Gone
    <3>3. ASSUME NEW u \in Threads
          PROVE  (/\ Of(u, g, Closing) => Gone(g)
                  /\ Of(u, g, {"wipe"}) => \A s \in Streams : Mine(s, g) => s = call[u].s
                  /\ Of(u, g, {"close"}) => \A s \in Streams : ~Mine(s, g))'
      BY <1>8, <2>1, <2>2, <3>2 DEF ClosedIsGone, Of, Closing
    <3> QED
      BY <3>1, <3>3 DEF ClosedIsGone
  <2>5. OfThisOpening(g)'
    <3>1. CASE g = f
      BY <1>5, <1>8, <2>2, <2>3, <3>1 DEF OfThisOpening, Gone
    <3>2. CASE g # f
      BY <1>3, <1>5, <1>8, <2>1, <2>2, <3>2 DEF OfThisOpening
    <3> QED
      BY <3>1, <3>2
  <2> QED
    BY <2>4, <2>5
<1>13. WipesOwn'
  BY <1>1, <1>3, <1>4 DEF WipesOwn, At, Mine
<1> QED
  BY <1>7, <1>9, <1>10, <1>11, <1>12, <1>13 DEF DescriptorInv

-----------------------------------------------------------------------------
LEMMA DescriptorsSound == Spec => []DescriptorInv
<1>1. Init => DescriptorInv
  BY StartsSound
<1>2. DescriptorInv /\ [Next]_vars => DescriptorInv'
  <2> SUFFICES ASSUME DescriptorInv, [Next]_vars PROVE DescriptorInv'
    OBVIOUS
  <2>1. CASE UNCHANGED vars
    <3>1. UNCHANGED <<kind, opening, skip, iap2, streams, call, probed, raced, leaked>>
      BY <2>1 DEF vars
    <3>2. DescriptorTypeOK' /\ OneOwner' /\ Listed' /\ OneStream' /\ Unraced' /\ WipesOwn'
      BY <3>1 DEF DescriptorInv, DescriptorTypeOK, OneOwner, Listed, OneStream, NoLeak,
                  Unraced, WipesOwn, ClosedIsGone, OfThisOpening, Gone, Mine, Of, At
    <3> QED
      BY <3>2 DEF DescriptorInv
  <2>2. ASSUME NEW t \in Threads, NEW f \in Fds, Read(t, f) \/ Close(t, f)
        PROVE  DescriptorInv'
    BY <2>2, ReadKeeps, CloseKeeps
  <2>3. ASSUME NEW t \in Threads, NEW f \in Fds, NEW k \in {"usb", "file", "socket"},
               Open(t, f, k)
        PROVE  DescriptorInv'
    BY <2>3, OpenKeeps
  <2>4. ASSUME NEW t \in Threads, SetFlags(t) \/ Wants(t) \/ FindStream(t) \/ Work(t)
        PROVE  DescriptorInv'
    BY <2>4, SetFlagsKeeps, WantsKeeps, FindStreamKeeps, WorkKeeps
  <2>5. ASSUME NEW t \in Threads, Search(t) \/ Wipe(t) \/ RealClose(t)
        PROVE  DescriptorInv'
    BY <2>5, SearchKeeps, WipeKeeps, RealCloseKeeps
  <2> QED
    BY <2>1, <2>2, <2>3, <2>4, <2>5 DEF Next
<1> QED
  BY <1>1, <1>2, PTL DEF Spec

(***************************************************************************)
(* The iAP2 endpoint is watched from the return of its open() to its       *)
(* close(), and what is skipped has earned it: however late a call of the  *)
(* number's previous opening comes (coverart_hook.c:1008-1019).            *)
(***************************************************************************)
THEOREM MarksStayRight == Spec => []MarksAreRight
<1>1. DescriptorInv => MarksAreRight
  <2> SUFFICES ASSUME DescriptorInv PROVE UsbIsWatched /\ SkipIsEarned
    BY DEF MarksAreRight
  <2>1. UsbIsWatched
    BY DEF DescriptorInv, Listed, UsbIsWatched, Wanted, Doing, Of, Exclusive
  <2>2. SkipIsEarned
    BY DEF DescriptorInv, Unraced, OfThisOpening, SkipIsEarned
  <2> QED
    BY <2>1, <2>2
<1> QED
  BY <1>1, DescriptorsSound, PTL

(***************************************************************************)
(* A number never has two streams, a stream holds bytes of one opening,    *)
(* close() wipes its own and no buffer is lost: for any number of threads, *)
(* numbers and streams (coverart_hook.c:802-812, 846-855, 1153-1175).      *)
(***************************************************************************)
THEOREM StreamsStayApart == Spec => []StreamsKeptApart
<1>1. DescriptorInv => StreamsKeptApart
  <2> SUFFICES ASSUME DescriptorInv PROVE StreamsKeptApart
    OBVIOUS
  <2>1. OneStream /\ Unraced /\ WipesOwn /\ DescriptorTypeOK
    BY DEF DescriptorInv
  <2>2. ASSUME NEW f \in Fds
        PROVE  Cardinality(StreamsOf(f)) =< 1
    <3>1. \A r, s \in StreamsOf(f) : r = s
      BY <2>1 DEF OneStream, StreamsOf
    <3>2. CASE StreamsOf(f) = {}
      BY <3>2, FS_EmptySet
    <3>3. CASE StreamsOf(f) # {}
      <4>1. PICK s : StreamsOf(f) = {s}
        BY <3>1, <3>3
      <4>2. Cardinality({s}) = 1
        BY FS_Singleton
      <4> QED
        BY <4>1, <4>2
    <3> QED
      BY <3>2, <3>3
  <2>3. raced = {} => \A t \in Threads : At(t, "wipe") =>
          streams[call[t].s].active /\ streams[call[t].s].fd = call[t].fd
    BY <2>1 DEF WipesOwn, Mine
  <2>4. ASSUME NEW s \in Streams, streams[s].active, streams[s].fd \notin raced
        PROVE  streams[s].bytes \subseteq {opening[streams[s].fd]}
    BY <2>1, <2>4 DEF Unraced, OfThisOpening, Mine, DescriptorTypeOK
  <2> QED
    BY <2>1, <2>2, <2>3, <2>4 DEF StreamsKeptApart, OneStream
<1> QED
  BY <1>1, DescriptorsSound, PTL

-----------------------------------------------------------------------------
(* The images of one stream.                                               *)

Packets == [sess : Sessions, img : Nat, soi : BOOLEAN, eoi : BOOLEAN]

ImageTypeOK ==
  /\ sending \in [Sessions -> Nat] /\ images \in Nat
  /\ broken \subseteq 1 .. images /\ alone \subseteq 1 .. images
  /\ sent \in Seq(Packets)
  /\ got \in Nat /\ taken \in Nat /\ 2 * taken =< got /\ got =< 2 * Len(sent)
  /\ target \in Sessions \cup {NoSession}
  /\ jpeg \subseteq 1 .. taken
  /\ handed \in Seq(SUBSET Nat)

(* Every image has a first packet, the only one with an SOI, and one       *)
(* session; images begin in their order.                                   *)
Starts(i, a) ==
  /\ a \in PacketsOf(i) /\ sent[a].soi
  /\ \A q \in PacketsOf(i) : a =< q /\ sent[q].sess = sent[a].sess

ImagesBegin ==
  /\ \A p \in Places : sent[p].img \in 0 .. images /\ (sent[p].soi => sent[p].img # 0)
  /\ \A i \in 1 .. images : \A p \in PacketsOf(i) : sent[p].soi => Starts(i, p)
  /\ \A i \in 1 .. images : \E a \in PacketsOf(i) : Starts(i, a)
  /\ \A p, q \in Places : sent[p].soi /\ sent[q].soi /\ p < q => sent[p].img < sent[q].img

(* An image that is not being sent any more was broken off or has an end,  *)
(* which is its last packet.                                               *)
Ended(i) == \E e \in PacketsOf(i) : sent[e].eoi

ImagesEnd ==
  /\ \A s \in Sessions : sending[s] \in 0 .. images /\ sending[s] \notin broken
  /\ \A s, t \in Sessions : sending[s] # 0 /\ sending[s] = sending[t] => s = t
  /\ \A s \in Sessions : \A i \in 1 .. images : sending[s] = i =>
       \A q \in PacketsOf(i) : sent[q].sess = s /\ ~sent[q].eoi
  /\ \A p \in Places : sent[p].eoi => sent[p].img # 0
  /\ \A i \in 1 .. images : \A p \in PacketsOf(i) : sent[p].eoi =>
       i \notin broken /\ \A q \in PacketsOf(i) : q =< p
  /\ \A i \in 1 .. images :
       i \in broken \/ Ended(i) \/ \E s \in Sessions : sending[s] = i

(* In its session nothing comes between the packets of an image, unless it *)
(* is broken off.                                                          *)
Unmixed ==
  \A i \in 1 .. images : \A p \in PacketsOf(i) : \A q \in Places :
    p < q /\ sent[p].sess = sent[q].sess /\ sent[q].img # i
    => i \in broken \/ \E e \in PacketsOf(i) : sent[e].eoi /\ e < q

(* Those before an image that began alone had been parsed by then.         *)
AloneAfter ==
  \A i \in alone : \A j \in 1 .. i - 1 :
    \E e \in PacketsOf(j) : sent[e].eoi /\ e =< taken /\ \A a \in PacketsOf(i) : e < a

StreamInv == ImageTypeOK /\ ImagesBegin /\ ImagesEnd /\ Unmixed /\ AloneAfter

(* What has a byte behind it was parsed.                                   *)
ReadIsTaken == \A e \in Places : 2 * e < got => e =< taken

(* The collection is its session's packets from one SOI on, without an EOI.*)
LocksAt(l) ==
  /\ l \in 1 .. taken /\ sent[l].soi /\ sent[l].sess = target
  /\ jpeg = {p \in l .. taken : sent[p].sess = target}
  /\ \A p \in jpeg : ~sent[p].eoi
  /\ \A n \in DOMAIN handed : ImageOf(n) < sent[l].img

Collecting == IF target = NoSession THEN jpeg = {} ELSE \E l \in Places : LocksAt(l)

HandedWhole ==
  \A n \in DOMAIN handed :
    /\ Least(handed[n]) \in 1 .. taken /\ sent[Least(handed[n])].soi
    /\ \/ ImageOf(n) \in broken
       \/ handed[n] = PacketsOf(ImageOf(n)) /\ Ended(ImageOf(n))

(* An image that began alone is parsed next, collected, handed over, too   *)
(* large or broken off.                                                    *)
AloneIsKept ==
  \A i \in alone : \A a \in Places : Starts(i, a) /\ a =< taken =>
    \/ i \in broken
    \/ Cardinality(PacketsOf(i)) > MaxJpeg
    \/ \E n \in DOMAIN handed : ImageOf(n) = i
    \/ target # NoSession /\ LocksAt(a)

HookInv == ReadIsTaken /\ Collecting /\ HandedWhole /\ HandedInOrder /\ AloneIsKept

ImageInv == StreamInv /\ HookInv

-----------------------------------------------------------------------------
(* A set of places that is not empty has a least one.                      *)
LEMMA LeastIs ==
  ASSUME NEW S \in SUBSET Nat, S # {}
  PROVE  Least(S) \in S /\ \A q \in S : Least(S) =< q
<1>1. PICK x \in S : \A y \in S : ~(<<y, x>> \in OpToRel(<, Nat))
  BY NatLessThanWellFounded, WFMin
<1>2. \A y \in S : x =< y
  <2> SUFFICES ASSUME NEW y \in S, y < x PROVE FALSE
    OBVIOUS
  <2>1. <<y, x>> \in OpToRel(<, Nat)
    BY <<y, x>> \in Nat \X Nat DEF OpToRel
  <2> QED
    BY <2>1, <1>1
<1> QED
  BY <1>2 DEF Least

LEMMA PacketAt ==
  ASSUME ImageTypeOK, NEW p \in Places
  PROVE  /\ sent[p] \in Packets /\ sent[p].sess \in Sessions /\ sent[p].img \in Nat
         /\ p \in Nat \ {0} /\ p =< Len(sent)
<1>1. sent[p] \in Packets
  BY DEF ImageTypeOK, Places
<1> QED
  BY <1>1 DEF ImageTypeOK, Places, Packets

(* A packet that is sent is the last of the stream.                        *)
LEMMA EmitIs ==
  ASSUME ImageTypeOK, NEW p \in Packets, Emit(p)
  PROVE  /\ sent' \in Seq(Packets) /\ Len(sent) \in Nat /\ Len(sent') = Len(sent) + 1
         /\ Places' = Places \cup {Len(sent) + 1} /\ Len(sent) + 1 \notin Places
         /\ \A q \in Places : sent'[q] = sent[q]
         /\ sent'[Len(sent) + 1] = p
         /\ \A i : PacketsOf(i)' = IF p.img = i THEN PacketsOf(i) \cup {Len(sent) + 1}
                                   ELSE PacketsOf(i)
<1>1. sent \in Seq(Packets) /\ sent' = Append(sent, p)
  BY DEF ImageTypeOK, Emit
<1>2. sent' \in Seq(Packets) /\ Len(sent) \in Nat /\ Len(sent') = Len(sent) + 1
  BY <1>1
<1>3. \A q \in 1 .. Len(sent) : sent'[q] = sent[q]
  BY <1>1
<1>4. sent'[Len(sent) + 1] = p
  BY <1>1
<1>5. Places' = Places \cup {Len(sent) + 1} /\ Len(sent) + 1 \notin Places
  BY <1>2 DEF Places
<1>6. ASSUME NEW i
      PROVE  PacketsOf(i)' = IF p.img = i THEN PacketsOf(i) \cup {Len(sent) + 1}
                             ELSE PacketsOf(i)
  <2>1. PacketsOf(i)' = {q \in Places \cup {Len(sent) + 1} : sent'[q].img = i}
    BY <1>5 DEF PacketsOf
  <2>2. \A q \in Places : sent'[q].img = sent[q].img
    BY <1>3 DEF Places
  <2> QED
    BY <2>1, <2>2, <1>4, <1>5 DEF PacketsOf
<1> QED
  BY <1>2, <1>3, <1>4, <1>5, <1>6 DEF Places

LEMMA FiniteAfter ==
  ASSUME Len(sent') \in Nat
  PROVE  \A i : IsFiniteSet(PacketsOf(i)')
<1> TAKE i
<1>1. IsFiniteSet(1 .. Len(sent'))
  BY FS_Interval
<1>2. PacketsOf(i)' \subseteq 1 .. Len(sent')
  BY DEF PacketsOf, Places
<1> QED
  BY <1>1, <1>2, FS_Subset

LEMMA ImagesStart == ImageInit => ImageInv
<1> SUFFICES ASSUME ImageInit PROVE ImageInv
  OBVIOUS
<1>1. sent = << >> /\ Len(sent) = 0 /\ Places = {} /\ images = 0 /\ 1 .. images = {}
  BY DEF ImageInit, Places
<1>2. ImageTypeOK
  BY <1>1, StreamAssumption DEF ImageInit, ImageTypeOK
<1>3. \A i : PacketsOf(i) = {}
  BY <1>1 DEF PacketsOf
<1>4. StreamInv
  BY <1>1, <1>2, <1>3 DEF ImageInit, StreamInv, ImagesBegin, ImagesEnd, Unmixed, AloneAfter
<1>5. handed = << >> /\ DOMAIN handed = {}
  BY DEF ImageInit
<1>6. HookInv
  BY <1>1, <1>5 DEF ImageInit, HookInv, ReadIsTaken, Collecting, HandedWhole, HandedInOrder,
                    AloneIsKept
<1> QED
  BY <1>4, <1>6 DEF ImageInv

(* What the phone does leaves what the hook has true.                      *)
LEMMA HookKeeps ==
  ASSUME ImageTypeOK, HookInv, UNCHANGED <<got, taken, target, jpeg, handed>>,
         Places \subseteq Places', \A q \in Places : sent'[q] = sent[q],
         \A q \in Places' \ Places : 2 * q > got,
         \A i : IsFiniteSet(PacketsOf(i)'),
         \A i : PacketsOf(i) \subseteq PacketsOf(i)',
         \A i : Ended(i) => PacketsOf(i)' = PacketsOf(i),
         broken \subseteq broken',
         \A i \in alone' : i \in alone \/ \A a \in PacketsOf(i)' : a > taken
  PROVE  HookInv'
<1> DEFINE at(n) == Least(handed[n])
<1>1. /\ taken \in Nat /\ got \in Nat /\ 2 * taken =< got
      /\ 1 .. taken \subseteq Places /\ jpeg \subseteq 1 .. taken
  BY DEF ImageTypeOK, Places
<1>2. \A q \in 1 .. taken : sent'[q] = sent[q]
  BY <1>1
<1>3. \A n \in DOMAIN handed : at(n) \in 1 .. taken /\ ImageOf(n)' = ImageOf(n)
  BY <1>2 DEF HookInv, HandedWhole, ImageOf
<1>4. ReadIsTaken'
  <2> SUFFICES ASSUME NEW e \in Places', 2 * e < got PROVE e =< taken
    BY DEF ReadIsTaken
  <2>1. e \in Places
    <3>1. Places' \subseteq Nat
      BY DEF Places
    <3> QED
      BY <1>1, <3>1
  <2> QED
    BY <2>1 DEF HookInv, ReadIsTaken
<1>5. \A l \in 1 .. taken : LocksAt(l) => LocksAt(l)'
  <2> SUFFICES ASSUME NEW l \in 1 .. taken, LocksAt(l) PROVE LocksAt(l)'
    OBVIOUS
  <2>1. \A p \in l .. taken : p \in 1 .. taken /\ sent'[p] = sent[p]
    BY <1>1, <1>2
  <2>2. jpeg' = {p \in l .. taken : sent'[p].sess = target}
    BY <2>1 DEF LocksAt
  <2>3. \A p \in jpeg : ~sent'[p].eoi
    BY <1>1, <1>2 DEF LocksAt
  <2>4. \A n \in DOMAIN handed' : ImageOf(n)' < sent'[l].img
    BY <1>2, <1>3 DEF LocksAt
  <2>5. sent'[l].soi /\ sent'[l].sess = target
    BY <1>2 DEF LocksAt
  <2> QED
    BY <2>2, <2>3, <2>4, <2>5 DEF LocksAt
<1>6. Collecting'
  <2>1. CASE target = NoSession
    BY <2>1 DEF HookInv, Collecting
  <2>2. CASE target # NoSession
    <3>1. PICK l \in Places : LocksAt(l)
      BY <2>2 DEF HookInv, Collecting
    <3>2. l \in 1 .. taken
      BY <3>1 DEF LocksAt
    <3> QED
      BY <2>2, <3>1, <3>2, <1>5 DEF Collecting
  <2> QED
    BY <2>1, <2>2
<1>7. \A i : Ended(i) => Ended(i)'
  <2> SUFFICES ASSUME NEW i, Ended(i) PROVE Ended(i)'
    OBVIOUS
  <2>1. PICK e \in PacketsOf(i) : sent[e].eoi
    BY DEF Ended
  <2>2. e \in PacketsOf(i)' /\ sent'[e].eoi
    BY <2>1 DEF PacketsOf
  <2> QED
    BY <2>2 DEF Ended
<1>8. HandedWhole'
  <2> SUFFICES ASSUME NEW n \in DOMAIN handed
      PROVE  /\ Least(handed[n]) \in 1 .. taken /\ sent'[Least(handed[n])].soi
             /\ \/ ImageOf(n)' \in broken'
                \/ (handed[n] = PacketsOf(ImageOf(n)) /\ Ended(ImageOf(n)))'
    BY DEF HandedWhole
  <2>1. Least(handed[n]) \in 1 .. taken /\ sent'[Least(handed[n])].soi
    BY <1>2, <1>3 DEF HookInv, HandedWhole
  <2>2. CASE ImageOf(n) \in broken
    BY <2>1, <2>2, <1>3
  <2>3. CASE handed[n] = PacketsOf(ImageOf(n)) /\ Ended(ImageOf(n))
    BY <2>1, <2>3, <1>3, <1>7
  <2> QED
    BY <2>2, <2>3 DEF HookInv, HandedWhole
<1>9. HandedInOrder'
  BY <1>3 DEF HookInv, HandedInOrder
<1>10. AloneIsKept'
  <2> SUFFICES ASSUME NEW i \in alone', NEW a \in Places', Starts(i, a)', a =< taken
      PROVE  \/ i \in broken'
             \/ Cardinality(PacketsOf(i)') > MaxJpeg
             \/ \E n \in DOMAIN handed' : ImageOf(n)' = i
             \/ target # NoSession /\ LocksAt(a)'
    BY DEF AloneIsKept
  <2>1. a \in PacketsOf(i)' /\ sent'[a].soi /\ a \in 1 .. taken
    BY <1>1 DEF Starts, Places
  <2>2. i \in alone
    BY <2>1, <1>1
  <2>3. a \in Places /\ a \in PacketsOf(i) /\ sent[a].soi
    BY <2>1, <1>1, <1>2 DEF PacketsOf
  <2>4. Starts(i, a)
    <3>1. ASSUME NEW q \in PacketsOf(i) PROVE a =< q /\ sent[q].sess = sent[a].sess
      BY <2>1, <1>2, q \in PacketsOf(i)', q \in Places DEF Starts, PacketsOf
    <3> QED
      BY <2>3, <3>1 DEF Starts
  <2>5. CASE i \in broken
    BY <2>5
  <2>6. CASE Cardinality(PacketsOf(i)) > MaxJpeg
    <3>1. Cardinality(PacketsOf(i)) =< Cardinality(PacketsOf(i)') /\ IsFiniteSet(PacketsOf(i))
      BY FS_Subset
    <3>2. Cardinality(PacketsOf(i)) \in Nat /\ Cardinality(PacketsOf(i)') \in Nat
      BY <3>1, FS_CardinalityType
    <3> QED
      BY <2>6, <3>1, <3>2, StreamAssumption
  <2>7. CASE \E n \in DOMAIN handed : ImageOf(n) = i
    BY <2>7, <1>3
  <2>8. CASE target # NoSession /\ LocksAt(a)
    BY <2>8, <2>1, <1>5
  <2> QED
    BY <2>2, <2>3, <2>4, <2>5, <2>6, <2>7, <2>8 DEF HookInv, AloneIsKept
<1> QED
  BY <1>4, <1>6, <1>8, <1>9, <1>10 DEF HookInv

(* A packet of what its session is sending, or of nothing, is unmixed.     *)
LEMMA UnmixedKeeps ==
  ASSUME StreamInv, NEW s \in Sessions, NEW p \in Packets, Emit(p), p.sess = s,
         sending[s] \in {0, p.img}, broken' = broken, NEW i \in 1 .. images,
         NEW a \in PacketsOf(i), NEW q \in Places', a < q,
         sent'[a].sess = sent'[q].sess, sent'[q].img # i
  PROVE  i \in broken \/ \E e \in PacketsOf(i)' : sent'[e].eoi /\ e < q
<1>1. ImageTypeOK /\ Unmixed
  BY DEF StreamInv
<1> DEFINE new == Len(sent) + 1
<1>2. /\ new \in Nat /\ Places' = Places \cup {new} /\ new \notin Places
      /\ \A k \in Places : sent'[k] = sent[k]
      /\ sent'[new] = p
      /\ PacketsOf(i) \subseteq PacketsOf(i)'
  BY <1>1, EmitIs
<1>3. \A k \in Places : k \in Nat /\ k < new
  BY DEF Places
<1> HIDE DEF new
<1>4. \A e \in PacketsOf(i) : e \in PacketsOf(i)' /\ sent'[e] = sent[e] /\ e \in Places
  BY <1>2 DEF PacketsOf
<1>5. CASE q \in Places
  <2>1. i \in broken \/ \E e \in PacketsOf(i) : sent[e].eoi /\ e < q
    BY <1>1, <1>2, <1>4, <1>5 DEF Unmixed
  <2> QED
    BY <2>1, <1>4
<1>6. CASE q = new
  <2>1. sent[a].sess = s /\ p.img # i
    BY <1>2, <1>4, <1>6
  <2>2. ASSUME NEW t \in Sessions, sending[t] = i PROVE FALSE
    <3>1. sent[a].sess = t
      BY <2>2 DEF StreamInv, ImagesEnd
    <3> QED
      BY <2>1, <2>2, <3>1
  <2>3. i \in broken \/ Ended(i)
    BY <2>2 DEF StreamInv, ImagesEnd
  <2> QED
    BY <2>3, <1>3, <1>4, <1>6 DEF Ended
<1> QED
  BY <1>2, <1>5, <1>6

(* Those that began alone stay so while packets are sent.                  *)
LEMMA AloneKeeps ==
  ASSUME StreamInv, NEW p \in Packets, Emit(p), NEW i \in alone, NEW j \in 1 .. i - 1
  PROVE  \E e \in PacketsOf(j)' : sent'[e].eoi /\ e =< taken' /\ \A a \in PacketsOf(i)' : e < a
<1>1. ImageTypeOK /\ taken' = taken
  BY DEF StreamInv, Emit
<1>2. /\ Len(sent) \in Nat /\ \A q \in Places : sent'[q] = sent[q] /\ q =< Len(sent) /\ q \in Nat
      /\ \A k : PacketsOf(k) \subseteq PacketsOf(k)'
      /\ PacketsOf(i)' \subseteq PacketsOf(i) \cup {Len(sent) + 1}
  BY <1>1, EmitIs, PacketAt
<1>3. PICK e \in PacketsOf(j) : sent[e].eoi /\ e =< taken /\ \A a \in PacketsOf(i) : e < a
  BY DEF StreamInv, AloneAfter
<1>4. e \in Places
  BY DEF PacketsOf
<1> QED
  BY <1>1, <1>2, <1>3, <1>4

LEMMA OtherKeeps ==
  ASSUME ImageInv, NEW s \in Sessions, Other(s)
  PROVE  ImageInv'
<1> DEFINE p == Packet(s, 0, FALSE, FALSE)  new == Len(sent) + 1
<1>1. StreamInv /\ ImageTypeOK /\ HookInv
  BY DEF ImageInv, StreamInv
<1>2. p \in Packets /\ p.sess = s /\ p.img = 0 /\ ~p.soi /\ ~p.eoi
  BY DEF Packet, Packets
<1>3. Emit(p) /\ sending[s] = 0 /\ UNCHANGED <<sending, images, broken, alone>>
  BY DEF Other
<1>4. UNCHANGED <<got, taken, target, jpeg, handed>>
  BY <1>3 DEF Emit
<1> HIDE DEF p
<1>5. /\ sent' \in Seq(Packets) /\ Len(sent) \in Nat /\ Len(sent') = new
      /\ Places' = Places \cup {new} /\ new \notin Places
      /\ \A q \in Places : sent'[q] = sent[q]
      /\ sent'[new] = p
      /\ \A i : PacketsOf(i)' = IF i = 0 THEN PacketsOf(i) \cup {new} ELSE PacketsOf(i)
  BY <1>1, <1>2, <1>3, EmitIs
<1>6. \A q \in Places : q \in Nat /\ q < new
  BY <1>5 DEF Places
<1> HIDE DEF new
<1>7. ImageTypeOK'
  <2>1. got =< 2 * Len(sent')
    BY <1>1, <1>5 DEF ImageTypeOK, new
  <2> QED
    BY <2>1, <1>1, <1>3, <1>4, <1>5 DEF ImageTypeOK
<1>8. \A i : i # 0 => /\ PacketsOf(i)' = PacketsOf(i)
                      /\ \A q \in PacketsOf(i) : q \in Places /\ sent'[q] = sent[q]
  BY <1>5 DEF PacketsOf
<1>9. ImagesBegin'
  <2>1. \A i \in 1 .. images : \A a \in PacketsOf(i) : Starts(i, a) => Starts(i, a)'
    BY <1>8 DEF Starts
  <2>2. \A q \in Places' : sent'[q].img \in 0 .. images /\ (sent'[q].soi => sent'[q].img # 0)
    <3>1. \A q \in Places : sent[q].img \in 0 .. images /\ (sent[q].soi => sent[q].img # 0)
      BY <1>1 DEF StreamInv, ImagesBegin
    <3>2. ASSUME NEW q \in Places
          PROVE  sent'[q].img \in 0 .. images /\ (sent'[q].soi => sent'[q].img # 0)
      BY <3>1, <3>2, <1>5
    <3>3. sent'[new].img = 0 /\ ~sent'[new].soi
      BY <1>2, <1>5
    <3>4. 0 \in 0 .. images
      BY <1>1 DEF ImageTypeOK
    <3> QED
      BY <1>5, <3>2, <3>3, <3>4
  <2>3. \A i \in 1 .. images : \A q \in PacketsOf(i)' : sent'[q].soi => Starts(i, q)'
    BY <2>1, <1>1, <1>8 DEF StreamInv, ImagesBegin
  <2>4. \A i \in 1 .. images : \E a \in PacketsOf(i)' : Starts(i, a)'
    BY <2>1, <1>1, <1>8 DEF StreamInv, ImagesBegin
  <2>5. \A a, q \in Places' : sent'[a].soi /\ sent'[q].soi /\ a < q => sent'[a].img < sent'[q].img
    BY <1>1, <1>2, <1>5 DEF StreamInv, ImagesBegin
  <2> QED
    BY <2>2, <2>3, <2>4, <2>5, <1>3 DEF ImagesBegin
<1>10. \A i \in 1 .. images : Ended(i) => Ended(i)'
  BY <1>8 DEF Ended
<1>11. ImagesEnd'
  <2>1. \A t \in Sessions : \A i \in 1 .. images : sending[t] = i =>
          \A q \in PacketsOf(i)' : sent'[q].sess = t /\ ~sent'[q].eoi
    BY <1>1, <1>8 DEF StreamInv, ImagesEnd
  <2>2. \A q \in Places' : sent'[q].eoi => sent'[q].img # 0
    BY <1>1, <1>2, <1>5 DEF StreamInv, ImagesEnd
  <2>3. \A i \in 1 .. images : \A q \in PacketsOf(i)' : sent'[q].eoi =>
          i \notin broken /\ \A k \in PacketsOf(i)' : k =< q
    BY <1>1, <1>8 DEF StreamInv, ImagesEnd
  <2>4. \A i \in 1 .. images : i \in broken \/ Ended(i)' \/ \E t \in Sessions : sending[t] = i
    BY <1>1, <1>10 DEF StreamInv, ImagesEnd
  <2> QED
    BY <2>1, <2>2, <2>3, <2>4, <1>1, <1>3 DEF ImagesEnd, StreamInv
<1>12. Unmixed'
  BY <1>1, <1>2, <1>3, <1>8, UnmixedKeeps DEF Unmixed
<1>13. AloneAfter'
  BY <1>1, <1>2, <1>3, AloneKeeps DEF AloneAfter
<1>14. HookInv'
  <2>1. \A q \in Places' \ Places : 2 * q > got
    BY <1>1, <1>5 DEF ImageTypeOK, new
  <2>2. \A i : IsFiniteSet(PacketsOf(i)')
    BY <1>5, FiniteAfter DEF new
  <2>3. \A i : Ended(i) => PacketsOf(i)' = PacketsOf(i)
    <3>1. ~Ended(0)
      BY <1>1 DEF Ended, PacketsOf, StreamInv, ImagesEnd, Places
    <3> QED
      BY <3>1, <1>8
  <2>4. \A i : PacketsOf(i) \subseteq PacketsOf(i)'
    BY <1>5
  <2> QED
    BY <2>1, <2>2, <2>3, <2>4, <1>1, <1>3, <1>4, <1>5, HookKeeps
<1> QED
  BY <1>7, <1>9, <1>11, <1>12, <1>13, <1>14 DEF ImageInv, StreamInv

LEMMA ContinueKeeps ==
  ASSUME ImageInv, NEW s \in Sessions, Continue(s)
  PROVE  ImageInv'
<1> DEFINE new == Len(sent) + 1  c == sending[s]
<1>1. StreamInv /\ ImageTypeOK /\ HookInv
  BY DEF ImageInv, StreamInv
<1>2. PICK eoi \in BOOLEAN :
        /\ Emit(Packet(s, c, FALSE, eoi))
        /\ sending' = IF eoi THEN [sending EXCEPT ![s] = 0] ELSE sending
  BY DEF Continue
<1>3. c # 0 /\ c \in 1 .. images /\ UNCHANGED <<images, broken, alone>>
  BY <1>1 DEF Continue, StreamInv, ImagesEnd, ImageTypeOK
<1> DEFINE p == Packet(s, c, FALSE, eoi)
<1>4. p \in Packets /\ p.sess = s /\ p.img = c /\ ~p.soi /\ (p.eoi <=> eoi)
  BY <1>3 DEF Packet, Packets
<1>5. UNCHANGED <<got, taken, target, jpeg, handed>> /\ Emit(p)
  BY <1>2 DEF Emit
<1> HIDE DEF p
<1>6. /\ sent' \in Seq(Packets) /\ Len(sent) \in Nat /\ Len(sent') = new
      /\ Places' = Places \cup {new} /\ new \notin Places
      /\ \A q \in Places : sent'[q] = sent[q]
      /\ sent'[new] = p
      /\ \A i : PacketsOf(i)' = IF i = c THEN PacketsOf(i) \cup {new} ELSE PacketsOf(i)
  BY <1>1, <1>4, <1>5, EmitIs
<1>7. \A q \in Places : q \in Nat /\ q < new
  BY <1>6 DEF Places
<1>8. new \in Nat
  BY <1>6
<1> HIDE DEF new
<1>9. ImageTypeOK'
  <2>1. got =< 2 * Len(sent')
    BY <1>1, <1>6 DEF ImageTypeOK, new
  <2>2. sending' \in [Sessions -> Nat]
    BY <1>1, <1>2 DEF ImageTypeOK
  <2> QED
    BY <2>1, <2>2, <1>1, <1>3, <1>5, <1>6 DEF ImageTypeOK
<1>10. \A i : \A q \in PacketsOf(i) : q \in PacketsOf(i)' /\ q \in Places /\ sent'[q] = sent[q]
  BY <1>6 DEF PacketsOf
<1>11. \A i : \A q \in PacketsOf(i)' : q \in PacketsOf(i) \/ (q = new /\ i = c)
  BY <1>6
<1>12. \A q \in PacketsOf(c) : sent[q].sess = s /\ ~sent[q].eoi
  BY <1>1, <1>3 DEF StreamInv, ImagesEnd
<1>13. ImagesBegin'
  <2>1. ASSUME NEW i \in 1 .. images, NEW a \in PacketsOf(i), Starts(i, a) PROVE Starts(i, a)'
    BY <2>1, <1>4, <1>6, <1>7, <1>8, <1>10, <1>11, <1>12 DEF Starts
  <2>2. \A q \in Places' : sent'[q].img \in 0 .. images /\ (sent'[q].soi => sent'[q].img # 0)
    <3>1. \A q \in Places : sent[q].img \in 0 .. images /\ (sent[q].soi => sent[q].img # 0)
      BY <1>1 DEF StreamInv, ImagesBegin
    <3>2. c \in 0 .. images
      BY <1>1 DEF StreamInv, ImagesEnd
    <3> QED
      BY <3>1, <3>2, <1>4, <1>6
  <2>3. \A i \in 1 .. images : \A q \in PacketsOf(i)' : sent'[q].soi => Starts(i, q)'
    BY <2>1, <1>1, <1>4, <1>6, <1>10, <1>11 DEF StreamInv, ImagesBegin
  <2>4. \A i \in 1 .. images : \E a \in PacketsOf(i)' : Starts(i, a)'
    BY <2>1, <1>1, <1>10 DEF StreamInv, ImagesBegin
  <2>5. \A a, q \in Places' : sent'[a].soi /\ sent'[q].soi /\ a < q => sent'[a].img < sent'[q].img
    BY <1>1, <1>4, <1>6 DEF StreamInv, ImagesBegin
  <2> QED
    BY <2>2, <2>3, <2>4, <2>5, <1>3 DEF ImagesBegin
<1>14. \A i \in 1 .. images : Ended(i) => Ended(i)'
  BY <1>10 DEF Ended
<1>15. \A t \in Sessions : sending'[t] = sending[t] \/ (t = s /\ sending'[t] = 0 /\ eoi)
  BY <1>1, <1>2 DEF ImageTypeOK
<1>16. ~eoi => sending' = sending
  BY <1>2
<1>17. ImagesEnd'
  <2>1. \A t \in Sessions : sending'[t] \in 0 .. images' /\ sending'[t] \notin broken'
    <3>1. images \in Nat /\ 0 \notin broken
      BY <1>1 DEF ImageTypeOK
    <3> QED
      BY <3>1, <1>1, <1>3, <1>15 DEF StreamInv, ImagesEnd
  <2>2. \A t, u \in Sessions : sending'[t] # 0 /\ sending'[t] = sending'[u] => t = u
    BY <1>1, <1>15 DEF StreamInv, ImagesEnd
  <2>3. ASSUME NEW t \in Sessions, NEW i \in 1 .. images, sending'[t] = i,
               NEW q \in PacketsOf(i)'
        PROVE  sent'[q].sess = t /\ ~sent'[q].eoi
    <3>1. sending[t] = i
      BY <2>3, <1>15
    <3>2. CASE q \in PacketsOf(i)
      BY <3>1, <3>2, <1>1, <1>10 DEF StreamInv, ImagesEnd
    <3>3. CASE q = new /\ i = c
      <4>1. t = s
        BY <3>1, <3>3, <1>1, <1>3 DEF StreamInv, ImagesEnd
      <4>2. ~eoi
        <5>1. CASE eoi
          <6>1. sending'[s] = 0
            BY <5>1, <1>1, <1>2 DEF ImageTypeOK
          <6> QED
            BY <6>1, <4>1, <2>3
        <5> QED
          BY <5>1
      <4> QED
        BY <4>1, <4>2, <3>3, <1>4, <1>6
    <3> QED
      BY <3>2, <3>3, <1>11
  <2>4. \A q \in Places' : sent'[q].eoi => sent'[q].img # 0
    BY <1>1, <1>3, <1>4, <1>6 DEF StreamInv, ImagesEnd
  <2>5. ASSUME NEW i \in 1 .. images, NEW q \in PacketsOf(i)', sent'[q].eoi
        PROVE  i \notin broken /\ \A k \in PacketsOf(i)' : k =< q
    <3>1. CASE q = new /\ i = c
      <4>1. c \notin broken
        BY <1>1 DEF StreamInv, ImagesEnd
      <4>2. \A k \in PacketsOf(i)' : k =< new
        BY <1>7, <1>8, <1>10, <1>11
      <4> QED
        BY <4>1, <4>2, <3>1
    <3>2. CASE q \in PacketsOf(i)
      <4>1. sent[q].eoi
        BY <3>2, <2>5, <1>10
      <4>2. i # c
        BY <4>1, <3>2, <1>12
      <4> QED
        BY <4>1, <4>2, <3>2, <1>1, <1>11 DEF StreamInv, ImagesEnd
    <3> QED
      BY <3>1, <3>2, <1>11
  <2>6. ASSUME NEW i \in 1 .. images
        PROVE  i \in broken \/ Ended(i)' \/ \E t \in Sessions : sending'[t] = i
    <3>1. CASE i = c /\ eoi
      <4>1. new \in PacketsOf(i)' /\ sent'[new].eoi
        BY <3>1, <1>4, <1>6
      <4> QED
        BY <4>1 DEF Ended
    <3>2. CASE i # c \/ ~eoi
      <4>1. i \in broken \/ Ended(i) \/ \E t \in Sessions : sending[t] = i
        BY <1>1 DEF StreamInv, ImagesEnd
      <4>2. ASSUME NEW t \in Sessions, sending[t] = i PROVE sending'[t] = i
        BY <4>2, <3>2, <1>15, <1>16
      <4> QED
        BY <4>1, <4>2, <1>14
    <3> QED
      BY <3>1, <3>2
  <2> QED
    BY <2>1, <2>2, <2>3, <2>4, <2>5, <2>6, <1>3 DEF ImagesEnd
<1>18. Unmixed'
  <2> SUFFICES ASSUME NEW i \in 1 .. images, NEW a \in PacketsOf(i)', NEW q \in Places',
                      a < q, sent'[a].sess = sent'[q].sess, sent'[q].img # i
               PROVE  i \in broken \/ \E e \in PacketsOf(i)' : sent'[e].eoi /\ e < q
    BY <1>3 DEF Unmixed
  <2>1. a \in PacketsOf(i)
    BY <1>6, <1>7, <1>8, <1>11
  <2> QED
    BY <2>1, <1>1, <1>3, <1>4, <1>5, UnmixedKeeps
<1>19. AloneAfter'
  BY <1>1, <1>3, <1>4, <1>5, AloneKeeps DEF AloneAfter
<1>20. HookInv'
  <2>1. \A q \in Places' \ Places : 2 * q > got
    BY <1>1, <1>6 DEF ImageTypeOK, new
  <2>2. \A i : IsFiniteSet(PacketsOf(i)')
    BY <1>6, FiniteAfter DEF new
  <2>3. \A i : Ended(i) => PacketsOf(i)' = PacketsOf(i)
    BY <1>6, <1>12 DEF Ended
  <2>4. \A i : PacketsOf(i) \subseteq PacketsOf(i)'
    BY <1>10
  <2> QED
    BY <2>1, <2>2, <2>3, <2>4, <1>1, <1>3, <1>5, <1>6, HookKeeps
<1> QED
  BY <1>9, <1>13, <1>17, <1>18, <1>19, <1>20 DEF ImageInv, StreamInv

LEMMA BreakOffKeeps ==
  ASSUME ImageInv, NEW s \in Sessions, BreakOff(s)
  PROVE  ImageInv'
<1> DEFINE c == sending[s]
<1>1. StreamInv /\ ImageTypeOK /\ HookInv
  BY DEF ImageInv, StreamInv
<1>2. /\ c # 0 /\ c \in 1 .. images
      /\ broken' = broken \cup {c}
      /\ sending' = [sending EXCEPT ![s] = 0]
      /\ UNCHANGED <<images, sent, got, taken, target, jpeg, handed, alone>>
  BY <1>1 DEF BreakOff, StreamInv, ImagesEnd, ImageTypeOK
<1>3. Places' = Places /\ \A i : PacketsOf(i)' = PacketsOf(i)
  BY <1>2 DEF Places, PacketsOf
<1>4. ImageTypeOK'
  BY <1>1, <1>2 DEF ImageTypeOK
<1>5. ImagesBegin'
  BY <1>1, <1>2, <1>3 DEF StreamInv, ImagesBegin, Starts
<1>6. sending'[s] = 0 /\ \A t \in Sessions : t # s => sending'[t] = sending[t]
  BY <1>1, <1>2 DEF ImageTypeOK
<1>7. ImagesEnd'
  <2>1. \A t \in Sessions : sending'[t] \in 0 .. images' /\ sending'[t] \notin broken'
    <3>1. images \in Nat /\ 0 \notin broken
      BY <1>1 DEF ImageTypeOK
    <3>2. \A t \in Sessions : t # s => sending[t] # c
      BY <1>1, <1>2 DEF StreamInv, ImagesEnd
    <3> QED
      BY <3>1, <3>2, <1>1, <1>2, <1>6 DEF StreamInv, ImagesEnd
  <2>2. \A t, u \in Sessions : sending'[t] # 0 /\ sending'[t] = sending'[u] => t = u
    BY <1>1, <1>6 DEF StreamInv, ImagesEnd
  <2>3. \A t \in Sessions : \A i \in 1 .. images : sending'[t] = i =>
          \A q \in PacketsOf(i) : sent[q].sess = t /\ ~sent[q].eoi
    BY <1>1, <1>6 DEF StreamInv, ImagesEnd
  <2>4. \A i \in 1 .. images : \A p \in PacketsOf(i) : sent[p].eoi =>
          i \notin broken' /\ \A q \in PacketsOf(i) : q =< p
    <3>1. \A q \in PacketsOf(c) : ~sent[q].eoi
      BY <1>1, <1>2 DEF StreamInv, ImagesEnd
    <3> QED
      BY <3>1, <1>1, <1>2 DEF StreamInv, ImagesEnd
  <2>5. \A i \in 1 .. images :
          i \in broken' \/ Ended(i) \/ \E t \in Sessions : sending'[t] = i
    BY <1>1, <1>2, <1>6 DEF StreamInv, ImagesEnd
  <2>6. \A p \in Places : sent[p].eoi => sent[p].img # 0
    BY <1>1 DEF StreamInv, ImagesEnd
  <2>7. \A i : Ended(i)' <=> Ended(i)
    BY <1>2, <1>3 DEF Ended
  <2> QED
    BY <2>1, <2>2, <2>3, <2>4, <2>5, <2>6, <2>7, <1>2, <1>3 DEF ImagesEnd
<1>8. Unmixed'
  BY <1>1, <1>2, <1>3 DEF StreamInv, Unmixed
<1>9. AloneAfter'
  BY <1>1, <1>2, <1>3 DEF StreamInv, AloneAfter
<1>10. HookInv'
  <2>1. \A i : IsFiniteSet(PacketsOf(i)')
    BY <1>1, <1>2, FiniteAfter DEF ImageTypeOK
  <2> QED
    BY <2>1, <1>1, <1>2, <1>3, HookKeeps
<1> QED
  BY <1>4, <1>5, <1>7, <1>8, <1>9, <1>10 DEF ImageInv, StreamInv

LEMMA BeginKeeps ==
  ASSUME ImageInv, NEW s \in Sessions, Begin(s)
  PROVE  ImageInv'
<1>1. StreamInv /\ ImageTypeOK /\ HookInv
  BY DEF ImageInv, StreamInv
<1>a. PICK new \in Nat : new = Len(sent) + 1
  BY <1>1 DEF ImageTypeOK
<1>b. PICK b \in Nat : b = images + 1
  BY <1>1 DEF ImageTypeOK
<1>2. PICK whole \in BOOLEAN :
        /\ Emit(Packet(s, b, TRUE, whole))
        /\ sending' = [sending EXCEPT ![s] = IF whole THEN 0 ELSE b]
  BY <1>b DEF Begin
<1>3. /\ sending[s] = 0 /\ images' = b /\ broken' = broken /\ images \in Nat
      /\ b \in Nat /\ 1 .. b = 1 .. images \cup {b} /\ b \notin 0 .. images
  <2>1. sending[s] = 0 /\ images' = b /\ broken' = broken
    BY <1>b DEF Begin
  <2>2. images \in Nat
    BY <1>1 DEF ImageTypeOK
  <2>3. 1 .. b = 1 .. images \cup {b} /\ b \notin 0 .. images
    BY <2>2, <1>b
  <2> QED
    BY <2>1, <2>2, <2>3
<1> DEFINE p == Packet(s, b, TRUE, whole)
<1>4. p \in Packets /\ p.sess = s /\ p.img = b /\ p.soi /\ (p.eoi <=> whole)
  BY <1>3 DEF Packet, Packets
<1>5. UNCHANGED <<got, taken, target, jpeg, handed>> /\ Emit(p)
  BY <1>2 DEF Emit
<1> HIDE DEF p
<1>6. /\ sent' \in Seq(Packets) /\ Len(sent) \in Nat /\ Len(sent') = new
      /\ Places' = Places \cup {new} /\ new \notin Places
      /\ \A q \in Places : sent'[q] = sent[q]
      /\ sent'[new] = p
      /\ \A i : PacketsOf(i)' = IF i = b THEN PacketsOf(i) \cup {new} ELSE PacketsOf(i)
  BY <1>1, <1>4, <1>5, <1>a, EmitIs
<1>7. PacketsOf(b) = {}
  BY <1>1, <1>3 DEF PacketsOf, StreamInv, ImagesBegin
<1>8. \A q \in Places : q \in Nat /\ q < new
  BY <1>6, <1>a DEF Places
<1>9. new \in Nat /\ taken < new /\ got < 2 * new
  BY <1>1, <1>6, <1>a DEF ImageTypeOK
<1>10. \A i \in 1 .. images : i # b /\ PacketsOf(i)' = PacketsOf(i)
         /\ \A q \in PacketsOf(i) : q \in Places /\ sent'[q] = sent[q]
  BY <1>3, <1>6 DEF PacketsOf
<1>11. PacketsOf(b)' = {new}
  BY <1>6, <1>7
<1>12. alone' = alone \/ (alone' = alone \cup {b} /\ \A i \in 1 .. images : WasRead(i))
  <2> DEFINE all == \A i \in 1 .. images : WasRead(i)
  <2>1. alone' = IF all THEN alone \cup {images'} ELSE alone
    BY DEF Begin
  <2> HIDE DEF all
  <2>2. alone' = alone \/ (alone' = alone \cup {b} /\ all)
    BY <2>1, <1>3, <1>b
  <2> QED
    BY <2>2 DEF all
<1>13. ImageTypeOK'
  <2>1. sending' \in [Sessions -> Nat]
    BY <1>1, <1>2, <1>3 DEF ImageTypeOK
  <2>2. broken' \subseteq 1 .. b /\ alone' \subseteq 1 .. b
    BY <1>1, <1>3, <1>12 DEF ImageTypeOK
  <2>3. got' =< 2 * Len(sent')
    BY <1>1, <1>5, <1>6, <1>9 DEF ImageTypeOK
  <2> QED
    BY <2>1, <2>2, <2>3, <1>1, <1>3, <1>5, <1>6 DEF ImageTypeOK
<1>14. ImagesBegin'
  <2>1. \A i \in 1 .. images : \A a \in PacketsOf(i) : Starts(i, a) => Starts(i, a)'
    BY <1>10 DEF Starts
  <2>2. Starts(b, new)'
    BY <1>4, <1>6, <1>9, <1>11 DEF Starts
  <2>3. \A q \in Places' : sent'[q].img \in 0 .. b /\ (sent'[q].soi => sent'[q].img # 0)
    <3>1. b # 0 /\ 0 .. images \subseteq 0 .. b /\ b \in 0 .. b
      BY <1>3
    <3> QED
      BY <3>1, <1>1, <1>4, <1>6 DEF StreamInv, ImagesBegin
  <2>4. \A i \in 1 .. b : \A q \in PacketsOf(i)' : sent'[q].soi => Starts(i, q)'
    BY <2>1, <2>2, <1>1, <1>3, <1>10, <1>11 DEF StreamInv, ImagesBegin
  <2>5. \A i \in 1 .. b : \E a \in PacketsOf(i)' : Starts(i, a)'
    BY <2>1, <2>2, <1>1, <1>3, <1>10, <1>11 DEF StreamInv, ImagesBegin
  <2>6. ASSUME NEW a \in Places', NEW q \in Places', sent'[a].soi, sent'[q].soi, a < q
        PROVE  sent'[a].img < sent'[q].img
    <3>1. a \in Places /\ sent'[a] = sent[a] /\ sent[a].img \in 0 .. images
      BY <2>6, <1>1, <1>6, <1>8, <1>9 DEF StreamInv, ImagesBegin
    <3>2. CASE q = new
      BY <3>1, <3>2, <1>3, <1>4, <1>6, <1>b
    <3>3. CASE q \in Places
      BY <3>1, <3>3, <2>6, <1>1, <1>6 DEF StreamInv, ImagesBegin
    <3> QED
      BY <3>2, <3>3, <1>6
  <2> QED
    BY <2>3, <2>4, <2>5, <2>6, <1>3 DEF ImagesBegin
<1>15. \A i \in 1 .. images : Ended(i) => Ended(i)'
  BY <1>10 DEF Ended
<1>16. \A t \in Sessions : t # s => sending'[t] = sending[t]
  BY <1>1, <1>2 DEF ImageTypeOK
<1>17. sending'[s] = IF whole THEN 0 ELSE b
  BY <1>1, <1>2 DEF ImageTypeOK
<1>18. ImagesEnd'
  <2>1. broken \subseteq 1 .. images /\ 0 \notin broken /\ b \notin broken
    BY <1>1, <1>3 DEF ImageTypeOK
  <2>2. \A t \in Sessions : sending'[t] \in 0 .. b /\ sending'[t] \notin broken
    <3>1. 0 .. images \subseteq 0 .. b /\ b \in 0 .. b /\ 0 \in 0 .. b
      BY <1>3, <1>b
    <3> QED
      BY <3>1, <2>1, <1>1, <1>16, <1>17 DEF StreamInv, ImagesEnd
  <2>3. \A t \in Sessions : t # s => sending'[t] # b
    BY <1>1, <1>3, <1>16 DEF StreamInv, ImagesEnd
  <2>4. \A t, u \in Sessions : sending'[t] # 0 /\ sending'[t] = sending'[u] => t = u
    BY <2>3, <1>1, <1>16, <1>17 DEF StreamInv, ImagesEnd
  <2>5. ASSUME NEW t \in Sessions, NEW i \in 1 .. b, sending'[t] = i,
               NEW q \in PacketsOf(i)'
        PROVE  sent'[q].sess = t /\ ~sent'[q].eoi
    <3>1. CASE t = s
      <4>1. i = b /\ ~whole
        BY <3>1, <2>5, <1>3, <1>17
      <4> QED
        BY <4>1, <3>1, <1>4, <1>6, <1>11
    <3>2. CASE t # s
      <4>1. i \in 1 .. images /\ sending[t] = i
        BY <3>2, <2>3, <2>5, <1>3, <1>16
      <4> QED
        BY <4>1, <1>1, <1>10 DEF StreamInv, ImagesEnd
    <3> QED
      BY <3>1, <3>2
  <2>6. \A q \in Places' : sent'[q].eoi => sent'[q].img # 0
    BY <1>1, <1>3, <1>4, <1>6, <1>b DEF StreamInv, ImagesEnd
  <2>7. ASSUME NEW i \in 1 .. b, NEW q \in PacketsOf(i)', sent'[q].eoi
        PROVE  i \notin broken /\ \A k \in PacketsOf(i)' : k =< q
    <3>1. CASE i = b
      BY <3>1, <2>1, <1>9, <1>11
    <3>2. CASE i \in 1 .. images
      BY <3>2, <2>7, <1>1, <1>10 DEF StreamInv, ImagesEnd
    <3> QED
      BY <3>1, <3>2, <1>3
  <2>8. ASSUME NEW i \in 1 .. b
        PROVE  i \in broken \/ Ended(i)' \/ \E t \in Sessions : sending'[t] = i
    <3>1. CASE i = b /\ whole
      <4>1. new \in PacketsOf(i)' /\ sent'[new].eoi
        BY <3>1, <1>4, <1>6, <1>11
      <4> QED
        BY <4>1 DEF Ended
    <3>2. CASE i = b /\ ~whole
      BY <3>2, <1>17
    <3>3. CASE i \in 1 .. images
      BY <3>3, <1>1, <1>3, <1>15, <1>16 DEF StreamInv, ImagesEnd
    <3> QED
      BY <3>1, <3>2, <3>3, <1>3
  <2> QED
    BY <2>2, <2>4, <2>5, <2>6, <2>7, <2>8, <1>3 DEF ImagesEnd
<1>19. Unmixed'
  <2> SUFFICES ASSUME NEW i \in 1 .. b, NEW a \in PacketsOf(i)', NEW q \in Places',
                      a < q, sent'[a].sess = sent'[q].sess, sent'[q].img # i
               PROVE  i \in broken \/ \E e \in PacketsOf(i)' : sent'[e].eoi /\ e < q
    BY <1>3 DEF Unmixed
  <2>1. i # b
    BY <1>6, <1>8, <1>9, <1>11
  <2>2. i \in 1 .. images /\ a \in PacketsOf(i)
    BY <2>1, <1>3, <1>10
  <2> QED
    BY <2>2, <1>1, <1>3, <1>4, <1>5, UnmixedKeeps
<1>20. AloneAfter'
  <2> SUFFICES ASSUME NEW i \in alone', NEW j \in 1 .. i - 1
      PROVE  \E e \in PacketsOf(j)' : sent'[e].eoi /\ e =< taken' /\ \A a \in PacketsOf(i)' : e < a
    BY DEF AloneAfter
  <2>1. CASE i \in alone
    BY <2>1, <1>1, <1>4, <1>5, AloneKeeps
  <2>2. CASE i = b /\ i \notin alone
    <3>1. j \in 1 .. images
      BY <2>2, <1>3, <1>b
    <3>2. PICK e \in PacketsOf(j) : sent[e].eoi /\ 2 * e < got
      BY <2>2, <3>1, <1>12 DEF WasRead
    <3>3. e \in PacketsOf(j)' /\ sent'[e].eoi /\ e \in Places
      BY <3>1, <3>2, <1>10
    <3>4. e =< taken /\ e < new
      BY <3>2, <3>3, <1>1, <1>8 DEF HookInv, ReadIsTaken
    <3> QED
      BY <3>3, <3>4, <2>2, <1>5, <1>11
  <2> QED
    BY <2>1, <2>2, <1>12
<1>21. HookInv'
  <2>1. \A q \in Places' \ Places : 2 * q > got
    BY <1>1, <1>6, <1>9 DEF ImageTypeOK
  <2>2. \A i : IsFiniteSet(PacketsOf(i)')
    BY <1>6, <1>9, FiniteAfter
  <2>3. \A i : Ended(i) => PacketsOf(i)' = PacketsOf(i)
    BY <1>6, <1>7 DEF Ended
  <2>4. \A i : PacketsOf(i) \subseteq PacketsOf(i)'
    BY <1>6
  <2>5. \A i \in alone' : i \in alone \/ \A a \in PacketsOf(i)' : a > taken
    BY <1>1, <1>9, <1>11, <1>12 DEF ImageTypeOK
  <2> QED
    BY <2>1, <2>2, <2>3, <2>4, <2>5, <1>1, <1>3, <1>5, <1>6, HookKeeps
<1> QED
  BY <1>13, <1>14, <1>18, <1>19, <1>20, <1>21 DEF ImageInv, StreamInv

-----------------------------------------------------------------------------
(* The loop takes no more than is there, and all that has a byte behind it.*)
LEMMA TakesIs ==
  ASSUME NEW h \in Nat
  PROVE  /\ Takes(h) \in Nat /\ 2 * Takes(h) =< h
         /\ \A k \in Nat : 2 * k < h => k =< Takes(h)
BY DEF Takes

(* What the loop has collected at place u: nothing, or its session's       *)
(* packets from place l on, where it locked in this read or before.        *)
LEMMA CollectedIs ==
  ASSUME StreamInv, HookInv, NEW u \in Nat, taken =< u, u =< Len(sent)
  PROVE  \/ /\ Locked(u) = NoSession /\ Collected(u) = {} /\ target = NoSession
            /\ \A q \in taken + 1 .. u : ~sent[q].soi
         \/ \E l \in 1 .. u :
              /\ sent[l].soi /\ sent[l].sess = Locked(u)
              /\ Collected(u) = {p \in l .. u : sent[p].sess = Locked(u)}
              /\ \A n \in DOMAIN handed : ImageOf(n) < sent[l].img
              /\ \/ target # NoSession /\ LocksAt(l)
                 \/ /\ target = NoSession /\ l > taken
                    /\ \A q \in taken + 1 .. l - 1 : ~sent[q].soi
<1>1. ImageTypeOK /\ taken \in Nat /\ Len(sent) \in Nat
  BY DEF StreamInv, ImageTypeOK
<1>2. CASE target # NoSession
  <2>1. PICK l \in Places : LocksAt(l)
    BY <1>2 DEF HookInv, Collecting
  <2>2. \A p : Locked(p) = target
    BY <1>2 DEF Locked
  <2>3. /\ l \in 1 .. taken /\ l \in 1 .. u /\ sent[l].soi /\ sent[l].sess = target
        /\ jpeg = {p \in l .. taken : sent[p].sess = target}
        /\ \A n \in DOMAIN handed : ImageOf(n) < sent[l].img
    BY <2>1, <1>1 DEF LocksAt
  <2>4. Collected(u) = {p \in l .. u : sent[p].sess = target}
    <3>1. Collected(u) = {p \in l .. taken : sent[p].sess = target}
                           \cup {p \in taken + 1 .. u : sent[p].sess = target}
      BY <2>2, <2>3 DEF Collected, Collects
    <3>2. l .. u = (l .. taken) \cup (taken + 1 .. u)
      BY <2>3, <1>1
    <3> QED
      BY <3>1, <3>2
  <2> QED
    BY <2>1, <2>2, <2>3, <2>4, <1>2
<1>3. CASE target = NoSession
  <2> DEFINE begins(p) == {q \in taken + 1 .. p : sent[q].soi}
  <2>1. jpeg = {}
    BY <1>3 DEF HookInv, Collecting
  <2>2. \A p : Locked(p) = IF begins(p) = {} THEN NoSession ELSE sent[Least(begins(p))].sess
    BY <1>3 DEF Locked
  <2>3. \A p \in taken + 1 .. u : p \in Places /\ sent[p].sess \in Sessions
    <3>1. \A p \in taken + 1 .. u : p \in Places
      BY <1>1 DEF Places
    <3> QED
      BY <3>1, <1>1, PacketAt
  <2>4. CASE begins(u) = {}
    <3>1. \A q \in taken + 1 .. u : ~sent[q].soi
      BY <2>4
    <3>2. \A p \in taken + 1 .. u : begins(p) = {}
      BY <3>1, <1>1
    <3>3. \A p \in taken + 1 .. u : Locked(p) = NoSession
      BY <2>2, <3>2
    <3>4. \A p \in taken + 1 .. u : sent[p].sess # NoSession
      BY <2>3, StreamAssumption
    <3>5. Collected(u) = {}
      BY <2>1, <3>3, <3>4 DEF Collected, Collects
    <3> QED
      BY <2>2, <2>4, <3>1, <3>5, <1>3
  <2>5. CASE begins(u) # {}
    <3> DEFINE l == Least(begins(u))
    <3>1. begins(u) \subseteq Nat
      BY <1>1
    <3>2. l \in begins(u) /\ \A q \in begins(u) : l =< q
      BY <2>5, <3>1, LeastIs
    <3>3. l \in taken + 1 .. u /\ sent[l].soi /\ l \in 1 .. u /\ l \in Nat
      BY <3>2, <1>1
    <3> HIDE DEF l
    <3>4. \A q \in taken + 1 .. l - 1 : ~sent[q].soi
      BY <3>2, <3>3, <1>1
    <3>5. ASSUME NEW p \in l .. u PROVE begins(p) # {} /\ Least(begins(p)) = l
      <4>1. l \in begins(p) /\ begins(p) \subseteq Nat /\ begins(p) \subseteq begins(u)
        BY <3>3, <1>1
      <4>2. Least(begins(p)) \in begins(p) /\ Least(begins(p)) =< l
        BY <4>1, LeastIs
      <4>3. Least(begins(p)) \in Nat /\ l =< Least(begins(p))
        BY <4>1, <4>2, <3>2
      <4> QED
        BY <4>1, <4>2, <4>3, <3>3
    <3>6. \A p \in taken + 1 .. l - 1 : begins(p) = {}
      BY <3>4, <3>3, <1>1
    <3> HIDE DEF begins
    <3>7. /\ \A p \in l .. u : Locked(p) = sent[l].sess
          /\ \A p \in taken + 1 .. l - 1 : Locked(p) = NoSession
      BY <2>2, <3>5, <3>6
    <3>8. Locked(u) = sent[l].sess
      BY <3>7, <3>3
    <3>9. \A p \in taken + 1 .. l - 1 : sent[p].sess # NoSession
      BY <2>3, <3>3, <1>1, StreamAssumption
    <3>10. taken + 1 .. u = (taken + 1 .. l - 1) \cup (l .. u)
      BY <3>3, <1>1
    <3>11. Collected(u) = {p \in l .. u : sent[p].sess = Locked(u)}
      BY <2>1, <3>7, <3>8, <3>9, <3>10 DEF Collected, Collects
    <3>12. ASSUME NEW n \in DOMAIN handed PROVE ImageOf(n) < sent[l].img
      <4>1. Least(handed[n]) \in 1 .. taken /\ sent[Least(handed[n])].soi
        BY DEF HookInv, HandedWhole
      <4>2. Least(handed[n]) \in Places /\ l \in Places /\ Least(handed[n]) < l
        BY <4>1, <3>3, <1>1 DEF Places
      <4> QED
        BY <4>1, <4>2, <3>3 DEF StreamInv, ImagesBegin, ImageOf
    <3> QED
      BY <3>3, <3>4, <3>8, <3>11, <3>12, <1>1, <1>3
  <2> QED
    BY <2>4, <2>5
<1> QED
  BY <1>2, <1>3

(* The image in a collection that begins with an SOI ends with its first   *)
(* EOI.                                                                    *)
LEMMA ImageIs ==
  ASSUME NEW m \in SUBSET Nat, NEW l \in m, sent[l].soi, \A p \in m : l =< p
  PROVE  \/ Image(m) = {} /\ \A p \in m : ~sent[p].eoi
         \/ \E e \in m :
              /\ sent[e].eoi /\ \A p \in m : p < e => ~sent[p].eoi
              /\ Image(m) = {p \in m : p =< e} /\ Image(m) # {} /\ Least(Image(m)) = l
<1> DEFINE begins == {p \in m : sent[p].soi}
           ends   == {p \in m : l =< p /\ sent[p].eoi}
<1>1. Least(begins) = l
  <2>1. l \in begins /\ begins \subseteq Nat /\ \A p \in begins : l =< p
    OBVIOUS
  <2>2. Least(begins) \in begins /\ Least(begins) =< l
    BY <2>1, LeastIs
  <2> QED
    BY <2>1, <2>2
<1>2. Image(m) = IF (\E p \in m : sent[p].soi) /\ ends # {}
                 THEN {p \in m : l =< p /\ p =< Least(ends)} ELSE {}
  BY <1>1 DEF Image
<1>3. CASE ends = {}
  BY <1>2, <1>3
<1>4. CASE ends # {}
  <2> DEFINE e == Least(ends)
  <2>1. e \in ends /\ \A p \in ends : e =< p
    BY <1>4, LeastIs, ends \subseteq Nat
  <2>2. Image(m) = {p \in m : p =< e}
    BY <1>2, <1>4
  <2> HIDE DEF e
  <2>3. e \in m /\ e \in Nat /\ sent[e].eoi /\ \A p \in m : p < e => ~sent[p].eoi
    <3>1. e \in m /\ sent[e].eoi /\ e \in Nat
      BY <2>1
    <3>2. ASSUME NEW p \in m, p < e, sent[p].eoi PROVE FALSE
      <4>1. p \in ends /\ p \in Nat
        BY <3>2
      <4> QED
        BY <4>1, <3>1, <3>2, <2>1
    <3> QED
      BY <3>1, <3>2
  <2>4. l \in Image(m) /\ Image(m) \subseteq Nat /\ \A p \in Image(m) : l =< p
    BY <2>2, <2>3
  <2>5. Least(Image(m)) \in Image(m) /\ Least(Image(m)) =< l
    BY <2>4, LeastIs
  <2>6. Least(Image(m)) = l
    BY <2>4, <2>5
  <2> QED
    BY <2>2, <2>3, <2>4, <2>6
<1> QED
  BY <1>3, <1>4

(* From the first packet of an image on, its session's packets up to the   *)
(* first EOI are the image.                                                *)
SessionFrom(l, u) == {p \in l .. u : sent[p].sess = sent[l].sess}

LEMMA OneImage ==
  ASSUME StreamInv, NEW l \in Places, sent[l].soi, NEW u \in Places, l =< u,
         NEW i, i = sent[l].img, i \notin broken
  PROVE  /\ (\A p \in SessionFrom(l, u) : ~sent[p].eoi) => SessionFrom(l, u) \subseteq PacketsOf(i)
         /\ \A e \in SessionFrom(l, u) :
              sent[e].eoi /\ (\A p \in SessionFrom(l, u) : p < e => ~sent[p].eoi)
              => {p \in SessionFrom(l, u) : p =< e} = PacketsOf(i) /\ Ended(i)
<1> DEFINE m == SessionFrom(l, u)
<1>1. i \in 1 .. images /\ l \in PacketsOf(i) /\ ImageTypeOK
  BY DEF StreamInv, ImageTypeOK, ImagesBegin, PacketsOf
<1>2. Starts(i, l)
  BY <1>1 DEF StreamInv, ImagesBegin
<1>3. \A q \in PacketsOf(i) : q \in Nat /\ l =< q /\ sent[q].sess = sent[l].sess
  BY <1>2 DEF Starts, PacketsOf, Places
<1>4. l \in Nat /\ u \in Nat /\ m \subseteq Places /\ l \in m
  BY DEF Places, SessionFrom
<1>5. ASSUME NEW p \in m, \A r \in m : r < p => ~sent[r].eoi
      PROVE  p \in PacketsOf(i)
  <2>1. CASE p = l
    BY <2>1, <1>1
  <2>2. CASE p # l /\ sent[p].img # i
    <3>1. l < p /\ sent[l].sess = sent[p].sess /\ p =< u
      BY <2>2, <1>4 DEF SessionFrom
    <3>2. PICK r \in PacketsOf(i) : sent[r].eoi /\ r < p
      BY <2>2, <3>1, <1>1, <1>4 DEF StreamInv, Unmixed
    <3>3. r \in m
      BY <3>1, <3>2, <1>3, <1>4 DEF SessionFrom
    <3> QED
      BY <3>2, <3>3, <1>5
  <2> QED
    BY <2>1, <2>2, <1>4 DEF PacketsOf
<1>6. ASSUME NEW e \in m, sent[e].eoi, \A p \in m : p < e => ~sent[p].eoi
      PROVE  {p \in m : p =< e} = PacketsOf(i) /\ Ended(i)
  <2>1. e \in PacketsOf(i)
    BY <1>5, <1>6
  <2>2. \A p \in m : p =< e => p \in PacketsOf(i)
    BY <1>4, <1>5, <1>6 DEF Places
  <2>3. \A q \in PacketsOf(i) : q =< e
    BY <2>1, <1>1, <1>6 DEF StreamInv, ImagesEnd
  <2>4. \A q \in PacketsOf(i) : q \in m
    BY <2>3, <1>3, <1>4 DEF SessionFrom
  <2> QED
    BY <2>1, <2>2, <2>3, <2>4, <1>6 DEF Ended
<1>7. (\A p \in m : ~sent[p].eoi) => m \subseteq PacketsOf(i)
  BY <1>5
<1> QED
  BY <1>6, <1>7

LEMMA ReadStreamKeeps ==
  ASSUME ImageInv, ReadStream
  PROVE  ImageInv'
<1>1. StreamInv /\ ImageTypeOK /\ HookInv
  BY DEF ImageInv, StreamInv
<1>2. PICK n \in got + 1 .. 2 * Len(sent) :
    LET upto   == taken + Takes(n - 2 * taken)
        places == Collected(upto)
        done   == Image(places)
    IN  /\ got' = n /\ taken' = upto
        /\ target' = Unlocked(done, places, Locked(upto))
        /\ jpeg' = IF Ends(done, places) THEN {} ELSE places
        /\ handed' = IF done = {} THEN handed ELSE Append(handed, done)
        /\ UNCHANGED <<sending, images, broken, sent, alone>>
  BY Zenon DEF ReadStream
<1> DEFINE u == taken + Takes(n - 2 * taken)  m == Collected(u)  done == Image(m)
           locked == Locked(u)
<1>3. /\ got' = n /\ taken' = u
      /\ target' = IF done # {} \/ Cardinality(m) > MaxJpeg THEN NoSession ELSE locked
      /\ jpeg' = IF done # {} \/ Cardinality(m) > MaxJpeg THEN {} ELSE m
      /\ handed' = IF done = {} THEN handed ELSE Append(handed, done)
      /\ UNCHANGED <<sending, images, broken, sent, alone>>
  BY <1>2 DEF Ends, Unlocked
<1>4. /\ u \in Nat /\ taken \in Nat /\ taken =< u /\ 2 * u =< n /\ n =< 2 * Len(sent)
      /\ u =< Len(sent) /\ Len(sent) \in Nat /\ n \in Nat
      /\ \A e \in Nat : 2 * e < n => e =< u
  <2>1. /\ taken \in Nat /\ got \in Nat /\ Len(sent) \in Nat /\ 2 * taken =< got
        /\ n \in Nat /\ n > got /\ n =< 2 * Len(sent)
    BY <1>1 DEF ImageTypeOK
  <2> DEFINE h == n - 2 * taken
  <2>2. h \in Nat
    BY <2>1
  <2>3. /\ Takes(h) \in Nat /\ 2 * Takes(h) =< h
        /\ \A k \in Nat : 2 * k < h => k =< Takes(h)
    BY <2>2, TakesIs
  <2>4. ASSUME NEW e \in Nat, 2 * e < n PROVE e =< u
    <3>1. CASE e =< taken
      BY <3>1, <2>1, <2>3
    <3>2. CASE e > taken
      <4>1. e - taken \in Nat /\ 2 * (e - taken) < h
        BY <3>2, <2>1, <2>4
      <4>2. e - taken =< Takes(h)
        BY <4>1, <2>3
      <4> QED
        BY <4>2, <2>1, <2>3
    <3> QED
      BY <3>1, <3>2, <2>1
  <2> QED
    BY <2>1, <2>3, <2>4
<1>5. Places' = Places /\ \A i : PacketsOf(i)' = PacketsOf(i)
  BY <1>3 DEF Places, PacketsOf
<1>6. \/ locked = NoSession /\ m = {} /\ target = NoSession
         /\ \A q \in taken + 1 .. u : ~sent[q].soi
      \/ \E l \in 1 .. u :
           /\ sent[l].soi /\ sent[l].sess = locked
           /\ m = {p \in l .. u : sent[p].sess = locked}
           /\ \A k \in DOMAIN handed : ImageOf(k) < sent[l].img
           /\ \/ target # NoSession /\ LocksAt(l)
              \/ /\ target = NoSession /\ l > taken
                 /\ \A q \in taken + 1 .. l - 1 : ~sent[q].soi
  BY <1>1, <1>4, CollectedIs
<1> HIDE DEF u, m, done, locked
<1>7. m \subseteq 1 .. u /\ m \subseteq Nat /\ locked \in Sessions \cup {NoSession}
  <2>1. CASE locked = NoSession /\ m = {}
    BY <2>1
  <2>2. CASE \E l \in 1 .. u : sent[l].sess = locked /\ m = {p \in l .. u : sent[p].sess = locked}
    BY <2>2, <1>1, <1>4, PacketAt DEF Places
  <2> QED
    BY <2>1, <2>2, <1>6
<1>8. done \subseteq m
  BY DEF done, Image
<1>9. ImageTypeOK'
  <2>1. handed' \in Seq(SUBSET Nat)
    <3>1. handed \in Seq(SUBSET Nat) /\ done \in SUBSET Nat
      BY <1>1, <1>7, <1>8 DEF ImageTypeOK
    <3>2. CASE done = {}
      BY <3>1, <3>2, <1>3
    <3>3. CASE done # {}
      <4>1. handed' = Append(handed, done)
        BY <3>3, <1>3
      <4> QED
        BY <4>1, <3>1
    <3> QED
      BY <3>2, <3>3
  <2>2. jpeg' \subseteq 1 .. u /\ target' \in Sessions \cup {NoSession}
    BY <1>3, <1>7
  <2> QED
    BY <2>1, <2>2, <1>1, <1>3, <1>4 DEF ImageTypeOK
<1>10. StreamInv'
  <2>1. ImagesBegin'
    BY <1>1, <1>3, <1>5 DEF StreamInv, ImagesBegin, Starts
  <2>2. \A i : Ended(i)' <=> Ended(i)
    BY <1>3, <1>5 DEF Ended
  <2>3. ImagesEnd'
    BY <2>2, <1>1, <1>3, <1>5 DEF StreamInv, ImagesEnd
  <2>4. Unmixed'
    BY <1>1, <1>3, <1>5 DEF StreamInv, Unmixed
  <2>5. AloneAfter'
    <3> SUFFICES ASSUME NEW i \in alone, NEW j \in 1 .. i - 1
        PROVE  \E e \in PacketsOf(j) : sent[e].eoi /\ e =< u /\ \A a \in PacketsOf(i) : e < a
      BY <1>3, <1>5 DEF AloneAfter
    <3>1. PICK e \in PacketsOf(j) : sent[e].eoi /\ e =< taken /\ \A a \in PacketsOf(i) : e < a
      BY <1>1 DEF StreamInv, AloneAfter
    <3>2. e =< u
      BY <3>1, <1>4 DEF PacketsOf, Places
    <3> QED
      BY <3>1, <3>2
  <2> QED
    BY <2>1, <2>3, <2>4, <2>5, <1>9 DEF StreamInv
<1>11. ReadIsTaken'
  BY <1>3, <1>4, <1>5 DEF ReadIsTaken, Places
(* What was handed over before stays; done is the last, if it is anything. *)
<1>12. /\ DOMAIN handed \subseteq DOMAIN handed'
       /\ \A k \in DOMAIN handed : handed'[k] = handed[k] /\ ImageOf(k)' = ImageOf(k)
       /\ Len(handed) \in Nat /\ DOMAIN handed = 1 .. Len(handed)
  <2>1. handed \in Seq(SUBSET Nat)
    BY <1>1 DEF ImageTypeOK
  <2>2. \A k \in DOMAIN handed : handed'[k] = handed[k]
    BY <2>1, <1>3
  <2> QED
    BY <2>1, <2>2, <1>3 DEF ImageOf
<1>13. ASSUME done = {} PROVE DOMAIN handed' = DOMAIN handed
  BY <1>13, <1>3
<1>14. ASSUME done # {}
       PROVE  /\ DOMAIN handed' = DOMAIN handed \cup {Len(handed) + 1}
              /\ handed'[Len(handed) + 1] = done
              /\ target' = NoSession /\ jpeg' = {}
  <2>1. handed \in Seq(SUBSET Nat) /\ handed' = Append(handed, done)
    BY <1>14, <1>1, <1>3 DEF ImageTypeOK
  <2> QED
    BY <2>1, <1>3, <1>14
(* The two outcomes of the loop, and with a session locked the two of the  *)
(* search for an EOI.                                                      *)
<1>15. ASSUME m = {} PROVE done = {}
  BY <1>15, <1>8
<1>16. ASSUME NEW l \in 1 .. u, sent[l].soi, sent[l].sess = locked,
              m = {p \in l .. u : sent[p].sess = locked}
       PROVE  /\ l \in Places /\ l \in Nat /\ l \in m /\ locked # NoSession
              /\ \/ done = {} /\ \A p \in m : ~sent[p].eoi
                 \/ \E e \in m :
                      /\ sent[e].eoi /\ \A p \in m : p < e => ~sent[p].eoi
                      /\ done = {p \in m : p =< e} /\ done # {} /\ Least(done) = l
  <2>1. l \in Places /\ l \in Nat /\ l \in m /\ \A p \in m : l =< p
    BY <1>4, <1>16 DEF Places
  <2>2. locked # NoSession
    BY <2>1, <1>1, <1>16, PacketAt, StreamAssumption
  <2> QED
    BY <2>1, <2>2, <1>7, <1>16, ImageIs DEF done
<1>17. Collecting'
  <2>1. CASE target' = NoSession
    <3>1. CASE done # {} \/ Cardinality(m) > MaxJpeg
      BY <3>1, <2>1, <1>3 DEF Collecting
    <3>2. CASE ~(done # {} \/ Cardinality(m) > MaxJpeg)
      <4>1. locked = NoSession /\ jpeg' = m
        BY <3>2, <2>1, <1>3
      <4>2. m = {}
        BY <4>1, <1>6, <1>16
      <4> QED
        BY <4>1, <4>2, <2>1 DEF Collecting
    <3> QED
      BY <3>1, <3>2
  <2>2. CASE target' # NoSession
    <3>1. done = {} /\ target' = locked /\ jpeg' = m /\ locked # NoSession
      BY <2>2, <1>3
    <3>2. PICK l \in 1 .. u :
            /\ sent[l].soi /\ sent[l].sess = locked
            /\ m = {p \in l .. u : sent[p].sess = locked}
            /\ \A k \in DOMAIN handed : ImageOf(k) < sent[l].img
      BY <3>1, <1>6
    <3>3. l \in Places /\ \A p \in m : ~sent[p].eoi
      BY <3>1, <3>2, <1>16
    <3>4. DOMAIN handed' = DOMAIN handed
      BY <3>1, <1>13
    <3>5. LocksAt(l)'
      BY <3>1, <3>2, <3>3, <3>4, <1>3, <1>12 DEF LocksAt
    <3> QED
      BY <3>3, <3>5, <2>2, <1>5 DEF Collecting
  <2> QED
    BY <2>1, <2>2
<1>18. ASSUME done # {}
       PROVE  \E l \in 1 .. u :
         /\ sent[l].soi /\ Least(done) = l /\ l \in Places
         /\ \A k \in DOMAIN handed : ImageOf(k) < sent[l].img
         /\ sent[l].img \in broken \/ (done = PacketsOf(sent[l].img) /\ Ended(sent[l].img))
  <2>1. PICK l \in 1 .. u :
            /\ sent[l].soi /\ sent[l].sess = locked
            /\ m = {p \in l .. u : sent[p].sess = locked}
            /\ \A k \in DOMAIN handed : ImageOf(k) < sent[l].img
    BY <1>6, <1>15, <1>18
  <2>2. l \in Places /\ Least(done) = l
    BY <2>1, <1>16, <1>18
  <2>3. u \in Places /\ l =< u
    BY <2>1, <1>4 DEF Places
  <2>4. PICK e \in m : /\ sent[e].eoi /\ \A p \in m : p < e => ~sent[p].eoi
                       /\ done = {p \in m : p =< e}
    BY <2>1, <1>16, <1>18
  <2>5. m = SessionFrom(l, u)
    BY <2>1 DEF SessionFrom
  <2>6. CASE sent[l].img \notin broken
    <3>1. PICK i : i = sent[l].img
      OBVIOUS
    <3>2. \A k \in m : sent[k].eoi /\ (\A p \in m : p < k => ~sent[p].eoi)
              => {p \in m : p =< k} = PacketsOf(i) /\ Ended(i)
      <4>1. l \in Places /\ sent[l].soi /\ u \in Places /\ l =< u /\ i \notin broken
        BY <2>1, <2>2, <2>3, <2>6, <3>1
      <4> QED
        BY <4>1, <2>5, <3>1, <1>1, OneImage
    <3>3. done = PacketsOf(i) /\ Ended(i)
      BY <2>4, <3>2
    <3> QED
      BY <2>1, <2>2, <3>1, <3>3
  <2> QED
    BY <2>1, <2>2, <2>6
<1>19. HandedWhole'
  <2>1. \A i : Ended(i)' <=> Ended(i)
    BY <1>3, <1>5 DEF Ended
  <2> SUFFICES ASSUME NEW k \in DOMAIN handed'
      PROVE  /\ Least(handed'[k]) \in 1 .. u /\ sent[Least(handed'[k])].soi
             /\ \/ ImageOf(k)' \in broken
                \/ (handed[k] = PacketsOf(ImageOf(k)) /\ Ended(ImageOf(k)))'
    BY <1>3 DEF HandedWhole
  <2>2. CASE k \in DOMAIN handed
    <3>1. /\ Least(handed[k]) \in 1 .. taken /\ sent[Least(handed[k])].soi
          /\ \/ ImageOf(k) \in broken
             \/ handed[k] = PacketsOf(ImageOf(k)) /\ Ended(ImageOf(k))
      BY <2>2, <1>1 DEF HookInv, HandedWhole
    <3>2. 1 .. taken \subseteq 1 .. u
      BY <1>4
    <3> QED
      BY <3>1, <3>2, <2>1, <2>2, <1>5, <1>12
  <2>3. CASE k \notin DOMAIN handed
    <3>1. done # {} /\ handed'[k] = done
      BY <2>3, <1>13, <1>14
    <3>2. PICK l \in 1 .. u :
         /\ sent[l].soi /\ Least(done) = l
         /\ sent[l].img \in broken \/ (done = PacketsOf(sent[l].img) /\ Ended(sent[l].img))
      BY <3>1, <1>18
    <3>3. ImageOf(k)' = sent[l].img
      BY <3>1, <3>2, <1>3 DEF ImageOf
    <3> QED
      BY <3>1, <3>2, <3>3, <2>1, <1>5
  <2> QED
    BY <2>2, <2>3
<1>20. HandedInOrder'
  <2> SUFFICES ASSUME NEW j \in DOMAIN handed', NEW k \in DOMAIN handed', j < k
               PROVE  ImageOf(j)' < ImageOf(k)'
    BY DEF HandedInOrder
  <2>1. CASE k \in DOMAIN handed
    <3>1. j \in DOMAIN handed
      BY <2>1, <1>12, <1>13, <1>14
    <3> QED
      BY <2>1, <3>1, <1>1, <1>12 DEF HookInv, HandedInOrder
  <2>2. CASE k \notin DOMAIN handed
    <3>1. done # {} /\ handed'[k] = done /\ j \in DOMAIN handed
      BY <2>2, <1>12, <1>13, <1>14
    <3>2. PICK l \in 1 .. u : Least(done) = l /\ ImageOf(j) < sent[l].img
      BY <3>1, <1>18
    <3>3. ImageOf(k)' = sent[l].img
      BY <3>1, <3>2, <1>3 DEF ImageOf
    <3> QED
      BY <3>1, <3>2, <3>3, <1>12
  <2> QED
    BY <2>1, <2>2
<1>21. AloneIsKept'
  <2> SUFFICES ASSUME NEW i \in alone, NEW a \in Places, Starts(i, a), a =< u, i \notin broken,
                      ~ \E k \in DOMAIN handed' : ImageOf(k)' = i,
                      ~ (Cardinality(PacketsOf(i)) > MaxJpeg)
               PROVE  target' # NoSession /\ LocksAt(a)'
    <3>1. \A i, a : Starts(i, a)' <=> Starts(i, a)
      BY <1>3, <1>5 DEF Starts
    <3> QED
      BY <3>1, <1>3, <1>5 DEF AloneIsKept
  <2>1. /\ a \in PacketsOf(i) /\ sent[a].soi /\ sent[a].img = i /\ a \in Nat
        /\ i \in 1 .. images /\ images \in Nat
    BY <1>1 DEF Starts, PacketsOf, Places, ImageTypeOK
  <2>2. ~ \E k \in DOMAIN handed : ImageOf(k) = i
    BY <1>12
(* Those that began before have their end among what was taken.            *)
  <2>3. ASSUME NEW l \in Places, sent[l].soi, l < a
        PROVE  \E e \in PacketsOf(sent[l].img) :
                 /\ sent[e].eoi /\ e =< taken /\ l =< e /\ sent[e].sess = sent[l].sess
    <3>1. sent[l].img < i /\ sent[l].img \in 1 .. images /\ l \in PacketsOf(sent[l].img)
      BY <2>1, <2>3, <1>1 DEF StreamInv, ImagesBegin, PacketsOf
    <3>2. sent[l].img \in 1 .. i - 1
      BY <3>1, <2>1
    <3>3. PICK e \in PacketsOf(sent[l].img) : sent[e].eoi /\ e =< taken
      BY <3>2, <1>1 DEF StreamInv, AloneAfter
    <3>4. Starts(sent[l].img, l)
      BY <2>3, <3>1, <1>1 DEF StreamInv, ImagesBegin
    <3> QED
      BY <3>3, <3>4 DEF Starts
  <2>4. ASSUME NEW l \in 1 .. u, sent[l].soi, target # NoSession, LocksAt(l), l < a
        PROVE  FALSE
    <3>1. l \in Places
      BY <1>4 DEF Places
    <3>2. PICK e \in PacketsOf(sent[l].img) :
            /\ sent[e].eoi /\ e =< taken /\ l =< e /\ sent[e].sess = sent[l].sess
      BY <2>3, <2>4, <3>1
    <3>3. e \in jpeg
      BY <3>2, <2>4, <1>4 DEF LocksAt, PacketsOf, Places
    <3> QED
      BY <3>2, <3>3, <2>4 DEF LocksAt
(* So its own SOI is where the session was locked.                         *)
  <2>5. /\ sent[a].sess = locked /\ m = {p \in a .. u : sent[p].sess = locked}
        /\ \A k \in DOMAIN handed : ImageOf(k) < sent[a].img
    <3>1. a =< taken => target # NoSession /\ LocksAt(a)
      BY <2>2, <1>1 DEF HookInv, AloneIsKept
    <3>2. a > taken => a \in taken + 1 .. u
      BY <2>1, <1>4
    <3>3. a =< taken \/ a > taken
      BY <2>1, <1>4
    <3>4. CASE /\ locked = NoSession /\ target = NoSession
               /\ \A q \in taken + 1 .. u : ~sent[q].soi
      BY <3>1, <3>2, <3>3, <3>4, <2>1
    <3>5. ASSUME NEW l \in 1 .. u, sent[l].soi, target # NoSession, LocksAt(l)
          PROVE  l = a
      <4>1. ~(l < a)
        BY <3>5, <2>4
      <4>2. l \in Nat /\ l =< taken
        BY <3>5, <1>4 DEF LocksAt
      <4>3. a =< taken /\ LocksAt(a)
        BY <4>1, <4>2, <3>1, <2>1, <1>4
      <4>4. a \in jpeg
        BY <4>3, <2>1, <1>4 DEF LocksAt
      <4>5. l =< a
        <5>1. a \in {p \in l .. taken : sent[p].sess = target}
          BY <4>4, <3>5 DEF LocksAt
        <5> QED
          BY <5>1, <4>2, <2>1
      <4> QED
        BY <4>1, <4>2, <4>5, <2>1
    <3>6. ASSUME NEW l \in 1 .. u, sent[l].soi, target = NoSession, l > taken,
                 \A q \in taken + 1 .. l - 1 : ~sent[q].soi
          PROVE  l = a
      <4>1. a > taken
        BY <3>1, <3>3, <3>6
      <4>2. ~(a < l)
        <5> SUFFICES ASSUME a < l PROVE FALSE
          OBVIOUS
        <5>1. a \in taken + 1 .. l - 1
          BY <4>1, <2>1, <1>4
        <5> QED
          BY <5>1, <3>6, <2>1
      <4>3. ~(l < a)
        <5> SUFFICES ASSUME l < a PROVE FALSE
          OBVIOUS
        <5>1. l \in Places
          BY <1>4 DEF Places
        <5>2. PICK e \in PacketsOf(sent[l].img) : e =< taken /\ l =< e
          BY <5>1, <3>6, <2>3
        <5>3. e \in Nat
          BY DEF PacketsOf, Places
        <5> QED
          BY <5>2, <5>3, <3>6, <1>4
      <4> QED
        BY <4>2, <4>3, <2>1
    <3> QED
      BY <3>4, <3>5, <3>6, <1>6
  <2>6. a \in 1 .. u
    BY <2>1, <1>4 DEF Places
  <2>7. done = {}
    <3> SUFFICES ASSUME done # {} PROVE FALSE
      OBVIOUS
    <3>1. PICK k \in DOMAIN handed' : handed'[k] = done
      BY <1>14
    <3>2. Least(done) = a
      BY <2>1, <2>5, <2>6, <1>16
    <3>3. ImageOf(k)' = i
      BY <3>1, <3>2, <2>1, <1>3 DEF ImageOf
    <3> QED
      BY <3>3
  <2>8. a \in m /\ locked # NoSession /\ \A p \in m : ~sent[p].eoi
    BY <2>1, <2>5, <2>6, <2>7, <1>16
  <2>9. ~(Cardinality(m) > MaxJpeg)
    <3>1. u \in Places /\ m = SessionFrom(a, u)
      BY <2>5, <2>6, <1>4 DEF Places, SessionFrom
    <3>2. m \subseteq PacketsOf(i)
      BY <3>1, <2>1, <2>6, <2>8, <1>1, OneImage
    <3>3. IsFiniteSet(PacketsOf(i))
      <4>1. PacketsOf(i) \subseteq 1 .. Len(sent) /\ IsFiniteSet(1 .. Len(sent))
        BY <1>4, FS_Interval DEF PacketsOf, Places
      <4> QED
        BY <4>1, FS_Subset
    <3>4. Cardinality(m) =< Cardinality(PacketsOf(i)) /\ Cardinality(m) \in Nat
          /\ Cardinality(PacketsOf(i)) \in Nat
      BY <3>2, <3>3, FS_Subset, FS_CardinalityType
    <3> QED
      BY <3>4, StreamAssumption
  <2>10. target' = locked /\ jpeg' = m
    BY <2>7, <2>9, <1>3
  <2>11. DOMAIN handed' = DOMAIN handed
    BY <2>7, <1>13
  <2>12. LocksAt(a)'
    BY <2>1, <2>5, <2>6, <2>8, <2>10, <2>11, <1>3, <1>12 DEF LocksAt
  <2> QED
    BY <2>8, <2>10, <2>12
<1> QED
  BY <1>10, <1>11, <1>17, <1>19, <1>20, <1>21 DEF ImageInv, HookInv

-----------------------------------------------------------------------------
LEMMA ImagesSound == ImageSpec => []ImageInv
<1>1. ImageInit => ImageInv
  BY ImagesStart
<1>2. ImageInv /\ [ImageNext]_imageVars => ImageInv'
  <2> SUFFICES ASSUME ImageInv, [ImageNext]_imageVars PROVE ImageInv'
    OBVIOUS
  <2>1. CASE UNCHANGED imageVars
    <3>1. UNCHANGED <<sending, images, broken, sent, got, taken, target, jpeg, handed, alone>>
      BY <2>1 DEF imageVars
    <3>2. ImageTypeOK' /\ ImagesBegin' /\ ImagesEnd'
      BY <3>1 DEF ImageInv, StreamInv, ImageTypeOK, ImagesBegin, ImagesEnd, Starts, Ended,
                  PacketsOf, Places
    <3>3. Unmixed' /\ AloneAfter'
      BY <3>1 DEF ImageInv, StreamInv, Unmixed, AloneAfter, PacketsOf, Places
    <3>4. ReadIsTaken' /\ Collecting' /\ HandedWhole' /\ HandedInOrder'
      BY <3>1 DEF ImageInv, HookInv, ReadIsTaken, Collecting, LocksAt, HandedWhole,
                  HandedInOrder, ImageOf, Ended, PacketsOf, Places
    <3>5. AloneIsKept'
      BY <3>1 DEF ImageInv, HookInv, AloneIsKept, LocksAt, ImageOf, Starts, PacketsOf, Places
    <3> QED
      BY <3>2, <3>3, <3>4, <3>5 DEF ImageInv, StreamInv, HookInv
  <2>2. ASSUME NEW s \in Sessions, Begin(s) \/ Continue(s) \/ BreakOff(s) \/ Other(s)
        PROVE  ImageInv'
    BY <2>2, BeginKeeps, ContinueKeeps, BreakOffKeeps, OtherKeeps
  <2>3. CASE ReadStream
    BY <2>3, ReadStreamKeeps
  <2> QED
    BY <2>1, <2>2, <2>3 DEF ImageNext
<1> QED
  BY <1>1, <1>2, PTL DEF ImageSpec

(***************************************************************************)
(* Whatever the sessions send and wherever the reads end, what the worker  *)
(* is given is exactly the packets of one image, unless the phone broke    *)
(* that image off (coverart_hook.c:924-955, 974-993).                      *)
(***************************************************************************)
THEOREM ImagesAreWhole == ImageSpec => []WholeOrBroken
<1>1. ImageInv => WholeOrBroken
  BY DEF ImageInv, HookInv, HandedWhole, WholeOrBroken
<1> QED
  BY <1>1, ImagesSound, PTL

(***************************************************************************)
(* Images are handed over in the order in which they began, and one that   *)
(* began when those before it had been read and is within the limit is     *)
(* with the worker once a byte behind it was read (coverart_hook.c:        *)
(* 896-955, 990-992).                                                      *)
(***************************************************************************)
THEOREM NoImageIsMissed == ImageSpec => []ImagesArrive
<1>1. ImageInv => ImagesArrive
  <2> SUFFICES ASSUME ImageInv PROVE NoneMissed
    BY DEF ImageInv, HookInv, ImagesArrive
  <2> SUFFICES ASSUME NEW i \in alone, WasRead(i), Cardinality(PacketsOf(i)) =< MaxJpeg
               PROVE  \E n \in DOMAIN handed : ImageOf(n) = i
    BY DEF NoneMissed
  <2>1. StreamInv /\ ImageTypeOK /\ HookInv
    BY DEF ImageInv, StreamInv
  <2>2. i \in 1 .. images
    BY <2>1 DEF ImageTypeOK
  <2>3. PICK e \in PacketsOf(i) : sent[e].eoi /\ 2 * e < got
    BY DEF WasRead
  <2>4. e \in Places /\ e \in Nat /\ e =< taken /\ i \notin broken
    BY <2>1, <2>2, <2>3 DEF HookInv, ReadIsTaken, StreamInv, ImagesEnd, PacketsOf, Places
  <2>5. PICK a \in PacketsOf(i) : Starts(i, a)
    BY <2>1, <2>2 DEF StreamInv, ImagesBegin
  <2>6. a \in Places /\ a \in Nat /\ a =< e /\ a =< taken /\ sent[e].sess = sent[a].sess
    BY <2>1, <2>3, <2>4, <2>5 DEF Starts, PacketsOf, Places, ImageTypeOK
  <2>7. ~LocksAt(a)
    BY <2>1, <2>3, <2>4, <2>6 DEF LocksAt, ImageTypeOK
  <2>8. ~(Cardinality(PacketsOf(i)) > MaxJpeg)
    <3>1. PacketsOf(i) \subseteq 1 .. Len(sent) /\ IsFiniteSet(1 .. Len(sent))
      BY <2>1, FS_Interval DEF PacketsOf, Places, ImageTypeOK
    <3>2. Cardinality(PacketsOf(i)) \in Nat
      BY <3>1, FS_Subset, FS_CardinalityType
    <3> QED
      BY <3>2, StreamAssumption
  <2> QED
    BY <2>1, <2>4, <2>5, <2>6, <2>7, <2>8 DEF HookInv, AloneIsKept
<1> QED
  BY <1>1, ImagesSound, PTL
=============================================================================
