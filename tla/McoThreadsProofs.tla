--------------------------- MODULE McoThreadsProofs ---------------------------
(***************************************************************************)
(* Theorems about McoThreads for any number of threads and coroutines.     *)
(***************************************************************************)
EXTENDS McoThreads, TLAPS

(* Control.  A thread executes what is on top of its call stack; the stacks  *)
(* hold the thread's own routine and, above it, started coroutines, each in  *)
(* one place only.                                                           *)
Tops ==
  \A t \in Threads :
    IF callStack[t] = <<>> THEN cpu[t] = t
    ELSE /\ t \in start
         /\ callStack[t][1] = t /\ cpu[t] = callStack[t][Len(callStack[t])]

Stacked ==
  \A t \in Threads : \A i \in 2 .. Len(callStack[t]) :
    callStack[t][i] \in (live \cap start) \ finished

Apart ==
  \A t, u \in Threads :
    \A i \in 1 .. Len(callStack[t]), j \in 1 .. Len(callStack[u]) :
      callStack[t][i] = callStack[u][j] => t = u /\ i = j

(* A routine that was resumed on several threads, one after the other, gives *)
(* control back to the routine below it on the thread that executes it.      *)
YieldStaysOnThread ==
  \A t \in Threads : \A i \in 2 .. Len(callStack[t]) :
    sink[callStack[t][i]] = callStack[t][i - 1]

NoSinkOfThread == \A t \in Threads : sink[t] = Null

Control ==
  /\ Tops /\ Stacked /\ Apart /\ NoSinkOfThread /\ YieldStaysOnThread
  /\ fate = "ok"
  /\ running = {cpu[t] : t \in {u \in Threads : callStack[u] # <<>>}}
  /\ start \cap finished = {}

(* Frames.  The started routines without a private stack share the area of   *)
(* the thread they belong to: one of them, its manager's occupant, has its   *)
(* frames there and the others have saved them.                              *)
Sharing == start \ (Threads \cup use_private)

Occupants ==
  /\ stack_store \subseteq Sharing
  /\ \A c \in Sharing : home[c] \in Threads
  /\ \A t \in Threads : commonOccupy[t] # Null =>
       /\ commonOccupy[t] \in (live \cap (start \cup finished)) \ use_private
       /\ home[commonOccupy[t]] \in Threads

Areas ==
  \A c \in Sharing :
    IF c \in stack_store THEN frames[c] = c
    ELSE area[home[c]] = c /\ commonOccupy[home[c]] = c

(* A manager that remembers a visitor has no routines of its own.            *)
Visits ==
  \A t \in Threads : commonOccupy[t] # Null =>
    IF home[commonOccupy[t]] = t THEN commonOccupy[t] \notin stack_store
    ELSE \A c \in Sharing : home[c] # t

(* An area is used by one thread at a time, and not given up during a visit. *)
Nested(t) == {callStack[t][i] : i \in 2 .. Len(callStack[t])}

UsedBy(u, h) == \E d \in Nested(u) : ~IsPrivate(d) /\ home[d] = h

Guests ==
  \A t \in Threads, c \in Mcos : c \in Nested(t) /\ ~IsPrivate(c) =>
    /\ \A u \in Threads \ {t} : ~UsedBy(u, home[c])
    /\ home[c] # t => commonOccupy[t] = c /\ commonOccupy[home[c]] = c

TopHasFrames == \A t \in Threads : cpu[t] \notin stack_store

Frames == Occupants /\ Areas /\ Visits /\ Guests /\ TopHasFrames

TInv == McoThreadsTypeOK /\ Control /\ Frames
-----------------------------------------------------------------------------
(* What Push and SwitchToSink have in common: thread t enters to.            *)
Entering(t, to) ==
  /\ McoSwap(t, cpu[t], to, finished')
  /\ UNCHANGED <<live, use_private>>
  /\ to \in (live \cup {t}) \cap start' /\ to \notin finished'
  /\ start' \subseteq start \cup {t, to}
  /\ start \subseteq start' \cup finished'
  /\ finished \subseteq finished' /\ finished' \subseteq finished \cup start
  /\ start' \cap finished' = {}
  /\ stack_store \subseteq start'
  /\ Nested(t)' \subseteq Nested(t) \cup {to}
  /\ \A u \in Threads \ {t} : Nested(u)' = Nested(u) /\ to \notin Nested(u)

(* When it may enter a routine of its own, or a guest.                       *)
Own(t, to) ==
  /\ ~IsPrivate(to)
  /\ to \in start => home[to] = t
  /\ \A u \in Threads \ {t} : ~UsedBy(u, t)
  /\ commonOccupy[t] # Null => home[commonOccupy[t]] = t

Guest(t, to) ==
  /\ ~IsPrivate(to) /\ to \in start /\ home[to] # t
  /\ \A u \in Threads \ {t} : ~UsedBy(u, home[to])
  /\ commonOccupy[home[to]] = to /\ commonOccupy[t] \in {Null, to}
  /\ \A d \in Sharing : home[d] # t

(* The occupant that must make room.                                         *)
Leaves(t, to, c) == c = commonOccupy[t] /\ c # to /\ c \notin finished'

LEMMA NestedFacts ==
  ASSUME TInv, NEW t \in Threads
  PROVE  /\ Nested(t) \subseteq (live \cap start) \ finished
         /\ Nested(t) \subseteq Coroutines
         /\ cpu[t] \in Nested(t) \cup {t}
         /\ \A u \in Threads \ {t} : Nested(t) \cap Nested(u) = {}
         /\ \A h : Uses(t, h) <=> UsedBy(t, h)
<1>1. callStack[t] \in Seq(Mcos) /\ Len(callStack[t]) \in Nat
  BY DEF TInv, McoThreadsTypeOK
<1>2. Nested(t) \subseteq (live \cap start) \ finished
  BY DEF Nested, TInv, Control, Stacked
<1>3. Nested(t) \subseteq Coroutines
  BY <1>2 DEF TInv, McoThreadsTypeOK
<1>4. cpu[t] \in Nested(t) \cup {t}
  BY <1>1 DEF Nested, TInv, Control, Tops
<1>5. \A u \in Threads \ {t} : Nested(t) \cap Nested(u) = {}
  <2> SUFFICES ASSUME NEW u \in Threads \ {t}, NEW i \in 2 .. Len(callStack[t]),
                      NEW j \in 2 .. Len(callStack[u])
               PROVE  callStack[t][i] # callStack[u][j]
    BY DEF Nested
  <2>1. Len(callStack[u]) \in Nat
    BY DEF TInv, McoThreadsTypeOK
  <2>2. i \in 1 .. Len(callStack[t]) /\ j \in 1 .. Len(callStack[u])
    BY <1>1, <2>1
  <2> QED
    BY <2>2 DEF TInv, Control, Apart
<1>6. Range(callStack[t]) = {callStack[t][i] : i \in 1 .. Len(callStack[t])}
  BY <1>1 DEF Range
<1>7. \A h : Uses(t, h) <=> UsedBy(t, h)
  <2>1. \A c : c \in Nested(t) => c \in Range(callStack[t])
    BY <1>1, <1>6 DEF Nested
  <2>2. \A c : c \in Range(callStack[t]) => c \in Nested(t) \/ c = t
    <3> SUFFICES ASSUME NEW i \in 1 .. Len(callStack[t])
                 PROVE  callStack[t][i] \in Nested(t) \/ callStack[t][i] = t
      BY <1>6
    <3>1. CASE i = 1
      BY <1>1, <3>1 DEF TInv, Control, Tops
    <3>2. CASE i # 1
      BY <1>1, <3>2 DEF Nested
    <3> QED
      BY <3>1, <3>2
  <2> QED
    BY <2>1, <2>2 DEF Uses, UsedBy, IsPrivate
<1> QED
  BY <1>2, <1>3, <1>4, <1>5, <1>7

(* What a switch to each kind of routine changes.                            *)
LEMMA PrivateEffect ==
  ASSUME TInv, NEW t \in Threads, NEW to \in Mcos, Entering(t, to),
         IsPrivate(to)
  PROVE  /\ \A c \in Sharing : home'[c] = home[c]
         /\ \A c \in live \cap finished : home'[c] = home[c]
         /\ home' \in [Mcos -> Threads \cup {Null}]
         /\ UNCHANGED <<stack_store, frames, area, commonOccupy>>
<1>1. Evicted(t, to, finished') = {}
  BY DEF Evicted
<1>2. Recovered(t, to, finished') = {}
  BY <1>1, McoThreadsAssumption
     DEF Recovered, IsPrivate, TInv, Frames, Occupants, Sharing
<1>3. Saved(t, to, finished') = frames
  BY <1>1 DEF Saved, TInv, McoThreadsTypeOK
<1>4. UNCHANGED <<stack_store, frames, area, commonOccupy>>
  BY <1>1, <1>2, <1>3 DEF Entering, McoSwap, AreaAfter
<1>5. /\ home' = HomeAfter(t, to)
      /\ home' = home \/ (to \notin start /\ home' = [home EXCEPT ![to] = t])
  BY DEF Entering, McoSwap, HomeAfter, GetMcoStackMgr
<1>6. /\ home \in [Mcos -> Threads \cup {Null}]
      /\ live \subseteq Mcos /\ start \subseteq Mcos
  BY DEF TInv, McoThreadsTypeOK, Mcos
<1>7. to \notin finished
  BY DEF Entering
<1> QED
  BY <1>4, <1>5, <1>6, <1>7, McoThreadsAssumption DEF Sharing

LEMMA OwnEffect ==
  ASSUME TInv, NEW t \in Threads, NEW to \in Mcos, Entering(t, to),
         Own(t, to)
  PROVE  /\ home' \in [Mcos -> Threads \cup {Null}]
         /\ home'[to] = t
         /\ \A c \in Mcos \ {to} : home'[c] = home[c]
         /\ to \notin stack_store'
         /\ \A c \in Mcos \ {to} :
              c \in stack_store' <=> c \in stack_store \/ Leaves(t, to, c)
         /\ stack_store' \subseteq Mcos
         /\ frames' \in [Mcos -> Mcos \cup {Null}]
         /\ \A c \in Mcos :
              frames'[c] = IF Leaves(t, to, c) THEN area[t] ELSE frames[c]
         /\ area' = [area EXCEPT ![t] = to]
         /\ commonOccupy' = [commonOccupy EXCEPT ![t] = to]
<1> DEFINE out == Evicted(t, to, finished')
<1>1. \A c \in Mcos : c \in out <=> Leaves(t, to, c)
  BY McoThreadsAssumption DEF Evicted, Leaves, Own, GetMcoStackMgr, Mcos
<1>2. out \subseteq Mcos
  BY DEF Evicted, TInv, McoThreadsTypeOK, GetMcoStackMgr
<1>3. \A c \in out : home[c] = t
  BY DEF Evicted, Own, GetMcoStackMgr
<1>4. /\ home \in [Mcos -> Threads \cup {Null}]
      /\ frames \in [Mcos -> Mcos \cup {Null}]
      /\ area \in [Threads -> Mcos \cup {Null}]
      /\ stack_store \subseteq Mcos
  BY DEF TInv, McoThreadsTypeOK, Mcos
<1>5. home' = IF to \in start THEN home ELSE [home EXCEPT ![to] = t]
  BY DEF Entering, McoSwap, HomeAfter, GetMcoStackMgr, Own, IsPrivate
<1>6. /\ home' \in [Mcos -> Threads \cup {Null}] /\ home'[to] = t
      /\ \A c \in Mcos \ {to} : home'[c] = home[c]
  BY <1>4, <1>5 DEF Own
<1>7. frames' = [m \in Mcos |-> IF m \in out THEN area[home[m]] ELSE frames[m]]
  BY DEF Entering, McoSwap, Saved
<1>8. /\ frames' \in [Mcos -> Mcos \cup {Null}]
      /\ \A c \in Mcos :
           frames'[c] = IF Leaves(t, to, c) THEN area[t] ELSE frames[c]
  BY <1>1, <1>3, <1>4, <1>7
<1>9. Recovered(t, to, finished') = {to} \cap (stack_store \cup out)
  BY DEF Recovered, Own, IsPrivate
<1>10. stack_store' = (stack_store \cup out) \ {to}
  BY <1>9 DEF Entering, McoSwap
<1>11. ~Leaves(t, to, to)
  BY DEF Leaves
<1>12. area' = [area EXCEPT ![t] = to]
  <2>1. CASE to \notin start
    BY <1>6, <2>1 DEF Entering, McoSwap, AreaAfter, Own
  <2>2. CASE to \in start /\ to \in stack_store
    <3>1. frames'[to] = to
      BY <1>8, <1>11, <2>2 DEF TInv, Frames, Areas, Occupants
    <3>2. Recovered(t, to, finished') # {}
      BY <1>9, <2>2
    <3> QED
      BY <2>2, <3>1, <3>2 DEF Entering, McoSwap, AreaAfter, Own
  <2>3. CASE to \in start /\ to \notin stack_store
    <3>1. Recovered(t, to, finished') = {}
      BY <1>1, <1>9, <1>11, <2>3
    <3>2. area[t] = to
      BY <2>3 DEF TInv, Frames, Areas, Sharing, Own, IsPrivate
    <3> QED
      BY <1>4, <2>3, <3>1, <3>2 DEF Entering, McoSwap, AreaAfter, Own
  <2> QED
    BY <2>1, <2>2, <2>3
<1>13. commonOccupy' = [commonOccupy EXCEPT ![t] = to]
  BY DEF Entering, McoSwap, Own, GetMcoStackMgr
<1> QED
  BY <1>1, <1>2, <1>4, <1>6, <1>8, <1>10, <1>12, <1>13

LEMMA GuestEffect ==
  ASSUME TInv, NEW t \in Threads, NEW to \in Mcos, Entering(t, to),
         Guest(t, to)
  PROVE  /\ UNCHANGED <<home, stack_store, frames, area>>
         /\ to \notin stack_store
         /\ commonOccupy' = [commonOccupy EXCEPT ![t] = to]
<1>1. Evicted(t, to, finished') = {}
  BY DEF Evicted, Guest, GetMcoStackMgr
<1>2. to \in Sharing /\ home[to] \in Threads /\ to # Null
  BY McoThreadsAssumption
     DEF Guest, Sharing, IsPrivate, TInv, Frames, Occupants
<1>3. to \notin stack_store
  BY <1>2 DEF Guest, TInv, Frames, Visits
<1>4. Recovered(t, to, finished') = {}
  BY <1>1, <1>3 DEF Recovered
<1>5. Saved(t, to, finished') = frames
  BY <1>1 DEF Saved, TInv, McoThreadsTypeOK
<1> QED
  BY <1>1, <1>3, <1>4, <1>5
     DEF Entering, McoSwap, AreaAfter, HomeAfter, Guest, GetMcoStackMgr

(* Who shares an area afterwards, and who is on which call stack.            *)
LEMMA EnteringFacts ==
  ASSUME TInv, NEW t \in Threads, NEW to \in Mcos, Entering(t, to)
  PROVE  /\ \A c \in Mcos : IsPrivate(c)' <=> IsPrivate(c)
         /\ Sharing' = Sharing' \cap Mcos
         /\ \A c \in Sharing' : c = to \/ c \in Sharing
         /\ \A c \in Sharing' : c \notin finished'
         /\ ~IsPrivate(to) => to \in Sharing' /\ to \in live
         /\ stack_store \subseteq Sharing'
         /\ \A u \in Threads : commonOccupy[u] # Null =>
              /\ commonOccupy[u] \in (live \cap (start' \cup finished'))
                                       \ use_private
              /\ commonOccupy[u] \notin Threads
              /\ commonOccupy[u] = to => to \in start
              /\ commonOccupy[u] \notin finished' =>
                   commonOccupy[u] \in Sharing \cap Sharing'
         /\ cpu' = [cpu EXCEPT ![t] = to]
<1>1. /\ use_private' = use_private /\ live' = live
      /\ to \in (live \cup {t}) \cap start' /\ to \notin finished'
      /\ start' \subseteq start \cup {t, to}
      /\ start \subseteq start' \cup finished'
      /\ finished \subseteq finished'
      /\ start' \cap finished' = {}
      /\ stack_store \subseteq start'
      /\ cpu' = [cpu EXCEPT ![t] = to]
  BY DEF Entering, McoSwap
<1>2. /\ start \subseteq live \cup Threads /\ live \subseteq Coroutines
      /\ Threads \cap Coroutines = {}
  BY McoThreadsAssumption DEF TInv, McoThreadsTypeOK
<1>3. start' \subseteq Mcos
  BY <1>1, <1>2 DEF Mcos
<1>4. \A u \in Threads : commonOccupy[u] # Null =>
        commonOccupy[u] \in (live \cap (start \cup finished)) \ use_private
  BY DEF TInv, Frames, Occupants
<1>5. stack_store \subseteq Sharing
  BY DEF TInv, Frames, Occupants
<1> QED
  BY <1>1, <1>2, <1>3, <1>4, <1>5 DEF Sharing, IsPrivate

LEMMA PrivateFrames ==
  ASSUME TInv, NEW t \in Threads, NEW to \in Mcos, Entering(t, to),
         IsPrivate(to)
  PROVE  Frames'
<1>1. /\ \A c \in Sharing : home'[c] = home[c]
      /\ \A c \in live \cap finished : home'[c] = home[c]
      /\ UNCHANGED <<stack_store, frames, area, commonOccupy>>
  BY PrivateEffect
<1>2. /\ Sharing' \subseteq Sharing /\ stack_store \subseteq Sharing'
      /\ \A u \in Threads : commonOccupy[u] # Null =>
           commonOccupy[u] \in (live \cap (start' \cup finished')) \ use_private
      /\ cpu' = [cpu EXCEPT ![t] = to]
      /\ to \notin Sharing
  BY EnteringFacts DEF Sharing, IsPrivate
<1>3. \A u \in Threads : commonOccupy[u] # Null =>
        home'[commonOccupy[u]] = home[commonOccupy[u]]
  BY <1>1, McoThreadsAssumption
     DEF TInv, McoThreadsTypeOK, Frames, Occupants, Sharing
<1>4. live' = live /\ use_private' = use_private
  BY DEF Entering
<1>5. Occupants'
  BY <1>1, <1>2, <1>3, <1>4 DEF TInv, Frames, Occupants
<1>6. Areas'
  BY <1>1, <1>2 DEF TInv, Frames, Areas
<1>7. Visits'
  BY <1>1, <1>2, <1>3 DEF TInv, Frames, Visits
<1>8. Guests'
  <2>1. \A u \in Threads : Nested(u)' \subseteq Nested(u) \cup {to}
    BY DEF Entering
  <2>2. \A u \in Threads, c \in Mcos :
          c \in Nested(u)' /\ ~IsPrivate(c)' =>
            c \in Nested(u) /\ ~IsPrivate(c) /\ home'[c] = home[c]
    BY <1>1, <1>4, <2>1, NestedFacts DEF IsPrivate, Sharing
  <2>3. \A u \in Threads : Nested(u) \subseteq Mcos
    BY NestedFacts DEF Mcos
  <2>4. \A u \in Threads, h \in Threads : UsedBy(u, h)' => UsedBy(u, h)
    BY <2>1, <2>2, <2>3 DEF UsedBy
  <2>5. \A u \in Threads, c \in Mcos :
          c \in Nested(u) /\ ~IsPrivate(c) => home[c] \in Threads
    BY NestedFacts DEF TInv, Frames, Occupants, Sharing, IsPrivate
  <2> QED
    BY <1>1, <2>2, <2>4, <2>5 DEF TInv, Frames, Guests
<1>9. TopHasFrames'
  BY <1>1, <1>2 DEF TInv, Frames, TopHasFrames, Occupants, McoThreadsTypeOK
<1> QED
  BY <1>5, <1>6, <1>7, <1>8, <1>9 DEF Frames

LEMMA OwnFrames ==
  ASSUME TInv, NEW t \in Threads, NEW to \in Mcos, Entering(t, to),
         Own(t, to)
  PROVE  Frames'
<1>1. /\ home' \in [Mcos -> Threads \cup {Null}]
      /\ home'[to] = t
      /\ \A c \in Mcos \ {to} : home'[c] = home[c]
      /\ to \notin stack_store'
      /\ \A c \in Mcos \ {to} :
           c \in stack_store' <=> c \in stack_store \/ Leaves(t, to, c)
      /\ stack_store' \subseteq Mcos
      /\ \A c \in Mcos :
           frames'[c] = IF Leaves(t, to, c) THEN area[t] ELSE frames[c]
      /\ area' = [area EXCEPT ![t] = to]
      /\ commonOccupy' = [commonOccupy EXCEPT ![t] = to]
  BY OwnEffect
<1>2. /\ \A c \in Mcos : IsPrivate(c)' <=> IsPrivate(c)
      /\ Sharing' \subseteq Mcos
      /\ \A c \in Sharing' : c = to \/ c \in Sharing
      /\ \A c \in Sharing' : c \notin finished'
      /\ to \in Sharing' /\ to \in live
      /\ stack_store \subseteq Sharing'
      /\ \A u \in Threads : commonOccupy[u] # Null =>
           /\ commonOccupy[u] \in (live \cap (start' \cup finished'))
                                    \ use_private
           /\ commonOccupy[u] = to => to \in start
           /\ commonOccupy[u] \notin finished' =>
                commonOccupy[u] \in Sharing \cap Sharing'
      /\ cpu' = [cpu EXCEPT ![t] = to]
  BY EnteringFacts DEF Own
<1>3. /\ live' = live /\ use_private' = use_private
      /\ to \notin finished' /\ to \in start'
      /\ commonOccupy \in [Threads -> Mcos \cup {Null}]
      /\ area \in [Threads -> Mcos \cup {Null}]
      /\ cpu \in [Threads -> Mcos]
      /\ to # Null /\ Null \notin Mcos
      /\ live \subseteq Mcos
  BY McoThreadsAssumption DEF Entering, TInv, McoThreadsTypeOK, Mcos
<1>4. \A u \in Threads : commonOccupy[u] # Null =>
        home'[commonOccupy[u]] = home[commonOccupy[u]]
  BY <1>1, <1>2, <1>3 DEF Own
<1>5. /\ \A c \in Sharing : home[c] \in Threads
      /\ \A u \in Threads : commonOccupy[u] # Null =>
           home[commonOccupy[u]] \in Threads
  BY DEF TInv, Frames, Occupants
<1>6. \A c \in Mcos : Leaves(t, to, c) =>
        c \in Sharing \cap Sharing' /\ home[c] = t /\ c \notin stack_store
  BY <1>2, <1>3 DEF Leaves, Own, TInv, Frames, Visits
<1>7. Occupants'
  <2>1. stack_store' \subseteq Sharing'
    BY <1>1, <1>2, <1>6
  <2>2. \A c \in Sharing' : home'[c] \in Threads
    BY <1>1, <1>2, <1>5
  <2>3. \A u \in Threads : commonOccupy'[u] # Null =>
          /\ commonOccupy'[u] \in (live \cap (start' \cup finished'))
                                    \ use_private
          /\ home'[commonOccupy'[u]] \in Threads
    <3>1. to \notin use_private
      BY DEF Own, IsPrivate
    <3> QED
      BY <1>1, <1>2, <1>3, <1>4, <1>5, <3>1
  <2> QED
    BY <1>3, <2>1, <2>2, <2>3 DEF Occupants
<1>8. Areas'
  <2> SUFFICES ASSUME NEW c \in Sharing'
               PROVE  IF c \in stack_store' THEN frames'[c] = c
                      ELSE /\ area'[home'[c]] = c
                           /\ commonOccupy'[home'[c]] = c
    BY DEF Areas
  <2>1. CASE c = to
    BY <1>1, <1>3, <2>1
  <2>2. CASE c # to
    <3>1. c \in Sharing /\ c \in Mcos /\ c \notin finished'
      BY <1>2, <2>2
    <3>2. IF c \in stack_store THEN frames[c] = c
          ELSE area[home[c]] = c /\ commonOccupy[home[c]] = c
      BY <3>1 DEF TInv, Frames, Areas
    <3>3. CASE Leaves(t, to, c)
      BY <1>1, <1>6, <2>2, <3>1, <3>2, <3>3
    <3>4. CASE ~Leaves(t, to, c) /\ c \in stack_store
      BY <1>1, <2>2, <3>1, <3>2, <3>4
    <3>5. CASE ~Leaves(t, to, c) /\ c \notin stack_store
      <4>1. home[c] \in Threads \ {t}
        BY <1>5, <2>2, <3>1, <3>2, <3>5 DEF Leaves
      <4> QED
        BY <1>1, <1>3, <2>2, <3>1, <3>2, <3>5, <4>1
    <3> QED
      BY <3>3, <3>4, <3>5
  <2> QED
    BY <2>1, <2>2
<1>9. Visits'
  <2> SUFFICES ASSUME NEW u \in Threads, commonOccupy'[u] # Null
               PROVE  IF home'[commonOccupy'[u]] = u
                        THEN commonOccupy'[u] \notin stack_store'
                        ELSE \A c \in Sharing' : home'[c] # u
    BY DEF Visits
  <2>1. CASE u = t
    BY <1>1, <1>3, <2>1
  <2>2. CASE u # t
    <3>1. commonOccupy'[u] = commonOccupy[u]
      BY <1>1, <1>3, <2>2
    <3>2. commonOccupy[u] \in Mcos
      BY <1>3, <3>1
    <3>3. CASE home[commonOccupy[u]] = u
      <4>1. commonOccupy[u] \notin stack_store
        BY <3>1, <3>3 DEF TInv, Frames, Visits
      <4>2. ~Leaves(t, to, commonOccupy[u])
        BY <1>6, <2>2, <3>2, <3>3
      <4> QED
        BY <1>1, <1>4, <3>1, <3>2, <3>3, <4>1, <4>2
    <3>4. CASE home[commonOccupy[u]] # u
      <4>1. \A c \in Sharing : home[c] # u
        BY <3>1, <3>4 DEF TInv, Frames, Visits
      <4> QED
        BY <1>1, <1>2, <1>4, <2>2, <3>1, <3>4, <4>1
    <3> QED
      BY <3>3, <3>4
  <2> QED
    BY <2>1, <2>2
<1>10. Guests'
  <2>1. /\ Nested(t)' \subseteq Nested(t) \cup {to}
        /\ \A u \in Threads \ {t} : Nested(u)' = Nested(u) /\ to \notin Nested(u)
    BY DEF Entering
  <2>2. /\ \A u \in Threads : Nested(u) \subseteq Mcos
        /\ \A u \in Threads, c \in Mcos :
             c \in Nested(u) /\ ~IsPrivate(c) => c \in Sharing
    BY NestedFacts DEF Mcos, Sharing, IsPrivate
  <2>3. \A u \in Threads \ {t} : \A h : UsedBy(u, h)' => UsedBy(u, h)
    BY <1>1, <1>2, <2>1, <2>2 DEF UsedBy
  <2>4. \A h : UsedBy(t, h)' => UsedBy(t, h) \/ h = t
    BY <1>1, <1>2, <2>1, <2>2 DEF UsedBy
  <2>5. \A u \in Threads \ {t} : ~UsedBy(u, t)
    BY DEF Own
  <2> SUFFICES ASSUME NEW u \in Threads, NEW c \in Mcos,
                      c \in Nested(u)', ~IsPrivate(c)'
               PROVE  /\ \A v \in Threads \ {u} : ~UsedBy(v, home[c])'
                      /\ home'[c] # u => /\ commonOccupy'[u] = c
                                         /\ commonOccupy'[home'[c]] = c
    BY DEF Guests
  <2>6. CASE c = to
    <3>1. u = t
      BY <2>1, <2>6
    <3>2. \A v \in Threads \ {t} : ~UsedBy(v, t)'
      BY <2>3, <2>5
    <3> QED
      BY <1>1, <2>6, <3>1, <3>2 DEF UsedBy
  <2>7. CASE c # to
    <3>1. c \in Nested(u) /\ ~IsPrivate(c) /\ home'[c] = home[c]
      BY <1>1, <1>2, <2>1, <2>7
    <3>2. /\ \A v \in Threads \ {u} : ~UsedBy(v, home[c])
          /\ home[c] # u => commonOccupy[u] = c /\ commonOccupy[home[c]] = c
          /\ home[c] \in Threads /\ c # Null
      BY <1>3, <1>5, <2>2, <3>1 DEF TInv, Frames, Guests
    <3>3. u # t => home[c] # t
      BY <2>5, <3>1 DEF UsedBy
    <3>4. \A v \in Threads \ {u} : ~UsedBy(v, home[c])'
      <4>1. \A v \in Threads \ {u} : \A h \in Threads :
              h = home[c] => ~UsedBy(v, h)'
        BY <2>3, <2>4, <3>2, <3>3
      <4> QED
        BY <3>1, <3>2, <4>1 DEF UsedBy
    <3>5. home[c] # u => u # t
      BY <3>2 DEF Own
    <3>6. home[c] # u => commonOccupy'[u] = c /\ commonOccupy'[home[c]] = c
      BY <1>1, <1>3, <3>2, <3>3, <3>5
    <3> QED
      BY <3>1, <3>4, <3>6
  <2> QED
    BY <2>6, <2>7
<1>11. TopHasFrames'
  <2> SUFFICES ASSUME NEW u \in Threads
               PROVE  cpu'[u] \notin stack_store'
    BY DEF TopHasFrames
  <2>1. CASE u = t
    BY <1>1, <1>2, <1>3, <2>1
  <2>2. CASE u # t
    <3>1. cpu'[u] = cpu[u] /\ cpu[u] \in Mcos /\ cpu[u] \notin stack_store
      BY <1>2, <1>3, <2>2 DEF TInv, Frames, TopHasFrames
    <3>2. ~Leaves(t, to, cpu[u])
      <4> SUFFICES ASSUME Leaves(t, to, cpu[u]) PROVE FALSE
        OBVIOUS
      <4>1. cpu[u] \in Sharing /\ home[cpu[u]] = t
        BY <1>6, <3>1
      <4>2. cpu[u] \in Nested(u)
        BY <4>1, NestedFacts DEF Sharing
      <4> QED
        BY <2>2, <4>1, <4>2 DEF Own, UsedBy, Sharing, IsPrivate
    <3> QED
      BY <1>1, <3>1, <3>2
  <2> QED
    BY <2>1, <2>2
<1> QED
  BY <1>7, <1>8, <1>9, <1>10, <1>11 DEF Frames

LEMMA GuestFrames ==
  ASSUME TInv, NEW t \in Threads, NEW to \in Mcos, Entering(t, to),
         Guest(t, to)
  PROVE  Frames'
<1>1. /\ UNCHANGED <<home, stack_store, frames, area>>
      /\ to \notin stack_store
      /\ commonOccupy' = [commonOccupy EXCEPT ![t] = to]
  BY GuestEffect
<1>2. /\ \A c \in Mcos : IsPrivate(c)' <=> IsPrivate(c)
      /\ \A c \in Sharing' : c = to \/ c \in Sharing
      /\ to \in Sharing' /\ to \in live
      /\ stack_store \subseteq Sharing'
      /\ \A u \in Threads : commonOccupy[u] # Null =>
           commonOccupy[u] \in (live \cap (start' \cup finished')) \ use_private
      /\ cpu' = [cpu EXCEPT ![t] = to]
  BY EnteringFacts DEF Guest
<1>3. /\ live' = live /\ use_private' = use_private
      /\ to \in start'
      /\ commonOccupy \in [Threads -> Mcos \cup {Null}]
      /\ cpu \in [Threads -> Mcos]
      /\ to # Null /\ Null \notin Mcos
  BY McoThreadsAssumption DEF Entering, TInv, McoThreadsTypeOK, Mcos
<1>4. to \in Sharing /\ home[to] \in Threads \ {t}
  BY DEF Guest, Sharing, IsPrivate, TInv, Frames, Occupants
<1>5. Sharing' \subseteq Sharing
  BY <1>2, <1>4
<1>6. \A u \in Threads \ {t} : commonOccupy'[u] = commonOccupy[u]
  BY <1>1, <1>3
<1>7. commonOccupy'[t] = to
  BY <1>1, <1>3
<1>8. Occupants'
  <2>1. to \notin use_private
    BY DEF Guest, IsPrivate
  <2> QED
    BY <1>1, <1>2, <1>3, <1>4, <1>5, <1>6, <1>7, <2>1
       DEF TInv, Frames, Occupants
<1>9. Areas'
  <2>1. \A c \in Sharing : home[c] \in Threads \ {t}
    BY DEF Guest, TInv, Frames, Occupants
  <2> QED
    BY <1>1, <1>5, <1>6, <2>1 DEF TInv, Frames, Areas
<1>10. Visits'
  <2>1. \A c \in Sharing : home[c] # t
    BY DEF Guest
  <2> QED
    BY <1>1, <1>4, <1>5, <1>6, <1>7, <2>1 DEF TInv, Frames, Visits
<1>11. Guests'
  <2>1. /\ Nested(t)' \subseteq Nested(t) \cup {to}
        /\ \A u \in Threads \ {t} : Nested(u)' = Nested(u) /\ to \notin Nested(u)
    BY DEF Entering
  <2>2. /\ \A u \in Threads : Nested(u) \subseteq Mcos
        /\ \A u \in Threads, c \in Mcos :
             c \in Nested(u) /\ ~IsPrivate(c) =>
               c \in Sharing /\ home[c] \in Threads \ {t}
    BY NestedFacts
       DEF Mcos, Sharing, IsPrivate, Guest, TInv, Frames, Occupants
  <2>3. \A u \in Threads \ {t} : \A h : UsedBy(u, h)' => UsedBy(u, h)
    BY <1>1, <1>2, <2>1, <2>2 DEF UsedBy
  <2>4. \A h : UsedBy(t, h)' => UsedBy(t, h) \/ h = home[to]
    BY <1>1, <1>2, <2>1, <2>2 DEF UsedBy
  <2>5. \A u \in Threads \ {t} : ~UsedBy(u, home[to])
    BY DEF Guest
  <2> SUFFICES ASSUME NEW u \in Threads, NEW c \in Mcos,
                      c \in Nested(u)', ~IsPrivate(c)'
               PROVE  /\ \A v \in Threads \ {u} : ~UsedBy(v, home[c])'
                      /\ home[c] # u => /\ commonOccupy'[u] = c
                                        /\ commonOccupy'[home[c]] = c
    BY <1>1 DEF Guests
  <2>6. CASE c = to
    <3>1. u = t
      BY <2>1, <2>6
    <3>2. \A v \in Threads \ {t} : \A h \in Threads :
            h = home[to] => ~UsedBy(v, h)'
      BY <2>3, <2>5
    <3>3. commonOccupy[home[to]] = to
      BY DEF Guest
    <3> QED
      BY <1>1, <1>4, <1>6, <1>7, <2>6, <3>1, <3>2, <3>3 DEF UsedBy
  <2>7. CASE c # to
    <3>1. c \in Nested(u) /\ ~IsPrivate(c) /\ c # Null
      BY <1>2, <1>3, <2>1, <2>7
    <3>2. /\ \A v \in Threads \ {u} : ~UsedBy(v, home[c])
          /\ home[c] # u => commonOccupy[u] = c /\ commonOccupy[home[c]] = c
          /\ home[c] \in Threads \ {t}
      BY <2>2, <3>1 DEF TInv, Frames, Guests
    <3>3. u # t
      BY <2>7, <3>1, <3>2 DEF Guest
    <3>4. home[c] # home[to]
      BY <2>5, <3>1, <3>3 DEF UsedBy
    <3>5. \A v \in Threads \ {u} : \A h \in Threads :
            h = home[c] => ~UsedBy(v, h)'
      BY <2>3, <2>4, <3>2, <3>4
    <3>6. \A v \in Threads \ {u} : ~UsedBy(v, home[c])'
      BY <1>1, <3>2, <3>5 DEF UsedBy
    <3> QED
      BY <1>6, <3>2, <3>3, <3>6
  <2> QED
    BY <2>6, <2>7
<1>12. TopHasFrames'
  BY <1>1, <1>2, <1>3 DEF TInv, Frames, TopHasFrames
<1> QED
  BY <1>8, <1>9, <1>10, <1>11, <1>12 DEF Frames

(* Whatever it enters, the frames stay in order and nothing goes wrong.      *)
LEMMA EnterTInv ==
  ASSUME TInv, NEW t \in Threads, NEW to \in Mcos, Entering(t, to),
         IsPrivate(to) \/ Own(t, to) \/ Guest(t, to)
  PROVE  /\ Frames' /\ fate' = "ok"
         /\ cpu' = [cpu EXCEPT ![t] = to]
         /\ \A u \in Threads \ {t} : cpu[u] # to
         /\ stack_store' \subseteq start' \ Threads
         /\ home' \in [Mcos -> Threads \cup {Null}]
         /\ frames' \in [Mcos -> Mcos \cup {Null}]
         /\ commonOccupy' \in [Threads -> Mcos \cup {Null}]
         /\ area' \in [Threads -> Mcos \cup {Null}]
         /\ cpu' \in [Threads -> Mcos]
<1>1. Frames'
  BY PrivateFrames, OwnFrames, GuestFrames
<1>2. stack_store' \subseteq start' \ Threads
  BY <1>1 DEF Frames, Occupants, Sharing
<1>3. /\ home \in [Mcos -> Threads \cup {Null}]
      /\ frames \in [Mcos -> Mcos \cup {Null}]
      /\ commonOccupy \in [Threads -> Mcos \cup {Null}]
      /\ area \in [Threads -> Mcos \cup {Null}]
      /\ cpu \in [Threads -> Mcos]
  BY DEF TInv, McoThreadsTypeOK
<1>4. /\ home' \in [Mcos -> Threads \cup {Null}]
      /\ frames' \in [Mcos -> Mcos \cup {Null}]
      /\ commonOccupy' \in [Threads -> Mcos \cup {Null}]
      /\ area' \in [Threads -> Mcos \cup {Null}]
  BY <1>3, PrivateEffect, OwnEffect, GuestEffect
<1>5. cpu' = [cpu EXCEPT ![t] = to]
  BY DEF Entering, McoSwap
<1>6. \A u \in Threads \ {t} : cpu[u] # to
  BY NestedFacts, McoThreadsAssumption
     DEF Entering, TInv, McoThreadsTypeOK
<1>7. fate' = "ok"
  <2>1. Evicted(t, to, finished') \subseteq live
    BY DEF Evicted, GetMcoStackMgr, TInv, Frames, Occupants
  <2> QED
    BY <1>6, <2>1 DEF Entering, McoSwap
<1> QED
  BY <1>1, <1>2, <1>3, <1>4, <1>5, <1>6, <1>7

(* The set of running routines follows the top of one call stack.            *)
LEMMA HandOverFacts ==
  ASSUME TInv, NEW t \in Threads, NEW to \in Mcos,
         cpu' = [cpu EXCEPT ![t] = to], \A u \in Threads \ {t} : cpu[u] # to,
         running' = HandOver(cpu[t], to), callStack'[t] # <<>>,
         \A u \in Threads \ {t} : callStack'[u] = callStack[u]
  PROVE  running' = {cpu'[u] : u \in {v \in Threads : callStack'[v] # <<>>}}
<1>1. cpu \in [Threads -> Mcos]
  BY DEF TInv, McoThreadsTypeOK
<1>2. \A u \in Threads \ {t} : cpu[u] # cpu[t]
  <2> SUFFICES ASSUME NEW u \in Threads \ {t} PROVE cpu[u] # cpu[t]
    OBVIOUS
  <2>1. /\ cpu[t] \in Nested(t) \cup {t} /\ cpu[u] \in Nested(u) \cup {u}
        /\ Nested(t) \subseteq Coroutines /\ Nested(u) \subseteq Coroutines
        /\ Nested(t) \cap Nested(u) = {}
    BY NestedFacts
  <2> QED
    BY <2>1, McoThreadsAssumption
<1>3. running = {cpu[u] : u \in {v \in Threads : callStack[v] # <<>>}}
  BY DEF TInv, Control
<1>4. cpu'[t] = to /\ \A u \in Threads \ {t} : cpu'[u] = cpu[u]
  BY <1>1
<1> QED
  BY <1>2, <1>3, <1>4 DEF HandOver

(* A switch to the routine below, on behalf of a yield or of a return.       *)
LEMMA FrontFacts ==
  ASSUME NEW S, NEW s \in Seq(S), Len(s) > 1
  PROVE  /\ Front(s) \in Seq(S) /\ Front(s) # <<>>
         /\ Len(Front(s)) = Len(s) - 1
         /\ \A i \in 1 .. Len(s) - 1 : Front(s)[i] = s[i]
<1>1. /\ Front(s) \in Seq(S) /\ Len(Front(s)) = Len(s) - 1
      /\ \A i \in 1 .. Len(s) - 1 : Front(s)[i] = s[i]
  BY DEF Front
<1> QED
  BY <1>1

LEMMA SwitchTInv ==
  ASSUME TInv, NEW t \in Threads, Len(callStack[t]) > 1, NEW ends \in BOOLEAN,
         SwitchToSink(t, cpu[t], ends)
  PROVE  TInv'
<1> DEFINE n == Len(callStack[t])
           c == cpu[t]
           to == callStack[t][n - 1]
<1>1. /\ callStack \in [Threads -> Seq(Mcos)] /\ callStack[t] \in Seq(Mcos)
      /\ n \in Nat /\ n - 1 \in 1 .. n /\ callStack[t] # <<>>
      /\ sink \in [Mcos -> Mcos \cup {Null}]
      /\ start \subseteq live \cup Threads /\ finished \subseteq live
      /\ live \subseteq Coroutines /\ Threads \cap Coroutines = {}
      /\ use_private \subseteq live /\ running \subseteq start
      /\ start \cap finished = {} /\ t \in start
  BY McoThreadsAssumption DEF TInv, McoThreadsTypeOK, Control, Tops
<1>2. /\ c = callStack[t][n] /\ c \in (live \cap start) \ finished
      /\ callStack[t][1] = t
      /\ sink[c] = to /\ to \in Mcos /\ to # c
      /\ c \notin stack_store
  BY <1>1
     DEF TInv, Control, Tops, Stacked, Apart, YieldStaysOnThread, Frames,
         TopHasFrames
<1>3. /\ to = t \/ to \in Nested(t)
      /\ to \in (live \cup {t}) \cap start /\ to \notin finished
  BY <1>1, <1>2 DEF Nested, TInv, Control, Stacked
<1>4. /\ finished' = IF ends THEN finished \cup {c} ELSE finished
      /\ start' = IF ends THEN start \ {c} ELSE start
      /\ running' = HandOver(c, to)
      /\ callStack' = [callStack EXCEPT ![t] = Front(callStack[t])]
      /\ McoSwap(t, c, to, finished')
      /\ UNCHANGED <<live, use_private, sink>>
  BY <1>2 DEF SwitchToSink
<1>5. /\ callStack'[t] \in Seq(Mcos) /\ callStack'[t] # <<>>
      /\ Len(callStack'[t]) = n - 1
      /\ \A i \in 1 .. n - 1 : callStack'[t][i] = callStack[t][i]
      /\ \A u \in Threads \ {t} : callStack'[u] = callStack[u]
      /\ callStack' \in [Threads -> Seq(Mcos)]
  BY <1>1, <1>4, FrontFacts
<1>6. /\ Nested(t)' \subseteq Nested(t)
      /\ \A u \in Threads \ {t} : Nested(u)' = Nested(u) /\ to \notin Nested(u)
  <2>1. \A i \in 2 .. n - 1 : i \in 2 .. n /\ i \in 1 .. n - 1
    BY <1>1
  <2>2. Nested(t)' \subseteq Nested(t)
    BY <1>5, <2>1 DEF Nested
  <2>3. \A u \in Threads \ {t} : Nested(u)' = Nested(u)
    BY <1>5 DEF Nested
  <2>4. \A u \in Threads \ {t} : to \notin Nested(u)
    BY <1>1, <1>3, NestedFacts
  <2> QED
    BY <2>2, <2>3, <2>4
<1>7. Entering(t, to)
  BY <1>1, <1>2, <1>3, <1>4, <1>6 DEF Entering, TInv, McoThreadsTypeOK
<1>8. IsPrivate(to) \/ Own(t, to) \/ Guest(t, to)
  <2> SUFFICES ASSUME ~IsPrivate(to) PROVE Own(t, to) \/ Guest(t, to)
    OBVIOUS
  <2>1. to \in Nested(t) /\ to \in Sharing /\ to # Null
    BY <1>2, <1>3, McoThreadsAssumption DEF IsPrivate, Sharing
  <2>2. /\ \A u \in Threads \ {t} : ~UsedBy(u, home[to])
        /\ home[to] # t => commonOccupy[t] = to /\ commonOccupy[home[to]] = to
    BY <1>2, <2>1 DEF TInv, Frames, Guests
  <2>3. CASE home[to] = t
    <3>1. commonOccupy[t] # Null => home[commonOccupy[t]] = t
      BY <2>1, <2>3 DEF TInv, Frames, Visits
    <3> QED
      BY <2>2, <2>3, <3>1 DEF Own
  <2>4. CASE home[to] # t
    <3>1. \A d \in Sharing : home[d] # t
      BY <2>1, <2>2, <2>4 DEF TInv, Frames, Visits
    <3> QED
      BY <1>3, <2>2, <2>4, <3>1 DEF Guest
  <2> QED
    BY <2>3, <2>4
<1>9. /\ Frames' /\ fate' = "ok"
      /\ cpu' = [cpu EXCEPT ![t] = to]
      /\ \A u \in Threads \ {t} : cpu[u] # to
      /\ stack_store' \subseteq start' \ Threads
      /\ home' \in [Mcos -> Threads \cup {Null}]
      /\ frames' \in [Mcos -> Mcos \cup {Null}]
      /\ commonOccupy' \in [Threads -> Mcos \cup {Null}]
      /\ area' \in [Threads -> Mcos \cup {Null}]
      /\ cpu' \in [Threads -> Mcos]
  BY <1>2, <1>7, <1>8, EnterTInv
<1>10. McoThreadsTypeOK'
  BY <1>1, <1>2, <1>3, <1>4, <1>5, <1>9 DEF McoThreadsTypeOK, HandOver
<1>11. running' = {cpu'[u] : u \in {v \in Threads : callStack'[v] # <<>>}}
  BY <1>2, <1>4, <1>5, <1>9, HandOverFacts
<1>12. Tops'
  <2>1. t \in start'
    BY <1>1, <1>2, <1>4
  <2>2. callStack'[t][1] = t /\ cpu'[t] = callStack'[t][Len(callStack'[t])]
    BY <1>1, <1>2, <1>5, <1>9 DEF TInv, McoThreadsTypeOK
  <2>3. \A u \in Threads \ {t} : cpu'[u] = cpu[u] /\ (u \in start => u \in start')
    BY <1>1, <1>2, <1>4, <1>9 DEF TInv, McoThreadsTypeOK
  <2> QED
    BY <1>5, <2>1, <2>2, <2>3 DEF TInv, Control, Tops
<1>13. Stacked'
  <2>1. \A u \in Threads : \A i \in 1 .. Len(callStack[u]) :
          callStack[u][i] = c => u = t /\ i = n
    BY <1>1, <1>2 DEF TInv, Control, Apart
  <2> SUFFICES ASSUME NEW u \in Threads, NEW i \in 2 .. Len(callStack'[u])
               PROVE  callStack'[u][i] \in (live' \cap start') \ finished'
    BY DEF Stacked
  <2>2. /\ i \in 2 .. Len(callStack[u]) /\ i \in 1 .. Len(callStack[u])
        /\ callStack'[u][i] = callStack[u][i] /\ (u = t => i < n)
    BY <1>1, <1>5
  <2>3. callStack[u][i] # c
    BY <1>1, <2>1, <2>2
  <2> QED
    BY <1>4, <2>2, <2>3 DEF TInv, Control, Stacked
<1>14. Apart' /\ YieldStaysOnThread'
  <2>1. \A u \in Threads : \A i \in 1 .. Len(callStack'[u]) :
          i \in 1 .. Len(callStack[u]) /\ callStack'[u][i] = callStack[u][i]
    <3> SUFFICES ASSUME NEW u \in Threads, NEW i \in 1 .. Len(callStack'[u])
                 PROVE  /\ i \in 1 .. Len(callStack[u])
                        /\ callStack'[u][i] = callStack[u][i]
      OBVIOUS
    <3> QED
      BY <1>1, <1>5
  <2>2. Apart'
    BY <2>1 DEF TInv, Control, Apart
  <2>3. \A u \in Threads : \A i \in 2 .. Len(callStack'[u]) :
          /\ i \in 2 .. Len(callStack[u]) /\ callStack'[u][i] = callStack[u][i]
          /\ callStack'[u][i - 1] = callStack[u][i - 1]
    <3> SUFFICES ASSUME NEW u \in Threads, NEW i \in 2 .. Len(callStack'[u])
                 PROVE  /\ i \in 2 .. Len(callStack[u])
                        /\ callStack'[u][i] = callStack[u][i]
                        /\ callStack'[u][i - 1] = callStack[u][i - 1]
      OBVIOUS
    <3>1. Len(callStack'[u]) \in Nat /\ Len(callStack[u]) \in Nat
      BY <1>1, <1>5
    <3>2. i \in 1 .. Len(callStack'[u]) /\ i - 1 \in 1 .. Len(callStack'[u])
      BY <3>1
    <3>3. i \in 1 .. Len(callStack[u])
      BY <2>1, <3>2
    <3>4. i \in 2 .. Len(callStack[u])
      BY <3>1, <3>3
    <3> QED
      BY <2>1, <3>2, <3>4
  <2> QED
    BY <1>4, <2>2, <2>3 DEF TInv, Control, YieldStaysOnThread
<1>15. NoSinkOfThread' /\ start' \cap finished' = {}
  BY <1>1, <1>4 DEF TInv, Control, NoSinkOfThread
<1> QED
  BY <1>9, <1>10, <1>11, <1>12, <1>13, <1>14, <1>15 DEF TInv, Control

(* A resume of a routine that is on no call stack.                           *)
LEMMA BootedFacts ==
  ASSUME TInv, NEW t \in Threads
  PROVE  /\ Booted(t) \in Seq(Mcos) /\ Len(Booted(t)) \in Nat \ {0}
         /\ Booted(t)[1] = t /\ Booted(t)[Len(Booted(t))] = cpu[t]
         /\ Resumer(t) = cpu[t]
         /\ Nested(t) = {Booted(t)[i] : i \in 2 .. Len(Booted(t))}
         /\ callStack[t] # <<>> => Booted(t) = callStack[t]
         /\ callStack[t] = <<>> => Len(Booted(t)) = 1
<1>1. callStack[t] \in Seq(Mcos) /\ t \in Mcos
  BY DEF TInv, McoThreadsTypeOK, Mcos
<1>2. CASE callStack[t] = <<>>
  <2>1. Booted(t) = <<t>> /\ cpu[t] = t
    BY <1>2 DEF Booted, TInv, Control, Tops
  <2>2. Nested(t) = {} /\ {Booted(t)[i] : i \in 2 .. Len(Booted(t))} = {}
    BY <1>2, <2>1 DEF Nested
  <2> QED
    BY <1>1, <1>2, <2>1, <2>2 DEF Resumer, Last
<1>3. CASE callStack[t] # <<>>
  BY <1>1, <1>3 DEF Booted, Resumer, Last, Nested, TInv, Control, Tops
<1> QED
  BY <1>2, <1>3

LEMMA AppendFacts ==
  ASSUME NEW S, NEW s \in Seq(S), NEW e \in S
  PROVE  /\ Append(s, e) \in Seq(S) /\ Append(s, e) # <<>>
         /\ Len(Append(s, e)) = Len(s) + 1
         /\ \A i \in 1 .. Len(s) : Append(s, e)[i] = s[i]
         /\ Append(s, e)[Len(s) + 1] = e
OBVIOUS

OffStacks(c) == \A u \in Threads : c \notin Nested(u) \cup {u}

LEMMA OffStacksFacts ==
  ASSUME TInv, NEW c \in Coroutines, c \notin running, ~Waits(c)
  PROVE  OffStacks(c)
<1> SUFFICES ASSUME NEW u \in Threads PROVE c \notin Nested(u)
  BY McoThreadsAssumption DEF OffStacks
<1>1. callStack[u] \in Seq(Mcos)
  BY DEF TInv, McoThreadsTypeOK
<1>2. Range(callStack[u]) = {callStack[u][i] : i \in 1 .. Len(callStack[u])}
  BY <1>1 DEF Range
<1>3. Nested(u) \subseteq Range(callStack[u])
  BY <1>1, <1>2 DEF Nested
<1> QED
  BY <1>3 DEF Waits

LEMMA PushTInv ==
  ASSUME TInv, NEW t \in Threads, NEW c \in live \ finished, OffStacks(c),
         MayResume(t, c), Push(t, c)
  PROVE  TInv'
<1> DEFINE n == Len(Booted(t))
<1>1. /\ callStack \in [Threads -> Seq(Mcos)]
      /\ sink \in [Mcos -> Mcos \cup {Null}]
      /\ start \subseteq live \cup Threads /\ finished \subseteq live
      /\ live \subseteq Coroutines /\ Threads \cap Coroutines = {}
      /\ Threads \subseteq Mcos /\ Coroutines \subseteq Mcos
      /\ use_private \subseteq live /\ running \subseteq start
      /\ start \cap finished = {} /\ cpu[t] \in Mcos
      /\ c \in Mcos /\ c \in Coroutines
  BY McoThreadsAssumption DEF TInv, McoThreadsTypeOK, Control, Mcos
<1>2. /\ Booted(t) \in Seq(Mcos) /\ n \in Nat \ {0}
      /\ Booted(t)[1] = t /\ Booted(t)[n] = cpu[t] /\ Resumer(t) = cpu[t]
      /\ Nested(t) = {Booted(t)[i] : i \in 2 .. n}
      /\ callStack[t] # <<>> => Booted(t) = callStack[t]
      /\ callStack[t] = <<>> => n = 1
  BY BootedFacts
<1>3. /\ finished' = finished
      /\ start' = start \cup {t, c}
      /\ running' = HandOver(cpu[t], c)
      /\ callStack' = [callStack EXCEPT ![t] = Append(Booted(t), c)]
      /\ sink' = [sink EXCEPT ![c] = cpu[t]]
      /\ McoSwap(t, cpu[t], c, finished')
      /\ UNCHANGED <<live, use_private>>
  BY <1>2 DEF Push, SinkAfter
<1>4. /\ callStack'[t] \in Seq(Mcos) /\ callStack'[t] # <<>>
      /\ Len(callStack'[t]) = n + 1
      /\ \A i \in 1 .. n : callStack'[t][i] = Booted(t)[i]
      /\ callStack'[t][n + 1] = c
      /\ \A u \in Threads \ {t} : callStack'[u] = callStack[u]
      /\ callStack' \in [Threads -> Seq(Mcos)]
  BY <1>1, <1>2, <1>3, AppendFacts
<1>5. \A i \in 1 .. n : Booted(t)[i] \in (Nested(t) \cup {t}) /\ Booted(t)[i] # c
  BY <1>1, <1>2 DEF OffStacks
<1>6. /\ Nested(t)' = Nested(t) \cup {c}
      /\ \A u \in Threads \ {t} : Nested(u)' = Nested(u)
  <2>1. {callStack'[t][i] : i \in 2 .. n + 1}
          = {Booted(t)[i] : i \in 2 .. n} \cup {c}
    <3>1. \A i \in 2 .. n + 1 : i = n + 1 \/ (i \in 2 .. n /\ i \in 1 .. n)
      BY <1>2
    <3>2. \A i \in 2 .. n : i \in 2 .. n + 1 /\ i \in 1 .. n
      BY <1>2
    <3>3. n + 1 \in 2 .. n + 1
      BY <1>2
    <3> QED
      BY <1>4, <3>1, <3>2, <3>3
  <2> QED
    BY <1>2, <1>4, <2>1 DEF Nested
<1>7. Entering(t, c)
  <2>1. stack_store \subseteq start
    BY DEF TInv, McoThreadsTypeOK
  <2> QED
    BY <1>1, <1>3, <1>6, <2>1 DEF Entering, OffStacks
<1>8. IsPrivate(c) \/ Own(t, c) \/ Guest(t, c)
  <2>1. \A u \in Threads : \A h : Uses(u, h) <=> UsedBy(u, h)
    BY NestedFacts
  <2> QED
    BY <2>1 DEF MayResume, Own, Guest, Sharing, IsPrivate
<1>9. /\ Frames' /\ fate' = "ok"
      /\ cpu' = [cpu EXCEPT ![t] = c]
      /\ \A u \in Threads \ {t} : cpu[u] # c
      /\ stack_store' \subseteq start' \ Threads
      /\ home' \in [Mcos -> Threads \cup {Null}]
      /\ frames' \in [Mcos -> Mcos \cup {Null}]
      /\ commonOccupy' \in [Threads -> Mcos \cup {Null}]
      /\ area' \in [Threads -> Mcos \cup {Null}]
      /\ cpu' \in [Threads -> Mcos]
  BY <1>1, <1>7, <1>8, EnterTInv
<1>10. McoThreadsTypeOK'
  BY <1>1, <1>3, <1>4, <1>9 DEF TInv, McoThreadsTypeOK, HandOver
<1>11. running' = {cpu'[u] : u \in {v \in Threads : callStack'[v] # <<>>}}
  BY <1>1, <1>3, <1>4, <1>9, HandOverFacts
<1>12. Tops'
  <2>1. callStack'[t][1] = t /\ cpu'[t] = callStack'[t][Len(callStack'[t])]
    <3>1. cpu'[t] = c
      BY <1>9 DEF TInv, McoThreadsTypeOK
    <3>2. 1 \in 1 .. n
      BY <1>2
    <3> QED
      BY <1>2, <1>4, <3>1, <3>2
  <2>2. \A u \in Threads \ {t} : cpu'[u] = cpu[u]
    BY <1>9 DEF TInv, McoThreadsTypeOK
  <2> QED
    BY <1>3, <1>4, <2>1, <2>2 DEF TInv, Control, Tops
<1>13. Stacked'
  <2>1. \A u \in Threads : Nested(u)' \subseteq (live' \cap start') \ finished'
    BY <1>3, <1>6, NestedFacts
  <2> QED
    BY <2>1 DEF Nested, Stacked
<1>14. Apart'
  <2>1. \A i, j \in 1 .. n : Booted(t)[i] = Booted(t)[j] => i = j
    BY <1>2 DEF TInv, Control, Apart
  <2>2. \A i, j \in 1 .. n + 1 : callStack'[t][i] = callStack'[t][j] => i = j
    <3>1. \A i \in 1 .. n + 1 : i \in 1 .. n \/ i = n + 1
      BY <1>2
    <3> QED
      BY <1>4, <1>5, <2>1, <3>1
  <2>3. \A u \in Threads : \A i \in 1 .. Len(callStack'[u]) :
          callStack'[u][i] \in Nested(u)' \cup {u}
    <3>1. \A u \in Threads : \A i \in 1 .. Len(callStack'[u]) :
            i = 1 \/ i \in 2 .. Len(callStack'[u])
      BY <1>4
    <3>2. \A u \in Threads : callStack'[u] # <<>> => callStack'[u][1] = u
      BY <1>12 DEF Tops
    <3>3. \A u \in Threads : callStack'[u] = <<>> =>
            1 .. Len(callStack'[u]) = {}
      BY <1>4
    <3> QED
      BY <3>1, <3>2, <3>3 DEF Nested
  <2>4. \A u, v \in Threads : u # v =>
          (Nested(u)' \cup {u}) \cap (Nested(v)' \cup {v}) = {}
    BY <1>1, <1>6, NestedFacts DEF OffStacks
  <2> SUFFICES ASSUME NEW u \in Threads, NEW v \in Threads,
                      NEW i \in 1 .. Len(callStack'[u]),
                      NEW j \in 1 .. Len(callStack'[v]),
                      callStack'[u][i] = callStack'[v][j]
               PROVE  u = v /\ i = j
    BY DEF Apart
  <2>5. u = v
    BY <2>3, <2>4
  <2>6. CASE u = t
    BY <1>4, <2>2, <2>5, <2>6
  <2>7. CASE u # t
    BY <1>4, <2>5, <2>7 DEF TInv, Control, Apart
  <2> QED
    BY <2>5, <2>6, <2>7
<1>15. YieldStaysOnThread'
  <2>1. sink'[c] = cpu[t] /\ \A m \in Mcos \ {c} : sink'[m] = sink[m]
    BY <1>1, <1>3
  <2> SUFFICES ASSUME NEW u \in Threads, NEW i \in 2 .. Len(callStack'[u])
               PROVE  sink'[callStack'[u][i]] = callStack'[u][i - 1]
    BY DEF YieldStaysOnThread
  <2>2. CASE u = t /\ i = n + 1
    BY <1>2, <1>4, <2>1, <2>2
  <2>3. CASE u = t /\ i # n + 1
    <3>1. i \in 2 .. n /\ i \in 1 .. n /\ i - 1 \in 1 .. n
      BY <1>2, <1>4, <2>3
    <3>2. Booted(t) = callStack[t]
      BY <1>2, <3>1
    <3>3. sink[callStack[t][i]] = callStack[t][i - 1]
      BY <3>1, <3>2 DEF TInv, Control, YieldStaysOnThread
    <3>4. Booted(t)[i] \in Mcos \ {c}
      BY <1>2, <1>5, <3>1
    <3> QED
      BY <1>4, <2>1, <2>3, <3>1, <3>2, <3>3, <3>4
  <2>4. CASE u # t
    <3>1. sink[callStack[u][i]] = callStack[u][i - 1]
      BY <1>4, <2>4 DEF TInv, Control, YieldStaysOnThread
    <3>2. callStack[u][i] \in Nested(u) /\ Nested(u) \subseteq Coroutines
      BY <1>4, <2>4, NestedFacts DEF Nested
    <3> QED
      BY <1>1, <1>4, <2>1, <2>4, <3>1, <3>2 DEF OffStacks
  <2> QED
    BY <2>2, <2>3, <2>4
<1>16. NoSinkOfThread' /\ start' \cap finished' = {}
  BY <1>1, <1>3 DEF TInv, Control, NoSinkOfThread
<1> QED
  BY <1>9, <1>10, <1>11, <1>12, <1>13, <1>14, <1>15, <1>16 DEF TInv, Control

(* A routine that is resumed by the one it resumed waits below it.           *)
LEMMA SinkFacts ==
  ASSUME TInv, NEW t \in Threads, NEW c \in Mcos, sink[Resumer(t)] = c
  PROVE  Resumer(t) = cpu[t] /\ Len(callStack[t]) > 1
<1>1. /\ Len(Booted(t)) \in Nat \ {0} /\ Booted(t)[1] = t
      /\ Booted(t)[Len(Booted(t))] = cpu[t] /\ Resumer(t) = cpu[t]
      /\ callStack[t] # <<>> => Booted(t) = callStack[t]
      /\ callStack[t] = <<>> => Len(Booted(t)) = 1
  BY BootedFacts
<1>2. cpu[t] # t
  BY <1>1, McoThreadsAssumption DEF TInv, Control, NoSinkOfThread
<1> QED
  BY <1>1, <1>2

(* Which operation each resume is.                                           *)
LEMMA ResumeTInv ==
  ASSUME TInv, NEW t \in Threads, NEW c \in Mcos, McoResume(t, c)
  PROVE  TInv'
<1>1. CASE sink[Resumer(t)] = c
  BY <1>1, SinkFacts, SwitchTInv DEF McoResume
<1>2. CASE sink[Resumer(t)] # c
  <2>1. c \in live \ finished /\ c \notin running
    BY <1>2 DEF McoResume, Unresumable
  <2>2. OffStacks(c)
    BY <1>2, <2>1, OffStacksFacts DEF McoResume, TInv, McoThreadsTypeOK
  <2> QED
    BY <1>2, <2>1, <2>2, PushTInv DEF McoResume
<1> QED
  BY <1>1, <1>2

LEMMA RunningFacts ==
  ASSUME TInv, NEW t \in Threads, cpu[t] \in running \ Threads
  PROVE  Len(callStack[t]) > 1
<1>1. callStack[t] \in Seq(Mcos)
  BY DEF TInv, McoThreadsTypeOK
<1> QED
  BY <1>1 DEF TInv, Control, Tops

(* McoCreate makes an object that nothing refers to.                         *)
LEMMA CreateTInv ==
  ASSUME TInv, NEW c \in Coroutines, NEW private \in BOOLEAN,
         McoCreate(c, private)
  PROVE  TInv'
<1>1. /\ c \notin live /\ live' = live \cup {c}
      /\ use_private' = IF private THEN use_private \cup {c} ELSE use_private
      /\ UNCHANGED <<start, running, finished, sink, stack_store, home, frames,
                     commonOccupy, area, callStack, cpu, fate>>
  BY DEF McoCreate, stack
<1>2. c \notin start \cup finished \cup Threads
  BY <1>1, McoThreadsAssumption DEF TInv, McoThreadsTypeOK
<1>3. McoThreadsTypeOK'
  BY <1>1 DEF TInv, McoThreadsTypeOK
<1>4. Control'
  BY <1>1 DEF TInv, Control, Tops, Stacked, Apart, NoSinkOfThread,
              YieldStaysOnThread
<1>5. Sharing' = Sharing
  BY <1>1, <1>2 DEF Sharing
<1>6. Occupants'
  BY <1>1, <1>2, <1>5 DEF TInv, Frames, Occupants
<1>7. Areas' /\ Visits' /\ TopHasFrames'
  BY <1>1, <1>5 DEF TInv, Frames, Areas, Visits, TopHasFrames
<1>8. Guests'
  <2>1. \A u \in Threads : Nested(u)' = Nested(u) /\ c \notin Nested(u)
    BY <1>1, NestedFacts DEF Nested
  <2>2. \A d : d # c => (IsPrivate(d)' <=> IsPrivate(d))
    BY <1>1 DEF IsPrivate
  <2>3. \A u \in Threads : \A h : UsedBy(u, h)' <=> UsedBy(u, h)
    BY <1>1, <2>1, <2>2 DEF UsedBy
  <2> SUFFICES ASSUME NEW t \in Threads, NEW d \in Mcos,
                      d \in Nested(t)', ~IsPrivate(d)'
               PROVE  /\ \A u \in Threads \ {t} : ~UsedBy(u, home[d])'
                      /\ home[d] # t => commonOccupy[t] = d
                                        /\ commonOccupy[home[d]] = d
    BY <1>1 DEF Guests
  <2>4. d \in Nested(t) /\ ~IsPrivate(d)
    BY <2>1, <2>2
  <2>5. \A u \in Threads \ {t} : \A h : h = home[d] => ~UsedBy(u, h)'
    BY <2>3, <2>4 DEF TInv, Frames, Guests
  <2> QED
    BY <1>1, <2>4, <2>5 DEF TInv, Frames, Guests, UsedBy
<1> QED
  BY <1>3, <1>4, <1>6, <1>7, <1>8 DEF TInv, Frames

(* McoFree leaves no reference to the routine behind.                        *)
LEMMA FreeTInv ==
  ASSUME TInv, NEW t \in Threads, NEW c \in Coroutines, McoFree(t, c)
  PROVE  TInv'
<1>1. /\ live' = live \ {c} /\ use_private' = use_private \ {c}
      /\ start' = start \ {c} /\ finished' = finished \ {c}
      /\ stack_store' = stack_store \ {c}
      /\ sink' = [sink EXCEPT ![c] = Null]
      /\ home' = [home EXCEPT ![c] = Null]
      /\ frames' = [frames EXCEPT ![c] = Null]
      /\ UNCHANGED <<running, area, callStack, cpu, fate>>
      /\ c \notin running
  BY DEF McoFree
<1>2. \A u \in Threads : c \notin Nested(u) \cup {u}
  BY OffStacksFacts DEF McoFree, OffStacks
<1>3. /\ commonOccupy' \in [Threads -> Mcos \cup {Null}]
      /\ \A u \in Threads :
           commonOccupy'[u] = IF commonOccupy[u] = c THEN Null ELSE commonOccupy[u]
  BY DEF McoFree, OccupantWithout, GetMcoStackMgr, MayFree, TInv,
         McoThreadsTypeOK
<1>4. c \in Mcos /\ \A d \in Mcos \ {c} : /\ sink'[d] = sink[d]
                                          /\ home'[d] = home[d]
                                          /\ frames'[d] = frames[d]
  BY <1>1 DEF Mcos, TInv, McoThreadsTypeOK
<1>5. McoThreadsTypeOK'
  BY <1>1, <1>3 DEF TInv, McoThreadsTypeOK
<1>6. Control'
  <2>1. \A u \in Threads : \A i \in 2 .. Len(callStack[u]) :
          callStack[u][i] \in Mcos \ {c}
    BY <1>2, NestedFacts DEF Nested, Mcos
  <2>2. Tops' /\ Stacked' /\ Apart'
    BY <1>1, <1>2, <2>1 DEF TInv, Control, Tops, Stacked, Apart
  <2>3. NoSinkOfThread' /\ YieldStaysOnThread'
    BY <1>1, <1>2, <1>4, <2>1
       DEF TInv, Control, NoSinkOfThread, YieldStaysOnThread, Mcos
  <2> QED
    BY <1>1, <2>2, <2>3 DEF TInv, Control
<1>7. /\ Sharing' = Sharing \ {c} /\ Sharing \subseteq Mcos
      /\ \A d : d # c => (IsPrivate(d)' <=> IsPrivate(d))
  BY <1>1 DEF Sharing, IsPrivate, TInv, McoThreadsTypeOK, Mcos
<1>8. Occupants'
  BY <1>1, <1>3, <1>4, <1>5, <1>7
     DEF TInv, Frames, Occupants, McoThreadsTypeOK
<1>9. Areas'
  <2> SUFFICES ASSUME NEW d \in Sharing \ {c}
               PROVE  IF d \in stack_store' THEN frames'[d] = d
                      ELSE /\ area'[home'[d]] = d
                           /\ commonOccupy'[home'[d]] = d
    BY <1>7 DEF Areas
  <2>1. /\ home[d] \in Threads /\ home'[d] = home[d] /\ frames'[d] = frames[d]
        /\ IF d \in stack_store THEN frames[d] = d
           ELSE area[home[d]] = d /\ commonOccupy[home[d]] = d
    BY <1>4, <1>7 DEF TInv, Frames, Occupants, Areas
  <2> QED
    BY <1>1, <1>3, <2>1
<1>10. Visits'
  <2> SUFFICES ASSUME NEW u \in Threads, commonOccupy'[u] # Null
               PROVE  IF home'[commonOccupy'[u]] = u
                        THEN commonOccupy'[u] \notin stack_store'
                        ELSE \A d \in Sharing' : home'[d] # u
    BY DEF Visits
  <2>1. /\ commonOccupy'[u] = commonOccupy[u]
        /\ commonOccupy[u] \in Mcos \ {c}
    BY <1>3
  <2> QED
    BY <1>1, <1>4, <1>7, <2>1 DEF TInv, Frames, Visits
<1>11. Guests'
  <2>1. \A u \in Threads : Nested(u)' = Nested(u) /\ Nested(u) \subseteq Mcos
    BY <1>1, NestedFacts DEF Nested, Mcos
  <2>2. \A u \in Threads : \A h : UsedBy(u, h)' <=> UsedBy(u, h)
    BY <1>2, <1>4, <1>7, <2>1 DEF UsedBy
  <2> SUFFICES ASSUME NEW v \in Threads, NEW d \in Mcos,
                      d \in Nested(v)', ~IsPrivate(d)'
               PROVE  /\ \A u \in Threads \ {v} : ~UsedBy(u, home[d])'
                      /\ home'[d] # v => commonOccupy'[v] = d
                                         /\ commonOccupy'[home'[d]] = d
    BY DEF Guests
  <2>3. d \in Nested(v) /\ d # c /\ ~IsPrivate(d) /\ home'[d] = home[d]
    BY <1>2, <1>4, <1>7, <2>1
  <2>4. home[d] \in Threads
    BY <2>3, NestedFacts DEF TInv, Frames, Occupants, Sharing, IsPrivate
  <2>5. \A u \in Threads \ {v} : \A h : h = home[d] => ~UsedBy(u, h)'
    BY <2>2, <2>3 DEF TInv, Frames, Guests
  <2>6. \A u \in Threads \ {v} : ~UsedBy(u, home[d])'
    BY <2>3, <2>5 DEF UsedBy
  <2> QED
    BY <1>3, <2>3, <2>4, <2>6 DEF TInv, Frames, Guests
<1>12. TopHasFrames'
  BY <1>1 DEF TInv, Frames, TopHasFrames
<1> QED
  BY <1>5, <1>6, <1>8, <1>9, <1>10, <1>11, <1>12 DEF TInv, Frames
-----------------------------------------------------------------------------
LEMMA InitTInv == Init => TInv
<1> SUFFICES ASSUME Init PROVE TInv
  OBVIOUS
<1>1. McoThreadsTypeOK
  BY DEF Init, McoThreadsTypeOK, Mcos
<1>2. Control
  BY DEF Init, Control, Tops, Stacked, Apart, NoSinkOfThread,
         YieldStaysOnThread, Mcos
<1>3. Occupants /\ Areas /\ Visits /\ TopHasFrames
  BY DEF Init, Occupants, Areas, Visits, TopHasFrames, Sharing
<1>4. Guests
  BY DEF Init, Guests, Nested
<1> QED
  BY <1>1, <1>2, <1>3, <1>4 DEF TInv, Frames

LEMMA NextTInv == TInv /\ [Next]_vars => TInv'
<1> SUFFICES ASSUME TInv, [Next]_vars PROVE TInv'
  OBVIOUS
<1>1. CASE UNCHANGED vars
  <2>1. UNCHANGED <<live, use_private, start, running, finished, stack_store,
                    sink, home, frames, callStack, commonOccupy, area, cpu,
                    fate>>
    BY <1>1 DEF vars, flags, stack
  <2>2. McoThreadsTypeOK' /\ Control'
    BY <2>1 DEF TInv, McoThreadsTypeOK, Control, Tops, Stacked, Apart,
                NoSinkOfThread, YieldStaysOnThread
  <2>3. Frames'
    BY <2>1 DEF TInv, Frames, Occupants, Areas, Visits, Guests, TopHasFrames,
                Sharing, Nested, UsedBy, IsPrivate
  <2> QED
    BY <2>2, <2>3 DEF TInv
<1>2. ASSUME NEW c \in Coroutines, NEW private \in BOOLEAN,
             McoCreate(c, private)
      PROVE  TInv'
  BY <1>2, CreateTInv
<1>3. ASSUME NEW t \in Threads, McoYield(t) PROVE TInv'
  BY <1>3, RunningFacts, SwitchTInv DEF McoYield
<1>4. ASSUME NEW t \in Threads, CoroutineRun(t) PROVE TInv'
  BY <1>4, RunningFacts, SwitchTInv DEF CoroutineRun
<1>5. ASSUME NEW t \in Threads, NEW c \in Mcos, McoResume(t, c) PROVE TInv'
  BY <1>5, ResumeTInv
<1>6. ASSUME NEW t \in Threads, NEW c \in Coroutines, McoFree(t, c)
      PROVE  TInv'
  BY <1>6, FreeTInv
<1> QED
  BY <1>1, <1>2, <1>3, <1>4, <1>5, <1>6 DEF Next

(* Call stacks, flags, managers and areas of all threads stay consistent as  *)
(* routines move from one thread to another.                                 *)
THEOREM ThreadsInvariance == Spec => []TInv
<1>1. Init => TInv
  BY InitTInv
<1>2. TInv /\ [Next]_vars => TInv'
  BY NextTInv
<1> QED
  BY <1>1, <1>2, PTL DEF Spec

LEMMA TInvImplies ==
  ASSUME TInv
  PROVE  /\ McoThreadsTypeOK /\ OneThreadPerRoutine /\ FramesAreOwn
         /\ YieldStaysOnThread
<1>1. OneThreadPerRoutine
  <2>1. \A t, u \in Threads : t # u => cpu[t] # cpu[u]
    <3> SUFFICES ASSUME NEW t \in Threads, NEW u \in Threads \ {t}
                 PROVE  cpu[t] # cpu[u]
      OBVIOUS
    <3>1. /\ cpu[t] \in Nested(t) \cup {t} /\ cpu[u] \in Nested(u) \cup {u}
          /\ Nested(t) \subseteq Coroutines /\ Nested(u) \subseteq Coroutines
          /\ Nested(t) \cap Nested(u) = {}
      BY NestedFacts
    <3> QED
      BY <3>1, McoThreadsAssumption
  <2> QED
    BY <2>1 DEF OneThreadPerRoutine, TInv, Control
<1>2. FramesAreOwn
  <2>1. \A c \in start : ~IsPrivate(c) => c \in Sharing
    BY DEF Sharing, IsPrivate
  <2>2. \A t \in Threads : ~IsPrivate(cpu[t]) => cpu[t] \in Sharing
    BY NestedFacts DEF Sharing, IsPrivate
  <2> QED
    BY <2>1, <2>2 DEF FramesAreOwn, TInv, Frames, Areas, TopHasFrames
<1> QED
  BY <1>1, <1>2 DEF TInv, Control
-----------------------------------------------------------------------------
(* The refinement of MovingCoroutines, in terms of start, finished, live and *)
(* the call stacks alone: what the invariant says of sinks, registers and    *)
(* frames takes care of the rest.                                            *)
Life(c) ==
  IF c \notin live THEN "absent"
  ELSE IF c \in finished THEN "finished"
  ELSE IF \E t \in Threads : c \in Nested(t) THEN "active"
  ELSE IF c \in start THEN "suspended"
  ELSE "fresh"

Lives == [c \in Coroutines |-> Life(c)]
Chains == [t \in Threads |-> Booted(t)]
Owned == [c \in Coroutines |-> IF c \in start THEN c ELSE Null]

Mapped ==
  /\ [c \in Coroutines |-> Status(c)] = Lives
  /\ [t \in Threads |-> Chain(t)] = Chains
  /\ [c \in Coroutines |-> Contents(c)] = Owned

LEMMA MappedFacts ==
  ASSUME TInv
  PROVE  Mapped
<1>1. \A c \in Coroutines : Status(c) = Life(c)
  <2> SUFFICES ASSUME NEW c \in Coroutines
               PROVE  (\E t \in Threads : c \in Range(callStack[t]))
                        <=> \E t \in Threads : c \in Nested(t)
    BY DEF Status, Life
  <2> SUFFICES ASSUME NEW t \in Threads
               PROVE  c \in Range(callStack[t]) <=> c \in Nested(t)
    OBVIOUS
  <2>1. callStack[t] \in Seq(Mcos) /\ c # t
    BY McoThreadsAssumption DEF TInv, McoThreadsTypeOK
  <2>2. Range(callStack[t]) = {callStack[t][i] : i \in 1 .. Len(callStack[t])}
    BY <2>1 DEF Range
  <2>3. ASSUME NEW i \in 1 .. Len(callStack[t]), callStack[t][i] = c
        PROVE  i \in 2 .. Len(callStack[t])
    BY <2>1, <2>3 DEF TInv, Control, Tops
  <2>4. \A i \in 2 .. Len(callStack[t]) : i \in 1 .. Len(callStack[t])
    BY <2>1
  <2> QED
    BY <2>2, <2>3, <2>4 DEF Nested
<1>2. \A t \in Threads : Chain(t) = Booted(t)
  <2> SUFFICES ASSUME NEW t \in Threads PROVE Chain(t) = Booted(t)
    OBVIOUS
  <2>1. /\ Booted(t) \in Seq(Mcos) /\ Len(Booted(t)) \in Nat \ {0}
        /\ cpu[t] = Booted(t)[Len(Booted(t))] /\ cpu[t] \in Mcos
    BY BootedFacts DEF TInv, McoThreadsTypeOK
  <2>2. \A s \in Seq(Mcos) : Len(s) > 0 =>
          Append(SubSeq(s, 1, Len(s) - 1), s[Len(s)]) = s
    OBVIOUS
  <2> QED
    BY <2>1, <2>2 DEF Chain, Front
<1>3. \A c \in Coroutines : Contents(c) = IF c \in start THEN c ELSE Null
  <2> SUFFICES ASSUME NEW c \in Coroutines, c \in start, ~IsPrivate(c)
               PROVE  (IF c \in stack_store THEN frames[c] ELSE area[home[c]])
                        = c
    BY DEF Contents
  <2>1. c \in Sharing
    BY DEF Sharing, IsPrivate
  <2> QED
    BY <2>1 DEF TInv, Frames, Areas
<1> QED
  BY <1>1, <1>2, <1>3 DEF Mapped, Lives, Chains, Owned

(* Create, Resume, Yield, Finish and Free of MovingCoroutines.               *)
Made(c) ==
  /\ Lives[c] = "absent" /\ Lives' = [Lives EXCEPT ![c] = "fresh"]
  /\ Chains' = Chains /\ Owned' = Owned

Resumed(t, c) ==
  /\ Lives[c] \in {"fresh", "suspended"}
  /\ Lives' = [Lives EXCEPT ![c] = "active"]
  /\ Chains' = [Chains EXCEPT ![t] = Append(Chains[t], c)]
  /\ Owned' = IF Lives[c] = "fresh" THEN [Owned EXCEPT ![c] = c] ELSE Owned

Left(t, c, ends) ==
  /\ Last(Chains[t]) = c /\ c # t
  /\ Lives' = [Lives EXCEPT ![c] = IF ends THEN "finished" ELSE "suspended"]
  /\ Chains' = [Chains EXCEPT ![t] = Front(Chains[t])]
  /\ Owned' = IF ends THEN [Owned EXCEPT ![c] = Null] ELSE Owned

Freed(c) ==
  /\ Lives[c] \in {"suspended", "finished"}
  /\ Lives' = [Lives EXCEPT ![c] = "absent"]
  /\ Owned' = [Owned EXCEPT ![c] = Null]
  /\ Chains' = Chains

(* McoCreate is Create.                                                      *)
LEMMA CreateMoves ==
  ASSUME TInv, NEW c \in Coroutines, NEW private \in BOOLEAN,
         McoCreate(c, private)
  PROVE  Made(c)
<1>1. /\ c \notin live /\ live' = live \cup {c}
      /\ UNCHANGED <<start, finished, callStack>>
  BY DEF McoCreate
<1>2. c \notin start /\ c \notin finished
  BY <1>1, McoThreadsAssumption DEF TInv, McoThreadsTypeOK
<1>3. \A u \in Threads : c \notin Nested(u) /\ Nested(u)' = Nested(u)
  BY <1>1, NestedFacts DEF Nested
<1>4. Life(c) = "absent" /\ Life(c)' = "fresh"
  BY <1>1, <1>2, <1>3 DEF Life
<1>5. \A d \in Coroutines \ {c} : Life(d)' = Life(d)
  BY <1>1, <1>3 DEF Life
<1>6. Lives[c] = "absent" /\ Lives' = [Lives EXCEPT ![c] = "fresh"]
  BY <1>4, <1>5 DEF Lives
<1>7. Chains' = Chains /\ Owned' = Owned
  BY <1>1 DEF Chains, Owned, Booted
<1> QED
  BY <1>6, <1>7 DEF Made

(* McoResume of a routine that is on no call stack is Resume.                *)
LEMMA PushMoves ==
  ASSUME TInv, NEW t \in Threads, NEW c \in live \ finished, OffStacks(c),
         Push(t, c)
  PROVE  c \in Coroutines /\ Resumed(t, c)
<1> DEFINE n == Len(Booted(t))
<1>1. /\ callStack \in [Threads -> Seq(Mcos)] /\ c \in Coroutines
      /\ Threads \cap Coroutines = {} /\ c \in Mcos
  BY McoThreadsAssumption DEF TInv, McoThreadsTypeOK, Mcos
<1>2. /\ Booted(t) \in Seq(Mcos) /\ n \in Nat \ {0}
      /\ Nested(t) = {Booted(t)[i] : i \in 2 .. n}
  BY BootedFacts
<1>3. /\ callStack' = [callStack EXCEPT ![t] = Append(Booted(t), c)]
      /\ start' = start \cup {t, c}
      /\ UNCHANGED <<live, finished>>
  BY DEF Push
<1>4. /\ callStack'[t] = Append(Booted(t), c) /\ callStack'[t] # <<>>
      /\ Len(callStack'[t]) = n + 1 /\ callStack'[t][n + 1] = c
      /\ \A i \in 1 .. n : callStack'[t][i] = Booted(t)[i]
      /\ \A u \in Threads \ {t} : callStack'[u] = callStack[u]
  BY <1>1, <1>2, <1>3, AppendFacts
<1>5. Nested(t)' = Nested(t) \cup {c}
  <2>1. \A i \in 2 .. n + 1 : i = n + 1 \/ (i \in 2 .. n /\ i \in 1 .. n)
    BY <1>2
  <2>2. \A i \in 2 .. n : i \in 2 .. n + 1 /\ i \in 1 .. n
    BY <1>2
  <2>3. n + 1 \in 2 .. n + 1
    BY <1>2
  <2>4. {callStack'[t][i] : i \in 2 .. n + 1}
          = {Booted(t)[i] : i \in 2 .. n} \cup {c}
    BY <1>4, <2>1, <2>2, <2>3
  <2> QED
    BY <1>2, <1>4, <2>4 DEF Nested
<1>6. \A u \in Threads \ {t} : Nested(u)' = Nested(u)
  BY <1>4 DEF Nested
<1>7. Life(c)' = "active"
  BY <1>3, <1>5 DEF Life
<1>8. \A d \in Coroutines \ {c} : Life(d)' = Life(d)
  <2> SUFFICES ASSUME NEW d \in Coroutines \ {c} PROVE Life(d)' = Life(d)
    OBVIOUS
  <2>1. \A u \in Threads : d \in Nested(u)' <=> d \in Nested(u)
    BY <1>5, <1>6
  <2>2. (d \in start' <=> d \in start) /\ live' = live /\ finished' = finished
    BY <1>1, <1>3
  <2> QED
    BY <2>1, <2>2 DEF Life
<1>9. Life(c) = IF c \in start THEN "suspended" ELSE "fresh"
  BY DEF Life, OffStacks
<1>10. Lives' = [Lives EXCEPT ![c] = "active"]
  BY <1>1, <1>7, <1>8 DEF Lives
<1>11. Chains' = [Chains EXCEPT ![t] = Append(Chains[t], c)]
  <2>1. Booted(t)' = Append(Booted(t), c)
    BY <1>4 DEF Booted
  <2>2. \A u \in Threads \ {t} : Booted(u)' = Booted(u)
    BY <1>4 DEF Booted
  <2> QED
    BY <2>1, <2>2 DEF Chains
<1>12. Owned' = IF c \in start THEN Owned ELSE [Owned EXCEPT ![c] = c]
  BY <1>1, <1>3 DEF Owned
<1> QED
  BY <1>1, <1>9, <1>10, <1>11, <1>12 DEF Resumed, Lives

(* McoYield, and McoResume of the routine below, is Yield; the end of a      *)
(* routine is Finish.                                                        *)
LEMMA SwitchMoves ==
  ASSUME TInv, NEW t \in Threads, Len(callStack[t]) > 1, NEW ends \in BOOLEAN,
         NEW c, c = cpu[t], SwitchToSink(t, c, ends)
  PROVE  c \in Coroutines /\ Left(t, c, ends)
<1> DEFINE n == Len(callStack[t])
<1>1. /\ callStack \in [Threads -> Seq(Mcos)] /\ callStack[t] \in Seq(Mcos)
      /\ n \in Nat /\ n > 1
  BY DEF TInv, McoThreadsTypeOK
<1>2. /\ c = callStack[t][n] /\ c \in (live \cap start) \ finished
      /\ c \in Nested(t) /\ c \in Coroutines /\ c # t
  <2>1. c = callStack[t][n] /\ n \in 2 .. n
    BY <1>1 DEF TInv, Control, Tops
  <2>2. c \in Nested(t)
    BY <2>1 DEF Nested
  <2> QED
    BY <2>1, <2>2, NestedFacts, McoThreadsAssumption
<1>3. /\ finished' = IF ends THEN finished \cup {c} ELSE finished
      /\ start' = IF ends THEN start \ {c} ELSE start
      /\ callStack' = [callStack EXCEPT ![t] = Front(callStack[t])]
      /\ live' = live
  BY DEF SwitchToSink
<1>4. /\ callStack'[t] = Front(callStack[t]) /\ callStack'[t] # <<>>
      /\ Len(callStack'[t]) = n - 1
      /\ \A i \in 1 .. n - 1 : callStack'[t][i] = callStack[t][i]
      /\ \A u \in Threads \ {t} : callStack'[u] = callStack[u]
  BY <1>1, <1>3, FrontFacts
<1>5. Nested(t)' = Nested(t) \ {c}
  <2>1. \A i \in 2 .. n : i = n \/ (i \in 2 .. n - 1 /\ i \in 1 .. n - 1)
    BY <1>1
  <2>2. \A i \in 2 .. n - 1 : i \in 2 .. n /\ i \in 1 .. n - 1 /\ i # n
                              /\ i \in 1 .. n /\ n \in 1 .. n
    BY <1>1
  <2>3. \A i \in 2 .. n - 1 : callStack[t][i] # c
    BY <1>2, <2>2 DEF TInv, Control, Apart
  <2>4. {callStack'[t][i] : i \in 2 .. n - 1}
          = {callStack[t][i] : i \in 2 .. n - 1}
    <3>1. \A i \in 2 .. n - 1 : callStack'[t][i] = callStack[t][i]
      BY <1>4, <2>2
    <3> QED
      BY <3>1
  <2>5. {callStack[t][i] : i \in 2 .. n - 1}
          = {callStack[t][i] : i \in 2 .. n} \ {c}
    <3>1. callStack[t][n] = c
      BY <1>2
    <3> QED
      BY <2>1, <2>2, <2>3, <3>1
  <2> QED
    BY <1>4, <2>4, <2>5 DEF Nested
<1>6. \A u \in Threads \ {t} : Nested(u)' = Nested(u) /\ c \notin Nested(u)
  <2>1. \A u \in Threads \ {t} : Nested(u)' = Nested(u)
    BY <1>4 DEF Nested
  <2>2. \A u \in Threads \ {t} : c \notin Nested(u)
    BY <1>2, NestedFacts
  <2> QED
    BY <2>1, <2>2
<1>7. Life(c)' = IF ends THEN "finished" ELSE "suspended"
  BY <1>2, <1>3, <1>5, <1>6 DEF Life
<1>8. \A d \in Coroutines \ {c} : Life(d)' = Life(d)
  <2> SUFFICES ASSUME NEW d \in Coroutines \ {c} PROVE Life(d)' = Life(d)
    OBVIOUS
  <2>1. \A u \in Threads : d \in Nested(u)' <=> d \in Nested(u)
    BY <1>5, <1>6
  <2>2. /\ d \in start' <=> d \in start
        /\ d \in finished' <=> d \in finished
        /\ live' = live
    BY <1>3
  <2> QED
    BY <2>1, <2>2 DEF Life
<1>9. Lives' = [Lives EXCEPT ![c] = IF ends THEN "finished" ELSE "suspended"]
  BY <1>2, <1>7, <1>8 DEF Lives
<1>10. Booted(t) = callStack[t] /\ Booted(t)' = Front(Booted(t))
  BY <1>1, <1>4 DEF Booted
<1>11. \A u \in Threads \ {t} : Booted(u)' = Booted(u)
  BY <1>4 DEF Booted
<1>12. Chains' = [Chains EXCEPT ![t] = Front(Chains[t])]
  BY <1>10, <1>11 DEF Chains
<1>13. Last(Chains[t]) = c
  BY <1>2, <1>10 DEF Chains, Last
<1>14. Owned' = IF ends THEN [Owned EXCEPT ![c] = Null] ELSE Owned
  BY <1>2, <1>3 DEF Owned
<1> QED
  BY <1>2, <1>9, <1>12, <1>13, <1>14 DEF Left

(* McoFree is Free.                                                          *)
LEMMA FreeMoves ==
  ASSUME TInv, NEW t \in Threads, NEW c \in Coroutines, McoFree(t, c)
  PROVE  Freed(c)
<1>1. /\ c \in (live \ running) \cap (start \cup finished) /\ ~Waits(c)
      /\ live' = live \ {c} /\ start' = start \ {c}
      /\ finished' = finished \ {c} /\ callStack' = callStack
  BY DEF McoFree
<1>2. \A u \in Threads : c \notin Nested(u) /\ Nested(u)' = Nested(u)
  BY <1>1, OffStacksFacts DEF OffStacks, Nested
<1>3. Life(c) \in {"suspended", "finished"} /\ Life(c)' = "absent"
  BY <1>1, <1>2 DEF Life
<1>4. \A d \in Coroutines \ {c} : Life(d)' = Life(d)
  BY <1>1, <1>2 DEF Life
<1>5. Lives[c] \in {"suspended", "finished"}
      /\ Lives' = [Lives EXCEPT ![c] = "absent"]
  BY <1>3, <1>4 DEF Lives
<1>6. Owned' = [Owned EXCEPT ![c] = Null] /\ Chains' = Chains
  BY <1>1 DEF Owned, Chains, Booted
<1> QED
  BY <1>5, <1>6 DEF Freed

(* Every step of the runtimes is one of these.                               *)
LEMMA NextMoves ==
  ASSUME TInv, Next
  PROVE  \/ \E c \in Coroutines : Made(c) \/ Freed(c)
         \/ \E t \in Threads, c \in Coroutines :
              \/ Resumed(t, c)
              \/ \E ends \in BOOLEAN : Left(t, c, ends)
<1>1. ASSUME NEW c \in Coroutines, NEW private \in BOOLEAN,
             McoCreate(c, private)
      PROVE  Made(c)
  BY <1>1, CreateMoves
<1>2. ASSUME NEW t \in Threads, NEW c \in Coroutines, McoFree(t, c)
      PROVE  Freed(c)
  BY <1>2, FreeMoves
<1>3. ASSUME NEW t \in Threads, McoYield(t) \/ CoroutineRun(t)
      PROVE  \E c \in Coroutines, ends \in BOOLEAN : Left(t, c, ends)
  BY <1>3, RunningFacts, SwitchMoves DEF McoYield, CoroutineRun
<1>4. ASSUME NEW t \in Threads, NEW c \in Mcos, McoResume(t, c)
      PROVE  \E d \in Coroutines :
               Resumed(t, d) \/ \E ends \in BOOLEAN : Left(t, d, ends)
  <2>1. CASE sink[Resumer(t)] = c
    <3>1. Resumer(t) = cpu[t] /\ Len(callStack[t]) > 1
      BY <1>4, <2>1, SinkFacts
    <3> QED
      BY <1>4, <2>1, <3>1, SwitchMoves DEF McoResume
  <2>2. CASE sink[Resumer(t)] # c
    <3>1. c \in live \ finished /\ OffStacks(c)
      BY <1>4, <2>2, OffStacksFacts
         DEF McoResume, Unresumable, TInv, McoThreadsTypeOK
    <3> QED
      BY <1>4, <2>2, <3>1, PushMoves DEF McoResume
  <2> QED
    BY <2>1, <2>2
<1> QED
  BY <1>1, <1>2, <1>3, <1>4 DEF Next

LEMMA InitMaps == Init => Moving!Init
<1> SUFFICES ASSUME Init PROVE Moving!Init
  OBVIOUS
<1>1. \A c \in Coroutines : Life(c) = "absent"
  BY DEF Init, Life
<1>2. \A t \in Threads : Booted(t) = <<t>>
  BY DEF Init, Booted
<1>3. start = {}
  BY DEF Init
<1> QED
  BY <1>1, <1>2, <1>3, InitTInv, MappedFacts
     DEF Moving!Init, Mapped, Lives, Chains, Owned

LEMMA NextMaps ==
  ASSUME TInv, Mapped, Mapped', [Next]_vars
  PROVE  [Moving!Next]_(Moving!vars)
<1> DEFINE status == [c \in Coroutines |-> Status(c)]
           control == [t \in Threads |-> Chain(t)]
           contents == [c \in Coroutines |-> Contents(c)]
<1>1. /\ status = Lives /\ control = Chains /\ contents = Owned
      /\ status' = Lives' /\ control' = Chains' /\ contents' = Owned'
  BY DEF Mapped
<1>2. CASE UNCHANGED vars
  <2>1. Lives' = Lives /\ Chains' = Chains /\ Owned' = Owned
    BY <1>2 DEF vars, flags, Lives, Life, Nested, Chains, Booted, Owned
  <2> QED
    BY <1>1, <2>1 DEF Moving!vars
<1>3. ASSUME NEW c \in Coroutines, Made(c) PROVE Moving!Create(c)
  BY <1>1, <1>3 DEF Made, Moving!Create
<1>4. ASSUME NEW c \in Coroutines, Freed(c) PROVE Moving!Free(c)
  BY <1>1, <1>4 DEF Freed, Moving!Free
<1>5. ASSUME NEW t \in Threads, NEW c \in Coroutines, Resumed(t, c)
      PROVE  Moving!Resume(t, c)
  BY <1>1, <1>5 DEF Resumed, Moving!Resume
<1>6. ASSUME NEW t \in Threads, NEW c \in Coroutines, NEW ends \in BOOLEAN,
             Left(t, c, ends)
      PROVE  Moving!Yield(t) \/ Moving!Finish(t)
  <2>1. Moving!Running(t) = c
    BY <1>1, <1>6 DEF Left, Moving!Running, Moving!Last, Last
  <2>2. Moving!Front(control[t]) = Front(control[t])
    BY DEF Moving!Front, Front
  <2>3. CASE ends
    BY <1>1, <1>6, <2>1, <2>2, <2>3 DEF Left, Moving!Finish
  <2>4. CASE ~ends
    BY <1>1, <1>6, <2>1, <2>2, <2>4 DEF Left, Moving!Yield
  <2> QED
    BY <2>3, <2>4
<1> QED
  BY <1>2, <1>3, <1>4, <1>5, <1>6, NextMoves DEF Moving!Next
-----------------------------------------------------------------------------
(* Type correctness.                                                         *)
THEOREM McoThreadsTypeCorrect == Spec => []McoThreadsTypeOK
BY ThreadsInvariance, TInvImplies, PTL

(* The running flag that McoResume tests keeps a routine on one thread.      *)
THEOREM OneThreadRunsIt == Spec => []OneThreadPerRoutine
BY ThreadsInvariance, TInvImplies, PTL

(* Under the contract of guests McoSwap never lets a thread execute on       *)
(* frames that another routine has overwritten.                              *)
THEOREM FramesStayOwn == Spec => []FramesAreOwn
BY ThreadsInvariance, TInvImplies, PTL

(* The sink that each resume writes is the routine below on that thread.     *)
THEOREM YieldsStay == Spec => []YieldStaysOnThread
BY ThreadsInvariance, TInvImplies, PTL

(* Of McoResume, McoYield, McoSwap and McoFree on any number of threads: a   *)
(* routine that goes from thread to thread keeps its frames, its place in    *)
(* one call stack and its way back.                                          *)
THEOREM MovingRefinement == Spec => ImplementsMovingCoroutines
<1>1. Init => Moving!Init
  BY InitMaps
<1>2. TInv /\ Mapped /\ Mapped' /\ [Next]_vars
        => [Moving!Next]_(Moving!vars)
  BY NextMaps
<1> QED
  BY <1>1, <1>2, MappedFacts, ThreadsInvariance, PTL
     DEF Spec, ImplementsMovingCoroutines, Moving!Spec

=============================================================================
