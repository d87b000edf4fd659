----------------------------- MODULE ServerProofs -----------------------------
(***************************************************************************)
(* Theorems about Server for any number of threads, connections and        *)
(* descriptors and for both programs, with one of the two remedies for the *)
(* race on McoPool: its calls serialised, or a main loop without workers.  *)
(* They hold with and without assertions compiled in, but for what an      *)
(* assertion's argument does.                                              *)
(***************************************************************************)
EXTENDS Server, FiniteSetTheorems, WellFoundedInduction, TLAPS

Serialised == GuardedPool \/ Threads = {MainThread}

Handing == {"insert", "inserting", "register"}
Over == {"return", "done"}

(* test/HookApi.cpp runs its accepting coroutine before it is registered.    *)
Fresh == ~boundEvents /\ at[Listener] = "call" /\ state_[Listener] = "new"

(* The coroutines whose descriptor is open, and those that a loop has.       *)
Live == {c \in Mcos : fd[c] # Null /\ at[c] \notin Over}
Served == {c \in Live : ~Unregistered(c) /\ ~(c = Listener /\ Fresh)}

(* Those that were closed and not erased: without assertions, all.           *)
Left == {c \in Mcos : at[c] \in Over /\ ~Asserts}

(* A loop that waits runs nothing; a coroutine that runs is current, on the  *)
(* thread that its Events names.                                             *)
Scheduling ==
  /\ \A t \in Threads :
       /\ 0 < maxNum_[t] /\ maxNum_[t] <= room[t]
       /\ pc[t] # "batch" => on[t] = Null /\ occur[t] = {}
       /\ on[t] # Null =>
            /\ tid_[on[t]] = t /\ at[on[t]] \in RunningPoints
            /\ at[on[t]] # "return" => cur_[t] = on[t]
       /\ cur_[t] # Null =>
            tid_[cur_[t]] = t /\ at[cur_[t]] \notin {"first"} \cup Over
  /\ \A c \in Mcos : at[c] \in RunningPoints => on[tid_[c]] = c

(* No two open files have one descriptor.                                    *)
Descriptions ==
  /\ fd[Listener] = ListenFd /\ tid_[Listener] = MainThread
  /\ at[Listener] \notin {"close"} \cup Over
  /\ at[Listener] = "first" => boundEvents
  /\ closed = {}
  /\ \A c \in Conns :
       /\ fd[c] \in Fds \cup {Null} /\ at[c] \notin Handing
       /\ fd[c] = Null => at[c] = "first" /\ got # c
  /\ \A c, d \in Live \cup Left : fd[c] = fd[d] => c = d
  /\ \A i, j \in 1 .. Len(backlog) : backlog[i] = backlog[j] => i = j
  /\ \A i \in 1 .. Len(backlog) : fd[backlog[i]] = Null

(* The connection that accept() is handing to a loop.  Behind updateEvents   *)
(* another thread may be anywhere with it.                                   *)
Handover ==
  IF at[Listener] \in Handing
    THEN /\ state_[Listener] # "new"
         /\ got \in Conns /\ to \in Threads
         /\ fd[got] # Null /\ at[got] = "first"
         /\ at[Listener] = "register" =>
              tid_[got] = to /\ fdMcos_[to][fd[got]] = got
    ELSE IF at[Listener] = "leave"
    THEN /\ state_[Listener] # "new"
         /\ got \in Conns /\ fd[got] # Null
         /\ tid_[got] = MainThread => at[got] = "first"
    ELSE got = Null

(* The tables of the threads name the coroutines that are served, and those  *)
(* that were not erased, ...                                                 *)
Tables ==
  /\ \A t \in Threads, f \in Descriptors :
       /\ fdMcos_[t][f] # Null =>
            /\ fd[fdMcos_[t][f]] = f /\ tid_[fdMcos_[t][f]] = t
            /\ \/ fdMcos_[t][f] \in Served
               \/ fdMcos_[t][f] = got /\ at[Listener] = "register"
       /\ events_[t][f] # Null =>
            /\ fd[events_[t][f]] = f /\ tid_[events_[t][f]] = t
            /\ events_[t][f] \in Served \cup Left
  /\ \A t \in Threads, c \in Mcos : epoll[t][c] # "out" =>
       tid_[c] = t /\ c \in Served

(* ... each in the thread that its Events names, ready to be resumed.        *)
Entered ==
  \A c \in Served :
    /\ fdMcos_[tid_[c]][fd[c]] = c /\ events_[tid_[c]][fd[c]] = c
    /\ epoll[tid_[c]][c] # "out"
    /\ epoll[tid_[c]][c] = "off" => at[c] \in RunningPoints
    /\ at[c] \in {"first", "await"} => eorigin_[c] /\ state_[c] # "del"

Leftovers == \A c \in Left : events_[tid_[c]][fd[c]] = c

(* What loop() will resume still waits, and has something to resume for.     *)
Occurrences ==
  \A t \in Threads : \A f \in occur[t] \ {WakeFd} :
    /\ events_[t][f] # Null /\ at[events_[t][f]] \in {"first", "await"}
    /\ Signalled(events_[t][f])

Reads ==
  /\ \A c \in Mcos : at[c] = "woken" => Signalled(c)
  /\ \A c \in Conns : at[c] \in {"close"} \cup Over => c \in hung /\ sent[c] = 0

SInv ==
  /\ ServerTypeOK /\ fate = "ok"
  /\ Scheduling /\ Descriptions /\ Handover /\ Tables /\ Entered
  /\ Leftovers /\ Occurrences /\ Reads
-----------------------------------------------------------------------------
(* Facts about the operators of the community modules.                       *)
LEMMA LeastFacts ==
  ASSUME NEW S \in SUBSET Nat, S # {}
  PROVE  \E f \in S : \A g \in S : f <= g
<1>1. IsWellFoundedOn(OpToRel(<, Nat), Nat)
  BY NatLessThanWellFounded
<1>2. PICK f \in S : \A g \in S : ~ (<<g, f>> \in OpToRel(<, Nat))
  BY <1>1, WFMin
<1>3. \A g \in S : ~ (g < f)
  BY <1>2 DEF OpToRel
<1> QED
  BY <1>3

LEMMA MaxFacts ==
  ASSUME NEW a \in Nat, NEW b \in Nat
  PROVE  Max({a, b}) \in Nat /\ Max({a, b}) >= a /\ Max({a, b}) >= b
<1>1. \E x \in {a, b} : \A y \in {a, b} : x >= y
  <2>1. CASE a >= b
    BY <2>1
  <2>2. CASE b >= a
    BY <2>2
  <2> QED
    BY <2>1, <2>2
<1> QED
  BY <1>1 DEF Max

LEMMA MinFacts ==
  ASSUME NEW a \in Nat, NEW b \in Nat
  PROVE  Min({a, b}) \in Nat /\ Min({a, b}) <= a /\ Min({a, b}) <= b
<1>1. \E x \in {a, b} : \A y \in {a, b} : x =< y
  <2>1. CASE a >= b
    BY <2>1
  <2>2. CASE b >= a
    BY <2>2
  <2> QED
    BY <2>1, <2>2
<1> QED
  BY <1>1 DEF Min

(* Simple consequences of the invariant.                                     *)
LEMMA BasicFacts ==
  ASSUME SInv
  PROVE  /\ Listener \in Mcos /\ Conns \subseteq Mcos /\ Null \notin Mcos
         /\ MainThread \in Threads
         /\ Live \subseteq Mcos /\ Served \subseteq Live
         /\ \A c \in Live : fd[c] \in Descriptors
         /\ \A c \in Mcos : tid_[c] \in Threads
BY ServerAssumption
   DEF SInv, ServerTypeOK, Descriptions, Mcos, Live, Served, Descriptors

LEMMA LeftFacts ==
  ASSUME SInv, NEW c \in Left
  PROVE  /\ c \in Conns /\ c \in Mcos /\ c # Listener /\ c \notin Live
         /\ fd[c] \in Fds /\ fd[c] \in Descriptors /\ fd[c] # Null
         /\ at[c] \in Over /\ tid_[c] \in Threads /\ ~Unregistered(c)
<1>1. at[c] \in Over /\ c \in Mcos /\ c \notin Live
  BY DEF Left, Live
<1>2. c # Listener
  BY <1>1 DEF SInv, Descriptions
<1>3. c \in Conns
  BY <1>1, <1>2 DEF Mcos
<1>4. at[c] # "first"
  BY <1>1 DEF Over
<1>5. fd[c] \in Fds /\ fd[c] # Null
  BY <1>3, <1>4 DEF SInv, Descriptions
<1>6. ~Unregistered(c)
  BY <1>1, <1>3, <1>4, BasicFacts DEF SInv, Handover, Unregistered
<1> QED
  BY <1>1, <1>2, <1>3, <1>5, <1>6, BasicFacts DEF Descriptors

LEMMA InitSInv == Init => SInv
<1> SUFFICES ASSUME Init PROVE SInv
  OBVIOUS
<1>1. ServerTypeOK
  BY ServerAssumption DEF Init, ServerTypeOK, Mcos, Descriptors, RunningPoints
<1>2. \A c \in Mcos : c # Listener => c \in Conns /\ fd[c] = Null /\ at[c] = "first"
  BY DEF Init, Mcos
<1>3. Listener \in Mcos /\ fd[Listener] = ListenFd /\ ListenFd \in Descriptors
      /\ ListenFd # Null /\ MainThread \in Threads
  BY ServerAssumption DEF Init, Mcos, Descriptors
<1>4. Served = {c \in {Listener} : boundEvents} /\ Live = {Listener}
  BY <1>2, <1>3, ServerAssumption
     DEF Init, Served, Live, Fresh, Over, Mcos, Unregistered
<1>5. Scheduling
  BY <1>2, <1>3, ServerAssumption DEF Init, Scheduling, RunningPoints, Over
<1>6. Descriptions
  <2>1. Left = {}
    BY <1>2, <1>3 DEF Init, Left, Over
  <2> QED
    BY <1>2, <1>3, <1>4, <2>1, ServerAssumption
       DEF Init, Descriptions, Handing, Over, Mcos
<1>7. Handover
  BY <1>3 DEF Init, Handover, Handing
<1>8. Tables
  BY <1>3, <1>4, ServerAssumption DEF Init, Tables
<1>9. Entered /\ Leftovers
  <2>1. Left = {}
    BY <1>2, <1>3 DEF Init, Left, Over
  <2> QED
    BY <1>3, <1>4, <2>1, ServerAssumption DEF Init, Entered, Leftovers
<1>10. Occurrences /\ Reads
  BY <1>2, <1>3, ServerAssumption
     DEF Init, Occurrences, Reads, Mcos, Over
<1> QED
  BY <1>1, <1>5, <1>6, <1>7, <1>8, <1>9, <1>10 DEF SInv, Init
-----------------------------------------------------------------------------
(* loop() outside a coroutine.                                               *)
LEMMA WaitFacts ==
  ASSUME SInv, NEW t \in Threads
  PROVE  /\ Ready(t) \subseteq Descriptors \cup {WakeFd}
         /\ IsFiniteSet(Ready(t)) /\ Cardinality(Ready(t)) \in Nat
         /\ \A f \in Ready(t) \ {WakeFd} :
              \E c \in Served : fd[c] = f /\ tid_[c] = t /\ Signalled(c)
                                /\ epoll[t][c] = "in"
<1>1. \A c \in Mcos : epoll[t][c] = "in" => c \in Served /\ tid_[c] = t
  BY DEF SInv, Tables
<1>2. Ready(t) \subseteq Descriptors \cup {WakeFd}
  BY <1>1, BasicFacts DEF Ready
<1>3. IsFiniteSet(Descriptors \cup {WakeFd})
  <2>1. IsFiniteSet(Fds \cup {ListenFd})
    BY ServerAssumption, FS_AddElement
  <2> QED
    BY <2>1, FS_AddElement DEF Descriptors
<1>4. IsFiniteSet(Ready(t)) /\ Cardinality(Ready(t)) \in Nat
  BY <1>2, <1>3, FS_Subset, FS_CardinalityType
<1> QED
  BY <1>1, <1>2, <1>4 DEF Ready

LEMMA EpollWaitSInv ==
  ASSUME SInv, NEW t \in Threads, EpollWait(t)
  PROVE  SInv'
<1> DEFINE n == Min({Cardinality(Ready(t)), maxNum_[t]})
<1>1. /\ fate = "ok" /\ on[t] = Null /\ pc[t] = "wait"
      /\ maxNum_' = [maxNum_ EXCEPT ![t] = GrownNum(t, n)]
      /\ room' = [room EXCEPT ![t] = GrownRoom(t, n)]
      /\ fate' = IF n > room[t] THEN "ub" ELSE "ok"
      /\ pc' = [pc EXCEPT ![t] = "batch"]
      /\ UNCHANGED <<boundEvents, allowed, backlog, sent, urgent, hung, fd,
                     closed, wake, quit_, quitting, events_, epoll, state_,
                     eorigin_, tid_, fdMcos_, cur_, on, at, got, to>>
  BY DEF EpollWait, Looping, kernel, tables, pools
<1>2. PICK some \in kSubset(n, Ready(t)) : occur' = [occur EXCEPT ![t] = some]
  BY DEF EpollWait
<1>3. some \subseteq Ready(t)
  BY <1>2 DEF kSubset
<1>4. /\ maxNum_[t] \in Nat /\ room[t] \in Nat /\ maxNum_[t] <= room[t]
      /\ 0 < maxNum_[t]
      /\ maxNum_ \in [Threads -> Nat] /\ room \in [Threads -> Nat]
      /\ occur \in [Threads -> SUBSET (Descriptors \cup {WakeFd})]
      /\ pc \in [Threads -> {"wait", "batch", "ended"}]
  BY DEF SInv, ServerTypeOK, Scheduling
<1>5. n \in Nat /\ n <= maxNum_[t]
  BY <1>4, WaitFacts, MinFacts
<1>6. GrownNum(t, n) \in Nat /\ GrownNum(t, n) > 0
  BY <1>4, ServerAssumption DEF GrownNum
<1>7. GrownRoom(t, n) \in Nat /\ GrownNum(t, n) <= GrownRoom(t, n)
  BY <1>4, <1>6, MaxFacts DEF GrownRoom
<1>8. fate' = "ok"
  BY <1>1, <1>4, <1>5
<1>9. ServerTypeOK'
  <2>1. some \subseteq Descriptors \cup {WakeFd}
    BY <1>3, WaitFacts
  <2> QED
    BY <1>1, <1>2, <1>4, <1>6, <1>7, <1>8, <2>1 DEF SInv, ServerTypeOK
<1>10. Scheduling'
  BY <1>1, <1>2, <1>4, <1>6, <1>7 DEF SInv, Scheduling
<1>11. Occurrences'
  <2> SUFFICES ASSUME NEW u \in Threads, NEW f \in occur'[u] \ {WakeFd}
               PROVE  /\ events_[u][f] # Null
                      /\ at[events_[u][f]] \in {"first", "await"}
                      /\ Signalled(events_[u][f])'
    BY <1>1 DEF Occurrences
  <2>1. CASE u # t
    BY <1>1, <1>2, <1>4, <2>1 DEF SInv, Occurrences, Signalled, Readable
  <2>2. CASE u = t
    <3>1. f \in Ready(t) \ {WakeFd}
      BY <1>2, <1>3, <1>4, <2>2
    <3>2. PICK c \in Served : fd[c] = f /\ tid_[c] = t /\ Signalled(c)
                              /\ epoll[t][c] = "in"
      BY <3>1, WaitFacts
    <3>3. events_[t][f] = c /\ c \in Mcos /\ c # Null
      BY <3>2, BasicFacts DEF SInv, Entered
    <3>4. at[c] \notin RunningPoints
      BY <1>1, <3>2, <3>3 DEF SInv, Scheduling
    <3>5. at[c] \in {"first", "await"}
      BY <3>2, <3>3, <3>4 DEF SInv, ServerTypeOK, Served, Live, Over
    <3> QED
      BY <1>1, <2>2, <3>2, <3>3, <3>5 DEF Signalled, Readable
  <2> QED
    BY <2>1, <2>2
<1>12. Served' = Served /\ Live' = Live /\ Left' = Left
  BY <1>1 DEF Served, Live, Fresh, Left, Unregistered
<1>13. Descriptions' /\ Handover' /\ Tables' /\ Entered' /\ Leftovers'
       /\ Reads'
  BY <1>1, <1>12
     DEF SInv, Descriptions, Handover, Tables, Entered, Leftovers, Reads,
         Signalled, Readable
<1> QED
  BY <1>8, <1>9, <1>10, <1>11, <1>13 DEF SInv

(* Steps that leave coroutines and tables alone.                             *)
LEMMA LoopingSInv ==
  ASSUME SInv, NEW t \in Threads,
         \/ Timeout(t) \/ HandleWake(t) \/ EndOfBatch(t)
         \/ quit(t) \/ wakeupLoop(t)
  PROVE  SInv'
<1>1. UNCHANGED <<boundEvents, allowed, maxNum_, room, backlog, sent, urgent,
                  hung, fd, closed, events_, epoll, state_, eorigin_, tid_,
                  fdMcos_, cur_, on, at, got, to, fate>>
  BY DEF Timeout, HandleWake, EndOfBatch, quit, wakeupLoop, kernel, loops,
         tables, pools, control
<1>2. /\ wake' \subseteq Threads /\ quit_' \subseteq Threads
      /\ quitting' \subseteq Threads
      /\ pc' \in [Threads -> {"wait", "batch", "ended"}]
      /\ occur' \in [Threads -> SUBSET (Descriptors \cup {WakeFd})]
      /\ \A u \in Threads : occur'[u] \subseteq occur[u]
      /\ \A u \in Threads : pc'[u] # "batch" => on[u] = Null /\ occur'[u] = {}
  <2>1. /\ wake \subseteq Threads /\ quit_ \subseteq Threads
        /\ quitting \subseteq Threads
        /\ pc \in [Threads -> {"wait", "batch", "ended"}]
        /\ occur \in [Threads -> SUBSET (Descriptors \cup {WakeFd})]
        /\ \A u \in Threads : pc[u] # "batch" => on[u] = Null /\ occur[u] = {}
    BY DEF SInv, ServerTypeOK, Scheduling
  <2>2. CASE Timeout(t)
    BY <2>1, <2>2 DEF Timeout, Looping, loops
  <2>3. CASE HandleWake(t)
    BY <2>1, <2>3 DEF HandleWake, Looping, Handled, WakeRead, loops
  <2>4. CASE EndOfBatch(t)
    BY <2>1, <2>4 DEF EndOfBatch, Looping, loops
  <2>5. CASE quit(t)
    BY <2>1, <2>5 DEF quit, control
  <2>6. CASE wakeupLoop(t)
    BY <2>1, <2>6 DEF wakeupLoop, Woken, loops, control
  <2> QED
    BY <2>2, <2>3, <2>4, <2>5, <2>6
<1>3. ServerTypeOK'
  BY <1>1, <1>2 DEF SInv, ServerTypeOK
<1>4. Served' = Served /\ Live' = Live /\ Left' = Left
  BY <1>1 DEF Served, Live, Fresh, Left, Unregistered
<1>5. Scheduling' /\ Occurrences'
  BY <1>1, <1>2 DEF SInv, Scheduling, Occurrences, Signalled, Readable
<1>6. Descriptions' /\ Handover' /\ Tables' /\ Entered' /\ Leftovers'
      /\ Reads'
  BY <1>1, <1>4
     DEF SInv, Descriptions, Handover, Tables, Entered, Leftovers, Reads,
         Signalled, Readable
<1> QED
  BY <1>1, <1>3, <1>5, <1>6 DEF SInv

(* The clients.                                                              *)
LEMMA ClientSInv ==
  ASSUME SInv, NEW c \in Conns,
         Connect(c) \/ Send(c) \/ SendUrgent(c) \/ Hangup(c)
  PROVE  SInv'
<1>1. UNCHANGED <<boundEvents, allowed, maxNum_, room, fd, closed, wake, quit_,
                  quitting, events_, epoll, state_, eorigin_, tid_, fdMcos_,
                  cur_, pc, occur, on, at, got, to, fate>>
  BY DEF Connect, Send, SendUrgent, Hangup, loops, tables, pools, control
<1>2. /\ backlog \in Seq(Conns) /\ hung \subseteq Conns
      /\ urgent \subseteq Conns
      /\ sent \in [Conns -> 0 .. MaxChunks]
      /\ MaxChunks \in Nat
  BY ServerAssumption DEF SInv, ServerTypeOK
<1>3. /\ backlog' \in Seq(Conns) /\ hung' \subseteq Conns
      /\ urgent' \subseteq Conns /\ sent' \in [Conns -> 0 .. MaxChunks]
      /\ hung \subseteq hung' /\ urgent \subseteq urgent' \cup hung'
      /\ \A d \in Conns : sent'[d] > 0 \/ d \in hung' \/ sent[d] = 0
      /\ \A d \in Conns : d \in hung /\ sent[d] = 0 => sent'[d] = 0
      /\ backlog # <<>> => backlog' # <<>>
  <2>1. CASE Connect(c)
    BY <1>2, <2>1 DEF Connect
  <2>2. CASE Send(c)
    BY <1>2, <2>2 DEF Send, Connected
  <2>3. CASE Hangup(c)
    BY <1>2, <2>3 DEF Hangup
  <2>4. CASE SendUrgent(c)
    BY <1>2, <2>4 DEF SendUrgent
  <2> QED
    BY <2>1, <2>2, <2>3, <2>4
<1>4. \A d \in Mcos : Signalled(d) => Signalled(d)'
  BY <1>2, <1>3, ServerAssumption DEF Signalled, Readable, Mcos
<1>5. ServerTypeOK'
  BY <1>1, <1>3 DEF SInv, ServerTypeOK
<1>6. Served' = Served /\ Live' = Live /\ Left' = Left
  BY <1>1 DEF Served, Live, Fresh, Left, Unregistered
<1>7. Descriptions'
  <2>1. /\ \A i, j \in 1 .. Len(backlog') : backlog'[i] = backlog'[j] => i = j
        /\ \A i \in 1 .. Len(backlog') : fd[backlog'[i]] = Null
    <3>1. CASE Connect(c)
      <4>1. backlog' = Append(backlog, c) /\ fd[c] = Null /\ c \notin Range(backlog)
        BY <3>1 DEF Connect
      <4>2. \A i \in 1 .. Len(backlog) : backlog[i] # c
        BY <1>2, <4>1 DEF Range
      <4> QED
        BY <1>2, <4>1, <4>2 DEF SInv, Descriptions
    <3>2. CASE Send(c) \/ SendUrgent(c) \/ Hangup(c)
      BY <3>2 DEF Send, SendUrgent, Hangup, SInv, Descriptions
    <3> QED
      BY <3>1, <3>2
  <2> QED
    BY <1>1, <1>6, <2>1 DEF SInv, Descriptions
<1>8. Occurrences'
  <2>1. \A t \in Threads : \A f \in occur[t] \ {WakeFd} :
          events_[t][f] # Null => events_[t][f] \in Mcos
    BY DEF SInv, ServerTypeOK
  <2> QED
    BY <1>1, <1>4, <2>1 DEF SInv, Occurrences
<1>9. Reads'
  BY <1>1, <1>3, <1>4 DEF SInv, Reads
<1>10. Scheduling' /\ Handover' /\ Tables' /\ Entered' /\ Leftovers'
  BY <1>1, <1>6 DEF SInv, Scheduling, Handover, Tables, Entered, Leftovers
<1> QED
  BY <1>1, <1>5, <1>7, <1>8, <1>9, <1>10 DEF SInv
-----------------------------------------------------------------------------
(* What accept() has not registered yet did not run; at the end of its block *)
(* the connection may have, but not on this thread.                          *)
LEMMA UnregisteredFacts ==
  ASSUME SInv, NEW c \in Mcos, Unregistered(c)
  PROVE  at[Listener] \in Handing /\ c # Listener /\ at[c] = "first"
BY BasicFacts, ServerAssumption DEF SInv, Handover, Unregistered

LEMMA LeavingFacts ==
  ASSUME SInv, at[Listener] = "leave"
  PROVE  /\ on[MainThread] = Listener /\ got \in Conns /\ got \in Mcos
         /\ got # Listener /\ fd[got] # Null /\ state_[Listener] # "new"
         /\ ~Fresh
BY BasicFacts, ServerAssumption
   DEF SInv, Handover, Handing, Scheduling, Descriptions, RunningPoints, Fresh

(* A step of a client's coroutine leaves the hand-over alone.                *)
LEMMA HandoverStays ==
  ASSUME SInv, NEW c \in Mcos, ~Unregistered(c), c # Listener,
         on[MainThread] = Listener => tid_[c] # MainThread,
         UNCHANGED <<got, to, fd, tid_>>,
         at'[Listener] = at[Listener], state_'[Listener] = state_[Listener],
         \A d \in Mcos \ {c} : at'[d] = at[d],
         at[Listener] = "register" =>
           fdMcos_'[to][fd[got]] = fdMcos_[to][fd[got]]
  PROVE  Handover'
<1>1. CASE at[Listener] \in Handing
  BY <1>1, BasicFacts DEF SInv, Handover, Handing, Unregistered
<1>2. CASE at[Listener] = "leave"
  BY <1>2, LeavingFacts DEF SInv, Handover, Handing
<1>3. CASE at[Listener] \notin Handing \cup {"leave"}
  BY <1>3 DEF SInv, Handover
<1> QED
  BY <1>1, <1>2, <1>3

(* loop() resumes a coroutine.                                               *)
LEMMA LookupFacts ==
  ASSUME SInv, Serialised, NEW t \in Threads, NEW f
  PROVE  getMcoRoutine(t, f) = {fdMcos_[t][f]}
BY DEF Serialised, getMcoRoutine, Overlapped

LEMMA OccurrenceFacts ==
  ASSUME SInv, NEW t \in Threads, NEW f \in occur[t] \ {WakeFd}
  PROVE  LET c == events_[t][f] IN
         /\ f \in Descriptors /\ c \in Served /\ c \in Mcos /\ c # Null
         /\ fd[c] = f /\ tid_[c] = t /\ fdMcos_[t][f] = c
         /\ at[c] \in {"first", "await"} /\ Signalled(c) /\ eventHandleAble(c)
<1>1. f \in Descriptors
  BY DEF SInv, ServerTypeOK
<1>2. /\ events_[t][f] # Null /\ at[events_[t][f]] \in {"first", "await"}
      /\ Signalled(events_[t][f])
  BY DEF SInv, Occurrences
<1>3. /\ events_[t][f] \in Served /\ fd[events_[t][f]] = f
      /\ tid_[events_[t][f]] = t
  BY <1>1, <1>2 DEF SInv, Tables, Left, Over
<1> QED
  BY <1>1, <1>2, <1>3, BasicFacts DEF SInv, Entered, eventHandleAble

LEMMA HandleEventSInv ==
  ASSUME SInv, Serialised, NEW t \in Threads, NEW f \in Descriptors,
         HandleEvent(t, f)
  PROVE  SInv'
<1> DEFINE c == events_[t][f]
<1>1. /\ on[t] = Null /\ pc[t] = "batch" /\ f \in occur[t] \ {WakeFd}
      /\ occur' = [occur EXCEPT ![t] = @ \ {f}]
      /\ UNCHANGED <<boundEvents, allowed, maxNum_, room, backlog, sent, urgent,
                     hung, fd, closed, wake, quit_, quitting, events_, epoll,
                     state_, eorigin_, tid_, fdMcos_, pc, got, to, fate>>
  BY DEF HandleEvent, Looping, Handled, kernel, loops, tables
<1>2. /\ c \in Served /\ c \in Mcos /\ c # Null
      /\ fd[c] = f /\ tid_[c] = t /\ fdMcos_[t][f] = c
      /\ at[c] \in {"first", "await"} /\ Signalled(c) /\ eventHandleAble(c)
  BY <1>1, OccurrenceFacts
<1>3. Resume(t, c)
  BY <1>2, LookupFacts DEF HandleEvent
<1>4. /\ cur_' = [cur_ EXCEPT ![t] = c]
      /\ on' = [on EXCEPT ![t] = c]
      /\ at' = [at EXCEPT ![c] = IF at[c] = "first" THEN "call" ELSE "woken"]
  BY <1>2, <1>3 DEF Resume, CurSet
<1>5. /\ cur_ \in [Threads -> Mcos \cup {Null}]
      /\ on \in [Threads -> Mcos \cup {Null}]
      /\ at \in [Mcos -> RunningPoints \cup {"first", "await", "done"}]
      /\ occur \in [Threads -> SUBSET (Descriptors \cup {WakeFd})]
  BY DEF SInv, ServerTypeOK
<1>6. /\ at'[c] = IF at[c] = "first" THEN "call" ELSE "woken"
      /\ \A d \in Mcos \ {c} : at'[d] = at[d]
      /\ cur_'[t] = c /\ on'[t] = c
      /\ \A u \in Threads \ {t} : cur_'[u] = cur_[u] /\ on'[u] = on[u]
      /\ occur'[t] = occur[t] \ {f}
      /\ \A u \in Threads \ {t} : occur'[u] = occur[u]
  BY <1>2, <1>4, <1>5, <1>1
<1>7. ServerTypeOK'
  BY <1>1, <1>2, <1>4, <1>5 DEF SInv, ServerTypeOK, RunningPoints
<1>8. Fresh' = Fresh
  BY <1>1, <1>2, <1>6, BasicFacts DEF Fresh, Served, SInv, Descriptions
<1>9. Served' = Served /\ Live' = Live /\ Left' = Left
  <2>1. at'[Listener] = "leave" <=> at[Listener] = "leave"
    BY <1>2, <1>6, BasicFacts
  <2> QED
    BY <1>1, <1>2, <1>6, <1>8, <2>1 DEF Served, Live, Left, Over, Unregistered
<1>10. Scheduling'
  <2>1. \A u \in Threads : on[u] # c /\ (u # t => cur_[u] # c)
    BY <1>2 DEF SInv, Scheduling, RunningPoints
  <2>2. \A u \in Threads : cur_[u] \in Mcos \cup {Null} /\ on[u] \in Mcos \cup {Null}
    BY <1>5
  <2>3. at'[c] \in {"call", "woken"} /\ pc[t] = "batch"
    BY <1>1, <1>6
  <2>4. ASSUME NEW u \in Threads
        PROVE  /\ pc[u] # "batch" => on'[u] = Null /\ occur'[u] = {}
               /\ on'[u] # Null =>
                    /\ tid_[on'[u]] = u /\ at'[on'[u]] \in RunningPoints
                    /\ at'[on'[u]] # "return" => cur_'[u] = on'[u]
               /\ cur_'[u] # Null =>
                    /\ tid_[cur_'[u]] = u
                    /\ at'[cur_'[u]] \notin {"first"} \cup Over
    <3>1. CASE u = t
      BY <1>2, <1>6, <2>3, <3>1 DEF RunningPoints, Over
    <3>2. CASE u # t
      <4>1. /\ on[u] # Null => at'[on[u]] = at[on[u]]
            /\ cur_[u] # Null => at'[cur_[u]] = at[cur_[u]]
            /\ on'[u] = on[u] /\ cur_'[u] = cur_[u] /\ occur'[u] = occur[u]
        BY <1>6, <2>1, <2>2, <3>2
      <4> QED
        BY <4>1 DEF SInv, Scheduling
    <3> QED
      BY <3>1, <3>2
  <2>5. ASSUME NEW d \in Mcos, at'[d] \in RunningPoints
        PROVE  on'[tid_[d]] = d
    <3>1. CASE d = c
      BY <1>2, <1>6, <3>1
    <3>2. CASE d # c
      <4>1. on[tid_[d]] = d
        BY <1>6, <2>5, <3>2 DEF SInv, Scheduling
      <4>2. tid_[d] \in Threads /\ tid_[d] # t
        BY <1>1, <2>5, <4>1, BasicFacts
      <4> QED
        BY <1>6, <4>1, <4>2
    <3> QED
      BY <3>1, <3>2
  <2> QED
    BY <1>1, <2>4, <2>5 DEF SInv, Scheduling
<1>11. Descriptions'
  <2>1. /\ at'[Listener] \notin {"close"} \cup Over
        /\ at'[Listener] = "first" => boundEvents
    BY <1>2, <1>6, BasicFacts DEF SInv, Descriptions, Over
  <2>2. ASSUME NEW d \in Conns
        PROVE  /\ fd[d] \in Fds \cup {Null} /\ at'[d] \notin Handing
               /\ fd[d] = Null => at'[d] = "first" /\ got # d
    BY <1>2, <1>6, BasicFacts DEF SInv, Descriptions, Handing, Served, Live
  <2> QED
    BY <1>1, <1>9, <2>1, <2>2 DEF SInv, Descriptions
<1>12. Handover'
  <2>1. CASE c # Listener
    <3>1. ~Unregistered(c) /\ (on[MainThread] = Listener => t # MainThread)
      BY <1>1, <1>2, BasicFacts DEF Served
    <3> QED
      BY <1>1, <1>2, <1>6, <2>1, <3>1, BasicFacts, HandoverStays
  <2>2. CASE c = Listener
    BY <1>1, <1>2, <1>6, <2>2 DEF SInv, Handover, Handing
  <2> QED
    BY <2>1, <2>2
<1>13. Tables'
  <2>1. at'[Listener] = "register" <=> at[Listener] = "register"
    BY <1>2, <1>6, BasicFacts
  <2> QED
    BY <1>1, <1>9, <2>1 DEF SInv, Tables
<1>14. Entered' /\ Leftovers'
  <2>1. \A d \in Served : d \in Mcos
    BY BasicFacts
  <2> QED
    BY <1>1, <1>2, <1>6, <1>9, <2>1 DEF SInv, Entered, Leftovers, RunningPoints
<1>15. Occurrences'
  <2> SUFFICES ASSUME NEW u \in Threads, NEW g \in occur'[u] \ {WakeFd}
               PROVE  /\ events_[u][g] # Null
                      /\ at'[events_[u][g]] \in {"first", "await"}
                      /\ Signalled(events_[u][g])'
    BY <1>1 DEF Occurrences
  <2>1. g \in occur[u] \ {WakeFd} /\ (u = t => g # f)
    BY <1>1, <1>6
  <2>2. /\ events_[u][g] \in Mcos \ {c} /\ events_[u][g] # Null
        /\ at[events_[u][g]] \in {"first", "await"}
        /\ Signalled(events_[u][g])
    BY <1>2, <2>1, OccurrenceFacts
  <2> QED
    BY <1>1, <1>6, <2>2 DEF Signalled, Readable
<1>16. Reads'
  BY <1>1, <1>2, <1>6 DEF SInv, Reads, Signalled, Readable, Mcos, Over
<1> QED
  BY <1>1, <1>7, <1>10, <1>11, <1>12, <1>13, <1>14, <1>15, <1>16 DEF SInv
-----------------------------------------------------------------------------
(* EventLoop::updateEvents, and the coroutine that calls it.                 *)
LEMMA RunningFacts ==
  ASSUME SInv, NEW t \in Threads, NEW c \in Mcos, on[t] = c
  PROVE  /\ tid_[c] = t /\ pc[t] = "batch" /\ at[c] \in RunningPoints
         /\ at[c] # "return" => cur_[t] = c
         /\ fd[c] \in Descriptors /\ fd[c] # Null /\ ~Unregistered(c)
         /\ c # Listener /\ on[MainThread] = Listener => t # MainThread
         /\ at[c] # "return" => c \in Live
         /\ at[c] # "return" => c \in Served \/ (c = Listener /\ Fresh)
         /\ \A u \in Threads \ {t} : on[u] # c /\ cur_[u] # c
<1>1. c # Null
  BY BasicFacts
<1>2. /\ tid_[c] = t /\ pc[t] = "batch" /\ at[c] \in RunningPoints
      /\ at[c] # "return" => cur_[t] = c
      /\ \A u \in Threads \ {t} : on[u] # c /\ cur_[u] # c
  BY <1>1 DEF SInv, Scheduling
<1>3. fd[c] \in Descriptors /\ fd[c] # Null
  BY <1>2, ServerAssumption
     DEF SInv, Descriptions, Mcos, Descriptors, RunningPoints
<1>4. ~Unregistered(c)
  BY <1>2, UnregisteredFacts DEF RunningPoints
<1> QED
  BY <1>2, <1>3, <1>4 DEF Live, Served, Over, RunningPoints

(* What updateEvents leaves behind, entry by entry.                          *)
Updated(l, e, state, inward) ==
  /\ wake' \subseteq Threads
  /\ state_' \in [Mcos -> {"new", "mod", "del"}]
  /\ eorigin_' \in [Mcos -> BOOLEAN]
  /\ epoll' \in [Threads -> [Mcos -> {"in", "off", "out"}]]
  /\ events_' \in [Threads -> [Descriptors -> Mcos \cup {Null}]]
  /\ state_'[e] = state /\ eorigin_'[e] = inward
  /\ epoll'[l][e] = Polled(l, e, state, inward)
  /\ events_'[l][fd[e]] = EntryAfter(l, e, state)
  /\ \A d \in Mcos \ {e} : /\ state_'[d] = state_[d]
                           /\ eorigin_'[d] = eorigin_[d]
  /\ \A u \in Threads, d \in Mcos : d # e \/ u # l =>
       epoll'[u][d] = epoll[u][d]
  /\ \A u \in Threads, f \in Descriptors : f # fd[e] \/ u # l =>
       events_'[u][f] = events_[u][f]

LEMMA UpdateFacts ==
  ASSUME SInv, NEW l \in Threads, NEW e \in Mcos, fd[e] \in Descriptors,
         NEW state \in {"new", "mod", "del"}, NEW inward \in BOOLEAN,
         updateEvents(l, e, state, inward)
  PROVE  Updated(l, e, state, inward)
<1>1. /\ wake \subseteq Threads
      /\ state_ \in [Mcos -> {"new", "mod", "del"}]
      /\ eorigin_ \in [Mcos -> BOOLEAN]
      /\ epoll \in [Threads -> [Mcos -> {"in", "off", "out"}]]
      /\ events_ \in [Threads -> [Descriptors -> Mcos \cup {Null}]]
  BY DEF SInv, ServerTypeOK
<1>2. Polled(l, e, state, inward) \in {"in", "off", "out"}
  BY <1>1 DEF Polled, Interest
<1>3. EntryAfter(l, e, state) \in Mcos \cup {Null}
  BY <1>1 DEF EntryAfter
<1>4. /\ wake' = wake \cup {l}
      /\ state_' = [state_ EXCEPT ![e] = state]
      /\ eorigin_' = [eorigin_ EXCEPT ![e] = inward]
  BY DEF updateEvents
<1>5. epoll' = [epoll EXCEPT ![l] =
                  [epoll[l] EXCEPT ![e] = Polled(l, e, state, inward)]]
  BY DEF updateEvents
<1>6. events_' = [events_ EXCEPT ![l] =
                    [events_[l] EXCEPT ![fd[e]] = EntryAfter(l, e, state)]]
  BY DEF updateEvents
<1>7. /\ epoll' \in [Threads -> [Mcos -> {"in", "off", "out"}]]
      /\ epoll'[l][e] = Polled(l, e, state, inward)
      /\ \A u \in Threads, d \in Mcos : d # e \/ u # l =>
           epoll'[u][d] = epoll[u][d]
  BY <1>1, <1>2, <1>5
<1>8. /\ events_' \in [Threads -> [Descriptors -> Mcos \cup {Null}]]
      /\ events_'[l][fd[e]] = EntryAfter(l, e, state)
      /\ \A u \in Threads, f \in Descriptors : f # fd[e] \/ u # l =>
           events_'[u][f] = events_[u][f]
  BY <1>1, <1>3, <1>6
<1>9. /\ wake' \subseteq Threads
      /\ state_' \in [Mcos -> {"new", "mod", "del"}]
      /\ eorigin_' \in [Mcos -> BOOLEAN]
      /\ state_'[e] = state /\ eorigin_'[e] = inward
      /\ \A d \in Mcos \ {e} : /\ state_'[d] = state_[d]
                               /\ eorigin_'[d] = eorigin_[d]
  BY <1>1, <1>4
<1> QED
  BY <1>7, <1>8, <1>9 DEF Updated

(* A coroutine that is served changes the interest of its Events.            *)
LEMMA ModFacts ==
  ASSUME SInv, NEW c \in Served, NEW inward \in BOOLEAN,
         updateEvents(tid_[c], c, "mod", inward)
  PROVE  /\ wake' \subseteq Threads /\ events_' = events_
         /\ state_' \in [Mcos -> {"new", "mod", "del"}]
         /\ eorigin_' \in [Mcos -> BOOLEAN]
         /\ epoll' \in [Threads -> [Mcos -> {"in", "off", "out"}]]
         /\ state_'[c] = "mod" /\ eorigin_'[c] = inward
         /\ epoll'[tid_[c]][c] = Interest(inward)
         /\ \A d \in Mcos \ {c} : /\ state_'[d] = state_[d]
                                  /\ eorigin_'[d] = eorigin_[d]
         /\ \A u \in Threads, d \in Mcos : d # c \/ u # tid_[c] =>
              epoll'[u][d] = epoll[u][d]
<1>1. /\ c \in Mcos /\ c # Null /\ fd[c] \in Descriptors /\ tid_[c] \in Threads
      /\ events_[tid_[c]][fd[c]] = c /\ epoll[tid_[c]][c] # "out"
  BY BasicFacts DEF SInv, Entered
<1>2. /\ Polled(tid_[c], c, "mod", inward) = Interest(inward)
      /\ EntryAfter(tid_[c], c, "mod") = c
  BY <1>1 DEF Polled, EntryAfter
<1>3. events_' = events_
  <2>1. events_ \in [Threads -> [Descriptors -> Mcos \cup {Null}]]
    BY DEF SInv, ServerTypeOK
  <2>2. events_' = [events_ EXCEPT ![tid_[c]] =
                      [events_[tid_[c]] EXCEPT ![fd[c]] = c]]
    BY <1>2 DEF updateEvents
  <2> QED
    BY <1>1, <2>1, <2>2
<1>4. PICK t \in Threads, e \in Mcos :
        t = tid_[c] /\ e = c /\ updateEvents(t, e, "mod", inward)
  BY <1>1
<1>5. Updated(t, e, "mod", inward)
  BY <1>1, <1>4, UpdateFacts
<1> QED
  BY <1>2, <1>3, <1>4, <1>5 DEF Updated
-----------------------------------------------------------------------------
(* A hook as far as its Yield.                                               *)
LEMMA HookServed ==
  ASSUME SInv, Serialised, NEW t \in Threads, NEW c \in Served, Hook(t, c)
  PROVE  SInv'
<1>1. on[t] = c /\ at[c] = "call" /\ c \in Mcos
  BY BasicFacts DEF Hook, Executing
<1>2. /\ tid_[c] = t /\ cur_[t] = c /\ fd[c] \in Descriptors
      /\ ~Unregistered(c)
      /\ c # Listener /\ on[MainThread] = Listener => t # MainThread
      /\ c # Null /\ pc[t] = "batch"
      /\ \A u \in Threads \ {t} : on[u] # c /\ cur_[u] # c
  BY <1>1, RunningFacts, BasicFacts
<1>3. fdMcos_[t][fd[c]] = c /\ events_[t][fd[c]] = c
  BY <1>2 DEF SInv, Entered
<1>4. getMcoRoutine(t, fd[c]) = {c}
  BY <1>3, LookupFacts
<1>5. /\ updateEvents(tid_[c], c, "mod", TRUE)
      /\ tid_' = [tid_ EXCEPT ![c] = t]
      /\ fdMcos_' = fdMcos_ /\ Fate(TRUE)
  BY <1>2, <1>3, <1>4 DEF Hook, Rearmed
<1>6. /\ fate' = "ok" /\ tid_' = tid_
      /\ UNCHANGED <<boundEvents, allowed, maxNum_, room, quit_, quitting,
                     backlog, sent, urgent, hung, fd, closed, fdMcos_, cur_, pc,
                     occur, got, to>>
  BY <1>2, <1>5 DEF Hook, Fate, kernel, loops, SInv, ServerTypeOK
<1>7. /\ on' = [on EXCEPT ![t] = Null]
      /\ at' = [at EXCEPT ![c] = "await"]
  BY <1>2 DEF Hook, Yield
<1>8. /\ cur_ \in [Threads -> Mcos \cup {Null}]
      /\ on \in [Threads -> Mcos \cup {Null}]
      /\ at \in [Mcos -> RunningPoints \cup {"first", "await", "done"}]
  BY DEF SInv, ServerTypeOK
<1>9. /\ at'[c] = "await" /\ \A d \in Mcos \ {c} : at'[d] = at[d]
      /\ on'[t] = Null /\ \A u \in Threads \ {t} : on'[u] = on[u]
  BY <1>1, <1>7, <1>8
<1>10. /\ wake' \subseteq Threads /\ events_' = events_
       /\ state_' \in [Mcos -> {"new", "mod", "del"}]
       /\ eorigin_' \in [Mcos -> BOOLEAN]
       /\ epoll' \in [Threads -> [Mcos -> {"in", "off", "out"}]]
       /\ state_'[c] = "mod" /\ eorigin_'[c]
       /\ epoll'[t][c] = "in"
       /\ \A d \in Mcos \ {c} : /\ state_'[d] = state_[d]
                                /\ eorigin_'[d] = eorigin_[d]
       /\ \A u \in Threads, d \in Mcos : d # c \/ u # t =>
            epoll'[u][d] = epoll[u][d]
  <2>1. PICK yes \in BOOLEAN : yes /\ updateEvents(tid_[c], c, "mod", yes)
    BY <1>5
  <2>2. Interest(yes) = "in"
    BY <2>1 DEF Interest
  <2>3. /\ wake' \subseteq Threads /\ events_' = events_
        /\ state_' \in [Mcos -> {"new", "mod", "del"}]
        /\ eorigin_' \in [Mcos -> BOOLEAN]
        /\ epoll' \in [Threads -> [Mcos -> {"in", "off", "out"}]]
        /\ \A d \in Mcos \ {c} : /\ state_'[d] = state_[d]
                                 /\ eorigin_'[d] = eorigin_[d]
    BY <2>1, ModFacts
  <2>4. /\ state_'[c] = "mod" /\ eorigin_'[c] = yes
        /\ epoll'[tid_[c]][c] = Interest(yes)
        /\ \A u \in Threads, d \in Mcos : d # c \/ u # tid_[c] =>
             epoll'[u][d] = epoll[u][d]
    BY <2>1, ModFacts
  <2>5. eorigin_'[c]
    BY <2>1, <2>4
  <2> QED
    BY <1>2, <2>2, <2>3, <2>4, <2>5
<1>11. ServerTypeOK'
  <2>1. at' \in [Mcos -> RunningPoints \cup {"first", "await", "done"}]
    BY <1>7, <1>8
  <2>2. on' \in [Threads -> Mcos \cup {Null}]
    BY <1>7, <1>8
  <2> QED
    BY <1>6, <1>10, <2>1, <2>2 DEF SInv, ServerTypeOK
<1>12. ~(c = Listener /\ Fresh) /\ (Fresh' <=> Fresh)
  BY <1>6, <1>9, <1>10, BasicFacts DEF Fresh, Served
<1>13. Live' = Live /\ Left' = Left
  BY <1>1, <1>6, <1>9 DEF Live, Left, Over
<1>14. Served' = Served
  <2>1. at'[Listener] = "leave" <=> at[Listener] = "leave"
    BY <1>1, <1>9, BasicFacts
  <2> QED
    BY <1>6, <1>12, <1>13, <2>1 DEF Served, Unregistered
<1>15. Scheduling'
  <2>1. ASSUME NEW u \in Threads
        PROVE  /\ pc[u] # "batch" => on'[u] = Null /\ occur[u] = {}
               /\ on'[u] # Null =>
                    /\ tid_[on'[u]] = u /\ at'[on'[u]] \in RunningPoints
                    /\ at'[on'[u]] # "return" => cur_[u] = on'[u]
               /\ cur_[u] # Null =>
                    /\ tid_[cur_[u]] = u
                    /\ at'[cur_[u]] \notin {"first"} \cup Over
    <3>1. CASE u = t
      BY <1>2, <1>9, <3>1 DEF Over
    <3>2. CASE u # t
      <4>1. /\ on[u] # Null => at'[on[u]] = at[on[u]]
            /\ cur_[u] # Null => at'[cur_[u]] = at[cur_[u]]
            /\ on'[u] = on[u]
        BY <1>2, <1>8, <1>9, <3>2
      <4> QED
        BY <4>1 DEF SInv, Scheduling
    <3> QED
      BY <3>1, <3>2
  <2>2. ASSUME NEW d \in Mcos, at'[d] \in RunningPoints
        PROVE  on'[tid_[d]] = d
    <3>1. d # c
      BY <1>9, <2>2 DEF RunningPoints
    <3>2. on[tid_[d]] = d /\ tid_[d] \in Threads
      BY <1>9, <2>2, <3>1, BasicFacts DEF SInv, Scheduling
    <3> QED
      BY <1>1, <1>9, <3>1, <3>2
  <2> QED
    BY <1>6, <2>1, <2>2 DEF SInv, Scheduling
<1>16. Descriptions'
  <2>1. /\ at'[Listener] \notin {"close"} \cup Over
        /\ at'[Listener] = "first" => boundEvents
    BY <1>9, BasicFacts DEF SInv, Descriptions, Over
  <2>2. ASSUME NEW d \in Conns
        PROVE  /\ fd[d] \in Fds \cup {Null} /\ at'[d] \notin Handing
               /\ fd[d] = Null => at'[d] = "first" /\ got # d
    BY <1>1, <1>9, BasicFacts DEF SInv, Descriptions, Handing
  <2> QED
    BY <1>6, <1>13, <2>1, <2>2 DEF SInv, Descriptions
<1>17. Handover'
  <2>1. CASE c # Listener
    BY <1>1, <1>2, <1>6, <1>9, <1>10, <2>1, BasicFacts, HandoverStays
  <2>2. CASE c = Listener
    BY <1>1, <1>6, <1>9, <2>2 DEF SInv, Handover, Handing
  <2> QED
    BY <2>1, <2>2
<1>18. Tables'
  <2>1. at[Listener] = "register" => at'[Listener] = "register"
    BY <1>1, <1>9, BasicFacts
  <2>2. \A u \in Threads, d \in Mcos : epoll'[u][d] # "out" =>
          tid_[d] = u /\ d \in Served
    BY <1>2, <1>10 DEF SInv, Tables
  <2> QED
    BY <1>6, <1>10, <1>13, <1>14, <2>1, <2>2 DEF SInv, Tables
<1>19. Entered'
  <2> SUFFICES ASSUME NEW d \in Served
               PROVE  /\ fdMcos_[tid_[d]][fd[d]] = d
                      /\ events_[tid_[d]][fd[d]] = d
                      /\ epoll'[tid_[d]][d] # "out"
                      /\ epoll'[tid_[d]][d] = "off" => at'[d] \in RunningPoints
                      /\ at'[d] \in {"first", "await"} =>
                           eorigin_'[d] /\ state_'[d] # "del"
    BY <1>6, <1>10, <1>14 DEF Entered
  <2>1. d \in Mcos /\ tid_[d] \in Threads
    BY BasicFacts
  <2> QED
    BY <1>2, <1>9, <1>10, <2>1 DEF SInv, Entered
<1>20. Occurrences'
  <2> SUFFICES ASSUME NEW u \in Threads, NEW f \in occur[u] \ {WakeFd}
               PROVE  /\ events_[u][f] # Null
                      /\ at'[events_[u][f]] \in {"first", "await"}
                      /\ Signalled(events_[u][f])'
    BY <1>6, <1>10 DEF Occurrences
  <2> QED
    BY <1>1, <1>6, <1>9, <1>10, OccurrenceFacts DEF Signalled, Readable
<1>21. Reads'
  <2>1. \A d \in Mcos : Signalled(d)' <=> Signalled(d)
    BY <1>6 DEF Signalled, Readable
  <2> QED
    BY <1>1, <1>6, <1>9, <2>1, BasicFacts DEF SInv, Reads, Over
<1>22. Leftovers'
  BY <1>6, <1>10, <1>13 DEF SInv, Leftovers
<1> QED
  BY <1>6, <1>11, <1>15, <1>16, <1>17, <1>18, <1>19, <1>20, <1>21, <1>22
     DEF SInv

(* The first hook of test/HookApi.cpp registers its listening socket.        *)
LEMMA HookFresh ==
  ASSUME SInv, Serialised, NEW t \in Threads, Fresh, Hook(t, Listener)
  PROVE  SInv'
<1>1. on[t] = Listener /\ at[Listener] = "call" /\ Listener \in Mcos
  BY BasicFacts DEF Hook, Executing
<1>2. /\ t = MainThread /\ cur_[t] = Listener /\ pc[t] = "batch"
      /\ \A u \in Threads \ {t} : on[u] # Listener /\ cur_[u] # Listener
      /\ Listener # Null /\ Listener \in Live /\ Listener \notin Served
      /\ fd[Listener] = ListenFd /\ ListenFd \in Descriptors
      /\ tid_[Listener] = t /\ got = Null
  BY <1>1, RunningFacts, BasicFacts
     DEF SInv, Descriptions, Handover, Handing, Live, Served, Over,
         Unregistered
<1>3. \A d \in Served \cup Left : fd[d] # ListenFd
  BY <1>2, BasicFacts, LeftFacts DEF SInv, Descriptions
<1>4. fdMcos_[t][ListenFd] = Null /\ events_[t][ListenFd] = Null
  BY <1>1, <1>2, <1>3 DEF SInv, Tables
<1>5. epoll[t][Listener] = "out"
  BY <1>1, <1>2 DEF SInv, Tables
<1>6. getMcoRoutine(t, ListenFd) = {Null}
  BY <1>4, LookupFacts
<1>7. /\ updateEvents(t, Listener, "new", TRUE)
      /\ tid_' = [tid_ EXCEPT ![Listener] = t]
      /\ fdMcos_' = [fdMcos_ EXCEPT ![t][ListenFd] = Listener]
      /\ Fate(EventsAssertion(t, Listener, "new"))
  BY <1>2, <1>6 DEF Hook, setMcoRoutine
<1>8. EventsAssertion(t, Listener, "new")
  BY <1>2, <1>4 DEF EventsAssertion
<1>9. /\ fate' = "ok" /\ tid_' = tid_
      /\ UNCHANGED <<boundEvents, allowed, maxNum_, room, quit_, quitting,
                     backlog, sent, urgent, hung, fd, closed, cur_, pc, occur,
                     got, to>>
  BY <1>2, <1>7, <1>8 DEF Hook, Fate, kernel, loops, SInv, ServerTypeOK
<1>10. /\ on' = [on EXCEPT ![t] = Null]
       /\ at' = [at EXCEPT ![Listener] = "await"]
  BY <1>2 DEF Hook, Yield
<1>11. /\ cur_ \in [Threads -> Mcos \cup {Null}]
       /\ on \in [Threads -> Mcos \cup {Null}]
       /\ at \in [Mcos -> RunningPoints \cup {"first", "await", "done"}]
       /\ fdMcos_ \in [Threads -> [Descriptors -> Mcos \cup {Null}]]
  BY DEF SInv, ServerTypeOK
<1>12. /\ at'[Listener] = "await" /\ \A d \in Mcos \ {Listener} : at'[d] = at[d]
       /\ on'[t] = Null /\ \A u \in Threads \ {t} : on'[u] = on[u]
  BY <1>1, <1>10, <1>11
<1>13. /\ fdMcos_'[t][ListenFd] = Listener
       /\ \A u \in Threads, f \in Descriptors : u # t \/ f # ListenFd =>
            fdMcos_'[u][f] = fdMcos_[u][f]
       /\ fdMcos_' \in [Threads -> [Descriptors -> Mcos \cup {Null}]]
  <2>1. fdMcos_' = [fdMcos_ EXCEPT ![t] =
                      [fdMcos_[t] EXCEPT ![ListenFd] = Listener]]
    BY <1>7
  <2> QED
    BY <1>1, <1>2, <1>11, <2>1
<1>14. /\ wake' \subseteq Threads
       /\ state_' \in [Mcos -> {"new", "mod", "del"}]
       /\ eorigin_' \in [Mcos -> BOOLEAN]
       /\ epoll' \in [Threads -> [Mcos -> {"in", "off", "out"}]]
       /\ events_' \in [Threads -> [Descriptors -> Mcos \cup {Null}]]
       /\ state_'[Listener] = "new" /\ eorigin_'[Listener]
       /\ epoll'[t][Listener] = "in" /\ events_'[t][ListenFd] = Listener
       /\ \A d \in Mcos \ {Listener} : /\ state_'[d] = state_[d]
                                       /\ eorigin_'[d] = eorigin_[d]
       /\ \A u \in Threads, d \in Mcos : d # Listener \/ u # t =>
            epoll'[u][d] = epoll[u][d]
       /\ \A u \in Threads, f \in Descriptors : f # ListenFd \/ u # t =>
            events_'[u][f] = events_[u][f]
  <2>1. PICK yes \in BOOLEAN : yes /\ updateEvents(t, Listener, "new", yes)
    BY <1>7
  <2>2. Polled(t, Listener, "new", yes) = "in"
    BY <1>5, <2>1 DEF Polled, Interest
  <2>3. EntryAfter(t, Listener, "new") = Listener
    BY DEF EntryAfter
  <2>4. Updated(t, Listener, "new", yes)
    <3>1. fd[Listener] \in Descriptors
      BY <1>2
    <3> QED
      BY <1>1, <2>1, <3>1, UpdateFacts
  <2>5. /\ wake' \subseteq Threads
        /\ state_' \in [Mcos -> {"new", "mod", "del"}]
        /\ eorigin_' \in [Mcos -> BOOLEAN]
        /\ epoll' \in [Threads -> [Mcos -> {"in", "off", "out"}]]
        /\ events_' \in [Threads -> [Descriptors -> Mcos \cup {Null}]]
    BY <2>4 DEF Updated
  <2>6. /\ state_'[Listener] = "new" /\ eorigin_'[Listener] = yes
        /\ \A d \in Mcos \ {Listener} : /\ state_'[d] = state_[d]
                                        /\ eorigin_'[d] = eorigin_[d]
    BY <2>4 DEF Updated
  <2>7. /\ epoll'[t][Listener] = Polled(t, Listener, "new", yes)
        /\ \A u \in Threads, d \in Mcos : d # Listener \/ u # t =>
             epoll'[u][d] = epoll[u][d]
    BY <2>4 DEF Updated
  <2>8. /\ events_'[t][fd[Listener]] = EntryAfter(t, Listener, "new")
        /\ \A u \in Threads, f \in Descriptors : f # fd[Listener] \/ u # t =>
             events_'[u][f] = events_[u][f]
    BY <2>4 DEF Updated
  <2>9. eorigin_'[Listener]
    BY <2>1, <2>6
  <2>10. /\ epoll'[t][Listener] = "in" /\ events_'[t][ListenFd] = Listener
        /\ \A u \in Threads, f \in Descriptors : f # ListenFd \/ u # t =>
             events_'[u][f] = events_[u][f]
    <3>1. fd[Listener] = ListenFd
      BY <1>2
    <3>2. epoll'[t][Listener] = "in"
      BY <2>2, <2>7
    <3>3. events_'[t][ListenFd] = Listener
      BY <2>3, <2>8, <3>1
    <3>4. \A u \in Threads, f \in Descriptors : f # ListenFd \/ u # t =>
            events_'[u][f] = events_[u][f]
      BY <2>8, <3>1
    <3> QED
      BY <3>2, <3>3, <3>4
  <2> QED
    BY <2>5, <2>6, <2>7, <2>9, <2>10
<1>15. ServerTypeOK'
  <2>1. at' \in [Mcos -> RunningPoints \cup {"first", "await", "done"}]
    BY <1>10, <1>11
  <2>2. on' \in [Threads -> Mcos \cup {Null}]
    BY <1>10, <1>11
  <2> QED
    BY <1>9, <1>13, <1>14, <2>1, <2>2 DEF SInv, ServerTypeOK
<1>16. /\ Live' = Live /\ Served' = Served \cup {Listener} /\ ~Fresh'
       /\ Left' = Left
  <2>1. Live' = Live /\ ~Fresh' /\ Left' = Left
    BY <1>1, <1>9, <1>12 DEF Live, Over, Fresh, Left
  <2> QED
    BY <1>2, <1>9, <2>1, BasicFacts DEF Served, Unregistered
<1>17. Scheduling'
  <2>1. ASSUME NEW u \in Threads
        PROVE  /\ pc[u] # "batch" => on'[u] = Null /\ occur[u] = {}
               /\ on'[u] # Null =>
                    /\ tid_[on'[u]] = u /\ at'[on'[u]] \in RunningPoints
                    /\ at'[on'[u]] # "return" => cur_[u] = on'[u]
               /\ cur_[u] # Null =>
                    /\ tid_[cur_[u]] = u
                    /\ at'[cur_[u]] \notin {"first"} \cup Over
    <3>1. CASE u = t
      BY <1>2, <1>12, <3>1 DEF Over
    <3>2. CASE u # t
      <4>1. /\ on[u] # Null => at'[on[u]] = at[on[u]]
            /\ cur_[u] # Null => at'[cur_[u]] = at[cur_[u]]
            /\ on'[u] = on[u]
        BY <1>2, <1>11, <1>12, <3>2
      <4> QED
        BY <4>1 DEF SInv, Scheduling
    <3> QED
      BY <3>1, <3>2
  <2>2. ASSUME NEW d \in Mcos, at'[d] \in RunningPoints
        PROVE  on'[tid_[d]] = d
    <3>1. d # Listener
      BY <1>12, <2>2 DEF RunningPoints
    <3>2. on[tid_[d]] = d /\ tid_[d] \in Threads
      BY <1>12, <2>2, <3>1, BasicFacts DEF SInv, Scheduling
    <3> QED
      BY <1>1, <1>12, <3>1, <3>2
  <2> QED
    BY <1>9, <2>1, <2>2 DEF SInv, Scheduling
<1>18. Descriptions'
  <2>1. \A d \in Conns : at'[d] = at[d]
    BY <1>12, BasicFacts, ServerAssumption
  <2> QED
    BY <1>9, <1>12, <1>16, <2>1 DEF SInv, Descriptions, Over
<1>19. Handover'
  BY <1>2, <1>9, <1>12 DEF Handover, Handing
<1>20. Tables'
  <2>1. ASSUME NEW u \in Threads, NEW f \in Descriptors
        PROVE  /\ fdMcos_'[u][f] # Null =>
                    /\ fd[fdMcos_'[u][f]] = f /\ tid_[fdMcos_'[u][f]] = u
                    /\ fdMcos_'[u][f] \in Served'
               /\ events_'[u][f] # Null =>
                    /\ fd[events_'[u][f]] = f /\ tid_[events_'[u][f]] = u
                    /\ events_'[u][f] \in Served' \cup Left'
    <3>1. CASE u = t /\ f = ListenFd
      BY <1>2, <1>13, <1>14, <1>16, <3>1
    <3>2. CASE ~(u = t /\ f = ListenFd)
      <4>1. fdMcos_'[u][f] = fdMcos_[u][f] /\ events_'[u][f] = events_[u][f]
        BY <1>13, <1>14, <3>2
      <4>2. at[Listener] # "register"
        BY <1>1
      <4>3. /\ fdMcos_[u][f] # Null =>
                 /\ fd[fdMcos_[u][f]] = f /\ tid_[fdMcos_[u][f]] = u
                 /\ \/ fdMcos_[u][f] \in Served
                    \/ fdMcos_[u][f] = got /\ at[Listener] = "register"
            /\ events_[u][f] # Null =>
                 /\ fd[events_[u][f]] = f /\ tid_[events_[u][f]] = u
                 /\ events_[u][f] \in Served \cup Left
        BY DEF SInv, Tables
      <4> QED
        BY <1>9, <1>16, <4>1, <4>2, <4>3
    <3> QED
      BY <3>1, <3>2
  <2>2. ASSUME NEW u \in Threads, NEW d \in Mcos, epoll'[u][d] # "out"
        PROVE  tid_[d] = u /\ d \in Served'
    <3>1. CASE d = Listener /\ u = t
      BY <1>2, <1>16, <3>1
    <3>2. CASE ~(d = Listener /\ u = t)
      <4>1. epoll[u][d] # "out"
        BY <1>14, <2>2, <3>2
      <4>2. tid_[d] = u /\ d \in Served
        BY <4>1 DEF SInv, Tables
      <4> QED
        BY <1>16, <4>2
    <3> QED
      BY <3>1, <3>2
  <2> QED
    BY <1>9, <2>1, <2>2 DEF Tables
<1>21. Entered'
  <2> SUFFICES ASSUME NEW d \in Served'
               PROVE  /\ fdMcos_'[tid_[d]][fd[d]] = d
                      /\ events_'[tid_[d]][fd[d]] = d
                      /\ epoll'[tid_[d]][d] # "out"
                      /\ epoll'[tid_[d]][d] = "off" => at'[d] \in RunningPoints
                      /\ at'[d] \in {"first", "await"} =>
                           eorigin_'[d] /\ state_'[d] # "del"
    BY <1>9 DEF Entered
  <2>1. CASE d = Listener
    BY <1>2, <1>12, <1>13, <1>14, <2>1
  <2>2. CASE d # Listener
    <3>1. /\ d \in Served /\ d \in Mcos /\ tid_[d] \in Threads
          /\ fd[d] # ListenFd /\ fd[d] \in Descriptors
      BY <1>3, <1>16, <2>2, BasicFacts
    <3>2. /\ fdMcos_'[tid_[d]][fd[d]] = fdMcos_[tid_[d]][fd[d]]
          /\ events_'[tid_[d]][fd[d]] = events_[tid_[d]][fd[d]]
          /\ epoll'[tid_[d]][d] = epoll[tid_[d]][d]
          /\ at'[d] = at[d] /\ eorigin_'[d] = eorigin_[d]
          /\ state_'[d] = state_[d]
      BY <1>12, <1>13, <1>14, <2>2, <3>1
    <3> QED
      BY <3>1, <3>2 DEF SInv, Entered
  <2> QED
    BY <2>1, <2>2
<1>22. Occurrences'
  <2> SUFFICES ASSUME NEW u \in Threads, NEW f \in occur[u] \ {WakeFd}
               PROVE  /\ events_'[u][f] # Null
                      /\ at'[events_'[u][f]] \in {"first", "await"}
                      /\ Signalled(events_[u][f])'
    BY <1>9 DEF Occurrences
  <2>1. /\ f \in Descriptors /\ f # ListenFd
        /\ events_[u][f] # Null /\ events_[u][f] \in Mcos
        /\ at[events_[u][f]] \in {"first", "await"} /\ Signalled(events_[u][f])
    BY <1>3, OccurrenceFacts
  <2>2. events_'[u][f] = events_[u][f]
    BY <1>14, <2>1
  <2> QED
    BY <1>1, <1>9, <1>12, <2>1, <2>2 DEF Signalled, Readable
<1>23. Reads'
  <2>1. \A d \in Mcos : Signalled(d)' <=> Signalled(d)
    BY <1>9 DEF Signalled, Readable
  <2> QED
    BY <1>1, <1>9, <1>12, <2>1, BasicFacts DEF SInv, Reads, Over
<1>24. Leftovers'
  <2>1. \A d \in Left : events_'[tid_[d]][fd[d]] = events_[tid_[d]][fd[d]]
    BY <1>3, <1>14, LeftFacts
  <2> QED
    BY <1>9, <1>16, <2>1 DEF SInv, Leftovers
<1> QED
  BY <1>9, <1>15, <1>17, <1>18, <1>19, <1>20, <1>21, <1>22, <1>23, <1>24
     DEF SInv

LEMMA HookSInv ==
  ASSUME SInv, Serialised, NEW t \in Threads, NEW c \in Mcos, Hook(t, c)
  PROVE  SInv'
<1>1. on[t] = c /\ at[c] = "call"
  BY DEF Hook, Executing
<1>2. c \in Served \/ (c = Listener /\ Fresh)
  BY <1>1, RunningFacts
<1> QED
  BY <1>2, HookServed, HookFresh
-----------------------------------------------------------------------------
(* The second half of a hook, on the thread that goes on with it.            *)
LEMMA MovesOn ==
  ASSUME SInv, NEW t \in Threads, NEW c \in Mcos, on[t] = c,
         at[c] # "return", NEW p \in RunningPoints \ {"return"},
         at' = [at EXCEPT ![c] = p],
         UNCHANGED <<on, cur_, pc, occur, maxNum_, room>>,
         \A d \in Mcos : at[d] # "first" => tid_'[d] = tid_[d]
  PROVE  Scheduling'
<1>1. /\ at[c] \in RunningPoints /\ c # Null
      /\ \A u \in Threads \ {t} : on[u] # c /\ cur_[u] # c
      /\ cur_[t] = c /\ tid_[c] = t /\ pc[t] = "batch"
  BY RunningFacts, BasicFacts
<1>2. /\ cur_ \in [Threads -> Mcos \cup {Null}]
      /\ on \in [Threads -> Mcos \cup {Null}]
      /\ at \in [Mcos -> RunningPoints \cup {"first", "await", "done"}]
  BY DEF SInv, ServerTypeOK
<1>3. at'[c] = p /\ \A d \in Mcos \ {c} : at'[d] = at[d]
  BY <1>2
<1>4. "first" \notin RunningPoints
  BY DEF RunningPoints
<1>5. p \notin {"first"} \cup Over
  BY DEF RunningPoints, Over
<1>6. ASSUME NEW u \in Threads
      PROVE  /\ on[u] # Null =>
                  /\ tid_'[on[u]] = u /\ at'[on[u]] \in RunningPoints
                  /\ at'[on[u]] # "return" => cur_[u] = on[u]
             /\ cur_[u] # Null =>
                  /\ tid_'[cur_[u]] = u
                  /\ at'[cur_[u]] \notin {"first"} \cup Over
  <2>1. CASE u = t
    BY <1>1, <1>3, <1>4, <1>5, <2>1
  <2>2. CASE u # t
    <3>1. /\ on[u] # Null => at'[on[u]] = at[on[u]] /\ on[u] \in Mcos
          /\ cur_[u] # Null => at'[cur_[u]] = at[cur_[u]] /\ cur_[u] \in Mcos
      BY <1>1, <1>2, <1>3, <2>2
    <3> QED
      BY <1>4, <3>1 DEF SInv, Scheduling
  <2> QED
    BY <2>1, <2>2
<1>7. ASSUME NEW d \in Mcos, at'[d] \in RunningPoints
      PROVE  on[tid_'[d]] = d
  <2>1. at[d] \in RunningPoints
    BY <1>1, <1>3, <1>7
  <2> QED
    BY <1>4, <2>1 DEF SInv, Scheduling
<1> QED
  BY <1>6, <1>7 DEF SInv, Scheduling

LEMMA LiveFacts ==
  ASSUME SInv, NEW c \in Live, c \in Conns
  PROVE  Open(c)
<1>1. fd[c] # Null /\ closed = {} /\ c \in Mcos /\ c # Listener
  BY BasicFacts, ServerAssumption DEF Live, SInv, Descriptions
<1>2. CASE got = c
  BY <1>1, <1>2 DEF Open, EventsHeld
<1>3. CASE got # c
  <2>1. c \in Served
    BY <1>1, <1>3 DEF Served, Unregistered
  <2>2. /\ tid_[c] \in Threads /\ fd[c] \in Descriptors
        /\ events_[tid_[c]][fd[c]] = c
    BY <2>1, BasicFacts DEF SInv, Entered
  <2>3. events_ \in [Threads -> [Descriptors -> Mcos \cup {Null}]]
    BY DEF SInv, ServerTypeOK
  <2>4. c \in Range(events_[tid_[c]])
    BY <2>2, <2>3 DEF Range
  <2> QED
    BY <1>1, <2>2, <2>4 DEF Open, EventsHeld
<1> QED
  BY <1>2, <1>3

(* Without assertions nothing closes a connection's descriptor.              *)
LEMMA LeftOpen ==
  ASSUME SInv, NEW c \in Left
  PROVE  Open(c)
<1>1. /\ closed = {} /\ fd[c] # Null /\ fd[c] \in Descriptors
      /\ tid_[c] \in Threads /\ events_[tid_[c]][fd[c]] = c
  BY LeftFacts DEF SInv, Descriptions, Leftovers
<1>2. c \in Range(events_[tid_[c]])
  BY <1>1 DEF Range, SInv, ServerTypeOK
<1> QED
  BY <1>1, <1>2 DEF Open, EventsHeld

LEMMA MuteFacts ==
  ASSUME SInv, NEW t \in Threads, NEW c \in Mcos, on[t] = c, at[c] = "woken",
         NEW no \in BOOLEAN, ~no, updateEvents(tid_[c], c, "mod", no)
  PROVE  /\ c \in Served /\ tid_[c] = t
         /\ wake' \subseteq Threads /\ events_' = events_
         /\ state_' \in [Mcos -> {"new", "mod", "del"}]
         /\ eorigin_' \in [Mcos -> BOOLEAN]
         /\ epoll' \in [Threads -> [Mcos -> {"in", "off", "out"}]]
         /\ state_'[c] = "mod" /\ epoll'[t][c] = "off"
         /\ \A d \in Mcos \ {c} : /\ state_'[d] = state_[d]
                                  /\ eorigin_'[d] = eorigin_[d]
         /\ \A u \in Threads, d \in Mcos : d # c \/ u # t =>
              epoll'[u][d] = epoll[u][d]
<1>1. tid_[c] = t /\ c \in Served
  BY RunningFacts DEF Fresh
<1>2. Interest(no) = "off"
  BY DEF Interest
<1>3. /\ wake' \subseteq Threads /\ events_' = events_
      /\ state_' \in [Mcos -> {"new", "mod", "del"}]
      /\ eorigin_' \in [Mcos -> BOOLEAN]
      /\ epoll' \in [Threads -> [Mcos -> {"in", "off", "out"}]]
      /\ \A d \in Mcos \ {c} : /\ state_'[d] = state_[d]
                               /\ eorigin_'[d] = eorigin_[d]
  BY <1>1, ModFacts
<1>4. /\ state_'[c] = "mod" /\ epoll'[tid_[c]][c] = Interest(no)
      /\ \A u \in Threads, d \in Mcos : d # c \/ u # tid_[c] =>
           epoll'[u][d] = epoll[u][d]
  BY <1>1, ModFacts
<1> QED
  BY <1>1, <1>2, <1>3, <1>4

LEMMA readSInv ==
  ASSUME SInv, Serialised, NEW t \in Threads, NEW c \in Mcos, read(t, c)
  PROVE  SInv'
<1>1. /\ c \in Conns /\ c # Listener /\ on[t] = c /\ at[c] = "woken"
      /\ Readable(c)
      /\ updateEvents(tid_[c], c, "mod", FALSE)
      /\ sent' = [sent EXCEPT ![c] = IF sent[c] = 0 THEN @ ELSE @ - 1]
      /\ urgent' \in {urgent, urgent \ {c}}
      /\ at' = [at EXCEPT ![c] = IF sent[c] = 0 THEN "close" ELSE "call"]
      /\ UNCHANGED <<boundEvents, allowed, maxNum_, room, quit_, quitting,
                     backlog, hung, fd, closed, tid_, fdMcos_, cur_, pc, occur,
                     on, got, to, fate>>
  BY ServerAssumption DEF read, Executing, AtEnd, loops, pools
<1>2. /\ c \in Served /\ tid_[c] = t
      /\ wake' \subseteq Threads /\ events_' = events_
      /\ state_' \in [Mcos -> {"new", "mod", "del"}]
      /\ eorigin_' \in [Mcos -> BOOLEAN]
      /\ epoll' \in [Threads -> [Mcos -> {"in", "off", "out"}]]
      /\ state_'[c] = "mod" /\ epoll'[t][c] = "off"
      /\ \A d \in Mcos \ {c} : /\ state_'[d] = state_[d]
                               /\ eorigin_'[d] = eorigin_[d]
      /\ \A u \in Threads, d \in Mcos : d # c \/ u # t =>
           epoll'[u][d] = epoll[u][d]
  <2>1. PICK no \in BOOLEAN : ~no /\ updateEvents(tid_[c], c, "mod", no)
    BY <1>1
  <2> QED
    BY <1>1, <2>1, MuteFacts
<1>3. PICK p \in {"close", "call"} :
        at' = [at EXCEPT ![c] = p] /\ (p = "close" => sent[c] = 0)
  BY <1>1
<1>4. /\ at \in [Mcos -> RunningPoints \cup {"first", "await", "done"}]
      /\ sent \in [Conns -> 0 .. MaxChunks] /\ MaxChunks \in Nat
  BY ServerAssumption DEF SInv, ServerTypeOK
<1>5. /\ at'[c] = p /\ \A d \in Mcos \ {c} : at'[d] = at[d]
      /\ \A d \in Conns \ {c} : sent'[d] = sent[d]
      /\ sent[c] = 0 => sent'[c] = 0
      /\ sent' \in [Conns -> 0 .. MaxChunks]
      /\ urgent' \subseteq Conns
      /\ \A d \in Conns \ {c} : d \in urgent' <=> d \in urgent
  BY <1>1, <1>3, <1>4 DEF SInv, ServerTypeOK
<1>6. p \in RunningPoints \ {"return"} /\ p \notin Over /\ p \notin Handing
  BY DEF RunningPoints, Over, Handing
<1>7. ServerTypeOK'
  <2>1. at' \in [Mcos -> RunningPoints \cup {"first", "await", "done"}]
    BY <1>3, <1>4, <1>6
  <2> QED
    BY <1>1, <1>2, <1>5, <2>1 DEF SInv, ServerTypeOK
<1>8. Scheduling'
  BY <1>1, <1>3, <1>6, MovesOn
<1>9. Fresh' <=> Fresh
  BY <1>1, <1>2, <1>5, BasicFacts DEF Fresh
<1>10. Live' = Live /\ Left' = Left
  BY <1>1, <1>2, <1>5, <1>6 DEF Live, Left, Over
<1>11. Served' = Served
  <2>1. at'[Listener] = at[Listener]
    BY <1>1, <1>5, BasicFacts
  <2> QED
    BY <1>1, <1>9, <1>10, <2>1 DEF Served, Unregistered
<1>12. at'[Listener] = at[Listener]
  BY <1>1, <1>5, BasicFacts
<1>13. Descriptions'
  <2>1. ASSUME NEW d \in Conns
        PROVE  /\ fd[d] \in Fds \cup {Null} /\ at'[d] \notin Handing
               /\ fd[d] = Null => at'[d] = "first" /\ got # d
    BY <1>1, <1>5, <1>6, BasicFacts DEF SInv, Descriptions
  <2> QED
    BY <1>1, <1>10, <1>12, <2>1 DEF SInv, Descriptions
<1>14. Handover'
  BY <1>1, <1>2, <1>5, <1>12, RunningFacts, BasicFacts, HandoverStays
<1>15. Tables'
  <2>1. \A u \in Threads, d \in Mcos : epoll'[u][d] # "out" =>
          tid_[d] = u /\ d \in Served
    BY <1>2 DEF SInv, Tables
  <2> QED
    BY <1>1, <1>2, <1>10, <1>11, <1>12, <2>1 DEF SInv, Tables
<1>16. Entered'
  <2> SUFFICES ASSUME NEW d \in Served
               PROVE  /\ fdMcos_[tid_[d]][fd[d]] = d
                      /\ events_[tid_[d]][fd[d]] = d
                      /\ epoll'[tid_[d]][d] # "out"
                      /\ epoll'[tid_[d]][d] = "off" => at'[d] \in RunningPoints
                      /\ at'[d] \in {"first", "await"} =>
                           eorigin_'[d] /\ state_'[d] # "del"
    BY <1>1, <1>2, <1>11 DEF Entered
  <2>1. d \in Mcos /\ tid_[d] \in Threads
    BY BasicFacts
  <2> QED
    BY <1>2, <1>5, <1>6, <2>1 DEF SInv, Entered
<1>17. Occurrences'
  <2> SUFFICES ASSUME NEW u \in Threads, NEW f \in occur[u] \ {WakeFd}
               PROVE  /\ events_[u][f] # Null
                      /\ at'[events_[u][f]] \in {"first", "await"}
                      /\ Signalled(events_[u][f])'
    BY <1>1, <1>2 DEF Occurrences
  <2>1. /\ events_[u][f] \in Mcos \ {c} /\ events_[u][f] # Null
        /\ at[events_[u][f]] \in {"first", "await"}
        /\ Signalled(events_[u][f])
    BY <1>1, OccurrenceFacts
  <2> QED
    BY <1>1, <1>2, <1>5, <2>1 DEF Signalled, Readable, Mcos
<1>18. Reads'
  <2>1. \A d \in Mcos \ {c} : Signalled(d) => Signalled(d)'
    BY <1>1, <1>5 DEF Signalled, Readable, Mcos
  <2>2. p = "close" => c \in hung
    BY <1>1, <1>3, <1>4 DEF Signalled, Readable
  <2> QED
    BY <1>1, <1>3, <1>5, <1>6, <2>1, <2>2, BasicFacts DEF SInv, Reads, Over
<1>19. Leftovers'
  BY <1>1, <1>2, <1>10 DEF SInv, Leftovers
<1> QED
  BY <1>1, <1>7, <1>8, <1>13, <1>14, <1>15, <1>16, <1>17, <1>18, <1>19
     DEF SInv
-----------------------------------------------------------------------------
(* accept() and the hand-over of the connection.                             *)
LEMMA FreeFacts ==
  ASSUME SInv
  PROVE  /\ FreeFds \subseteq Fds
         /\ FreeFds # {} => LowestFree \in FreeFds
         /\ \A c \in Live \cup Left : fd[c] \notin FreeFds
<1>1. FreeFds \subseteq Fds
  BY DEF FreeFds, SInv, ServerTypeOK
<1>2. FreeFds # {} => LowestFree \in FreeFds
  <2>1. FreeFds \subseteq Nat
    BY <1>1, ServerAssumption
  <2> QED
    BY <2>1, LeastFacts DEF LowestFree
<1>3. ASSUME NEW c \in Live
      PROVE  fd[c] \notin FreeFds
  <2>1. CASE c \in Conns
    BY <2>1, LiveFacts DEF FreeFds
  <2>2. CASE c \notin Conns
    BY <1>1, <2>2, BasicFacts, ServerAssumption DEF SInv, Descriptions, Mcos
  <2> QED
    BY <2>1, <2>2
<1>4. ASSUME NEW c \in Left
      PROVE  fd[c] \notin FreeFds
  BY LeftFacts, LeftOpen DEF FreeFds
<1> QED
  BY <1>1, <1>2, <1>3, <1>4

LEMMA AcceptFacts ==
  ASSUME SInv, NEW t \in Threads, accept(t)
  PROVE  /\ on[t] = Listener /\ at[Listener] = "woken" /\ backlog # <<>>
         /\ Listener \in Served /\ tid_[Listener] = t /\ got = Null
         /\ wake' \subseteq Threads /\ events_' = events_
         /\ state_' \in [Mcos -> {"new", "mod", "del"}]
         /\ eorigin_' \in [Mcos -> BOOLEAN]
         /\ epoll' \in [Threads -> [Mcos -> {"in", "off", "out"}]]
         /\ state_'[Listener] = "mod" /\ epoll'[t][Listener] = "off"
         /\ \A d \in Mcos \ {Listener} : /\ state_'[d] = state_[d]
                                         /\ eorigin_'[d] = eorigin_[d]
         /\ \A u \in Threads, d \in Mcos : d # Listener \/ u # t =>
              epoll'[u][d] = epoll[u][d]
         /\ UNCHANGED <<boundEvents, allowed, maxNum_, room, quit_, quitting,
                        sent, urgent, hung, closed, tid_, fdMcos_, cur_, pc,
                        occur, on, fate>>
<1>1. /\ on[t] = Listener /\ at[Listener] = "woken" /\ Readable(Listener)
      /\ updateEvents(tid_[Listener], Listener, "mod", FALSE)
      /\ UNCHANGED <<boundEvents, allowed, maxNum_, room, quit_, quitting, sent,
                     urgent, hung, closed, tid_, fdMcos_, cur_, pc, occur, on,
                     fate>>
  BY DEF accept, Executing, loops, pools
<1>2. backlog # <<>> /\ Listener \in Mcos
  BY <1>1, BasicFacts DEF Readable
<1>3. got = Null
  BY <1>1 DEF SInv, Handover, Handing
<1>4. PICK no \in BOOLEAN :
        ~no /\ updateEvents(tid_[Listener], Listener, "mod", no)
  BY <1>1
<1> QED
  BY <1>1, <1>2, <1>3, <1>4, MuteFacts

(* The descriptors have run out: the connection stays in the backlog.        *)
LEMMA AcceptNothing ==
  ASSUME SInv, Serialised, NEW t \in Threads, accept(t), FreeFds = {}
  PROVE  SInv'
<1>1. /\ at' = [at EXCEPT ![Listener] = "call"]
      /\ UNCHANGED <<backlog, fd, got, to>>
  BY DEF accept
<1>2. Listener \in Mcos /\ MainThread \in Threads
  BY BasicFacts
<1>3. /\ at'[Listener] = "call" /\ \A d \in Mcos \ {Listener} : at'[d] = at[d]
      /\ at' \in [Mcos -> RunningPoints \cup {"first", "await", "done"}]
      /\ "call" \in RunningPoints \ {"return"} /\ "call" \notin Handing \cup Over
  BY <1>1, <1>2 DEF SInv, ServerTypeOK, RunningPoints, Handing, Over
<1>4. ServerTypeOK'
  BY <1>1, <1>3, AcceptFacts DEF SInv, ServerTypeOK
<1>5. Scheduling'
  <2>1. on[t] = Listener /\ at[Listener] # "return"
    BY AcceptFacts
  <2>2. UNCHANGED <<on, cur_, pc, occur, maxNum_, room, tid_>>
    BY AcceptFacts
  <2> QED
    BY <1>1, <1>2, <1>3, <2>1, <2>2, MovesOn
<1>6. Live' = Live /\ Left' = Left
  BY <1>1, <1>3, AcceptFacts DEF Live, Left, Over
<1>7. Served' = Served
  <2>1. got = Null /\ at[Listener] = "woken" /\ state_'[Listener] # "new"
    BY AcceptFacts
  <2> QED
    BY <1>1, <1>3, <1>6, <2>1 DEF Served, Fresh, Unregistered
<1>8. Descriptions'
  <2>1. \A d \in Conns : at'[d] = at[d]
    BY <1>3, BasicFacts, ServerAssumption
  <2> QED
    BY <1>1, <1>3, <1>6, <2>1, AcceptFacts DEF SInv, Descriptions, Over
<1>9. Handover'
  BY <1>1, <1>3, AcceptFacts DEF Handover
<1>10. Tables'
  <2>1. \A u \in Threads, d \in Mcos : epoll'[u][d] # "out" =>
          tid_[d] = u /\ d \in Served
    BY AcceptFacts DEF SInv, Tables
  <2>2. at[Listener] # "register" /\ events_' = events_
        /\ UNCHANGED <<fdMcos_, tid_>>
    BY AcceptFacts
  <2> QED
    BY <1>1, <1>6, <1>7, <2>1, <2>2 DEF SInv, Tables
<1>11. Entered'
  <2> SUFFICES ASSUME NEW d \in Served
               PROVE  /\ fdMcos_[tid_[d]][fd[d]] = d
                      /\ events_[tid_[d]][fd[d]] = d
                      /\ epoll'[tid_[d]][d] # "out"
                      /\ epoll'[tid_[d]][d] = "off" => at'[d] \in RunningPoints
                      /\ at'[d] \in {"first", "await"} =>
                           eorigin_'[d] /\ state_'[d] # "del"
    BY <1>1, <1>7, AcceptFacts DEF Entered
  <2>1. d \in Mcos /\ tid_[d] \in Threads
    BY BasicFacts
  <2> QED
    BY <1>3, <2>1, AcceptFacts DEF SInv, Entered
<1>12. Occurrences'
  <2> SUFFICES ASSUME NEW u \in Threads, NEW f \in occur[u] \ {WakeFd}
               PROVE  /\ events_[u][f] # Null
                      /\ at'[events_[u][f]] \in {"first", "await"}
                      /\ Signalled(events_[u][f])'
    BY AcceptFacts DEF Occurrences
  <2>1. /\ UNCHANGED <<backlog, sent, urgent, hung, events_>>
        /\ at[Listener] = "woken"
    BY <1>1, AcceptFacts
  <2> QED
    BY <1>3, <2>1, OccurrenceFacts DEF Signalled, Readable
<1>13. Reads'
  <2>1. UNCHANGED <<backlog, sent, urgent, hung>>
    BY <1>1, AcceptFacts
  <2>2. \A d \in Mcos : Signalled(d)' <=> Signalled(d)
    BY <2>1 DEF Signalled, Readable
  <2> QED
    BY <1>3, <2>1, <2>2, BasicFacts DEF SInv, Reads, Over
<1>14. Leftovers'
  <2>1. UNCHANGED <<fd, tid_, events_>>
    BY <1>1, AcceptFacts
  <2> QED
    BY <1>6, <2>1 DEF SInv, Leftovers
<1> QED
  BY <1>4, <1>5, <1>8, <1>9, <1>10, <1>11, <1>12, <1>13, <1>14, AcceptFacts
     DEF SInv

LEMMA AcceptOne ==
  ASSUME SInv, Serialised, NEW t \in Threads, accept(t), FreeFds # {}
  PROVE  SInv'
<1> DEFINE g == Head(backlog)
<1>1. /\ got' = g /\ backlog' = Tail(backlog)
      /\ fd' = [fd EXCEPT ![g] = LowestFree] /\ to' \in Threads
      /\ at' = [at EXCEPT ![Listener] = "insert"]
  BY DEF accept
<1>2. Listener \in Mcos /\ MainThread \in Threads
  BY BasicFacts
<1>3. /\ at'[Listener] = "insert" /\ \A d \in Mcos \ {Listener} : at'[d] = at[d]
      /\ at' \in [Mcos -> RunningPoints \cup {"first", "await", "done"}]
      /\ "insert" \in RunningPoints \ {"return"}
      /\ "insert" \in Handing /\ "insert" \notin Over
  BY <1>1, <1>2 DEF SInv, ServerTypeOK, RunningPoints, Handing, Over
<1>4. /\ g \in Conns /\ fd[g] = Null /\ backlog' \in Seq(Conns)
      /\ Len(backlog') = Len(backlog) - 1 /\ Len(backlog) \in Nat
      /\ \A i \in 1 .. Len(backlog') : i + 1 \in 1 .. Len(backlog)
                                       /\ backlog'[i] = backlog[i + 1]
      /\ 1 \in 1 .. Len(backlog) /\ g = backlog[1]
  <2>1. backlog \in Seq(Conns) /\ backlog # <<>>
    BY AcceptFacts DEF SInv, ServerTypeOK
  <2>2. 1 \in 1 .. Len(backlog) /\ g = backlog[1] /\ g \in Conns
    BY <2>1
  <2> QED
    BY <1>1, <2>1, <2>2 DEF SInv, Descriptions
<1>5. g \in Mcos /\ g # Listener /\ g # Null /\ at[g] = "first"
  BY <1>4, BasicFacts, ServerAssumption DEF SInv, Descriptions
<1>6. /\ LowestFree \in Fds /\ LowestFree # Null
      /\ \A d \in Live \cup Left : fd[d] # LowestFree
  BY FreeFacts, ServerAssumption DEF Descriptors
<1>7. /\ fd'[g] = LowestFree /\ \A d \in Mcos \ {g} : fd'[d] = fd[d]
      /\ fd' \in [Mcos -> Descriptors \cup {Null}]
  <2>1. fd \in [Mcos -> Descriptors \cup {Null}]
    BY DEF SInv, ServerTypeOK
  <2> QED
    BY <1>1, <1>5, <1>6, <2>1 DEF Descriptors
<1>8. /\ g \notin Live /\ g \notin Left
      /\ \A d \in Live \cup Left : fd'[d] = fd[d] /\ d \in Mcos
  <2>1. \A d \in Live \cup Left : d \in Mcos /\ fd[d] # Null
    BY BasicFacts, LeftFacts DEF Live
  <2>2. g \notin Live \cup Left
    BY <1>4, <2>1
  <2> QED
    BY <1>7, <2>1, <2>2
<1>9. ServerTypeOK'
  <2>1. /\ wake' \subseteq Threads
        /\ state_' \in [Mcos -> {"new", "mod", "del"}]
        /\ eorigin_' \in [Mcos -> BOOLEAN]
        /\ epoll' \in [Threads -> [Mcos -> {"in", "off", "out"}]]
        /\ UNCHANGED <<boundEvents, allowed, maxNum_, room, quit_, quitting,
                       sent, urgent, hung, closed, tid_, fdMcos_, cur_, pc,
                       occur, on, fate, events_>>
    BY AcceptFacts
  <2>2. got' \in Conns \cup {Null} /\ to' \in Threads \cup {Null}
    BY <1>1, <1>4
  <2> QED
    BY <1>3, <1>4, <1>7, <2>1, <2>2 DEF SInv, ServerTypeOK
<1>10. Scheduling'
  <2>1. on[t] = Listener /\ at[Listener] # "return"
    BY AcceptFacts
  <2>2. UNCHANGED <<on, cur_, pc, occur, maxNum_, room, tid_>>
    BY AcceptFacts
  <2> QED
    BY <1>1, <1>2, <1>3, <2>1, <2>2, MovesOn
<1>11. Live' = Live \cup {g} /\ Left' = Left
  BY <1>3, <1>5, <1>6, <1>7, AcceptFacts DEF Live, Left, Over
<1>12. Served' = Served
  <2>1. state_'[Listener] # "new" /\ got = Null
    BY AcceptFacts
  <2>2. at[Listener] = "woken"
    BY AcceptFacts
  <2> QED
    BY <1>1, <1>3, <1>8, <1>11, <2>1, <2>2, BasicFacts
       DEF Served, Fresh, Unregistered
<1>13. Descriptions'
  <2>1. UNCHANGED <<closed, boundEvents, tid_>>
    BY AcceptFacts
  <2>2. fd'[Listener] = fd[Listener]
    BY <1>2, <1>5, <1>7
  <2>3. ASSUME NEW d \in Conns
        PROVE  /\ fd'[d] \in Fds \cup {Null} /\ at'[d] \notin Handing
               /\ fd'[d] = Null => at'[d] = "first" /\ got' # d
    <3>1. at'[d] = at[d] /\ d \in Mcos
      BY <1>3, BasicFacts, ServerAssumption
    <3>2. CASE d = g
      BY <1>6, <1>7, <3>1, <3>2 DEF SInv, Descriptions
    <3>3. CASE d # g
      BY <1>1, <1>7, <3>1, <3>3 DEF SInv, Descriptions
    <3> QED
      BY <3>2, <3>3
  <2>4. \A c, d \in Live' \cup Left' : fd'[c] = fd'[d] => c = d
    BY <1>6, <1>7, <1>8, <1>11 DEF SInv, Descriptions
  <2>5. \A i, j \in 1 .. Len(backlog') : backlog'[i] = backlog'[j] => i = j
    <3> SUFFICES ASSUME NEW i \in 1 .. Len(backlog'), NEW j \in 1 .. Len(backlog'),
                        backlog'[i] = backlog'[j]
                 PROVE  i = j
      OBVIOUS
    <3>1. i + 1 = j + 1
      BY <1>4 DEF SInv, Descriptions
    <3> QED
      BY <1>4, <3>1
  <2>6. \A i \in 1 .. Len(backlog') : fd'[backlog'[i]] = Null
    <3> SUFFICES ASSUME NEW i \in 1 .. Len(backlog')
                 PROVE  fd'[backlog'[i]] = Null
      OBVIOUS
    <3>1. /\ i + 1 \in 1 .. Len(backlog) /\ i + 1 # 1
          /\ backlog'[i] = backlog[i + 1]
      BY <1>4
    <3>2. backlog[i + 1] # g /\ fd[backlog[i + 1]] = Null
      BY <1>4, <3>1 DEF SInv, Descriptions
    <3>3. backlog[i + 1] \in Mcos
      <4>1. backlog \in Seq(Conns)
        BY DEF SInv, ServerTypeOK
      <4>2. backlog[i + 1] \in Conns
        BY <3>1, <4>1
      <4> QED
        BY <4>2 DEF Mcos
    <3> QED
      BY <1>7, <3>1, <3>2, <3>3
  <2> QED
    BY <1>3, <2>1, <2>2, <2>3, <2>4, <2>5, <2>6 DEF SInv, Descriptions, Over
<1>14. Handover'
  BY <1>1, <1>3, <1>4, <1>5, <1>6, <1>7, AcceptFacts DEF Handover
<1>15. Tables'
  <2>1. at[Listener] # "register" /\ events_' = events_
        /\ UNCHANGED <<fdMcos_, tid_>>
    BY AcceptFacts
  <2>2. \A u \in Threads, d \in Mcos : epoll'[u][d] # "out" =>
          tid_[d] = u /\ d \in Served
    BY AcceptFacts DEF SInv, Tables
  <2>3. \A d \in Served \cup Left : fd'[d] = fd[d]
    BY <1>8, BasicFacts
  <2> QED
    BY <1>11, <1>12, <2>1, <2>2, <2>3 DEF SInv, Tables
<1>16. Entered'
  <2> SUFFICES ASSUME NEW d \in Served
               PROVE  /\ fdMcos_[tid_[d]][fd'[d]] = d
                      /\ events_[tid_[d]][fd'[d]] = d
                      /\ epoll'[tid_[d]][d] # "out"
                      /\ epoll'[tid_[d]][d] = "off" => at'[d] \in RunningPoints
                      /\ at'[d] \in {"first", "await"} =>
                           eorigin_'[d] /\ state_'[d] # "del"
    BY <1>12, AcceptFacts DEF Entered
  <2>1. d \in Mcos /\ tid_[d] \in Threads /\ fd'[d] = fd[d]
    BY <1>8, BasicFacts
  <2>2. /\ fdMcos_[tid_[d]][fd[d]] = d
        /\ events_[tid_[d]][fd[d]] = d
        /\ epoll[tid_[d]][d] # "out"
        /\ epoll[tid_[d]][d] = "off" => at[d] \in RunningPoints
        /\ at[d] \in {"first", "await"} => eorigin_[d] /\ state_[d] # "del"
    BY DEF SInv, Entered
  <2>3. CASE d = Listener
    <3>1. epoll'[tid_[d]][d] = "off"
      BY <2>3, AcceptFacts
    <3> QED
      BY <1>3, <2>1, <2>2, <2>3, <3>1
  <2>4. CASE d # Listener
    <3>1. /\ epoll'[tid_[d]][d] = epoll[tid_[d]][d]
          /\ state_'[d] = state_[d] /\ eorigin_'[d] = eorigin_[d]
      BY <2>1, <2>4, AcceptFacts
    <3> QED
      BY <1>3, <2>1, <2>2, <2>4, <3>1
  <2> QED
    BY <2>3, <2>4
<1>17. Occurrences'
  <2> SUFFICES ASSUME NEW u \in Threads, NEW f \in occur[u] \ {WakeFd}
               PROVE  /\ events_[u][f] # Null
                      /\ at'[events_[u][f]] \in {"first", "await"}
                      /\ Signalled(events_[u][f])'
    BY AcceptFacts DEF Occurrences
  <2>1. UNCHANGED <<sent, urgent, hung, events_>> /\ at[Listener] = "woken"
    BY AcceptFacts
  <2>2. /\ events_[u][f] \in Mcos \ {Listener} /\ events_[u][f] # Null
        /\ at[events_[u][f]] \in {"first", "await"}
        /\ Signalled(events_[u][f])
    BY <2>1, OccurrenceFacts
  <2> QED
    BY <1>3, <2>1, <2>2 DEF Signalled, Readable
<1>18. Reads'
  <2>1. UNCHANGED <<sent, urgent, hung>>
    BY AcceptFacts
  <2>2. \A d \in Mcos \ {Listener} : Signalled(d)' <=> Signalled(d)
    BY <2>1 DEF Signalled, Readable
  <2> QED
    BY <1>3, <2>1, <2>2, BasicFacts, ServerAssumption DEF SInv, Reads, Over
<1>19. Leftovers'
  <2>1. UNCHANGED <<tid_, events_>>
    BY AcceptFacts
  <2> QED
    BY <1>8, <1>11, <2>1 DEF SInv, Leftovers
<1> QED
  BY <1>9, <1>10, <1>13, <1>14, <1>15, <1>16, <1>17, <1>18, <1>19, AcceptFacts
     DEF SInv

LEMMA AcceptSInv ==
  ASSUME SInv, Serialised, NEW t \in Threads, accept(t)
  PROVE  SInv'
BY AcceptNothing, AcceptOne

LEMMA HandoverFacts ==
  ASSUME SInv, NEW t \in Threads, on[t] = Listener, at[Listener] \in Handing
  PROVE  /\ state_[Listener] # "new" /\ ~Fresh
         /\ got \in Conns /\ got \in Mcos /\ got # Listener /\ got # Null
         /\ to \in Threads /\ tid_[Listener] = t
         /\ fd[got] # Null /\ fd[got] \in Descriptors /\ at[got] = "first"
         /\ got \in Live /\ got \notin Served /\ Unregistered(got)
         /\ \A d \in Served \cup Left : fd[d] # fd[got]
         /\ events_[to][fd[got]] = Null /\ epoll[to][got] = "out"
         /\ at[Listener] # "register" => fdMcos_[to][fd[got]] = Null
<1>0. Unregistered(got)
  BY DEF Unregistered, Handing
<1>1. /\ state_[Listener] # "new" /\ got \in Conns /\ to \in Threads
      /\ fd[got] # Null /\ at[got] = "first"
  BY DEF SInv, Handover
<1>2. /\ got \in Mcos /\ got # Listener /\ got # Null /\ got \in Live
      /\ got \notin Served /\ fd[got] \in Descriptors
  BY <1>1, <1>0, BasicFacts, ServerAssumption DEF Live, Served, Over
<1>3. \A d \in Served \cup Left : fd[d] # fd[got]
  BY <1>2, BasicFacts, LeftFacts DEF SInv, Descriptions
<1>4. ~Fresh /\ tid_[Listener] = t
  BY <1>1, RunningFacts, BasicFacts DEF Fresh
<1>5. events_[to][fd[got]] = Null
  BY <1>1, <1>2, <1>3 DEF SInv, Tables
<1>6. epoll[to][got] = "out"
  BY <1>1, <1>2 DEF SInv, Tables
<1>7. at[Listener] # "register" => fdMcos_[to][fd[got]] = Null
  BY <1>1, <1>2, <1>3 DEF SInv, Tables
<1> QED
  BY <1>0, <1>1, <1>2, <1>3, <1>4, <1>5, <1>6, <1>7

LEMMA BeginInsertSInv ==
  ASSUME SInv, Serialised, NEW t \in Threads, BeginInsert(t)
  PROVE  SInv'
<1>1. /\ on[t] = Listener /\ at[Listener] = "insert" /\ Listener \in Mcos
      /\ at' = [at EXCEPT ![Listener] = "inserting"]
      /\ UNCHANGED <<boundEvents, allowed, maxNum_, room, quit_, quitting,
                     backlog, sent, urgent, hung, fd, closed, wake, events_,
                     epoll, state_, eorigin_, tid_, fdMcos_, cur_, pc, occur,
                     on, got, to, fate>>
  BY BasicFacts DEF BeginInsert, Executing, kernel, loops, tables, pools
<1>2. /\ at'[Listener] = "inserting"
      /\ \A d \in Mcos \ {Listener} : at'[d] = at[d]
      /\ at' \in [Mcos -> RunningPoints \cup {"first", "await", "done"}]
      /\ "inserting" \in RunningPoints \ {"return"}
      /\ "inserting" \in Handing /\ "inserting" \notin Over
  BY <1>1 DEF SInv, ServerTypeOK, RunningPoints, Handing, Over
<1>3. ServerTypeOK'
  BY <1>1, <1>2 DEF SInv, ServerTypeOK
<1>4. Scheduling'
  BY <1>1, <1>2, MovesOn
<1>5. Live' = Live /\ (Fresh' <=> Fresh) /\ Left' = Left
  BY <1>1, <1>2 DEF Live, Fresh, Over, Left
<1>6. Served' = Served
  BY <1>1, <1>2, <1>5 DEF Served, Unregistered
<1>7. Descriptions'
  <2>1. \A d \in Conns : at'[d] = at[d]
    BY <1>2, BasicFacts, ServerAssumption
  <2> QED
    BY <1>1, <1>2, <1>5, <2>1 DEF SInv, Descriptions, Over
<1>8. Handover'
  <2>1. "insert" \in Handing
    BY DEF Handing
  <2> QED
    BY <1>1, <1>2, <2>1, HandoverFacts DEF SInv, Handover
<1>9. Tables' /\ Entered' /\ Leftovers'
  <2>1. \A d \in Served : at'[d] = at[d] \/ at'[d] = "inserting"
    BY <1>2, BasicFacts
  <2> QED
    BY <1>1, <1>2, <1>5, <1>6, <2>1 DEF SInv, Tables, Entered, Leftovers
<1>10. Occurrences'
  <2> SUFFICES ASSUME NEW u \in Threads, NEW f \in occur[u] \ {WakeFd}
               PROVE  /\ events_[u][f] # Null
                      /\ at'[events_[u][f]] \in {"first", "await"}
                      /\ Signalled(events_[u][f])'
    BY <1>1 DEF Occurrences
  <2> QED
    BY <1>1, <1>2, OccurrenceFacts DEF Signalled, Readable
<1>11. Reads'
  <2>1. \A d \in Mcos : Signalled(d)' <=> Signalled(d)
    BY <1>1 DEF Signalled, Readable
  <2> QED
    BY <1>1, <1>2, <2>1, BasicFacts DEF SInv, Reads, Over
<1> QED
  BY <1>1, <1>3, <1>4, <1>7, <1>8, <1>9, <1>10, <1>11 DEF SInv

LEMMA EndInsertSInv ==
  ASSUME SInv, Serialised, NEW t \in Threads, EndInsert(t)
  PROVE  SInv'
<1>1. /\ on[t] = Listener /\ at[Listener] = "inserting" /\ Listener \in Mcos
      /\ fdMcos_' = [fdMcos_ EXCEPT ![to][fd[got]] = got]
      /\ tid_' = [tid_ EXCEPT ![got] = to]
      /\ at' = [at EXCEPT ![Listener] = "register"]
      /\ UNCHANGED <<boundEvents, allowed, maxNum_, room, quit_, quitting,
                     backlog, sent, urgent, hung, fd, closed, wake, events_,
                     epoll, state_, eorigin_, cur_, pc, occur, on, got, to,
                     fate>>
  BY BasicFacts DEF EndInsert, Executing, kernel, loops, setMcoRoutine, TidSet
<1>2. /\ got \in Conns /\ got \in Mcos /\ got # Listener /\ got # Null
      /\ to \in Threads /\ state_[Listener] # "new"
      /\ fd[got] # Null /\ fd[got] \in Descriptors /\ at[got] = "first"
      /\ got \in Live /\ got \notin Served
      /\ \A d \in Served \cup Left : fd[d] # fd[got]
      /\ fdMcos_[to][fd[got]] = Null
  BY <1>1, HandoverFacts DEF Handing
<1>3. /\ at'[Listener] = "register"
      /\ \A d \in Mcos \ {Listener} : at'[d] = at[d]
      /\ at' \in [Mcos -> RunningPoints \cup {"first", "await", "done"}]
      /\ "register" \in RunningPoints \ {"return"}
      /\ "register" \in Handing /\ "register" \notin Over
  BY <1>1 DEF SInv, ServerTypeOK, RunningPoints, Handing, Over
<1>4. /\ tid_'[got] = to /\ \A d \in Mcos \ {got} : tid_'[d] = tid_[d]
      /\ tid_' \in [Mcos -> Threads]
  BY <1>1, <1>2 DEF SInv, ServerTypeOK
<1>5. /\ fdMcos_'[to][fd[got]] = got
      /\ \A u \in Threads, f \in Descriptors : u # to \/ f # fd[got] =>
           fdMcos_'[u][f] = fdMcos_[u][f]
      /\ fdMcos_' \in [Threads -> [Descriptors -> Mcos \cup {Null}]]
  <2>1. fdMcos_ \in [Threads -> [Descriptors -> Mcos \cup {Null}]]
    BY DEF SInv, ServerTypeOK
  <2>2. fdMcos_' = [fdMcos_ EXCEPT ![to] =
                      [fdMcos_[to] EXCEPT ![fd[got]] = got]]
    BY <1>1
  <2> QED
    BY <1>2, <2>1, <2>2
<1>6. ServerTypeOK'
  BY <1>1, <1>3, <1>4, <1>5 DEF SInv, ServerTypeOK
<1>7. Scheduling'
  <2>1. \A d \in Mcos : at[d] # "first" => tid_'[d] = tid_[d]
    BY <1>2, <1>4
  <2> QED
    BY <1>1, <1>3, <2>1, MovesOn
<1>8. Live' = Live /\ (Fresh' <=> Fresh) /\ Left' = Left
  BY <1>1, <1>3 DEF Live, Fresh, Over, Left
<1>9. Served' = Served
  BY <1>1, <1>3, <1>8 DEF Served, Unregistered
<1>10. \A d \in Served \cup Left :
         /\ d \in Mcos /\ tid_'[d] = tid_[d] /\ tid_[d] \in Threads
         /\ fd[d] \in Descriptors
  BY <1>2, <1>4, BasicFacts, LeftFacts
<1>11. Descriptions'
  <2>1. \A d \in Conns : at'[d] = at[d]
    BY <1>3, BasicFacts, ServerAssumption
  <2>2. tid_'[Listener] = tid_[Listener]
    BY <1>1, <1>2, <1>4
  <2> QED
    BY <1>1, <1>3, <1>8, <2>1, <2>2 DEF SInv, Descriptions, Over
<1>12. Handover'
  BY <1>1, <1>2, <1>3, <1>4, <1>5 DEF Handover
<1>13. Tables'
  <2>1. ASSUME NEW u \in Threads, NEW f \in Descriptors, fdMcos_'[u][f] # Null
        PROVE  /\ fd[fdMcos_'[u][f]] = f /\ tid_'[fdMcos_'[u][f]] = u
               /\ fdMcos_'[u][f] \in Served \/ fdMcos_'[u][f] = got
    <3>1. CASE u = to /\ f = fd[got]
      BY <1>4, <1>5, <3>1
    <3>2. CASE ~(u = to /\ f = fd[got])
      <4>1. fdMcos_'[u][f] = fdMcos_[u][f]
        BY <1>5, <3>2
      <4>2. /\ fd[fdMcos_[u][f]] = f /\ tid_[fdMcos_[u][f]] = u
            /\ fdMcos_[u][f] \in Served
        BY <1>1, <2>1, <4>1 DEF SInv, Tables
      <4> QED
        BY <1>10, <4>1, <4>2
    <3> QED
      BY <3>1, <3>2
  <2>2. \A u \in Threads, f \in Descriptors : events_[u][f] # Null =>
          /\ fd[events_[u][f]] = f /\ tid_'[events_[u][f]] = u
          /\ events_[u][f] \in Served \cup Left
    BY <1>10 DEF SInv, Tables
  <2>3. \A u \in Threads, d \in Mcos : epoll[u][d] # "out" =>
          tid_'[d] = u /\ d \in Served
    BY <1>10 DEF SInv, Tables
  <2> QED
    BY <1>1, <1>3, <1>8, <1>9, <2>1, <2>2, <2>3 DEF Tables
<1>14. Entered'
  <2>1. \A d \in Served : fdMcos_'[tid_[d]][fd[d]] = fdMcos_[tid_[d]][fd[d]]
    BY <1>2, <1>5, <1>10
  <2>2. \A d \in Served : at'[d] = at[d] \/ at'[d] = "register"
    BY <1>3, <1>10
  <2> QED
    BY <1>1, <1>3, <1>9, <1>10, <2>1, <2>2 DEF SInv, Entered
<1>15. Occurrences'
  <2> SUFFICES ASSUME NEW u \in Threads, NEW f \in occur[u] \ {WakeFd}
               PROVE  /\ events_[u][f] # Null
                      /\ at'[events_[u][f]] \in {"first", "await"}
                      /\ Signalled(events_[u][f])'
    BY <1>1 DEF Occurrences
  <2> QED
    BY <1>1, <1>3, OccurrenceFacts DEF Signalled, Readable
<1>16. Reads'
  <2>1. \A d \in Mcos : Signalled(d)' <=> Signalled(d)
    BY <1>1 DEF Signalled, Readable
  <2> QED
    BY <1>1, <1>3, <2>1, BasicFacts DEF SInv, Reads, Over
<1>17. Leftovers'
  BY <1>1, <1>8, <1>10 DEF SInv, Leftovers
<1> QED
  BY <1>1, <1>6, <1>7, <1>11, <1>12, <1>13, <1>14, <1>15, <1>16, <1>17
     DEF SInv

LEMMA RegisterSInv ==
  ASSUME SInv, Serialised, NEW t \in Threads, Register(t)
  PROVE  SInv'
<1>1. /\ on[t] = Listener /\ at[Listener] = "register" /\ Listener \in Mcos
      /\ updateEvents(to, got, "new", TRUE)
      /\ Fate(EventsAssertion(to, got, "new"))
      /\ at' = [at EXCEPT ![Listener] = "leave"]
      /\ UNCHANGED <<boundEvents, allowed, maxNum_, room, quit_, quitting,
                     backlog, sent, urgent, hung, fd, closed, tid_, fdMcos_,
                     cur_, pc, occur, on, got, to>>
  BY BasicFacts DEF Register, Executing, kernel, loops, pools
<1>2. /\ got \in Conns /\ got \in Mcos /\ got # Listener /\ got # Null
      /\ to \in Threads /\ state_[Listener] # "new" /\ ~Fresh
      /\ fd[got] # Null /\ fd[got] \in Descriptors /\ at[got] = "first"
      /\ got \in Live /\ got \notin Served
      /\ \A d \in Served \cup Left : fd[d] # fd[got]
      /\ events_[to][fd[got]] = Null /\ epoll[to][got] = "out"
  BY <1>1, HandoverFacts DEF Handing
<1>3. tid_[got] = to /\ fdMcos_[to][fd[got]] = got
  BY <1>1 DEF SInv, Handover, Handing
<1>4. fate' = "ok"
  <2>1. EventsAssertion(to, got, "new")
    BY <1>2 DEF EventsAssertion
  <2> QED
    BY <1>1, <2>1 DEF Fate
<1>5. /\ at'[Listener] = "leave"
      /\ \A d \in Mcos \ {Listener} : at'[d] = at[d]
      /\ at' \in [Mcos -> RunningPoints \cup {"first", "await", "done"}]
      /\ "leave" \in RunningPoints \ {"return"}
      /\ "leave" \notin Handing \cup Over
  BY <1>1 DEF SInv, ServerTypeOK, RunningPoints, Handing, Over
<1>6. /\ wake' \subseteq Threads
      /\ state_' \in [Mcos -> {"new", "mod", "del"}]
      /\ eorigin_' \in [Mcos -> BOOLEAN]
      /\ epoll' \in [Threads -> [Mcos -> {"in", "off", "out"}]]
      /\ events_' \in [Threads -> [Descriptors -> Mcos \cup {Null}]]
      /\ state_'[got] = "new" /\ eorigin_'[got]
      /\ \A d \in Mcos \ {got} : /\ state_'[d] = state_[d]
                                 /\ eorigin_'[d] = eorigin_[d]
      /\ epoll'[to][got] = "in" /\ events_'[to][fd[got]] = got
      /\ \A u \in Threads, d \in Mcos : d # got \/ u # to =>
           epoll'[u][d] = epoll[u][d]
      /\ \A u \in Threads, f \in Descriptors : f # fd[got] \/ u # to =>
           events_'[u][f] = events_[u][f]
  <2>1. PICK yes \in BOOLEAN : yes /\ updateEvents(to, got, "new", yes)
    BY <1>1
  <2>2. Polled(to, got, "new", yes) = "in" /\ EntryAfter(to, got, "new") = got
    BY <1>2, <2>1 DEF Polled, Interest, EntryAfter
  <2>3. Updated(to, got, "new", yes)
    BY <1>2, <2>1, UpdateFacts
  <2>4. /\ wake' \subseteq Threads
        /\ state_' \in [Mcos -> {"new", "mod", "del"}]
        /\ eorigin_' \in [Mcos -> BOOLEAN]
        /\ epoll' \in [Threads -> [Mcos -> {"in", "off", "out"}]]
        /\ events_' \in [Threads -> [Descriptors -> Mcos \cup {Null}]]
    BY <2>3 DEF Updated
  <2>5. /\ state_'[got] = "new" /\ eorigin_'[got] = yes
        /\ \A d \in Mcos \ {got} : /\ state_'[d] = state_[d]
                                   /\ eorigin_'[d] = eorigin_[d]
    BY <2>3 DEF Updated
  <2>6. /\ epoll'[to][got] = "in"
        /\ \A u \in Threads, d \in Mcos : d # got \/ u # to =>
             epoll'[u][d] = epoll[u][d]
    BY <2>2, <2>3 DEF Updated
  <2>7. /\ events_'[to][fd[got]] = got
        /\ \A u \in Threads, f \in Descriptors : f # fd[got] \/ u # to =>
             events_'[u][f] = events_[u][f]
    BY <2>2, <2>3 DEF Updated
  <2>8. eorigin_'[got]
    BY <2>1, <2>5
  <2> QED
    BY <2>4, <2>5, <2>6, <2>7, <2>8
<1>7. ServerTypeOK'
  BY <1>1, <1>4, <1>5, <1>6 DEF SInv, ServerTypeOK
<1>8. Scheduling'
  BY <1>1, <1>5, MovesOn
<1>9. Live' = Live /\ ~Fresh' /\ Left' = Left
  BY <1>1, <1>2, <1>5, <1>6 DEF Live, Fresh, Over, Left
<1>10. Served' = Served \cup {got}
  <2>1. \A d \in Live : d \in Mcos /\ d # Null
    BY BasicFacts
  <2> QED
    BY <1>1, <1>2, <1>5, <1>9, <2>1 DEF Served, Unregistered
<1>11. Descriptions'
  <2>1. \A d \in Conns : at'[d] = at[d] /\ d # Null
    BY <1>5, BasicFacts, ServerAssumption
  <2> QED
    BY <1>1, <1>5, <1>9, <2>1 DEF SInv, Descriptions, Over
<1>12. Handover'
  BY <1>1, <1>2, <1>5, <1>6, BasicFacts DEF Handover
<1>13. Tables'
  <2>1. ASSUME NEW u \in Threads, NEW f \in Descriptors
        PROVE  /\ fdMcos_[u][f] # Null =>
                    /\ fd[fdMcos_[u][f]] = f /\ tid_[fdMcos_[u][f]] = u
                    /\ fdMcos_[u][f] \in Served'
               /\ events_'[u][f] # Null =>
                    /\ fd[events_'[u][f]] = f /\ tid_[events_'[u][f]] = u
                    /\ events_'[u][f] \in Served' \cup Left'
    <3>1. CASE u = to /\ f = fd[got]
      BY <1>3, <1>6, <1>10, <3>1
    <3>2. CASE ~(u = to /\ f = fd[got])
      <4>1. events_'[u][f] = events_[u][f]
        BY <1>6, <3>2
      <4>2. /\ fdMcos_[u][f] # Null =>
                 /\ fd[fdMcos_[u][f]] = f /\ tid_[fdMcos_[u][f]] = u
                 /\ \/ fdMcos_[u][f] \in Served
                    \/ fdMcos_[u][f] = got /\ at[Listener] = "register"
            /\ events_[u][f] # Null =>
                 /\ fd[events_[u][f]] = f /\ tid_[events_[u][f]] = u
                 /\ events_[u][f] \in Served \cup Left
        BY DEF SInv, Tables
      <4> QED
        BY <1>9, <1>10, <4>1, <4>2
    <3> QED
      BY <3>1, <3>2
  <2>2. ASSUME NEW u \in Threads, NEW d \in Mcos, epoll'[u][d] # "out"
        PROVE  tid_[d] = u /\ d \in Served'
    <3>1. CASE d = got /\ u = to
      BY <1>3, <1>10, <3>1
    <3>2. CASE ~(d = got /\ u = to)
      <4>1. epoll[u][d] # "out"
        BY <1>6, <2>2, <3>2
      <4>2. tid_[d] = u /\ d \in Served
        BY <4>1 DEF SInv, Tables
      <4> QED
        BY <1>10, <4>2
    <3> QED
      BY <3>1, <3>2
  <2> QED
    BY <1>1, <2>1, <2>2 DEF Tables
<1>14. Entered'
  <2> SUFFICES ASSUME NEW d \in Served'
               PROVE  /\ fdMcos_[tid_[d]][fd[d]] = d
                      /\ events_'[tid_[d]][fd[d]] = d
                      /\ epoll'[tid_[d]][d] # "out"
                      /\ epoll'[tid_[d]][d] = "off" => at'[d] \in RunningPoints
                      /\ at'[d] \in {"first", "await"} =>
                           eorigin_'[d] /\ state_'[d] # "del"
    BY <1>1 DEF Entered
  <2>1. CASE d = got
    BY <1>2, <1>3, <1>6, <2>1
  <2>2. CASE d # got
    <3>1. /\ d \in Served /\ d \in Mcos /\ tid_[d] \in Threads
          /\ fd[d] # fd[got] /\ fd[d] \in Descriptors
      BY <1>2, <1>10, <2>2, BasicFacts
    <3>2. /\ events_'[tid_[d]][fd[d]] = events_[tid_[d]][fd[d]]
          /\ epoll'[tid_[d]][d] = epoll[tid_[d]][d]
          /\ eorigin_'[d] = eorigin_[d] /\ state_'[d] = state_[d]
      BY <1>6, <2>2, <3>1
    <3>3. at'[d] = at[d] \/ at'[d] = "leave"
      BY <1>5, <3>1
    <3> QED
      BY <1>5, <3>1, <3>2, <3>3 DEF SInv, Entered
  <2> QED
    BY <2>1, <2>2
<1>15. Occurrences'
  <2> SUFFICES ASSUME NEW u \in Threads, NEW f \in occur[u] \ {WakeFd}
               PROVE  /\ events_'[u][f] # Null
                      /\ at'[events_'[u][f]] \in {"first", "await"}
                      /\ Signalled(events_[u][f])'
    BY <1>1 DEF Occurrences
  <2>1. /\ f \in Descriptors
        /\ events_[u][f] # Null /\ events_[u][f] \in Mcos \ {Listener}
        /\ at[events_[u][f]] \in {"first", "await"} /\ Signalled(events_[u][f])
    BY <1>1, OccurrenceFacts
  <2>2. events_'[u][f] = events_[u][f]
    BY <1>2, <1>6, <2>1
  <2> QED
    BY <1>1, <1>5, <2>1, <2>2 DEF Signalled, Readable
<1>16. Reads'
  <2>1. \A d \in Mcos : Signalled(d)' <=> Signalled(d)
    BY <1>1 DEF Signalled, Readable
  <2> QED
    BY <1>1, <1>5, <2>1, BasicFacts DEF SInv, Reads, Over
<1>17. Leftovers'
  <2>1. \A d \in Left : events_'[tid_[d]][fd[d]] = events_[tid_[d]][fd[d]]
    BY <1>2, <1>6, LeftFacts
  <2> QED
    BY <1>1, <1>9, <2>1 DEF SInv, Leftovers
<1> QED
  BY <1>4, <1>7, <1>8, <1>11, <1>12, <1>13, <1>14, <1>15, <1>16, <1>17
     DEF SInv

LEMMA LeaveSInv ==
  ASSUME SInv, Serialised, NEW t \in Threads, Leave(t)
  PROVE  SInv'
<1>1. /\ on[t] = Listener /\ at[Listener] = "leave" /\ Listener \in Mcos
      /\ got' = Null /\ to' = Null
      /\ at' = [at EXCEPT ![Listener] = "call"]
      /\ UNCHANGED <<boundEvents, allowed, maxNum_, room, quit_, quitting,
                     backlog, sent, urgent, hung, fd, closed, wake, events_,
                     epoll, state_, eorigin_, tid_, fdMcos_, cur_, pc, occur,
                     on, fate>>
  BY BasicFacts DEF Leave, Executing, kernel, loops, tables, pools
<1>2. /\ at'[Listener] = "call"
      /\ \A d \in Mcos \ {Listener} : at'[d] = at[d]
      /\ at' \in [Mcos -> RunningPoints \cup {"first", "await", "done"}]
      /\ "call" \in RunningPoints \ {"return"}
      /\ "call" \notin Handing \cup Over \cup {"leave", "register"}
  BY <1>1 DEF SInv, ServerTypeOK, RunningPoints, Handing, Over
<1>3. ServerTypeOK'
  BY <1>1, <1>2 DEF SInv, ServerTypeOK
<1>4. Scheduling'
  BY <1>1, <1>2, MovesOn
<1>5. Live' = Live /\ ~Fresh /\ ~Fresh' /\ Left' = Left
  BY <1>1, <1>2, LeavingFacts DEF Live, Fresh, Over, Left
<1>6. Served' = Served
  <2>1. \A d \in Live : d # Null
    BY BasicFacts
  <2> QED
    BY <1>1, <1>5, <2>1 DEF Served, Unregistered
<1>7. Descriptions'
  <2>1. \A d \in Conns : at'[d] = at[d] /\ d # Null
    BY <1>2, BasicFacts, ServerAssumption
  <2> QED
    BY <1>1, <1>2, <1>5, <2>1 DEF SInv, Descriptions, Over
<1>8. Handover'
  BY <1>1, <1>2 DEF Handover
<1>9. Tables' /\ Entered' /\ Leftovers'
  <2>1. \A d \in Served : at'[d] = at[d] \/ at'[d] = "call"
    BY <1>2, BasicFacts
  <2> QED
    BY <1>1, <1>2, <1>5, <1>6, <2>1 DEF SInv, Tables, Entered, Leftovers
<1>10. Occurrences'
  <2> SUFFICES ASSUME NEW u \in Threads, NEW f \in occur[u] \ {WakeFd}
               PROVE  /\ events_[u][f] # Null
                      /\ at'[events_[u][f]] \in {"first", "await"}
                      /\ Signalled(events_[u][f])'
    BY <1>1 DEF Occurrences
  <2> QED
    BY <1>1, <1>2, OccurrenceFacts DEF Signalled, Readable
<1>11. Reads'
  <2>1. \A d \in Mcos : Signalled(d)' <=> Signalled(d)
    BY <1>1 DEF Signalled, Readable
  <2> QED
    BY <1>1, <1>2, <2>1, BasicFacts DEF SInv, Reads, Over
<1> QED
  BY <1>1, <1>3, <1>4, <1>7, <1>8, <1>9, <1>10, <1>11 DEF SInv
-----------------------------------------------------------------------------
(* The end of a connection.                                                  *)
LEMMA closeSInv ==
  ASSUME SInv, Serialised, NEW t \in Threads, NEW c \in Mcos, close(t, c)
  PROVE  SInv'
<1>1. on[t] = c /\ at[c] = "close" /\ c # Null
  BY BasicFacts DEF close, Executing
<1>2. c # Listener /\ c \in Conns
  BY <1>1 DEF SInv, Descriptions, Mcos
<1>3. /\ c \in Served /\ tid_[c] = t /\ cur_[t] = c /\ fd[c] \in Descriptors
      /\ pc[t] = "batch" /\ ~Unregistered(c)
      /\ on[MainThread] = Listener => t # MainThread
      /\ \A u \in Threads \ {t} : on[u] # c /\ cur_[u] # c
  BY <1>1, <1>2, RunningFacts
<1>4. fdMcos_[t][fd[c]] = c /\ events_[t][fd[c]] = c
  BY <1>3 DEF SInv, Entered
<1>5. /\ getMcoRoutine(t, fd[c]) = {c} /\ CurAfterClose(t, c) = Null
      /\ McosWithout(t, fd[c], c) = [fdMcos_[t] EXCEPT ![fd[c]] = Null]
  BY <1>1, <1>3, <1>4, LookupFacts DEF CurAfterClose, McosWithout
<1>6. /\ cur_' = [cur_ EXCEPT ![t] = Null]
      /\ fdMcos_' = [fdMcos_ EXCEPT ![t] = [fdMcos_[t] EXCEPT ![fd[c]] = Null]]
      /\ updateEvents(t, c, "del", eorigin_[c])
      /\ Fate(EventsAssertion(t, c, "del"))
      /\ at' = [at EXCEPT ![c] = "return"]
      /\ UNCHANGED <<boundEvents, allowed, maxNum_, room, quit_, quitting,
                     backlog, sent, urgent, hung, fd, closed, tid_, pc, occur,
                     on, got, to>>
  BY <1>1, <1>3, <1>4, <1>5 DEF close, loops
<1>7. fate' = "ok"
  <2>1. EventsAssertion(t, c, "del")
    BY <1>1, <1>4 DEF EventsAssertion
  <2> QED
    BY <1>6, <2>1 DEF Fate
<1>8. /\ at'[c] = "return" /\ \A d \in Mcos \ {c} : at'[d] = at[d]
      /\ at' \in [Mcos -> RunningPoints \cup {"first", "await", "done"}]
      /\ "return" \in RunningPoints /\ "return" \in Over
  BY <1>6 DEF SInv, ServerTypeOK, RunningPoints, Over
<1>9. /\ cur_'[t] = Null /\ \A u \in Threads \ {t} : cur_'[u] = cur_[u]
      /\ cur_' \in [Threads -> Mcos \cup {Null}]
      /\ cur_ \in [Threads -> Mcos \cup {Null}]
      /\ on \in [Threads -> Mcos \cup {Null}]
  BY <1>6 DEF SInv, ServerTypeOK
<1>10. /\ fdMcos_'[t][fd[c]] = Null
       /\ \A u \in Threads, f \in Descriptors : u # t \/ f # fd[c] =>
            fdMcos_'[u][f] = fdMcos_[u][f]
       /\ fdMcos_' \in [Threads -> [Descriptors -> Mcos \cup {Null}]]
  <2>1. fdMcos_ \in [Threads -> [Descriptors -> Mcos \cup {Null}]]
    BY DEF SInv, ServerTypeOK
  <2> QED
    BY <1>3, <1>6, <2>1
<1>11. /\ wake' \subseteq Threads
       /\ state_' \in [Mcos -> {"new", "mod", "del"}]
       /\ eorigin_' \in [Mcos -> BOOLEAN]
       /\ epoll' \in [Threads -> [Mcos -> {"in", "off", "out"}]]
       /\ events_' \in [Threads -> [Descriptors -> Mcos \cup {Null}]]
       /\ \A d \in Mcos \ {c} : /\ state_'[d] = state_[d]
                                /\ eorigin_'[d] = eorigin_[d]
       /\ epoll'[t][c] = "out" /\ events_'[t][fd[c]] = IF Asserts THEN Null ELSE c
       /\ \A u \in Threads, d \in Mcos : d # c \/ u # t =>
            epoll'[u][d] = epoll[u][d]
       /\ \A u \in Threads, f \in Descriptors : f # fd[c] \/ u # t =>
            events_'[u][f] = events_[u][f]
  <2>1. eorigin_[c] \in BOOLEAN
    BY DEF SInv, ServerTypeOK
  <2>2. PICK r \in BOOLEAN : updateEvents(t, c, "del", r)
    BY <1>6, <2>1
  <2>3. /\ Polled(t, c, "del", r) = "out"
        /\ EntryAfter(t, c, "del") = IF Asserts THEN Null ELSE c
    BY <1>4 DEF Polled, EntryAfter
  <2>4. Updated(t, c, "del", r)
    BY <1>3, <2>2, UpdateFacts
  <2>5. /\ wake' \subseteq Threads
        /\ state_' \in [Mcos -> {"new", "mod", "del"}]
        /\ eorigin_' \in [Mcos -> BOOLEAN]
        /\ epoll' \in [Threads -> [Mcos -> {"in", "off", "out"}]]
        /\ events_' \in [Threads -> [Descriptors -> Mcos \cup {Null}]]
    BY <2>4 DEF Updated
  <2>6. \A d \in Mcos \ {c} : /\ state_'[d] = state_[d]
                              /\ eorigin_'[d] = eorigin_[d]
    BY <2>4 DEF Updated
  <2>7. /\ epoll'[t][c] = "out"
        /\ \A u \in Threads, d \in Mcos : d # c \/ u # t =>
             epoll'[u][d] = epoll[u][d]
    BY <2>3, <2>4 DEF Updated
  <2>8. /\ events_'[t][fd[c]] = IF Asserts THEN Null ELSE c
        /\ \A u \in Threads, f \in Descriptors : f # fd[c] \/ u # t =>
             events_'[u][f] = events_[u][f]
    BY <2>3, <2>4 DEF Updated
  <2> QED
    BY <2>5, <2>6, <2>7, <2>8
<1>12. ServerTypeOK'
  BY <1>6, <1>7, <1>8, <1>9, <1>10, <1>11 DEF SInv, ServerTypeOK
<1>13. at'[Listener] = at[Listener] /\ state_'[Listener] = state_[Listener]
  BY <1>2, <1>8, <1>11, BasicFacts
<1>14. Live' = Live \ {c} /\ Left' = Left \cup {d \in {c} : ~Asserts}
  BY <1>6, <1>8 DEF Live, Left
<1>15. Served' = Served \ {c}
  BY <1>6, <1>13, <1>14 DEF Served, Fresh, Unregistered
<1>16. Scheduling'
  <2>1. ASSUME NEW u \in Threads
        PROVE  /\ on[u] # Null =>
                    /\ tid_[on[u]] = u /\ at'[on[u]] \in RunningPoints
                    /\ at'[on[u]] # "return" => cur_'[u] = on[u]
               /\ cur_'[u] # Null =>
                    /\ tid_[cur_'[u]] = u
                    /\ at'[cur_'[u]] \notin {"first"} \cup Over
    <3>1. CASE u = t
      BY <1>1, <1>3, <1>8, <1>9, <3>1
    <3>2. CASE u # t
      <4>1. /\ on[u] # Null => at'[on[u]] = at[on[u]]
            /\ cur_[u] # Null => at'[cur_[u]] = at[cur_[u]]
            /\ cur_'[u] = cur_[u]
        BY <1>3, <1>8, <1>9, <3>2
      <4> QED
        BY <4>1 DEF SInv, Scheduling
    <3> QED
      BY <3>1, <3>2
  <2>2. ASSUME NEW d \in Mcos, at'[d] \in RunningPoints
        PROVE  on[tid_[d]] = d
    <3>1. at[d] \in RunningPoints
      BY <1>1, <1>8, <2>2 DEF RunningPoints
    <3> QED
      BY <3>1 DEF SInv, Scheduling
  <2> QED
    BY <1>6, <2>1, <2>2 DEF SInv, Scheduling
<1>17. Descriptions'
  <2>1. ASSUME NEW d \in Conns
        PROVE  /\ fd[d] \in Fds \cup {Null} /\ at'[d] \notin Handing
               /\ fd[d] = Null => at'[d] = "first" /\ got # d
    BY <1>1, <1>8, BasicFacts DEF SInv, Descriptions, Handing
  <2>2. Live' \cup Left' \subseteq Live \cup Left
    BY <1>3, <1>14, BasicFacts
  <2> QED
    BY <1>6, <1>13, <2>1, <2>2 DEF SInv, Descriptions
<1>18. Handover'
  <2>1. ASSUME at[Listener] = "register", got \in Conns, to \in Threads,
               fdMcos_[to][fd[got]] = got, fd[got] # Null
        PROVE  fdMcos_'[to][fd[got]] = got
    <3>1. fd[got] \in Descriptors /\ got # Null
      BY <2>1, BasicFacts DEF SInv, ServerTypeOK
    <3> QED
      BY <1>3, <1>4, <1>10, <2>1, <3>1 DEF Unregistered
  <2>2. at[Listener] = "register" =>
          fdMcos_'[to][fd[got]] = fdMcos_[to][fd[got]]
    BY <2>1 DEF SInv, Handover, Handing
  <2> QED
    BY <1>2, <1>3, <1>6, <1>8, <1>13, <2>2, HandoverStays
<1>19. Tables'
  <2>1. ASSUME NEW u \in Threads, NEW f \in Descriptors
        PROVE  /\ fdMcos_'[u][f] # Null =>
                    /\ fd[fdMcos_'[u][f]] = f /\ tid_[fdMcos_'[u][f]] = u
                    /\ \/ fdMcos_'[u][f] \in Served'
                       \/ fdMcos_'[u][f] = got /\ at[Listener] = "register"
               /\ events_'[u][f] # Null =>
                    /\ fd[events_'[u][f]] = f /\ tid_[events_'[u][f]] = u
                    /\ events_'[u][f] \in Served' \cup Left'
    <3>1. CASE u = t /\ f = fd[c]
      BY <1>3, <1>10, <1>11, <1>14, <3>1
    <3>2. CASE ~(u = t /\ f = fd[c])
      <4>1. events_'[u][f] = events_[u][f] /\ fdMcos_'[u][f] = fdMcos_[u][f]
        BY <1>10, <1>11, <3>2
      <4>2. /\ fdMcos_[u][f] # Null => fdMcos_[u][f] # c
            /\ events_[u][f] # Null => events_[u][f] # c
        BY <1>3, <3>2 DEF SInv, Tables
      <4>3. /\ fdMcos_[u][f] # Null =>
                 /\ fd[fdMcos_[u][f]] = f /\ tid_[fdMcos_[u][f]] = u
                 /\ \/ fdMcos_[u][f] \in Served
                    \/ fdMcos_[u][f] = got /\ at[Listener] = "register"
            /\ events_[u][f] # Null =>
                 /\ fd[events_[u][f]] = f /\ tid_[events_[u][f]] = u
                 /\ events_[u][f] \in Served \cup Left
        BY DEF SInv, Tables
      <4> QED
        BY <1>14, <1>15, <4>1, <4>2, <4>3
    <3> QED
      BY <3>1, <3>2
  <2>2. ASSUME NEW u \in Threads, NEW d \in Mcos, epoll'[u][d] # "out"
        PROVE  tid_[d] = u /\ d \in Served'
    <3>1. epoll[u][d] # "out" /\ ~(d = c /\ u = t)
      BY <1>11, <2>2
    <3>2. tid_[d] = u /\ d \in Served
      BY <3>1 DEF SInv, Tables
    <3> QED
      BY <1>3, <1>15, <3>1, <3>2
  <2> QED
    BY <1>6, <1>13, <2>1, <2>2 DEF Tables
<1>20. Entered'
  <2> SUFFICES ASSUME NEW d \in Served'
               PROVE  /\ fdMcos_'[tid_[d]][fd[d]] = d
                      /\ events_'[tid_[d]][fd[d]] = d
                      /\ epoll'[tid_[d]][d] # "out"
                      /\ epoll'[tid_[d]][d] = "off" => at'[d] \in RunningPoints
                      /\ at'[d] \in {"first", "await"} =>
                           eorigin_'[d] /\ state_'[d] # "del"
    BY <1>6 DEF Entered
  <2>1. /\ d \in Served /\ d \in Live /\ d \in Mcos /\ tid_[d] \in Threads
        /\ d # c /\ fd[d] \in Descriptors /\ c \in Live
    BY <1>3, <1>15, BasicFacts
  <2>2. fd[d] # fd[c]
    BY <2>1 DEF SInv, Descriptions
  <2>3. /\ fdMcos_'[tid_[d]][fd[d]] = fdMcos_[tid_[d]][fd[d]]
        /\ events_'[tid_[d]][fd[d]] = events_[tid_[d]][fd[d]]
        /\ epoll'[tid_[d]][d] = epoll[tid_[d]][d]
        /\ at'[d] = at[d] /\ eorigin_'[d] = eorigin_[d]
        /\ state_'[d] = state_[d]
    BY <1>8, <1>10, <1>11, <2>1, <2>2
  <2> QED
    BY <2>1, <2>3 DEF SInv, Entered
<1>21. Occurrences'
  <2> SUFFICES ASSUME NEW u \in Threads, NEW f \in occur[u] \ {WakeFd}
               PROVE  /\ events_'[u][f] # Null
                      /\ at'[events_'[u][f]] \in {"first", "await"}
                      /\ Signalled(events_[u][f])'
    BY <1>6 DEF Occurrences
  <2>1. /\ f \in Descriptors
        /\ events_[u][f] # Null /\ events_[u][f] \in Mcos \ {c}
        /\ at[events_[u][f]] \in {"first", "await"} /\ Signalled(events_[u][f])
    BY <1>1, OccurrenceFacts
  <2>2. events_'[u][f] = events_[u][f]
    BY <1>4, <1>11, <2>1
  <2> QED
    BY <1>6, <1>8, <2>1, <2>2 DEF Signalled, Readable
<1>22. Reads'
  <2>1. \A d \in Mcos : Signalled(d)' <=> Signalled(d)
    BY <1>6 DEF Signalled, Readable
  <2>2. c \in hung /\ sent[c] = 0
    BY <1>1, <1>2 DEF SInv, Reads
  <2> QED
    BY <1>6, <1>8, <2>1, <2>2, BasicFacts DEF SInv, Reads
<1>23. Leftovers'
  <2> SUFFICES ASSUME NEW d \in Left'
               PROVE  events_'[tid_[d]][fd[d]] = d
    BY <1>6 DEF Leftovers
  <2>1. CASE d = c
    BY <1>3, <1>11, <1>14, <2>1 DEF Left
  <2>2. CASE d # c
    <3>1. d \in Left /\ c \in Live
      BY <1>3, <1>14, <2>2, BasicFacts
    <3>2. fd[d] # fd[c] /\ fd[d] \in Descriptors /\ tid_[d] \in Threads
      BY <2>2, <3>1, LeftFacts DEF SInv, Descriptions
    <3> QED
      BY <1>11, <3>1, <3>2 DEF SInv, Leftovers
  <2> QED
    BY <2>1, <2>2
<1> QED
  BY <1>7, <1>12, <1>16, <1>17, <1>18, <1>19, <1>20, <1>21, <1>22, <1>23
     DEF SInv

LEMMA ReturnSInv ==
  ASSUME SInv, Serialised, NEW t \in Threads, NEW c \in Mcos, Return(t, c)
  PROVE  SInv'
<1>1. /\ on[t] = c /\ at[c] = "return" /\ c # Null
      /\ on' = [on EXCEPT ![t] = Null]
      /\ at' = [at EXCEPT ![c] = "done"]
      /\ UNCHANGED <<boundEvents, allowed, maxNum_, room, quit_, quitting,
                     backlog, sent, urgent, hung, fd, closed, wake, events_,
                     epoll, state_, eorigin_, tid_, fdMcos_, cur_, pc, occur,
                     got, to, fate>>
  BY BasicFacts DEF Return, Executing, kernel, loops, tables, pools
<1>2. c # Listener /\ c \in Conns /\ ~Unregistered(c)
  BY <1>1, RunningFacts DEF SInv, Descriptions, Mcos, Over
<1>3. /\ tid_[c] = t /\ pc[t] = "batch"
      /\ \A u \in Threads : cur_[u] # c
      /\ \A u \in Threads \ {t} : on[u] # c
  BY <1>1, RunningFacts DEF SInv, Scheduling, Over
<1>4. /\ at'[c] = "done" /\ \A d \in Mcos \ {c} : at'[d] = at[d]
      /\ at' \in [Mcos -> RunningPoints \cup {"first", "await", "done"}]
      /\ "return" \in Over /\ "done" \in Over /\ "done" \notin Handing
      /\ "done" \notin RunningPoints
  BY <1>1 DEF SInv, ServerTypeOK, RunningPoints, Over, Handing
<1>5. /\ on'[t] = Null /\ \A u \in Threads \ {t} : on'[u] = on[u]
      /\ on' \in [Threads -> Mcos \cup {Null}]
      /\ on \in [Threads -> Mcos \cup {Null}]
      /\ cur_ \in [Threads -> Mcos \cup {Null}]
  BY <1>1 DEF SInv, ServerTypeOK
<1>6. ServerTypeOK'
  BY <1>1, <1>4, <1>5 DEF SInv, ServerTypeOK
<1>7. at'[Listener] = at[Listener]
  BY <1>2, <1>4, BasicFacts
<1>8. Live' = Live /\ Left' = Left
  BY <1>1, <1>4 DEF Live, Left
<1>9. Served' = Served
  BY <1>1, <1>7, <1>8 DEF Served, Fresh, Unregistered
<1>10. Scheduling'
  <2>1. ASSUME NEW u \in Threads
        PROVE  /\ pc[u] # "batch" => on'[u] = Null
               /\ on'[u] # Null =>
                    /\ tid_[on'[u]] = u /\ at'[on'[u]] \in RunningPoints
                    /\ at'[on'[u]] # "return" => cur_[u] = on'[u]
               /\ cur_[u] # Null =>
                    /\ tid_[cur_[u]] = u
                    /\ at'[cur_[u]] \notin {"first"} \cup Over
    <3>1. cur_[u] # Null => at'[cur_[u]] = at[cur_[u]]
      BY <1>3, <1>4, <1>5
    <3>2. on'[u] # Null => on'[u] = on[u] /\ at'[on[u]] = at[on[u]]
      BY <1>3, <1>4, <1>5
    <3>3. pc[u] # "batch" => on'[u] = Null
      BY <1>3, <1>5 DEF SInv, Scheduling
    <3> QED
      BY <3>1, <3>2, <3>3 DEF SInv, Scheduling
  <2>2. ASSUME NEW d \in Mcos, at'[d] \in RunningPoints
        PROVE  on'[tid_[d]] = d
    <3>1. d # c
      BY <1>4, <2>2
    <3>2. on[tid_[d]] = d /\ tid_[d] \in Threads
      BY <1>4, <2>2, <3>1, BasicFacts DEF SInv, Scheduling
    <3> QED
      BY <1>1, <1>5, <3>1, <3>2
  <2> QED
    BY <1>1, <2>1, <2>2 DEF SInv, Scheduling
<1>11. Descriptions'
  <2>1. ASSUME NEW d \in Conns
        PROVE  /\ fd[d] \in Fds \cup {Null} /\ at'[d] \notin Handing
               /\ fd[d] = Null => at'[d] = "first" /\ got # d
    BY <1>1, <1>4, BasicFacts DEF SInv, Descriptions
  <2> QED
    BY <1>1, <1>7, <1>8, <2>1 DEF SInv, Descriptions
<1>12. Handover'
  <2>1. on[MainThread] = Listener => tid_[c] # MainThread
    BY <1>1, <1>2, <1>3, RunningFacts
  <2> QED
    BY <1>1, <1>2, <1>4, <1>7, <2>1, HandoverStays
<1>13. Tables' /\ Entered' /\ Leftovers'
  <2>1. \A d \in Served : at'[d] = at[d]
    BY <1>1, <1>4, BasicFacts DEF Live
  <2> QED
    BY <1>1, <1>7, <1>8, <1>9, <2>1 DEF SInv, Tables, Entered, Leftovers
<1>14. Occurrences'
  <2> SUFFICES ASSUME NEW u \in Threads, NEW f \in occur[u] \ {WakeFd}
               PROVE  /\ events_[u][f] # Null
                      /\ at'[events_[u][f]] \in {"first", "await"}
                      /\ Signalled(events_[u][f])'
    BY <1>1 DEF Occurrences
  <2> QED
    BY <1>1, <1>4, OccurrenceFacts DEF Signalled, Readable
<1>15. Reads'
  <2>1. \A d \in Mcos : Signalled(d)' <=> Signalled(d)
    BY <1>1 DEF Signalled, Readable
  <2> QED
    BY <1>1, <1>4, <2>1, BasicFacts DEF SInv, Reads
<1> QED
  BY <1>1, <1>6, <1>10, <1>11, <1>12, <1>13, <1>14, <1>15 DEF SInv
-----------------------------------------------------------------------------
LEMMA NextSInv ==
  ASSUME SInv, Serialised, [Next]_vars
  PROVE  SInv'
<1>1. CASE UNCHANGED vars
  <2>1. /\ UNCHANGED <<boundEvents, allowed, maxNum_, room, quit_, quitting,
                       backlog, sent, urgent, hung, fd, closed, wake, events_,
                       epoll, state_, eorigin_, tid_, fdMcos_, cur_, pc, occur,
                       on, at, got, to, fate>>
    BY <1>1 DEF vars, kernel, loops, tables, pools, control
  <2>2. Live' = Live /\ Left' = Left
    BY <2>1 DEF Live, Left
  <2>3. Served' = Served
    BY <2>1, <2>2 DEF Served, Fresh, Unregistered
  <2>4. ServerTypeOK' /\ Scheduling' /\ Descriptions' /\ Handover'
    BY <2>1, <2>2
       DEF SInv, ServerTypeOK, Scheduling, Descriptions, Handover
  <2>5. Tables' /\ Entered' /\ Leftovers' /\ Occurrences' /\ Reads'
    BY <2>1, <2>2, <2>3
       DEF SInv, Tables, Entered, Leftovers, Occurrences, Reads, Signalled,
           Readable
  <2> QED
    BY <2>1, <2>4, <2>5 DEF SInv
<1>2. ASSUME NEW t \in Threads, Step(t)
      PROVE  SInv'
  <2>1. CASE EpollWait(t)
    BY <2>1, EpollWaitSInv
  <2>2. CASE HandleWake(t) \/ EndOfBatch(t)
    BY <2>2, LoopingSInv
  <2>3. CASE \E f \in Descriptors : HandleEvent(t, f)
    BY <2>3, HandleEventSInv
  <2>4. CASE \E c \in Mcos : Hook(t, c)
    BY <2>4, HookSInv
  <2>5. CASE \E c \in Mcos : read(t, c)
    BY <2>5, readSInv
  <2>6. CASE \E c \in Mcos : close(t, c)
    BY <2>6, closeSInv
  <2>7. CASE \E c \in Mcos : Return(t, c)
    BY <2>7, ReturnSInv
  <2>8. CASE accept(t)
    BY <2>8, AcceptSInv
  <2>9. CASE BeginInsert(t)
    BY <2>9, BeginInsertSInv
  <2>10. CASE EndInsert(t)
    BY <2>10, EndInsertSInv
  <2>11. CASE Register(t)
    BY <2>11, RegisterSInv
  <2>12. CASE Leave(t)
    BY <2>12, LeaveSInv
  <2> QED
    BY <1>2, <2>1, <2>2, <2>3, <2>4, <2>5, <2>6, <2>7, <2>8, <2>9, <2>10, <2>11,
       <2>12
       DEF Step
<1>3. ASSUME NEW t \in Threads, Timeout(t) \/ quit(t) \/ wakeupLoop(t)
      PROVE  SInv'
  BY <1>3, LoopingSInv
<1>4. ASSUME NEW c \in Conns,
             Connect(c) \/ Send(c) \/ SendUrgent(c) \/ Hangup(c)
      PROVE  SInv'
  BY <1>4, ClientSInv
<1> QED
  BY <1>1, <1>2, <1>3, <1>4 DEF Next

(* SInv is inductive: every state of the server satisfies it.                *)
THEOREM ServerInvariance ==
  ASSUME Serialised
  PROVE  Spec => []SInv
<1>1. SInv /\ [Next]_vars => SInv'
  BY NextSInv
<1> QED
  BY <1>1, InitSInv, PTL DEF Spec
-----------------------------------------------------------------------------
(* What the invariant implies.                                               *)
LEMMA ArmedFacts ==
  ASSUME SInv
  PROVE  WaiterIsArmed /\ OnlyUrgentDataBlock /\ MutedOnlyWhileRunning
         /\ OneThreadServes /\ NoFault
<1>1. WaiterIsArmed
  <2> SUFFICES ASSUME NEW c \in Mcos, at[c] = "await"
               PROVE  /\ eventHandleAble(c)
                      /\ LET t == tid_[c] IN
                         /\ fdMcos_[t][fd[c]] = c /\ events_[t][fd[c]] = c
                         /\ epoll[t][c] = "in"
                         /\ \A u \in Threads \ {t} : epoll[u][c] = "out"
    BY DEF WaiterIsArmed
  <2>1. fd[c] # Null
    BY ServerAssumption DEF SInv, Descriptions, Mcos, Descriptors
  <2>2. c \in Served
    BY <2>1, BasicFacts
       DEF Served, Live, Over, Fresh, SInv, Handover, Unregistered
  <2>3. epoll[tid_[c]][c] = "in"
    <3>1. epoll[tid_[c]][c] \notin {"off", "out"}
      BY <2>2 DEF SInv, Entered, RunningPoints
    <3>2. epoll[tid_[c]][c] \in {"in", "off", "out"}
      BY BasicFacts DEF SInv, ServerTypeOK
    <3> QED
      BY <3>1, <3>2
  <2> QED
    BY <2>2, <2>3 DEF SInv, Entered, Tables, eventHandleAble
<1>2. OnlyUrgentDataBlock
  <2>1. \A t \in Threads : on[t] \in Mcos \cup {Null}
    BY DEF SInv, ServerTypeOK
  <2> QED
    BY <2>1 DEF OnlyUrgentDataBlock, Blocked, SInv, Reads, Signalled
<1>3. MutedOnlyWhileRunning
  BY DEF MutedOnlyWhileRunning, SInv, Tables, Entered, Scheduling
<1>4. OneThreadServes
  BY RunningFacts DEF OneThreadServes
<1> QED
  BY <1>1, <1>2, <1>3, <1>4 DEF SInv, NoFault

LEMMA ForgottenFacts ==
  ASSUME SInv
  PROVE  FreeIsForgotten /\ (Asserts => ClosedIsErased)
<1>1. FreeIsForgotten
  <2> SUFFICES ASSUME NEW f \in FreeFds, NEW t \in Threads
               PROVE  /\ events_[t][f] = Null /\ fdMcos_[t][f] = Null
                      /\ f \notin occur[t]
    BY DEF FreeIsForgotten
  <2>1. /\ f \in Descriptors /\ f # WakeFd
        /\ \A c \in Served \cup Left : fd[c] # f
    BY FreeFacts, BasicFacts, ServerAssumption DEF Descriptors
  <2>2. at[Listener] = "register" => fd[got] # f
    <3>1. at[Listener] = "register" => got \in Live
      BY BasicFacts DEF SInv, Handover, Handing, Live, Over
    <3> QED
      BY <3>1, FreeFacts
  <2>3. f \notin occur[t]
    BY <2>1, OccurrenceFacts
  <2> QED
    BY <2>1, <2>2, <2>3 DEF SInv, Tables
<1>2. ASSUME Asserts
      PROVE  ClosedIsErased
  <2> SUFFICES ASSUME NEW c \in Conns, at[c] = "done", NEW t \in Threads,
                      NEW f \in Descriptors, events_[t][f] = c
               PROVE  FALSE
    BY DEF ClosedIsErased, Range, SInv, ServerTypeOK
  <2>1. c # Null
    BY BasicFacts
  <2>2. c \in Live
    BY <1>2, <2>1, BasicFacts DEF SInv, Tables, Left
  <2> QED
    BY <2>2 DEF Live, Over
<1> QED
  BY <1>1, <1>2

(* A Continuation is held from accept() until its coroutine has returned,    *)
(* and until the end of accept()'s block.                                    *)
Holdings ==
  \A c \in Mcos :
    ContinuationHeld(c) <=> fd[c] # Null /\ (at[c] # "done" \/ got = c)

LEMMA HoldingsFacts ==
  ASSUME SInv
  PROVE  Holdings
<1> SUFFICES ASSUME NEW c \in Mcos
             PROVE  ContinuationHeld(c) <=>
                      fd[c] # Null /\ (at[c] # "done" \/ got = c)
  BY DEF Holdings
<1>1. c # Null /\ ListenFd # Null
  BY BasicFacts, ServerAssumption DEF Descriptors
<1>2. fd[c] = Null => at[c] = "first" /\ got # c /\ c \in Conns
  BY <1>1 DEF SInv, Descriptions, Mcos
<1>3. \A u \in Threads : /\ on[u] = c => at[c] \in RunningPoints
                         /\ cur_[u] = c => at[c] \notin {"first"} \cup Over
  BY <1>1 DEF SInv, Scheduling
<1>5. ASSUME NEW u \in Threads, c \in Range(fdMcos_[u])
      PROVE  c \in Live
  <2>1. PICK f \in Descriptors : fdMcos_[u][f] = c
    BY <1>5 DEF Range, SInv, ServerTypeOK
  <2>2. c \in Served \/ (c = got /\ at[Listener] = "register")
    BY <1>1, <2>1 DEF SInv, Tables
  <2>3. at[Listener] = "register" => got \in Live
    BY BasicFacts DEF SInv, Handover, Handing, Live, Over
  <2> QED
    BY <2>2, <2>3, BasicFacts
<1>6. ContinuationHeld(c) => fd[c] # Null /\ (at[c] # "done" \/ got = c)
  BY <1>2, <1>3, <1>5
     DEF ContinuationHeld, Live, Over, RunningPoints
<1>7. ASSUME fd[c] # Null, at[c] # "done" \/ got = c
      PROVE  ContinuationHeld(c)
  <2>1. CASE at[c] \in RunningPoints
    BY <2>1, BasicFacts DEF SInv, Scheduling, ContinuationHeld
  <2>2. CASE got = c \/ at[c] = "await"
    BY <2>2 DEF ContinuationHeld
  <2>3. CASE at[c] = "first" /\ got # c
    <3>1. c \in Served
      BY <1>7, <2>3 DEF Served, Live, Over, Fresh, Unregistered
    <3>2. /\ tid_[c] \in Threads /\ fd[c] \in Descriptors
          /\ fdMcos_[tid_[c]][fd[c]] = c
      BY <3>1, BasicFacts DEF SInv, Entered
    <3>3. c \in Range(fdMcos_[tid_[c]])
      BY <3>2 DEF Range, SInv, ServerTypeOK
    <3> QED
      BY <3>2, <3>3 DEF ContinuationHeld
  <2> QED
    BY <1>7, <2>1, <2>2, <2>3 DEF SInv, ServerTypeOK
<1> QED
  BY <1>6, <1>7

(* A descriptor is never taken back, and only Return ends a coroutine.       *)
LEMMA EndFacts ==
  ASSUME SInv, [Next]_vars, NEW c \in Mcos
  PROVE  /\ fd[c] # Null => fd'[c] # Null
         /\ at'[c] = "done" /\ at[c] # "done" => on[tid_[c]] = c
<1>1. /\ at \in [Mcos -> RunningPoints \cup {"first", "await", "done"}]
      /\ fd \in [Mcos -> Descriptors \cup {Null}]
  BY DEF SInv, ServerTypeOK
<1>2. ASSUME NEW t \in Threads, accept(t)
      PROVE  /\ fd[c] # Null => fd'[c] # Null
             /\ at'[c] = "done" => at[c] = "done"
  <2>1. CASE FreeFds = {}
    BY <1>1, <1>2, <2>1 DEF accept
  <2>2. CASE FreeFds # {}
    <3>1. LowestFree # Null
      BY <2>2, FreeFacts, ServerAssumption DEF Descriptors
    <3> QED
      BY <1>1, <1>2, <2>2, <3>1 DEF accept
  <2> QED
    BY <2>1, <2>2
<1>3. ASSUME NEW t \in Threads, NEW d \in Mcos, Return(t, d)
      PROVE  /\ fd' = fd
             /\ at'[c] = "done" /\ at[c] # "done" => on[tid_[c]] = c
  BY <1>1, <1>3, RunningFacts DEF Return, Executing, kernel
<1>4. ASSUME NEW t \in Threads, NEW d \in Mcos,
             Hook(t, d) \/ read(t, d) \/ close(t, d)
      PROVE  fd' = fd /\ (at'[c] = "done" => at[c] = "done")
  BY <1>1, <1>4 DEF Hook, read, close, Yield, kernel
<1>5. ASSUME NEW t \in Threads,
             BeginInsert(t) \/ EndInsert(t) \/ Register(t) \/ Leave(t)
      PROVE  fd' = fd /\ (at'[c] = "done" => at[c] = "done")
  BY <1>1, <1>5 DEF BeginInsert, EndInsert, Register, Leave, kernel
<1>6. ASSUME NEW t \in Threads, NEW f \in Descriptors, HandleEvent(t, f)
      PROVE  fd' = fd /\ (at'[c] = "done" => at[c] = "done")
  BY <1>1, <1>6 DEF HandleEvent, Resume, kernel
<1>7. ASSUME NEW t \in Threads,
             EpollWait(t) \/ HandleWake(t) \/ EndOfBatch(t) \/ Timeout(t)
             \/ quit(t) \/ wakeupLoop(t)
      PROVE  fd' = fd /\ at' = at
  BY <1>7 DEF EpollWait, HandleWake, EndOfBatch, Timeout, quit, wakeupLoop,
              kernel, control
<1>8. ASSUME NEW d \in Conns,
             Connect(d) \/ Send(d) \/ SendUrgent(d) \/ Hangup(d)
      PROVE  fd' = fd /\ at' = at
  BY <1>8 DEF Connect, Send, SendUrgent, Hangup, control
<1>9. CASE UNCHANGED vars
  BY <1>9 DEF vars, kernel, control
<1> QED
  BY <1>2, <1>3, <1>4, <1>5, <1>6, <1>7, <1>8, <1>9 DEF Next, Step
-----------------------------------------------------------------------------
(* A loop that was told to quit does not wait without its eventfd, once      *)
(* quit() has come to wakeupLoop().                                          *)
QuitIsSeen ==
  \A t \in Threads : t \in quit_ \ quitting /\ pc[t] = "wait" => t \in wake

LEMMA QuitSeen ==
  ASSUME SInv, QuitIsSeen, [Next]_vars
  PROVE  QuitIsSeen'
<1>1. /\ pc \in [Threads -> {"wait", "batch", "ended"}]
      /\ wake \subseteq Threads /\ quit_ \subseteq Threads
  BY DEF SInv, ServerTypeOK
<1>2. ASSUME NEW t \in Threads,
             EpollWait(t) \/ HandleWake(t) \/ EndOfBatch(t) \/ Timeout(t)
      PROVE  QuitIsSeen'
  <2>1. /\ quit_' = quit_ /\ quitting' = quitting
        /\ \A u \in Threads \ {t} :
             pc'[u] = pc[u] /\ (u \in wake => u \in wake')
    BY <1>1, <1>2
       DEF EpollWait, HandleWake, EndOfBatch, Timeout, WakeRead, loops
  <2>2. t \in quit_ => pc'[t] # "wait"
    <3>1. CASE EpollWait(t)
      BY <1>1, <3>1 DEF EpollWait
    <3>2. CASE HandleWake(t)
      BY <1>1, <3>2 DEF HandleWake, Looping
    <3>3. CASE EndOfBatch(t) \/ Timeout(t)
      BY <1>1, <3>3 DEF EndOfBatch, Timeout
    <3> QED
      BY <1>2, <3>1, <3>2, <3>3
  <2> QED
    BY <2>1, <2>2 DEF QuitIsSeen
<1>3. ASSUME NEW t \in Threads, quit(t) \/ wakeupLoop(t)
      PROVE  QuitIsSeen'
  BY <1>3 DEF QuitIsSeen, quit, wakeupLoop, Woken, control
<1>4. ASSUME UNCHANGED <<pc, quit_, quitting>>, wake \subseteq wake'
      PROVE  QuitIsSeen'
  BY <1>4 DEF QuitIsSeen
<1>5. ASSUME NEW t \in Threads, NEW c \in Mcos,
             Hook(t, c) \/ read(t, c) \/ close(t, c) \/ Return(t, c)
      PROVE  UNCHANGED <<pc, quit_, quitting>> /\ wake \subseteq wake'
  BY <1>5 DEF Hook, read, close, Return, updateEvents, loops
<1>6. ASSUME NEW t \in Threads,
             \/ accept(t) \/ BeginInsert(t) \/ EndInsert(t)
             \/ Register(t) \/ Leave(t)
      PROVE  UNCHANGED <<pc, quit_, quitting>> /\ wake \subseteq wake'
  BY <1>6
     DEF accept, BeginInsert, EndInsert, Register, Leave, updateEvents, loops
<1>7. ASSUME NEW t \in Threads, NEW f \in Descriptors, HandleEvent(t, f)
      PROVE  UNCHANGED <<pc, quit_, quitting>> /\ wake \subseteq wake'
  BY <1>7 DEF HandleEvent, loops
<1>8. ASSUME NEW c \in Conns,
             Connect(c) \/ Send(c) \/ SendUrgent(c) \/ Hangup(c)
      PROVE  UNCHANGED <<pc, quit_, quitting>> /\ wake \subseteq wake'
  BY <1>8 DEF Connect, Send, SendUrgent, Hangup, loops, control
<1>9. CASE UNCHANGED vars
  BY <1>4, <1>9 DEF vars, loops, control
<1> QED
  BY <1>2, <1>3, <1>4, <1>5, <1>6, <1>7, <1>8, <1>9 DEF Next, Step

LEMMA MissedFacts ==
  ASSUME SInv, QuitIsSeen
  PROVE  NothingIsMissed
<1>1. ASSUME NEW t \in Threads, pc[t] = "wait",
             t \in quit_ \ quitting
      PROVE  WakeFd \in Ready(t)
  BY <1>1 DEF QuitIsSeen, Ready
<1>2. ASSUME NEW t \in Threads, NEW c \in Mcos, tid_[c] = t, fd[c] # Null,
             ~Unregistered(c), at[c] \in {"first", "await"}, Signalled(c)
      PROVE  fd[c] \in Ready(t)
  <2>1. c \in Live /\ c \in Served
    BY <1>2 DEF Live, Served, Over, Fresh
  <2>2. epoll[t][c] = "in"
    <3>1. epoll[t][c] \notin {"off", "out"}
      BY <1>2, <2>1 DEF SInv, Entered, RunningPoints
    <3>2. epoll[t][c] \in {"in", "off", "out"}
      BY DEF SInv, ServerTypeOK
    <3> QED
      BY <3>1, <3>2
  <2>3. c = Listener \/ Open(c)
    BY <2>1, LiveFacts DEF Mcos
  <2> QED
    BY <1>2, <2>2, <2>3 DEF Ready
<1> QED
  BY <1>1, <1>2 DEF NothingIsMissed
-----------------------------------------------------------------------------
(* A connection has one of the descriptors that the process may use.         *)
Within == \A c \in Conns : fd[c] \in allowed \cup {Null}

LEMMA WithinFacts ==
  ASSUME SInv, Within, [Next]_vars
  PROVE  Within'
<1>1. fd \in [Mcos -> Descriptors \cup {Null}] /\ Conns \subseteq Mcos
  BY BasicFacts DEF SInv, ServerTypeOK
<1>2. ASSUME NEW t \in Threads, accept(t)
      PROVE  Within'
  <2>1. allowed' = allowed
    BY <1>2 DEF accept, loops
  <2>2. CASE FreeFds = {}
    BY <1>2, <2>1, <2>2 DEF accept, Within
  <2>3. CASE FreeFds # {}
    <3>1. LowestFree \in allowed
      BY <2>3, FreeFacts DEF FreeFds
    <3>2. fd' = [fd EXCEPT ![Head(backlog)] = LowestFree]
      BY <1>2, <2>3 DEF accept
    <3> QED
      BY <1>1, <2>1, <3>1, <3>2 DEF Within
  <2> QED
    BY <2>2, <2>3
<1>3. ASSUME fd' = fd, allowed' = allowed
      PROVE  Within'
  BY <1>3 DEF Within
<1>4. ASSUME NEW t \in Threads, NEW c \in Mcos,
             Hook(t, c) \/ read(t, c) \/ close(t, c) \/ Return(t, c)
      PROVE  fd' = fd /\ allowed' = allowed
  BY <1>4 DEF Hook, read, close, Return, kernel, loops
<1>5. ASSUME NEW t \in Threads,
             BeginInsert(t) \/ EndInsert(t) \/ Register(t) \/ Leave(t)
             \/ EpollWait(t) \/ HandleWake(t) \/ EndOfBatch(t)
             \/ Timeout(t) \/ quit(t) \/ wakeupLoop(t)
      PROVE  fd' = fd /\ allowed' = allowed
  BY <1>5 DEF BeginInsert, EndInsert, Register, Leave, EpollWait, HandleWake,
              EndOfBatch, Timeout, quit, wakeupLoop, kernel, loops
<1>6. ASSUME NEW t \in Threads, NEW f \in Descriptors, HandleEvent(t, f)
      PROVE  fd' = fd /\ allowed' = allowed
  BY <1>6 DEF HandleEvent, kernel, loops
<1>7. ASSUME NEW c \in Conns,
             Connect(c) \/ Send(c) \/ SendUrgent(c) \/ Hangup(c)
      PROVE  fd' = fd /\ allowed' = allowed
  BY <1>7 DEF Connect, Send, SendUrgent, Hangup, loops
<1>8. CASE UNCHANGED vars
  BY <1>3, <1>8 DEF vars, kernel, loops
<1> QED
  BY <1>2, <1>3, <1>4, <1>5, <1>6, <1>7, <1>8 DEF Next, Step

(* Connections that were accepted hold their descriptors for ever, so that   *)
(* no more can be accepted than the process may have descriptors.            *)
Accepted == {c \in Conns : fd[c] # Null}

Exhaustible ==
  /\ \A c \in Accepted : Open(c)
  /\ Cardinality(Accepted) <= Cardinality(allowed)

LEMMA ExhaustibleFacts ==
  ASSUME SInv, Within, ~Asserts
  PROVE  Exhaustible
<1>1. \A c \in Accepted : c \in Conns /\ c \in Live \cup Left
  BY BasicFacts DEF Accepted, Live, Left
<1>2. \A c \in Accepted : Open(c)
  BY <1>1, LiveFacts, LeftOpen
<1> DEFINE number == [c \in Accepted |-> fd[c]]
<1>3. number \in Injection(Accepted, allowed)
  <2>1. number \in [Accepted -> allowed]
    BY DEF Accepted, Within
  <2>2. \A c, d \in Accepted : number[c] = number[d] => c = d
    BY <1>1 DEF SInv, Descriptions
  <2> QED
    BY <2>1, <2>2 DEF Injection, IsInjective
<1>4. IsFiniteSet(allowed)
  BY ServerAssumption, FS_Subset DEF SInv, ServerTypeOK
<1>5. Cardinality(Accepted) <= Cardinality(allowed)
  BY <1>3, <1>4, FS_Injection
<1> QED
  BY <1>2, <1>5 DEF Exhaustible
-----------------------------------------------------------------------------
(* Type correctness of the tables and of who executes what.                  *)
THEOREM ServerTypeCorrect == ASSUME Serialised PROVE Spec => []ServerTypeOK
<1>1. SInv => ServerTypeOK
  BY DEF SInv
<1> QED
  BY <1>1, ServerInvariance, PTL

(* Of the hooks, updateEvents and eventHandleAble: a coroutine that yielded  *)
(* is where its loop will find it.                                           *)
THEOREM WaitersAreArmed == ASSUME Serialised PROVE Spec => []WaiterIsArmed
BY ArmedFacts, ServerInvariance, PTL

(* Of loop() and the blocking calls behind the hooks: a thread hangs in      *)
(* read() only for a client whose urgent data woke it, never in accept().    *)
THEOREM OnlyUrgentBlocks ==
  ASSUME Serialised PROVE Spec => []OnlyUrgentDataBlock
BY ArmedFacts, ServerInvariance, PTL

(* Of the assertions of pollUpdate and of the hooks, and of the result       *)
(* buffer of Epoll::Loop.                                                    *)
THEOREM NothingFaults == ASSUME Serialised PROVE Spec => []NoFault
BY ArmedFacts, ServerInvariance, PTL

(* Of the second halves of the hooks: no loop waits on a muted descriptor.   *)
THEOREM OnlyTheRunningIsMuted ==
  ASSUME Serialised PROVE Spec => []MutedOnlyWhileRunning
BY ArmedFacts, ServerInvariance, PTL

(* Of setTid and the hand-over by accept(): no coroutine changes its thread. *)
THEOREM ThreadsKeepTheirClients ==
  ASSUME Serialised PROVE Spec => []OneThreadServes
BY ArmedFacts, ServerInvariance, PTL

(* Of the hooked close(): a descriptor that accept() may reuse is in no      *)
(* thread's tables.                                                          *)
THEOREM ReuseIsSafe == ASSUME Serialised PROVE Spec => []FreeIsForgotten
BY ForgottenFacts, ServerInvariance, PTL

(* Of pollUpdate with kDel: no loop keeps the Events of a closed connection. *)
THEOREM ClosedLeaveNothing ==
  ASSUME Serialised, Asserts
  PROVE  Spec => []ClosedIsErased
BY ForgottenFacts, ServerInvariance, PTL

(* Of the shared_ptrs to a Continuation and accept()'s block: with workers a *)
(* Continuation is released when its coroutine has returned, by the thread   *)
(* that executed it, or by the accepting thread if a worker was faster.      *)
THEOREM ReleasesAreLate == ASSUME Serialised PROVE Spec => ReleasedAtTheEnd
<1>1. ASSUME SInv, Holdings, Holdings', [Next]_vars,
             NEW c \in Mcos, Released(c)
      PROVE  /\ at'[c] = "done"
             /\ on[tid_[c]] = c \/ (got = c /\ tid_[c] # MainThread)
  <2>1. /\ fd[c] # Null /\ (at[c] # "done" \/ got = c)
        /\ fd'[c] = Null \/ (at'[c] = "done" /\ got' # c)
    BY <1>1 DEF Holdings, Released
  <2>2. at'[c] = "done"
    BY <1>1, <2>1, EndFacts
  <2>3. CASE at[c] # "done"
    BY <1>1, <2>2, <2>3, EndFacts
  <2>4. CASE at[c] = "done"
    <3>1. got = c /\ c # Null
      BY <2>1, <2>4, BasicFacts, <1>1
    <3> QED
      BY <1>1, <2>2, <2>4, <3>1 DEF SInv, Handover
  <2> QED
    BY <2>2, <2>3, <2>4
<1>2. SInv /\ Holdings /\ Holdings' /\ [Next]_vars =>
        [\A c \in Mcos : Released(c) =>
           /\ at'[c] = "done"
           /\ on[tid_[c]] = c \/ (got = c /\ tid_[c] # MainThread)]_vars
  BY <1>1
<1> QED
  BY <1>2, HoldingsFacts, ServerInvariance, PTL DEF Spec, ReleasedAtTheEnd

(* Of the same without workers: McoFree is called by the thread that         *)
(* executed the coroutine, in the step in which it returns.                  *)
THEOREM ContractIsKept ==
  ASSUME Threads = {MainThread} PROVE Spec => ContractKept
<1>1. Serialised
  BY DEF Serialised
<1>2. SInv /\ [\A c \in Mcos : Released(c) =>
                 /\ at'[c] = "done"
                 /\ on[tid_[c]] = c \/ (got = c /\ tid_[c] # MainThread)]_vars
      => [\A c \in Mcos :
            Released(c) => at'[c] = "done" /\ on[tid_[c]] = c]_vars
  BY BasicFacts
<1> QED
  BY <1>1, <1>2, ReleasesAreLate, ServerInvariance, PTL
     DEF ReleasedAtTheEnd, ContractKept

(* Of the race between updateEvents, quit() and a loop on its way back to    *)
(* epoll_wait: no wake-up is lost.                                           *)
THEOREM NoWakeupIsLost == ASSUME Serialised PROVE Spec => []NothingIsMissed
<1>1. Init => QuitIsSeen
  BY DEF Init, QuitIsSeen
<1>2. SInv /\ QuitIsSeen /\ [Next]_vars => QuitIsSeen'
  BY QuitSeen
<1>3. SInv /\ QuitIsSeen => NothingIsMissed
  BY MissedFacts
<1> QED
  BY <1>1, <1>2, <1>3, ServerInvariance, PTL DEF Spec

(* Of events_.erase as the argument of an assert: with NDEBUG the server     *)
(* closes no connection, and accepts only as many as it has descriptors.     *)
THEOREM DescriptorsRunOut ==
  ASSUME Serialised, ~Asserts
  PROVE  Spec => []Exhaustible
<1>1. Init => Within
  BY ServerAssumption DEF Init, Within, Mcos
<1>2. SInv /\ Within /\ [Next]_vars => Within'
  BY WithinFacts
<1>3. SInv /\ Within => Exhaustible
  BY ExhaustibleFacts
<1> QED
  BY <1>1, <1>2, <1>3, ServerInvariance, PTL DEF Spec

=============================================================================
