--------------------------- MODULE ServerRefinement ---------------------------
(***************************************************************************)
(* With assertions compiled in the server implements Connections, for any  *)
(* number of threads and connections: every step of a loop, a hook or a    *)
(* destructor is one step of the promise or none.                          *)
(***************************************************************************)
EXTENDS ServerProofs

(* Which connections are open, without the counting of shared_ptrs.          *)
Opened(c) ==
  got = c \/ (at[c] # "done" /\ (boundEvents \/ at[c] # "return"))

Phases ==
  [c \in Conns |->
     IF fd[c] = Null THEN IF c \in Range(backlog) THEN "waiting" ELSE "new"
     ELSE IF Opened(c) THEN "open" ELSE "closed"]

Agree == [c \in Conns |-> Phase(c)] = Phases

LEMMA AgreeFacts ==
  ASSUME SInv, Asserts
  PROVE  Agree
<1> SUFFICES ASSUME NEW c \in Conns, fd[c] # Null
             PROVE  Open(c) <=> Opened(c)
  BY DEF Agree, Phases, Phase
<1>1. /\ c \in Mcos /\ c # Null /\ c # Listener /\ closed = {}
      /\ at[c] \in RunningPoints \cup {"first", "await", "done"}
  <2>1. c \in Mcos /\ c # Null /\ c # Listener
    BY BasicFacts, ServerAssumption
  <2>2. at \in [Mcos -> RunningPoints \cup {"first", "await", "done"}]
    BY DEF SInv, ServerTypeOK
  <2> QED
    BY <2>1, <2>2 DEF SInv, Descriptions
<1>2. CASE c \in Live
  BY <1>2, LiveFacts DEF Opened, Live, Over
<1>3. CASE got = c
  BY <1>1, <1>3 DEF Open, Opened, EventsHeld
<1>4. CASE c \notin Live /\ got # c
  <2>1. at[c] \in Over
    BY <1>1, <1>4 DEF Live
  <2>2. ASSUME NEW u \in Threads, c \in Range(events_[u])
        PROVE  FALSE
    <3>1. PICK f \in Descriptors : events_[u][f] = c
      BY <2>2 DEF Range, SInv, ServerTypeOK
    <3> QED
      BY <1>1, <1>4, <3>1, BasicFacts DEF SInv, Tables, Left
  <2>3. Open(c) <=> boundEvents /\ ContinuationHeld(c)
    BY <1>1, <1>4, <2>1, <2>2 DEF Open, EventsHeld, Over
  <2>4. ContinuationHeld(c) <=> at[c] # "done"
    BY <1>1, <1>4, HoldingsFacts DEF Holdings
  <2> QED
    BY <1>4, <2>1, <2>3, <2>4 DEF Opened, Over
<1> QED
  BY <1>2, <1>3, <1>4

LEMMA InitRefines ==
  ASSUME Init
  PROVE  Promise!Init
<1>1. /\ backlog = <<>> /\ hung = {} /\ sent = [c \in Conns |-> 0]
      /\ \A c \in Conns : fd[c] = Null
  BY ServerAssumption DEF Init, Mcos
<1>2. \A c \in Conns : Phase(c) = "new"
  BY <1>1 DEF Phase, Range
<1> QED
  BY <1>1, <1>2 DEF Promise!Init

(* A step that the clients cannot observe.                                   *)
LEMMA Stutters ==
  ASSUME Agree, Agree', UNCHANGED <<backlog, sent, hung>>, Phases' = Phases
  PROVE  UNCHANGED Promise!vars
BY DEF Agree, Promise!vars

(* One in which at most the coroutine c moves, between points at which its   *)
(* connection is open or closed alike.                                       *)
LEMMA SamePhases ==
  ASSUME UNCHANGED <<boundEvents, backlog, fd>>,
         \A c \in Conns : fd[c] # Null => (Opened(c) <=> Opened(c)')
  PROVE  Phases' = Phases
<1>1. \A c \in Conns :
        (IF fd[c] = Null THEN IF c \in Range(backlog) THEN "waiting" ELSE "new"
         ELSE IF Opened(c) THEN "open" ELSE "closed")
        = (IF fd'[c] = Null THEN IF c \in Range(backlog') THEN "waiting" ELSE "new"
           ELSE IF Opened(c)' THEN "open" ELSE "closed")
  OBVIOUS
<1> QED
  BY <1>1 DEF Phases
-----------------------------------------------------------------------------
(* The clients, accept(), read() and the end of a connection are the steps   *)
(* of the promise.                                                           *)
LEMMA ClientRefines ==
  ASSUME SInv, Agree, Agree', NEW c \in Conns,
         Connect(c) \/ Send(c) \/ Hangup(c)
  PROVE  Promise!Next
<1>1. UNCHANGED <<boundEvents, fd, at, got>> /\ c \in Mcos
  BY BasicFacts DEF Connect, Send, Hangup, loops, control
<1>2. \A d \in Conns : Opened(d)' <=> Opened(d)
  BY <1>1 DEF Opened
<1>3. backlog \in Seq(Conns)
  BY DEF SInv, ServerTypeOK
<1>4. CASE Connect(c)
  <2>1. /\ backlog' = Append(backlog, c) /\ UNCHANGED <<sent, hung>>
        /\ fd[c] = Null /\ c \notin Range(backlog)
    BY <1>4 DEF Connect
  <2>2. Range(backlog') = Range(backlog) \cup {c}
    BY <1>3, <2>1 DEF Range
  <2>3. Phases[c] = "new" /\ Phases' = [Phases EXCEPT ![c] = "waiting"]
    BY <1>1, <1>2, <2>1, <2>2 DEF Phases
  <2> QED
    BY <2>1, <2>3
       DEF Agree, Promise!Next, Promise!Connect, Promise!Becomes
<1>5. CASE Send(c) \/ Hangup(c)
  <2>1. Connected(c) /\ backlog' = backlog
    BY <1>5 DEF Send, Hangup
  <2>2. Phases' = Phases
    BY <1>1, <1>2, <2>1, SamePhases
  <2>3. Phases[c] \in {"waiting", "open"} /\ c \notin hung
    BY <2>1, <1>1 DEF Connected, Phases, Opened, SInv, Reads, Over
  <2>4. CASE Send(c)
    BY <2>2, <2>3, <2>4
       DEF Send, Agree, Promise!Next, Promise!Send, Promise!Connected
  <2>5. CASE Hangup(c)
    BY <2>2, <2>3, <2>5
       DEF Hangup, Agree, Promise!Next, Promise!Hangup, Promise!Connected
  <2> QED
    BY <1>5, <2>4, <2>5
<1> QED
  BY <1>4, <1>5

LEMMA TailFacts ==
  ASSUME NEW S, NEW s \in Seq(S), s # <<>>
  PROVE  Range(s) = Range(Tail(s)) \cup {Head(s)}
<1>1. /\ Len(s) \in Nat /\ Len(s) >= 1 /\ DOMAIN s = 1 .. Len(s)
      /\ Head(s) = s[1] /\ 1 \in DOMAIN s
      /\ DOMAIN Tail(s) = 1 .. (Len(s) - 1)
      /\ \A i \in 1 .. (Len(s) - 1) : Tail(s)[i] = s[i + 1]
  OBVIOUS
<1>2. ASSUME NEW x \in Range(s)
      PROVE  x \in Range(Tail(s)) \cup {Head(s)}
  <2>1. PICK i \in DOMAIN s : x = s[i]
    BY DEF Range
  <2>2. CASE i = 1
    BY <1>1, <2>1, <2>2
  <2>3. CASE i # 1
    <3>1. i - 1 \in DOMAIN Tail(s) /\ x = Tail(s)[i - 1]
      BY <1>1, <2>1, <2>3
    <3> QED
      BY <3>1 DEF Range
  <2> QED
    BY <2>2, <2>3
<1>3. ASSUME NEW x \in Range(Tail(s))
      PROVE  x \in Range(s)
  <2>1. PICK i \in DOMAIN Tail(s) : x = Tail(s)[i]
    BY DEF Range
  <2>2. i + 1 \in DOMAIN s /\ x = s[i + 1]
    BY <1>1, <2>1
  <2> QED
    BY <2>2 DEF Range
<1>4. Head(s) \in Range(s)
  BY <1>1 DEF Range
<1> QED
  BY <1>2, <1>3, <1>4

LEMMA AcceptRefines ==
  ASSUME SInv, Agree, Agree', NEW t \in Threads, accept(t)
  PROVE  Promise!Next \/ UNCHANGED Promise!vars
<1>1. /\ UNCHANGED <<boundEvents, sent, hung>> /\ backlog # <<>>
      /\ backlog \in Seq(Conns)
  BY AcceptFacts DEF SInv, ServerTypeOK
<1>2. ASSUME NEW p, at' = [at EXCEPT ![Listener] = p]
      PROVE  /\ got' = got => \A d \in Conns : Opened(d)' <=> Opened(d)
             /\ \A d \in Conns \ {got'} : Opened(d)' <=> Opened(d)
             /\ \A d \in Conns : got' = d => Opened(d)'
  <2>1. \A d \in Conns : at'[d] = at[d] /\ d # Null
    BY <1>2, ServerAssumption, BasicFacts DEF SInv, ServerTypeOK
  <2>2. got = Null
    BY AcceptFacts
  <2> QED
    BY <1>1, <2>1, <2>2 DEF Opened
<1>3. CASE FreeFds = {}
  <2>1. /\ UNCHANGED <<backlog, fd, got>>
        /\ at' = [at EXCEPT ![Listener] = "call"]
    BY <1>3 DEF accept
  <2> QED
    BY <1>1, <1>2, <2>1, SamePhases, Stutters
<1>4. CASE FreeFds # {}
  <2> PICK g : g = Head(backlog)
    OBVIOUS
  <2>1. /\ backlog' = Tail(backlog) /\ fd' = [fd EXCEPT ![g] = LowestFree]
        /\ got' = g
        /\ at' = [at EXCEPT ![Listener] = "insert"]
    BY <1>4 DEF accept
  <2>2. g \in Conns /\ g \in Mcos /\ fd[g] = Null /\ at[g] = "first"
    BY <1>1, BasicFacts DEF SInv, Descriptions
  <2>3. LowestFree # Null
    BY <1>4, FreeFacts, ServerAssumption DEF Descriptors
  <2>4. Range(backlog) = Range(backlog') \cup {g}
    BY <1>1, <2>1, TailFacts
  <2>5. \A d \in Conns \ {g} : fd'[d] = fd[d]
    BY <2>1, <2>2, BasicFacts DEF SInv, ServerTypeOK
  <2>6. fd'[g] # Null
    BY <2>1, <2>2, <2>3 DEF SInv, ServerTypeOK
  <2>7. Opened(g)'
    BY <1>2, <2>1, <2>2
  <2>8. \A d \in Conns \ {g} : Opened(d)' <=> Opened(d)
    BY <1>2, <2>1
  <2>9. Phases[g] = "waiting"
    BY <2>2, <2>4 DEF Phases
  <2>10. Phases' = [Phases EXCEPT ![g] = "open"]
    <3>1. Phases'[g] = "open"
      BY <2>2, <2>6, <2>7 DEF Phases
    <3>2. ASSUME NEW d \in Conns \ {g}
          PROVE  Phases'[d] = Phases[d]
      BY <2>4, <2>5, <2>8 DEF Phases
    <3> QED
      BY <2>2, <3>1, <3>2 DEF Phases
  <2> QED
    BY <1>1, <2>1, <2>2, <2>9, <2>10
       DEF Agree, Promise!Next, Promise!Accept, Promise!Becomes
<1> QED
  BY <1>3, <1>4

LEMMA readRefines ==
  ASSUME SInv, Agree, Agree', NEW t \in Threads, NEW c \in Mcos, read(t, c)
  PROVE  Promise!Next \/ UNCHANGED Promise!vars
<1>1. /\ c \in Conns /\ on[t] = c /\ at[c] = "woken"
      /\ UNCHANGED <<boundEvents, backlog, hung, fd, got>>
      /\ sent' = [sent EXCEPT ![c] = IF sent[c] = 0 THEN @ ELSE @ - 1]
      /\ at' = [at EXCEPT ![c] = IF sent[c] = 0 THEN "close" ELSE "call"]
  BY DEF read, Executing, AtEnd, loops
<1>2. /\ at \in [Mcos -> RunningPoints \cup {"first", "await", "done"}]
      /\ sent \in [Conns -> 0 .. MaxChunks] /\ MaxChunks \in Nat
  BY ServerAssumption DEF SInv, ServerTypeOK
<1>3. \A d \in Conns : Opened(d)' <=> Opened(d)
  BY <1>1, <1>2, BasicFacts DEF Opened
<1>4. Phases' = Phases
  BY <1>1, <1>3, SamePhases
<1>5. Phases[c] = "open"
  BY <1>1, RunningFacts DEF Phases, Opened
<1>6. CASE sent[c] = 0
  <2>1. sent' = sent
    BY <1>1, <1>2, <1>6
  <2> QED
    BY <1>1, <1>4, <2>1, Stutters
<1>7. CASE sent[c] # 0
  <2>1. sent[c] > 0 /\ sent' = [sent EXCEPT ![c] = @ - 1]
    BY <1>1, <1>2, <1>7
  <2> QED
    BY <1>1, <1>4, <1>5, <2>1 DEF Agree, Promise!Next, Promise!Read
<1> QED
  BY <1>6, <1>7

(* The descriptor is closed by the hooked close() if only the loop keeps the *)
(* Events, and when the coroutine returns if its closure keeps it too.       *)
LEMMA CloseRefines ==
  ASSUME Agree, Agree', UNCHANGED <<boundEvents, backlog, sent, hung, fd>>,
         NEW c \in Conns, fd[c] # Null, Opened(c)' => Opened(c),
         Opened(c) /\ ~Opened(c)' => c \in hung /\ sent[c] = 0,
         \A d \in Conns \ {c} : Opened(d)' <=> Opened(d)
  PROVE  Promise!Next \/ UNCHANGED Promise!vars
<1>1. CASE Opened(c) /\ ~Opened(c)'
  <2>1. Phases[c] = "open" /\ Phases' = [Phases EXCEPT ![c] = "closed"]
    BY <1>1 DEF Phases
  <2> QED
    BY <1>1, <2>1 DEF Agree, Promise!Next, Promise!Close, Promise!Becomes
<1>2. CASE Opened(c)' <=> Opened(c)
  BY <1>2, SamePhases, Stutters
<1> QED
  BY <1>1, <1>2

LEMMA EndRefines ==
  ASSUME SInv, Agree, Agree', NEW t \in Threads, NEW c \in Mcos,
         close(t, c) \/ Return(t, c)
  PROVE  Promise!Next \/ UNCHANGED Promise!vars
<1>1. /\ on[t] = c /\ UNCHANGED <<boundEvents, backlog, sent, hung, fd, got>>
      /\ \/ at[c] = "close" /\ at' = [at EXCEPT ![c] = "return"]
         \/ at[c] = "return" /\ at' = [at EXCEPT ![c] = "done"]
  BY DEF close, Return, Executing, kernel, loops
<1>2. c \in Conns /\ fd[c] # Null
  BY <1>1, RunningFacts DEF SInv, Descriptions, Mcos, Over
<1>3. c \in hung /\ sent[c] = 0
  BY <1>1, <1>2 DEF SInv, Reads, Over
<1>4. at'[c] \in {"return", "done"} /\ \A d \in Mcos \ {c} : at'[d] = at[d]
  BY <1>1 DEF SInv, ServerTypeOK
<1>5. \A d \in Conns \ {c} : Opened(d)' <=> Opened(d)
  BY <1>1, <1>4, BasicFacts DEF Opened
<1>6. Opened(c)' => Opened(c)
  BY <1>1, <1>4 DEF Opened, SInv, ServerTypeOK
<1> QED
  BY <1>1, <1>2, <1>3, <1>5, <1>6, CloseRefines

(* A connection that was closed before accept() came to the end of its block *)
(* stays open until then.                                                    *)
LEMMA LeaveRefines ==
  ASSUME SInv, Agree, Agree', NEW t \in Threads, Leave(t)
  PROVE  Promise!Next \/ UNCHANGED Promise!vars
<1>1. /\ UNCHANGED <<boundEvents, backlog, sent, hung, fd>> /\ got' = Null
      /\ at[Listener] = "leave" /\ at' = [at EXCEPT ![Listener] = "call"]
  BY DEF Leave, Executing, kernel, loops
<1>2. PICK c \in Conns : c = got /\ fd[c] # Null
  BY <1>1, LeavingFacts
<1>3. \A d \in Conns : at'[d] = at[d] /\ d # Null
  <2>1. at \in [Mcos -> RunningPoints \cup {"first", "await", "done"}]
    BY DEF SInv, ServerTypeOK
  <2> QED
    BY <1>1, <2>1, BasicFacts, ServerAssumption
<1>4. \A d \in Conns \ {c} : Opened(d)' <=> Opened(d)
  BY <1>1, <1>2, <1>3 DEF Opened
<1>5. Opened(c)
  BY <1>2 DEF Opened
<1>6. ~Opened(c)' => c \in hung /\ sent[c] = 0
  BY <1>1, <1>3 DEF Opened, SInv, Reads, Over
<1> QED
  BY <1>1, <1>2, <1>4, <1>5, <1>6, CloseRefines

(* Everything else is hidden from the clients.                               *)
LEMMA HiddenRefines ==
  ASSUME SInv, Agree, Agree', NEW t \in Threads,
         \/ EpollWait(t) \/ HandleWake(t) \/ EndOfBatch(t) \/ Timeout(t)
         \/ quit(t) \/ wakeupLoop(t) \/ \E f \in Descriptors : HandleEvent(t, f)
         \/ \E c \in Mcos : Hook(t, c)
         \/ BeginInsert(t) \/ EndInsert(t) \/ Register(t)
  PROVE  UNCHANGED Promise!vars
<1> DEFINE Quiet ==
      /\ UNCHANGED <<boundEvents, backlog, sent, hung, fd, got>>
      /\ \/ at' = at
         \/ \E c \in Mcos : /\ at[c] \notin Over
                            /\ \E p \in {"call", "woken", "await", "inserting",
                                         "register", "leave"} :
                                 at' = [at EXCEPT ![c] = p]
<1>1. Quiet
  <2>1. CASE EpollWait(t) \/ HandleWake(t) \/ EndOfBatch(t) \/ Timeout(t)
             \/ quit(t) \/ wakeupLoop(t)
    BY <2>1 DEF EpollWait, HandleWake, EndOfBatch, Timeout, quit, wakeupLoop,
                kernel, loops, control
  <2>2. ASSUME NEW f \in Descriptors, HandleEvent(t, f)
        PROVE  Quiet
    <3>1. UNCHANGED <<boundEvents, backlog, sent, hung, fd, got>>
      BY <2>2 DEF HandleEvent, kernel, loops
    <3>2. CASE at' = at
      BY <3>1, <3>2
    <3>3. CASE at' # at
      <4>1. PICK c : /\ at[c] \in {"first", "await"}
                     /\ at' = [at EXCEPT ![c] = IF @ = "first" THEN "call" ELSE "woken"]
        BY <2>2, <3>3 DEF HandleEvent, Resume
      <4>2. c \in Mcos
        BY <3>3, <4>1 DEF SInv, ServerTypeOK
      <4> QED
        BY <3>1, <4>1, <4>2 DEF Over
    <3> QED
      BY <3>2, <3>3
  <2>3. ASSUME NEW c \in Mcos, Hook(t, c)
        PROVE  Quiet
    BY <2>3 DEF Hook, Executing, Yield, Over, kernel, loops
  <2>4. CASE BeginInsert(t) \/ EndInsert(t) \/ Register(t)
    BY <2>4, BasicFacts
       DEF BeginInsert, EndInsert, Register, Executing, Over, kernel, loops
  <2> QED
    BY <2>1, <2>2, <2>3, <2>4
<1>2. \A d \in Conns : Opened(d)' <=> Opened(d)
  <2>1. at \in [Mcos -> RunningPoints \cup {"first", "await", "done"}]
        /\ Conns \subseteq Mcos
    BY BasicFacts DEF SInv, ServerTypeOK
  <2> QED
    BY <1>1, <2>1 DEF Opened, Over
<1> QED
  BY <1>1, <1>2, SamePhases, Stutters

LEMMA StepRefines ==
  ASSUME SInv, Agree, Agree', [Next]_vars
  PROVE  [Promise!Next]_(Promise!vars)
<1>1. CASE UNCHANGED vars
  <2>1. UNCHANGED <<boundEvents, backlog, sent, hung, fd, at, got>>
    BY <1>1 DEF vars, kernel, loops, control
  <2>2. Phases' = Phases
    BY <2>1, SamePhases DEF Opened
  <2> QED
    BY <2>1, <2>2, Stutters
<1>2. ASSUME NEW t \in Threads,
             Step(t) \/ Timeout(t) \/ quit(t) \/ wakeupLoop(t)
      PROVE  Promise!Next \/ UNCHANGED Promise!vars
  <2>1. CASE accept(t)
    BY <2>1, AcceptRefines
  <2>2. CASE \E c \in Mcos : read(t, c)
    BY <2>2, readRefines
  <2>3. CASE \E c \in Mcos : close(t, c) \/ Return(t, c)
    BY <2>3, EndRefines
  <2>4. CASE Leave(t)
    BY <2>4, LeaveRefines
  <2> QED
    BY <1>2, <2>1, <2>2, <2>3, <2>4, HiddenRefines DEF Step
<1>3. ASSUME NEW c \in Conns, Connect(c) \/ Send(c) \/ Hangup(c)
      PROVE  Promise!Next
  BY <1>3, ClientRefines
<1>4. ASSUME NEW c \in Conns, SendUrgent(c)
      PROVE  UNCHANGED Promise!vars
  <2>1. UNCHANGED <<boundEvents, backlog, sent, hung, fd, at, got>>
    BY <1>4 DEF SendUrgent, loops, control
  <2> QED
    BY <2>1, SamePhases, Stutters DEF Opened
<1> QED
  BY <1>1, <1>2, <1>3, <1>4 DEF Next

(* Loops, hooks and destructors keep the promise to the clients: accepted    *)
(* in turn, read in full, closed for good and not before the client's end.   *)
THEOREM ServerKeepsPromise ==
  ASSUME Serialised, Asserts
  PROVE  Spec => ImplementsConnections
<1>1. Init => Promise!Init
  BY InitRefines
<1>2. SInv /\ Agree /\ Agree' /\ [Next]_vars => [Promise!Next]_(Promise!vars)
  BY StepRefines
<1>3. SInv => Agree
  BY AgreeFacts
<1>4. Spec => []SInv
  BY ServerInvariance
<1> QED
  BY <1>1, <1>2, <1>3, <1>4, PTL DEF Spec, ImplementsConnections, Promise!Spec
-----------------------------------------------------------------------------
(* How the server uses its coroutines: Continuations that accept() makes,    *)
(* loops resume, hooks suspend and client_call ends.  The frames are taken   *)
(* to be what MovingCoroutines promises, and a Continuation that its loop    *)
(* drops stays "finished".                                                   *)
Stage(c) ==
  IF fd[c] = Null THEN "absent"
  ELSE CASE at[c] = "first" -> "fresh"
         [] at[c] = "await" -> "suspended"
         [] at[c] = "done" -> "finished"
         [] OTHER -> "active"

Stages == [c \in Mcos |-> Stage(c)]
Flow(t) == IF on[t] = Null THEN <<t>> ELSE <<t, on[t]>>
Flows == [t \in Threads |-> Flow(t)]
Frames ==
  [c \in Mcos |-> IF Stages[c] \in {"suspended", "active"} THEN c ELSE Null]

Uses == INSTANCE MovingCoroutines WITH
  Coroutines <- Mcos, status <- Stages, control <- Flows, contents <- Frames

UsesCoroutines ==
  /\ [][Uses!Next]_(Uses!vars)
  /\ [][\A t \in Threads, f \in Descriptors :
          HandleEvent(t, f) => \E c \in Mcos : Uses!Resume(t, c)]_vars

(* One coroutine moves.                                                      *)
LEMMA StageFacts ==
  ASSUME SInv, NEW c \in Mcos, NEW p, at' = [at EXCEPT ![c] = p],
         fd' = fd, fd[c] # Null
  PROVE  /\ Stages' = [Stages EXCEPT ![c] =
                         CASE p = "first" -> "fresh"
                           [] p = "await" -> "suspended"
                           [] p = "done" -> "finished"
                           [] OTHER -> "active"]
         /\ at[c] \in RunningPoints => Stages[c] = "active"
<1>1. at \in [Mcos -> RunningPoints \cup {"first", "await", "done"}]
  BY DEF SInv, ServerTypeOK
<1>2. at'[c] = p /\ \A d \in Mcos \ {c} : at'[d] = at[d]
  BY <1>1
<1>3. \A d \in Mcos \ {c} : Stage(d)' = Stage(d)
  BY <1>2 DEF Stage
<1>4. Stage(c)' = CASE p = "first" -> "fresh"
                    [] p = "await" -> "suspended"
                    [] p = "done" -> "finished"
                    [] OTHER -> "active"
  BY <1>2 DEF Stage
<1>5. at[c] \in RunningPoints => Stage(c) = "active"
  BY DEF Stage, RunningPoints
<1> QED
  BY <1>3, <1>4, <1>5 DEF Stages

(* A step in which no coroutine is made, resumed, suspended or ended.        *)
LEMMA GoesOn ==
  ASSUME SInv, UNCHANGED <<fd, on>>,
         \/ at' = at
         \/ \E c \in Mcos : /\ at[c] \in RunningPoints /\ fd[c] # Null
                            /\ \E p \in RunningPoints : at' = [at EXCEPT ![c] = p]
  PROVE  UNCHANGED Uses!vars
<1>1. Stages' = Stages
  <2>1. CASE at' = at
    BY <2>1 DEF Stages, Stage
  <2>2. ASSUME NEW c \in Mcos, at[c] \in RunningPoints, fd[c] # Null,
               NEW p \in RunningPoints, at' = [at EXCEPT ![c] = p]
        PROVE  Stages' = Stages
    <3>1. p \notin {"first", "await", "done"}
      BY DEF RunningPoints
    <3>2. Stages' = [Stages EXCEPT ![c] = "active"] /\ Stages[c] = "active"
      BY <2>2, <3>1, StageFacts
    <3> QED
      BY <3>2 DEF Stages
  <2> QED
    BY <2>1, <2>2
<1>2. Flows' = Flows
  BY DEF Flows, Flow
<1>3. Frames' = Frames
  BY <1>1 DEF Frames
<1> QED
  BY <1>1, <1>2, <1>3 DEF Uses!vars

LEMMA AcceptUses ==
  ASSUME SInv, NEW t \in Threads, accept(t)
  PROVE  Uses!Next \/ UNCHANGED Uses!vars
<1>1. /\ at[Listener] = "woken" /\ backlog # <<>> /\ backlog \in Seq(Conns)
      /\ on' = on /\ Listener \in Mcos /\ fd[Listener] # Null
  BY AcceptFacts, BasicFacts, ServerAssumption
     DEF SInv, ServerTypeOK, Descriptions, Descriptors
<1>2. CASE FreeFds = {}
  <2>1. UNCHANGED <<fd, on>> /\ at' = [at EXCEPT ![Listener] = "call"]
    BY <1>1, <1>2 DEF accept
  <2> QED
    BY <1>1, <2>1, GoesOn DEF RunningPoints
<1>3. CASE FreeFds # {}
  <2> PICK g : g = Head(backlog)
    OBVIOUS
  <2>1. /\ fd' = [fd EXCEPT ![g] = LowestFree]
        /\ at' = [at EXCEPT ![Listener] = "insert"]
    BY <1>3 DEF accept
  <2>2. g \in Conns /\ g \in Mcos /\ fd[g] = Null /\ at[g] = "first"
        /\ g # Listener
    BY <1>1, BasicFacts, ServerAssumption DEF SInv, Descriptions
  <2>3. LowestFree # Null
    BY <1>3, FreeFacts, ServerAssumption DEF Descriptors
  <2>4. /\ at'[Listener] = "insert"
        /\ \A d \in Mcos \ {Listener} : at'[d] = at[d]
        /\ fd'[g] = LowestFree /\ \A d \in Mcos \ {g} : fd'[d] = fd[d]
    BY <1>1, <2>1, <2>2 DEF SInv, ServerTypeOK
  <2>5. Stage(g) = "absent" /\ Stage(g)' = "fresh"
    BY <2>2, <2>3, <2>4 DEF Stage
  <2>6. Stage(Listener)' = Stage(Listener)
    BY <1>1, <2>2, <2>4 DEF Stage
  <2>7. \A d \in Mcos \ {g, Listener} : Stage(d)' = Stage(d)
    BY <2>4 DEF Stage
  <2>8. Stages[g] = "absent" /\ Stages' = [Stages EXCEPT ![g] = "fresh"]
    BY <2>2, <2>5, <2>6, <2>7 DEF Stages
  <2>9. Flows' = Flows
    BY <1>1 DEF Flows, Flow
  <2>10. Frames' = Frames
    BY <2>2, <2>8 DEF Frames, Stages
  <2> QED
    BY <2>2, <2>8, <2>9, <2>10 DEF Uses!Next, Uses!Create
<1> QED
  BY <1>2, <1>3

(* Control goes to a coroutine and comes back.                               *)
LEMMA PairFacts ==
  ASSUME NEW a, NEW b
  PROVE  Append(<<a>>, b) = <<a, b>> /\ Uses!Front(<<a, b>>) = <<a>>
<1> DEFINE S == {a, b}
<1>1. Append(<<a>>, b) = <<a, b>>
  <2>1. PICK s : s = Append(<<a>>, b)
    OBVIOUS
  <2>2. <<a>> \in Seq(S) /\ b \in S /\ Len(<<a>>) = 1 /\ <<a>>[1] = a
    OBVIOUS
  <2>3. s \in Seq(S) /\ Len(s) = 2 /\ s[1] = a /\ s[2] = b
    BY <2>1, <2>2
  <2>4. s = <<a, b>>
    BY <2>3
  <2> QED
    BY <2>1, <2>4
<1>2. Uses!Front(<<a, b>>) = <<a>>
  <2>1. PICK s : s = <<a, b>>
    OBVIOUS
  <2>2. s \in Seq(S) /\ Len(s) = 2 /\ s[1] = a
    BY <2>1
  <2>3. Uses!Front(s) \in Seq(S) /\ Len(Uses!Front(s)) = 1 /\ Uses!Front(s)[1] = a
    BY <2>2 DEF Uses!Front
  <2>4. Uses!Front(s) = <<a>>
    BY <2>3
  <2> QED
    BY <2>1, <2>4
<1> QED
  BY <1>1, <1>2

LEMMA HandleEventUses ==
  ASSUME SInv, Serialised, NEW t \in Threads, NEW f \in Descriptors,
         HandleEvent(t, f)
  PROVE  \E c \in Mcos : Uses!Resume(t, c)
<1> DEFINE c == events_[t][f]
<1>1. f \in occur[t] \ {WakeFd} /\ on[t] = Null /\ fd' = fd
  BY DEF HandleEvent, Looping, kernel
<1>2. /\ c \in Mcos /\ c # Null /\ at[c] \in {"first", "await"}
      /\ fd[c] # Null /\ eventHandleAble(c) /\ fdMcos_[t][f] = c
  BY <1>1, OccurrenceFacts DEF Served, Live
<1>3. Resume(t, c)
  BY <1>2, LookupFacts DEF HandleEvent
<1>4. /\ on' = [on EXCEPT ![t] = c]
      /\ at' = [at EXCEPT ![c] = IF @ = "first" THEN "call" ELSE "woken"]
  BY <1>2, <1>3 DEF Resume
<1>5. Stages' = [Stages EXCEPT ![c] = "active"]
  <2>1. PICK p \in {"call", "woken"} : at' = [at EXCEPT ![c] = p]
    BY <1>4
  <2> QED
    BY <1>1, <1>2, <2>1, StageFacts
<1>6. Stages[c] = IF at[c] = "first" THEN "fresh" ELSE "suspended"
  BY <1>2 DEF Stages, Stage
<1>7. Flows' = [Flows EXCEPT ![t] = Append(@, c)]
  <2>1. Flows[t] = <<t>> /\ Append(<<t>>, c) = <<t, c>>
    BY <1>1, PairFacts DEF Flows, Flow
  <2>2. on'[t] = c /\ \A u \in Threads \ {t} : on'[u] = on[u]
    BY <1>4 DEF SInv, ServerTypeOK
  <2>3. Flows'[t] = <<t, c>> /\ \A u \in Threads \ {t} : Flows'[u] = Flows[u]
    BY <1>2, <2>2 DEF Flows, Flow
  <2> QED
    BY <2>1, <2>3 DEF Flows
<1>8. Frames' = IF Stages[c] = "fresh" THEN [Frames EXCEPT ![c] = c] ELSE Frames
  <2>1. Frames' = [Frames EXCEPT ![c] = c]
    BY <1>2, <1>5 DEF Frames, Stages
  <2>2. CASE Stages[c] = "fresh"
    BY <2>1, <2>2
  <2>3. CASE Stages[c] # "fresh"
    <3>1. Frames[c] = c
      BY <1>2, <1>6, <2>3 DEF Frames
    <3> QED
      BY <2>1, <2>3, <3>1 DEF Frames
  <2> QED
    BY <2>2, <2>3
<1> QED
  BY <1>2, <1>5, <1>6, <1>7, <1>8 DEF Uses!Resume

(* A hook or the end of client_call gives control back to loop().            *)
LEMMA GivesBack ==
  ASSUME SInv, Threads \cap Mcos = {}, NEW t \in Threads, NEW c \in Mcos,
         Hook(t, c) \/ Return(t, c)
  PROVE  Uses!Next
<1>1. /\ on[t] = c /\ fd' = fd /\ c # Null /\ c # t
      /\ fd[c] # Null /\ at[c] \in RunningPoints
  <2>1. on[t] = c /\ fd' = fd
    BY DEF Hook, Return, Executing, kernel
  <2> QED
    BY <2>1, RunningFacts, BasicFacts
<1>2. /\ on' = [on EXCEPT ![t] = Null]
      /\ Hook(t, c) => at' = [at EXCEPT ![c] = "await"]
  <2>1. CASE Hook(t, c)
    <3>1. at[c] = "call" /\ Yield(t, c)
      BY <2>1 DEF Hook, Executing
    <3>2. cur_[t] = c
      BY <1>1, <3>1, RunningFacts
    <3> QED
      BY <3>1, <3>2 DEF Yield
  <2>2. CASE Return(t, c) /\ ~Hook(t, c)
    BY <2>2 DEF Return
  <2> QED
    BY <2>1, <2>2
<1>3. on'[t] = Null /\ \A u \in Threads \ {t} : on'[u] = on[u]
  BY <1>2 DEF SInv, ServerTypeOK
<1>4. Flows[t] = <<t, c>> /\ Uses!Running(t) = c
  BY <1>1 DEF Flows, Flow, Uses!Running, Uses!Last
<1>5. Flows' = [Flows EXCEPT ![t] = Uses!Front(@)]
  <2>1. Uses!Front(<<t, c>>) = <<t>>
    BY PairFacts
  <2>2. Flows'[t] = <<t>> /\ \A u \in Threads \ {t} : Flows'[u] = Flows[u]
    BY <1>3 DEF Flows, Flow
  <2> QED
    BY <1>4, <2>1, <2>2 DEF Flows
<1>6. Stages[c] = "active" /\ Frames[c] = c
  BY <1>1 DEF Stages, Stage, Frames, RunningPoints
<1>7. CASE Hook(t, c)
  <2>1. Stages' = [Stages EXCEPT ![c] = "suspended"]
    BY <1>1, <1>2, <1>7, StageFacts
  <2>2. Frames' = Frames
    BY <1>6, <2>1 DEF Frames, Stages
  <2> QED
    BY <1>1, <1>4, <1>5, <2>1, <2>2 DEF Uses!Next, Uses!Yield
<1>8. CASE Return(t, c)
  <2>1. at' = [at EXCEPT ![c] = "done"]
    BY <1>8 DEF Return
  <2>2. Stages' = [Stages EXCEPT ![c] = "finished"]
    BY <1>1, <2>1, StageFacts
  <2>3. Frames' = [Frames EXCEPT ![c] = Null]
    BY <2>2 DEF Frames, Stages
  <2> QED
    BY <1>1, <1>4, <1>5, <2>2, <2>3 DEF Uses!Next, Uses!Finish
<1> QED
  BY <1>7, <1>8

LEMMA StepUses ==
  ASSUME SInv, Serialised, Threads \cap Mcos = {}, [Next]_vars
  PROVE  [Uses!Next]_(Uses!vars)
<1>1. CASE UNCHANGED vars
  BY <1>1, GoesOn DEF vars, kernel, control
<1>2. ASSUME NEW t \in Threads,
             \/ EpollWait(t) \/ HandleWake(t) \/ EndOfBatch(t) \/ Timeout(t)
             \/ quit(t) \/ wakeupLoop(t)
      PROVE  UNCHANGED Uses!vars
  BY <1>2, GoesOn
     DEF EpollWait, HandleWake, EndOfBatch, Timeout, quit, wakeupLoop, kernel,
         control
<1>3. ASSUME NEW t \in Threads,
             BeginInsert(t) \/ EndInsert(t) \/ Register(t) \/ Leave(t)
      PROVE  UNCHANGED Uses!vars
  <2>1. /\ UNCHANGED <<fd, on>> /\ at[Listener] \in RunningPoints
        /\ \E p \in RunningPoints : at' = [at EXCEPT ![Listener] = p]
    BY <1>3
       DEF BeginInsert, EndInsert, Register, Leave, Executing, kernel,
           RunningPoints
  <2>2. Listener \in Mcos /\ fd[Listener] # Null
    BY ServerAssumption DEF SInv, Descriptions, Mcos, Descriptors
  <2> QED
    BY <2>1, <2>2, GoesOn
<1>4. ASSUME NEW t \in Threads, NEW c \in Mcos, read(t, c) \/ close(t, c)
      PROVE  UNCHANGED Uses!vars
  <2>1. /\ UNCHANGED <<fd, on>> /\ on[t] = c /\ at[c] \in RunningPoints
        /\ \E p \in RunningPoints : at' = [at EXCEPT ![c] = p]
    BY <1>4 DEF read, close, Executing, RunningPoints
  <2>2. fd[c] # Null
    BY <2>1, RunningFacts
  <2> QED
    BY <2>1, <2>2, GoesOn
<1>5. ASSUME NEW t \in Threads,
             Step(t) \/ Timeout(t) \/ quit(t) \/ wakeupLoop(t)
      PROVE  Uses!Next \/ UNCHANGED Uses!vars
  <2>1. CASE \E f \in Descriptors : HandleEvent(t, f)
    BY <2>1, HandleEventUses DEF Uses!Next
  <2> QED
    BY <1>2, <1>3, <1>4, <1>5, <2>1, AcceptUses, GivesBack DEF Step
<1>6. ASSUME NEW c \in Conns,
             Connect(c) \/ Send(c) \/ SendUrgent(c) \/ Hangup(c)
      PROVE  UNCHANGED Uses!vars
  BY <1>6, GoesOn DEF Connect, Send, SendUrgent, Hangup, control
<1> QED
  BY <1>1, <1>5, <1>6 DEF Next

(* The server stays within what the coroutine runtime promises: its loops    *)
(* never resume a coroutine that runs, has ended or does not exist yet, and  *)
(* loop() is where a hook yields to, whichever loop accept() chose.          *)
THEOREM ServerUsesCoroutines ==
  ASSUME Serialised, Threads \cap Mcos = {}
  PROVE  Spec => UsesCoroutines
<1>1. SInv /\ [Next]_vars => [Uses!Next]_(Uses!vars)
  BY StepUses
<1>2. SInv /\ [Next]_vars =>
        [\A t \in Threads, f \in Descriptors :
           HandleEvent(t, f) => \E c \in Mcos : Uses!Resume(t, c)]_vars
  BY HandleEventUses
<1>3. Spec => []SInv
  BY ServerInvariance
<1> QED
  BY <1>1, <1>2, <1>3, PTL DEF Spec, UsesCoroutines

=============================================================================
