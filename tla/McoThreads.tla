------------------------------ MODULE McoThreads ------------------------------
(***************************************************************************)
(* The coroutine runtime of several threads, as test/McoInThread.cpp and   *)
(* the server use it: a routine created on one thread is resumed on        *)
(* another.  Every thread has a call stack and a stack manager of its own, *)
(* found by tid (PoolInThreads); the flags and the stack of a routine go   *)
(* with the routine.  Module Mco has the detail of one thread; here a      *)
(* stack holds the name of the routine whose frames it contains.           *)
(*                                                                         *)
(* The contract of clients, which the code does not enforce:               *)
(*  - a routine is handed to another thread when it is suspended and the   *)
(*    call that left it has returned (the mutex of the test), so that each *)
(*    call is one step;                                                    *)
(*  - a routine with a private stack may go anywhere; any other one stays  *)
(*    on the thread that first resumed it, except as a guest, as in the    *)
(*    test (MayResume);                                                    *)
(*  - a routine that another thread's manager remembers is not freed       *)
(*    (MayFree): McoFree clears the pointer of its own thread only.  With  *)
(*    workers the server does not promise this: accept() may drop the last *)
(*    reference to a routine of a worker (ReleasedAtTheEnd of Server);     *)
(*  - as in Mco, nobody resumes a routine that waits for another one than  *)
(*    the running one, or frees one that waits or has never run.           *)
(***************************************************************************)
EXTENDS Naturals, Sequences, SequencesExt

CONSTANTS
  Threads,      (* a thread also names the routine that MainMco makes of it *)
  Coroutines,   (* the McoRoutine objects McoCreate may return to clients   *)
  Null,
  MaxDepth      (* bound on the depth of each call stack                    *)

Mcos == Coroutines \cup Threads

ASSUME McoThreadsAssumption ==
  /\ Threads \cap Coroutines = {}
  /\ Null \notin Mcos
  /\ MaxDepth \in Nat

VARIABLES
  live,          (* the coroutines between McoCreate and delete             *)
  use_private, start, running, finished, stack_store,   (* flags, as in Mco *)
  sink,
  home,          (* home[c] : the thread whose manager made c's stack       *)
  frames,        (* frames[c] : whose frames c's stack_tmp holds            *)
  callStack,     (* of each thread: the entries below index_, ...           *)
  commonOccupy,  (*   the occupant its manager remembers, ...               *)
  area,          (*   whose frames lie in its shared area, ...              *)
  cpu,           (*   and the routine whose frames it executes              *)
  fate

flags == <<live, use_private, start, running, finished, sink>>
stack == <<stack_store, home, frames, commonOccupy, area>>
vars == <<flags, stack, callStack, cpu, fate>>

Init ==
  /\ live = {} /\ use_private = {} /\ start = {} /\ running = {}
  /\ finished = {} /\ stack_store = {}
  /\ sink = [m \in Mcos |-> Null]
  /\ home = [m \in Mcos |-> Null]
  /\ frames = [m \in Mcos |-> Null]
  /\ callStack = [t \in Threads |-> <<>>]
  /\ commonOccupy = [t \in Threads |-> Null]
  /\ area = [t \in Threads |-> Null]
  /\ cpu = [t \in Threads |-> t]
  /\ fate = "ok"

IsPrivate(m) == m \in Threads \cup use_private

(* The thread whose McoStackManager a call on thread t uses.                 *)
SharedStackMgr(t) == CHOOSE u \in Threads : TRUE    \* one for all threads
GetMcoStackMgr(t) == t
-----------------------------------------------------------------------------
(* InitMcoContext: the first resume decides on which stack to runs.          *)
HomeAfter(t, to) ==
  IF to \in start \cup Threads THEN home
  ELSE [home EXCEPT ![to] = GetMcoStackMgr(t)]

(* The occupant of t's shared area, if it must make room for to.             *)
EvictedOrNull(t, to, fin) ==                        \* no check for nullptr
  IF IsPrivate(to) THEN {}
  ELSE {commonOccupy[GetMcoStackMgr(t)]} \ ({to} \cup fin)
Evicted(t, to, fin) ==
  IF IsPrivate(to) THEN {}
  ELSE {commonOccupy[GetMcoStackMgr(t)]} \ ({Null, to} \cup fin)

(* StoreUsedCommonStack copies from the occupant's own stack.                *)
Saved(t, to, fin) ==
  [m \in Mcos |->
     IF m \in Evicted(t, to, fin) THEN area[home[m]] ELSE frames[m]]

(* RecoverUsedCommonStack behind the swap, for the routine now on top.       *)
Recovered(t, to, fin) ==
  {to} \cap ((stack_store \cup Evicted(t, to, fin)) \ use_private)

(* What to finds in its area: an empty stack of its own at first, then what  *)
(* was copied back, or what it left there.                                   *)
AreaAfter(t, to, fin) ==
  IF IsPrivate(to) THEN area
  ELSE IF to \notin start THEN [area EXCEPT ![home'[to]] = to]
  ELSE IF Recovered(t, to, fin) = {} THEN area
  ELSE [area EXCEPT ![home[to]] = frames'[to]]

(* McoSwap on thread t: from gives the processor to to.  It goes wrong if    *)
(* the occupant was freed, or to has no context or runs already.             *)
McoSwap(t, from, to, fin) ==
  LET manager == GetMcoStackMgr(t) IN
  /\ home' = HomeAfter(t, to)
  /\ frames' = Saved(t, to, fin)
  /\ area' = AreaAfter(t, to, fin)
  /\ stack_store' = (stack_store \cup Evicted(t, to, fin))
                      \ Recovered(t, to, fin)
  /\ commonOccupy' = IF IsPrivate(to) THEN commonOccupy
                     ELSE [commonOccupy EXCEPT ![manager] = to]
  /\ cpu' = [cpu EXCEPT ![t] = to]
  /\ fate' = IF /\ from = cpu[t] /\ to \in start'
                /\ \A u \in Threads \ {t} : cpu[u] # to
                /\ Evicted(t, to, fin) \subseteq live
               THEN "ok" ELSE "ub"

HandOver(from, to) == (running \ {from}) \cup {to}

(* McoYield(c) for the running c of thread t.                                *)
SwitchToSink(t, c, ends) ==
  /\ finished' = IF ends THEN finished \cup {c} ELSE finished
  /\ start' = IF ends THEN start \ {c} ELSE start
  /\ running' = HandOver(c, sink[c])
  /\ callStack' = [callStack EXCEPT ![t] = Front(@)]
  /\ McoSwap(t, c, sink[c], finished')
  /\ UNCHANGED <<live, use_private, sink>>

(* The call stack of t once MainMco has been called.                         *)
Booted(t) == IF callStack[t] = <<>> THEN <<t>> ELSE callStack[t]
Resumer(t) == Last(Booted(t))

SinkOnce(t, c) ==                                   \* set by the first resume
  IF sink[c] = Null THEN [sink EXCEPT ![c] = Resumer(t)] ELSE sink
SinkAfter(t, c) == [sink EXCEPT ![c] = Resumer(t)]

Push(t, c) ==
  /\ callStack' = [callStack EXCEPT ![t] = Append(Booted(t), c)]
  /\ sink' = SinkAfter(t, c)
  /\ start' = start \cup {t, c}
  /\ running' = HandOver(Resumer(t), c)
  /\ McoSwap(t, Resumer(t), c, finished)
  /\ UNCHANGED <<live, use_private, finished>>
-----------------------------------------------------------------------------
McoCreate(c, private) ==
  /\ fate = "ok"
  /\ c \notin live
  /\ live' = live \cup {c}
  /\ use_private' = IF private THEN use_private \cup {c} ELSE use_private
  /\ UNCHANGED <<start, running, finished, sink, stack, callStack, cpu, fate>>

(* The contract about threads.  Routines that share an area are in the call  *)
(* stack of one thread at a time.  A guest on thread t is a routine on       *)
(* another thread's area; it was the last one that used that area, and t     *)
(* has no other routine without a private stack.                             *)
Uses(t, h) ==
  \E c \in Range(callStack[t]) : ~IsPrivate(c) /\ home[c] = h

MayResume(t, c) ==
  LET h == IF c \in start THEN home[c] ELSE t IN
  \/ IsPrivate(c)
  \/ /\ \A u \in Threads \ {t} : ~Uses(u, h)
     /\ IF h = t
          THEN commonOccupy[t] # Null => home[commonOccupy[t]] = t
          ELSE /\ commonOccupy[h] = c /\ commonOccupy[t] \in {Null, c}
               /\ \A d \in start : IsPrivate(d) \/ home[d] # t

(* Asked of clients, not tested by the code: a visit leaves a pointer in the *)
(* manager of the other thread, which McoFree does not clear.                *)
MayFree(t, c) == \A u \in Threads \ {t} : commonOccupy[u] # c

Waits(c) == c \notin running /\ \E t \in Threads : c \in Range(callStack[t])

(* McoResume on thread t; a routine that runs, on whatever thread, or has    *)
(* finished is left alone.                                                   *)
NotResumable == finished                            \* running is not tested
Unresumable == running \cup finished

McoResume(t, c) ==
  /\ fate = "ok"
  /\ c \in (live \cup {t}) \ Unresumable
  /\ Len(callStack[t]) < MaxDepth
  /\ \/ /\ sink[Resumer(t)] = c
        /\ SwitchToSink(t, Resumer(t), FALSE)
     \/ /\ sink[Resumer(t)] # c
        /\ c # t /\ ~Waits(c) /\ MayResume(t, c)
        /\ Push(t, c)

McoYield(t) ==
  /\ fate = "ok"
  /\ cpu[t] \in running \ Threads
  /\ SwitchToSink(t, cpu[t], FALSE)

(* The function of t's running routine returned.                             *)
CoroutineRun(t) ==
  /\ fate = "ok"
  /\ cpu[t] \in running \ Threads
  /\ SwitchToSink(t, cpu[t], TRUE)

(* McoFree on thread t.                                                      *)
OccupantWithout(t, c) ==
  LET manager == GetMcoStackMgr(t) IN
  IF commonOccupy[manager] = c THEN [commonOccupy EXCEPT ![manager] = Null]
  ELSE commonOccupy

McoFree(t, c) ==
  /\ fate = "ok"
  /\ c \in (live \ running) \cap (start \cup finished)
  /\ ~Waits(c) /\ MayFree(t, c)
  /\ live' = live \ {c}
  /\ use_private' = use_private \ {c}
  /\ start' = start \ {c}
  /\ finished' = finished \ {c}
  /\ stack_store' = stack_store \ {c}
  /\ sink' = [sink EXCEPT ![c] = Null]
  /\ home' = [home EXCEPT ![c] = Null]
  /\ frames' = [frames EXCEPT ![c] = Null]
  /\ commonOccupy' = OccupantWithout(t, c)
  /\ UNCHANGED <<running, area, callStack, cpu, fate>>

Next ==
  \/ \E c \in Coroutines, private \in BOOLEAN : McoCreate(c, private)
  \/ \E t \in Threads :
       \/ McoYield(t) \/ CoroutineRun(t)
       \/ \E c \in Mcos : McoResume(t, c)
       \/ \E c \in Coroutines : McoFree(t, c)

Spec == Init /\ [][Next]_vars
-----------------------------------------------------------------------------
(* Type invariant of the flags and of the threads' own records.              *)
McoThreadsTypeOK ==
  /\ live \subseteq Coroutines /\ use_private \subseteq live
  /\ start \subseteq live \cup Threads /\ finished \subseteq live
  /\ running \subseteq start
  /\ stack_store \subseteq start \ Threads
  /\ sink \in [Mcos -> Mcos \cup {Null}]
  /\ home \in [Mcos -> Threads \cup {Null}]
  /\ frames \in [Mcos -> Mcos \cup {Null}]
  /\ callStack \in [Threads -> Seq(Mcos)]
  /\ commonOccupy \in [Threads -> Mcos \cup {Null}]
  /\ area \in [Threads -> Mcos \cup {Null}]
  /\ cpu \in [Threads -> Mcos]
  /\ fate \in {"ok", "ub"}

(* The running flag is the only thing that keeps a routine from executing on *)
(* two threads: each routine is executed by one thread at most, and those    *)
(* with the flag set are those that the threads execute.                     *)
OneThreadPerRoutine ==
  /\ fate = "ok"
  /\ \A t, u \in Threads : t # u => cpu[t] # cpu[u]
  /\ running = {cpu[t] : t \in {u \in Threads : callStack[u] # <<>>}}

(* No thread executes on frames that another routine, of whichever thread,   *)
(* has overwritten; and the frames of a suspended routine are in the area it *)
(* belongs to or in its copy.                                                *)
FramesAreOwn ==
  /\ \A t \in Threads : ~IsPrivate(cpu[t]) => area[home[cpu[t]]] = cpu[t]
  /\ \A c \in start : ~IsPrivate(c) =>
       IF c \in stack_store THEN frames[c] = c ELSE area[home[c]] = c

-----------------------------------------------------------------------------
(* The refinement mapping to MovingCoroutines.                               *)
Status(c) ==
  IF c \notin live THEN "absent"
  ELSE IF c \in finished THEN "finished"
  ELSE IF \E t \in Threads : c \in Range(callStack[t]) THEN "active"
  ELSE IF c \in start THEN "suspended"
  ELSE "fresh"

(* Those that wait on t, and who executes.                                   *)
Chain(t) == Append(Front(Booted(t)), cpu[t])

Contents(c) ==
  IF c \notin start THEN Null
  ELSE IF IsPrivate(c) THEN c
  ELSE IF c \in stack_store THEN frames[c]
  ELSE area[home[c]]

Moving ==
  INSTANCE MovingCoroutines WITH
    status <- [c \in Coroutines |-> Status(c)],
    control <- [t \in Threads |-> Chain(t)],
    contents <- [c \in Coroutines |-> Contents(c)]

(* The threads' runtimes implement one promise: a routine that goes from one *)
(* to another is active on one at a time, gives control back to whoever      *)
(* resumed it there, never runs again once it has ended, and no swap through *)
(* any thread's shared area changes its frames.                              *)
ImplementsMovingCoroutines == Moving!Spec

=============================================================================
