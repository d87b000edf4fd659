--------------------------------- MODULE Mco ---------------------------------
(***************************************************************************)
(* The coroutine runtime of one thread: McoRoutine.cpp (create, resume,    *)
(* yield, free, swap), McoStack.cpp (the stack area that the coroutines    *)
(* without a private stack share) and McoCallStack.h.  GetMcoCallStack and *)
(* GetMcoStackMgr return the calling thread's objects, so one thread sees  *)
(* exactly the variables below.                                            *)
(*                                                                         *)
(* The contents of a stack are one value.  The registers of a routine that *)
(* is not running are intact as long as its stack is, so a swap is the     *)
(* assignment of cpu.  A step whose C++ is undefined (a freed routine, a   *)
(* context that was never made, a stack holding another routine's bytes)   *)
(* ends the behaviour with fate "ub".                                      *)
(***************************************************************************)
EXTENDS Naturals, Sequences, SequencesExt

CONSTANTS
  Coroutines,   (* the McoRoutine objects McoCreate may return to clients   *)
  Main,         (* the McoRoutine that MainMco makes for the thread itself  *)
  Null,         (* nullptr                                                  *)
  Vals, Blank,  (* stack contents; Blank is a stack nothing ran on          *)
  StackMgrSet,  (* does anything assign McoRoutine::stackMgr?  Not as       *)
                (* committed: FALSE is the code, TRUE the repaired code     *)
  Asserts,      (* are assert()s compiled in (no -DNDEBUG)?                 *)
  Misuse,       (* the calls out of contract that the client makes          *)
  MaxDepth      (* bound on the depth of the call stack                     *)

Mcos == Coroutines \cup {Main}

Misuses ==
  {"ancestor",      (* resume a routine that waits further down the stack   *)
   "yield_main",    (* McoYield(MainMco())                                  *)
   "free_stacked",  (* free a routine that waits for one it resumed         *)
   "free_fresh"}    (* free a routine that was never resumed                *)

ASSUME McoAssumption ==
  /\ Main \notin Coroutines
  /\ Null \notin Mcos
  /\ Blank \in Vals
  /\ StackMgrSet \in BOOLEAN
  /\ Asserts \in BOOLEAN
  /\ Misuse \subseteq Misuses
  /\ MaxDepth \in Nat

VARIABLES
  live,          (* the coroutines between McoCreate and delete             *)
  use_private,   (* the flags of McoRoutine, each the set of routines that  *)
  start,         (*   have it set                                           *)
  running,
  finished,      (* done and done_yield, which McoYield makes true together *)
  stack_store,
  should_close,
  sink,          (* McoRoutine::sink                                        *)
  callStack,     (* the entries of callStack_ below index_                  *)
  slots,         (* callStack_.size(): entries are never erased             *)
  commonOccupy,  (* McoStackManager::commonOccupy_                          *)
  common,        (* the contents of the shared area, commonStack_           *)
  frames,        (* the contents of a private stack, or of stack_tmp        *)
  cpu,           (* the routine whose frames the thread executes            *)
  fate           (* "ok" until the process dies or behaves arbitrarily      *)

flags == <<live, use_private, start, running, finished, should_close>>
stack == <<stack_store, commonOccupy, common, frames>>
vars == <<flags, stack, sink, callStack, slots, cpu, fate>>

Fates == {"ok", "segv", "abort", "ub"}

Init ==
  /\ live = {} /\ use_private = {} /\ start = {} /\ running = {}
  /\ finished = {} /\ stack_store = {} /\ should_close = {}
  /\ sink = [m \in Mcos |-> Null]
  /\ callStack = <<>> /\ slots = 0
  /\ commonOccupy = Null /\ common = Blank
  /\ frames = [m \in Mcos |-> Blank]
  /\ cpu = Main
  /\ fate = "ok"

(* Main runs on the thread's own stack and is created with use_private.      *)
IsPrivate(m) == m = Main \/ m \in use_private

(* The routines a client holds a pointer to.                                 *)
Handles == live \cup (IF callStack = <<>> THEN {} ELSE {Main})

(* McontextMake has not given m an entry point and an empty stack yet.       *)
Fresh(m) == m \notin start

Die(f) == fate' = f /\ UNCHANGED <<flags, stack, sink, callStack, slots, cpu>>
-----------------------------------------------------------------------------
(* McoSwap saves the routine that occupies the shared area when another one  *)
(* needs it, unless that routine is finished ...                             *)
EvictedNone(to, fin) == {}                          \* nobody is ever saved
EvictedOrNull(to, fin) ==                           \* no check for nullptr
  IF IsPrivate(to) \/ commonOccupy \in {to} \cup fin
    THEN {} ELSE {commonOccupy}

Evicted(to, fin) ==
  IF IsPrivate(to) \/ commonOccupy \in {Null, to} \cup fin
    THEN {} ELSE {commonOccupy}

(* ... and the code behind the swap copies back the routine now on top.  A   *)
(* routine entered for the first time starts in CoroutineRun instead.        *)
RecoveredNone(to, top, fin) == {}                   \* nobody is copied back

Recovered(to, top, fin) ==
  {m \in stack_store \cup Evicted(to, fin) :
     m = top /\ ~Fresh(to) /\ ~IsPrivate(m)}

SavedNothing(to, fin) == frames                     \* the bytes stay behind

Saved(to, fin) ==
  [m \in Mcos |-> IF m \in Evicted(to, fin) THEN common ELSE frames[m]]

(* RecoverUsedCommonStack writes the saved bytes over the shared area.       *)
Restored(to, top, fin) ==
  IF Recovered(to, top, fin) = {} THEN common ELSE Saved(to, fin)[top]

(* mco_swap stores the registers of from and loads those of to.              *)
mco_swap(from, to) ==
  /\ cpu' = to
  /\ fate' = IF from = cpu /\ to \in start' /\ to \notin stack_store'
               THEN "ok" ELSE "ub"

(* The running flags once from has given control to to.                      *)
HandOverKeeping(from, to) == running \cup {to}      \* from keeps its flag
HandOver(from, to) == (running \ {from}) \cup {to}

(* from gives the processor to to; top is the last entry of the call stack   *)
(* and fin the finished routines by then.                                    *)
McoSwap(from, to, top, fin) ==
  /\ commonOccupy' = IF IsPrivate(to) THEN commonOccupy ELSE to
  /\ stack_store' = (stack_store \cup Evicted(to, fin)) \ Recovered(to, top, fin)
  /\ common' = IF Fresh(to) /\ ~IsPrivate(to) THEN Blank
               ELSE Restored(to, top, fin)
  /\ frames' = IF Fresh(to) /\ IsPrivate(to)
                 THEN [Saved(to, fin) EXCEPT ![to] = Blank]
                 ELSE Saved(to, fin)
  /\ mco_swap(from, to)

(* McoYield(c) for a running c; ends is TRUE when c->done is set.  With no   *)
(* entry below the top it would leave an empty call stack under a routine    *)
(* that runs.                                                                *)
SwitchToSink(c, ends) ==
  LET to == sink[c] IN
  IF to = Null \/ Len(callStack) < 2
    THEN Die(IF to = Null THEN "segv" ELSE "ub")
    ELSE /\ finished' = IF ends THEN finished \cup {c} ELSE finished
         /\ start' = IF ends THEN start \ {c} ELSE start
         /\ running' = HandOver(c, to)
         /\ callStack' = Front(callStack)
         /\ McoSwap(c, to, Last(callStack'), finished')
         /\ UNCHANGED <<live, use_private, should_close, sink, slots>>

(* The assertion of McoCallStack::operator[] when it stores a new entry: the *)
(* argument index++ is evaluated before it compares index_ with the slots.   *)
StoreAssertion == slots = Len(callStack) + 1

(* What MainMco does to the process when it has to make the first entry:     *)
(* InitMcoContext dereferences stackMgr, then the entry is stored.           *)
BootFate ==
  IF ~StackMgrSet THEN "segv"
  ELSE IF Asserts /\ ~StoreAssertion THEN "abort"
  ELSE "ok"

(* The call stack with Main at the bottom, as MainMco leaves it.             *)
Booted == IF callStack = <<>> THEN <<Main>> ELSE callStack

ResumerIsMain == Head(Booted)                       \* the bottom, not the top
Resumer == Last(Booted)

Larger(m, n) == IF m > n THEN m ELSE n
-----------------------------------------------------------------------------
(* McoCreate.  A new object may get the address of a freed one.              *)
McoCreate(c, private) ==
  /\ fate = "ok"
  /\ c \notin live
  /\ live' = live \cup {c}
  /\ use_private' = IF private THEN use_private \cup {c} ELSE use_private
  /\ UNCHANGED <<start, running, finished, should_close, stack, sink,
                 callStack, slots, cpu, fate>>

MainMco ==
  /\ fate = "ok"
  /\ callStack = <<>>
  /\ IF BootFate # "ok"
       THEN Die(BootFate)
       ELSE /\ callStack' = <<Main>>
            /\ slots' = Larger(slots, 1)
            /\ start' = start \cup {Main}
            /\ running' = running \cup {Main}
            /\ UNCHANGED <<live, use_private, finished, should_close, stack,
                           sink, cpu, fate>>

(* The contract of McoResume, which the code does not enforce: c waits for   *)
(* no coroutine but the running one.                                         *)
Resumable(c) ==
  \/ "ancestor" \in Misuse
  \/ c \notin Range(callStack)
  \/ c = sink[Resumer]

Push(c) ==
  /\ callStack' = Append(Booted, c)
  /\ slots' = Larger(slots, Len(Booted) + 1)
  /\ sink' = [sink EXCEPT ![c] = Resumer]
  /\ start' = start \cup {Main, c}
  /\ running' = HandOver(Resumer, c)
  /\ McoSwap(Resumer, c, c, finished)
  /\ UNCHANGED <<live, use_private, finished, should_close>>

(* McoResume: to the routine that resumed us it is a yield.                  *)
McoResume(c) ==
  /\ fate = "ok"
  /\ c \in Handles \ (running \cup finished)
  /\ Resumable(c)
  /\ Len(callStack) < MaxDepth
  /\ IF callStack = <<>> /\ BootFate # "ok"
       THEN Die(BootFate)
       ELSE IF sink[Resumer] = c
         THEN /\ Last(callStack) \in running \ finished
              /\ SwitchToSink(Last(callStack), FALSE)
         ELSE Push(c)

McoYield(c) ==
  /\ fate = "ok"
  /\ c \in running \ finished
  /\ c = Main => "yield_main" \in Misuse
  /\ SwitchToSink(c, FALSE)

(* The end of CoroutineRun: the function of the routine returned or threw.   *)
CoroutineRun ==
  /\ fate = "ok"
  /\ cpu # Main
  /\ IF cpu \in running THEN SwitchToSink(cpu, TRUE) ELSE Die("ub")

(* McoFree(c) while c runs sets a flag that nothing reads.                   *)
MarkShouldClose(c) ==
  /\ should_close' = should_close \cup {c}
  /\ UNCHANGED <<live, use_private, start, running, finished, stack, sink,
                 callStack, slots, cpu, fate>>

(* McoContext::ctx has no initial value: deleting a routine before its first *)
(* resume frees an arbitrary pointer.                                        *)
OccupantWithout(c) == IF commonOccupy = c THEN Null ELSE commonOccupy

Delete(c) ==
  /\ live' = live \ {c}
  /\ use_private' = use_private \ {c}
  /\ start' = start \ {c}
  /\ finished' = finished \ {c}
  /\ stack_store' = stack_store \ {c}
  /\ should_close' = should_close \ {c}
  /\ sink' = [sink EXCEPT ![c] = Null]
  /\ commonOccupy' = OccupantWithout(c)
  /\ frames' = [frames EXCEPT ![c] = Blank]
  /\ fate' \in IF c \in start \cup finished THEN {"ok"} ELSE {"ok", "ub"}
  /\ UNCHANGED <<running, callStack, slots, common, cpu>>

McoFree(c) ==
  /\ fate = "ok"
  /\ c \in live
  /\ c \in Range(callStack) \ running => "free_stacked" \in Misuse
  /\ c \notin start \cup finished => "free_fresh" \in Misuse
  /\ IF c \in running THEN MarkShouldClose(c) ELSE Delete(c)

(* The running coroutine writes to its frames: to its own stack, or to       *)
(* whatever the shared area holds.                                           *)
Compute(v) ==
  /\ fate = "ok"
  /\ cpu # Main
  /\ IF IsPrivate(cpu)
       THEN frames' = [frames EXCEPT ![cpu] = v] /\ UNCHANGED common
       ELSE common' = v /\ UNCHANGED frames
  /\ UNCHANGED <<flags, stack_store, commonOccupy, sink, callStack, slots,
                 cpu, fate>>

Next ==
  \/ MainMco
  \/ CoroutineRun
  \/ \E c \in Coroutines :
       \/ \E private \in BOOLEAN : McoCreate(c, private)
       \/ McoFree(c)
  \/ \E c \in Mcos : McoResume(c) \/ McoYield(c)
  \/ \E v \in Vals : Compute(v)

Spec == Init /\ [][Next]_vars
-----------------------------------------------------------------------------
(* Type invariant: every flag, pointer and counter of the runtime stays in   *)
(* the range its C++ type and use give it.                                   *)
TypeOK ==
  /\ live \subseteq Coroutines
  /\ use_private \subseteq Coroutines
  /\ start \subseteq Mcos
  /\ running \subseteq Mcos
  /\ finished \subseteq Mcos
  /\ stack_store \subseteq Mcos
  /\ should_close \subseteq Mcos
  /\ sink \in [Mcos -> Mcos \cup {Null}]
  /\ callStack \in Seq(Mcos)
  /\ slots \in Nat
  /\ commonOccupy \in Mcos \cup {Null}
  /\ common \in Vals
  /\ frames \in [Mcos -> Vals]
  /\ cpu \in Mcos
  /\ fate \in Fates

(* McoResume and McoYield keep three records of who runs: the running flags, *)
(* the top of the call stack and the registers.  They agree: exactly one     *)
(* routine has its flag set, and it is the one that executes.                *)
RunningIsTop ==
  fate = "ok" /\ callStack # <<>> =>
    running = {cpu} /\ cpu = Last(callStack)

(* What the assertion of McoYield, that sink is callstack[index-2], claims   *)
(* of the running routine, for every entry: McoYield returns to the routine  *)
(* below it on the call stack, because that one is its sink.                 *)
SinkIsBelow ==
  \A i \in 2 .. Len(callStack) : sink[callStack[i]] = callStack[i - 1]

(* The same assertion for the routine that runs, the only one it is ever     *)
(* evaluated for.                                                            *)
YieldAssertion ==
  fate = "ok" /\ Len(callStack) > 1 =>
    sink[Last(callStack)] = callStack[Len(callStack) - 1]

(* Every suspended common-stack routine has exactly one valid copy of its    *)
(* frames: in the shared area if it is the occupant, else in its own         *)
(* stack_tmp; and the routine that executes never runs on a copy.            *)
OneCopy ==
  fate = "ok" =>
    /\ \A c \in start : ~IsPrivate(c) => (c \in stack_store <=> commonOccupy # c)
    /\ IsPrivate(cpu) \/ commonOccupy = cpu

(* McoSwap never enters a routine that was freed, is finished or was not     *)
(* given its frames back, McoYield never follows a null sink, and no         *)
(* assertion fails.                                                          *)
NoCrash == fate = "ok"

(* main() of test/Main.cpp and test/mco.cpp expects the coroutine it         *)
(* resumes to print: the resume must not kill the process.                   *)
NoSegv == fate # "segv"

(* The assertions of McoCallStack.h never stop a build that compiles them.   *)
NoAbort == fate # "abort"
-----------------------------------------------------------------------------
(* The refinement mapping to Coroutine.                                      *)
Stacked(c) == c \in Range(callStack)

Status(c) ==
  IF c \notin live THEN "absent"
  ELSE IF c \in finished THEN "finished"
  ELSE IF Stacked(c) THEN "active"
  ELSE IF c \in start THEN "suspended"
  ELSE "fresh"

Local(c) ==
  IF c \notin start THEN Blank
  ELSE IF IsPrivate(c) \/ c \in stack_store THEN frames[c]
  ELSE common

Abs == INSTANCE Coroutine WITH
  status <- [c \in Coroutines |-> Status(c)],
  control <- Booted,
  local <- [c \in Coroutines |-> Local(c)]

(* The runtime implements coroutines: resumes and yields nest, a finished    *)
(* routine never runs again, and no switch through the shared stack area     *)
(* changes the frames of any coroutine.                                      *)
ImplementsCoroutine == Abs!Spec

=============================================================================
