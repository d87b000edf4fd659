# fasco in TLA+

fasco (namespace `moxie`) is a C++ coroutine library with hooked system calls.
A thread runs an epoll loop; each connection is served by a coroutine that
calls `read` as if it blocked, and the hook turns the call into "register,
yield, be resumed by the loop, read". This directory models the library
component by component, model-checks each model with TLC on small instances,
and proves the type invariants, the safety properties and four refinements with TLAPS for every value of the constants.

## 1. The system

| Component | Source | State | Operations |
|---|---|---|---|
| Coroutine runtime | `mco/` | flags of each `McoRoutine`, its `sink`, its stack; per thread the call stack (`McoCallStack`) and the shared stack area with its occupant (`McoStackManager`) | `McoCreate`, `McoResume`, `McoYield`, end of a routine, `McoFree`, `MainMco` |
| Per-thread objects | `tools/PoolInThreads.hpp` | `instance_`, the map from tid to object, its mutex | `Item()`, `Item(tid)` |
| Event loop | `base/EventLoop.*`, `Events.*`, `Epoll.*` | `events_` by descriptor, `quit_`, eventfd, the epoll set; of an `Events` its state, interest and tid | `loop`, `updateEvents`, `getEvents`, `quit` |
| Loops of the process | `base/EventLoopPool.*` | `loops_`, `nextLoops_`, `next_`, `mainLoop_` | `addEventLoop`, `getNextLoop`, `getLoop` |
| Hooks | `base/SysapiHook.cpp`, `McoPool.*`, `Mcosops.h`, `Continuation.h`, `Eventsops.h` | per thread `fdMcos_` and `cur_` | `read`, `accept`, `close`, `Resume`, `Yield` |
| Server | `base/TcpServer.*` | the listening socket; locals of `accept` | `start`, `accept`, `client_call` |
| Thread pool | `base/ThreadPool.*`, `Thread.*` | `threads_`, `started_`, counters | `updateThreadNum`, `start`, destructor |
| Utilities | `Mutex*`, `Socket`, `NetAddress`, `Timestamp`, `Log`, `SigIgnore`, `tools/CallStack.hpp`, `Handler.h` | none that matters to the others | wrappers and conversions; the last two are unused |

How they interact. A loop thread is in `loop()`, or in one coroutine that
`loop()` resumed. A hooked call looks its coroutine up in the thread's
`McoPool` (found through `PoolInThreads`), registers the descriptor's `Events`
with the loop of that `Events` (found through `EventLoopPool`), and yields. The
accepting coroutine of the main thread writes another thread's `McoPool` and
another thread's loop. The `Continuation` of a connection owns its coroutine,
the coroutine's function owns the `Events`, and `~Events` closes the
descriptor; so the life of a descriptor is that of a chain of `shared_ptr`s
held by two tables, a current pointer and some locals.

What is hard, and what makes each part right:

- *Runtime*: any order of resume, yield, end and free must leave call stack,
  flags and registers in agreement, and a stack area shared by all common-stack
  coroutines must never lose or mix frames. (`RunningIsTop`, `SinkIsBelow`,
  `OneCopy`, `NoCrash`, `ImplementsCoroutine`)
- *Coroutines that change threads*: every thread has its own call stack and
  stack manager, found by tid, while flags and stack travel with the coroutine;
  nothing but the running flag keeps two threads off one routine, and managers
  remember occupants that another thread may free. (`OneThreadPerRoutine`,
  `FramesAreOwn`, `ImplementsMovingCoroutines`)
- *Loop and hooks*: no lost arming between yield and resume, no blocking call
  that really blocks except after urgent data, no entry left for a descriptor the kernel gives out
  again, no resume by a hang-up that epoll reports unasked, no result buffer
  written beyond its end, no wake-up lost. (`WaiterIsArmed`, `OnlyUrgentDataBlock`,
  `FreeIsForgotten`, `ClosedIsErased`, `MutedOnlyWhileRunning`, `NoFault`,
  `NothingIsMissed`)
- *Clients*: whatever they send, close or reset and in whatever order, they are
  accepted in turn, read in full and closed; and once they have gone the loops
  rest. (`ImplementsConnections`, `HangupsAreAnswered`, `WaitersAreAccepted`,
  `DataIsRead`, `ComesToRest`, `QuitEnds`)
- *Concurrency*: unsynchronised `Instance()` and `McoPool`, threads that look
  up the same tid, a `Continuation` that several threads may release.
  (`OneObjectPerThread`, `NoFault`, `OneThreadServes`, `ContractKept`,
  `ReleasedAtTheEnd`)
- *Rotation*: loops that join in the middle of a round. (`ServesInRounds`,
  `NoLoopStarves`, `Registered`)
- *Partial failure*: `ThreadPool::start` that stops half way.
  (`NoThreadOutlivesPool`)

PROJECT.json lists the hazards line by line.

## 2. Modules

| Module | Models | Uses |
|---|---|---|
| `Coroutine` | what the runtime promises: nested control, private frames | |
| `Mco` | the runtime of one thread | refines `Coroutine` |
| `McoProofs`, `McoRefinement` | proofs about `Mco` | extend `Mco` |
| `MovingCoroutines` | what the runtimes of several threads promise together | |
| `McoThreads`, `McoThreadsProofs` | the runtime of several threads, routines that move between them | refines `MovingCoroutines`; the frames of `Mco`, less detailed |
| `Connections` | what the server promises to its clients | |
| `Server` | loop, hooks, `McoPool`, `Epoll`, `TcpServer`, kernel and clients | refines `Connections`; uses coroutines as `MovingCoroutines` allows |
| `ServerProofs`, `ServerRefinement` | proofs about `Server` | extend `Server` |
| `PoolInThreads`, `PoolProofs` | the per-thread pool, every memory access a step | |
| `RoundRobin` | what `EventLoopPool` promises | |
| `EventLoopPool`, `EventLoopPoolProofs` | registration and choice of loops | refines `RoundRobin` |
| `ThreadPool`, `ThreadPoolProofs` | thread pool | |
| `MCMco`, `MCMcoThreads`, `MCServer`, `MCPoolInThreads`, `MCEventLoopPool` | the finite instances | |

How they fit together. `Mco` shows that one thread's runtime is `Coroutine`,
within a contract for its clients. `McoThreads` takes the same operations to
several threads, with a wider contract, and shows that they are
`MovingCoroutines`. `Server` resumes and yields coroutines
as `Coroutine` allows. Of the two contracts it keeps the rule about areas
(`OneThreadServes`: a routine is only ever run by one thread) and, without
workers, the rule about freeing (`ContractKept`: by that thread, when the routine
has returned). With workers it does not keep the latter: `accept` may free a
worker's routine on the main thread, once it has returned (`ReleasedAtTheEnd`;
see Server below). `MayFree` of `McoThreads` excludes just that, so the theorems
of the two modules do not add up to a server with workers. That
its loops and hooks make only steps of `MovingCoroutines`, the abstraction that
`McoThreads` implements, is proved (`ServerUsesCoroutines`).
`Server` takes the loop for a connection to be any one; `EventLoopPool` says
which. `PoolInThreads` is how a thread finds its `McoPool`, its call stack and
its loop.

### Mco

One action per function. The C++ flags become the sets `start`, `running`,
`finished` (`done` and `done_yield`, set together), `stack_store`,
`should_close`; `callStack_` below `index_` is the sequence `callStack`, and
`slots` is the size of the map, whose entries are never erased. The contents of
a stack are one value from `Vals`, which is all that is needed to see whether
frames were lost or mixed. `McoSwap` is an operator shared by resume, yield and
end: it decides who is evicted from the shared area (`Evicted`), whose frames
are copied back behind the swap (`Recovered`), and assigns the registers
(`mco_swap`, variable `cpu`). `McontextMake` and `mco_swap` are those of x86_64;
on i386 `McontextMake` writes the argument into the stack area before `McoSwap` has
saved its occupant, which is not modelled. A step whose C++ is undefined (entering a freed
routine, a null sink, an uninitialised context) sets `fate` and ends the
behaviour.

*Configurations.* The code as committed cannot run a coroutine:
`McoRoutine::stackMgr` is never assigned, so the first resume dereferences null
(run `mco_committed`). With that repaired, `McoCallStack`'s assertion fails at
the first resume of a build without `NDEBUG` (`mco_asserts`; SConstruct sets no
`NDEBUG`). `CommittedNeverRuns` proves that either one alone keeps every
routine from being entered, whatever the calls. The other runs take the smallest
repair: `StackMgrSet = TRUE`, `Asserts = FALSE`. Everything else is the code.

*Contract.* `Misuse` is the set of calls out of contract the client makes:
resuming a routine that waits further down the call stack, yielding the main
routine, freeing a routine that waits or that never ran. With `Misuse = {}`
everything holds; `mco_ancestor` shows that the first kind makes McoYield's own
assertion fail and control go astray (TLC also finds two copies of one
routine's frames, `OneCopy`, seven steps deep). It is the only kind that damages
the runtime's records in silence: with the others they agree up to the step that
kills the process (`AgreementInvariance`).

### McoThreads

The operations are those of `Mco`, with a thread for an argument: `callStack`,
`commonOccupy` (of the `McoStackManager`) and `cpu` belong to a thread, `live`,
`use_private`, `start`, `running`, `finished`, `stack_store` and `sink` to a
routine. `home` is the thread whose manager made a routine's stack
(`InitMcoContext`), `area` what lies in that thread's shared area and `frames`
what a routine's `stack_tmp` holds; both name the routine whose frames they
are. Each call is one step: in the test a mutex, and in the server the loop's
mutex, lies between what one thread and the next do with a routine.

`MovingCoroutines` is `Coroutine` for several threads: a chain of control per
thread, one status per routine, and whose frames the routine finds on its stack.
Any thread may resume any routine that is nowhere active; the contract below is
what the implementation needs to keep that promise. The mapping takes the chain
of a thread from its call stack and, for its end, from the registers (`Chain`),
so that a switch to a wrong routine shows.

*Contract.* The code enforces none, and without one frames are lost. The
contract of the model is what test/McoInThread.cpp does: a routine with a
private stack may go anywhere, another one is run by the thread on whose area
it was started, or visits another thread (a *guest*) as the last user of its
own area and while the host has no common-stack routine of its own
(`MayResume`); and no routine is freed while the manager of another thread
remembers it (`MayFree`). Each clause is needed: if the owner of the area runs another
routine during a visit, the guest's frames are overwritten under it; if the
host has routines of its own, the host's manager saves from the area of the
wrong thread; and a thread that frees a routine which another manager remembers leaves that
manager with a dangling occupant, for `McoFree` clears only its own
(McoRoutine.cpp:190-193). `MayFree` is thus an assumption about clients, not
something the code sees to, and no property of this module says anything about
such a pointer. The server never has guests (`OneThreadServes`), but with workers
it may break `MayFree`.

### Server

A connection `c` names three objects with one life each: the open file, the
`Events` and the `Continuation`. `ContinuationHeld`, `EventsHeld` and `Open` are state functions: they
say which `shared_ptr` is still there, so destructors need no action, and a
descriptor is free (`FreeFds`) exactly when nobody holds its `Events`.
`accept` takes the lowest free descriptor, so numbers are reused at once.

A thread is described by `pc` (in `epoll_wait`, in a batch, ended), `on` (the
coroutine it executes) and, per coroutine, `at`. The hooks are split at
`Yield`: `Hook` is the first half of both `read` and `accept`, the actions
`read` and `accept` are what happens after the resume together with what the
caller does with the result. Work under `EventLoop::mutex_` is one step, so is
work only its own thread can see; `SetMcoRoutine(fd, co, tid)` has a beginning
and an end, because the owner of that pool can look at it meanwhile. With
`GuardedPool = FALSE`, the code as committed, such a lookup may miss (a map
that is being rehashed; a crash is also possible and is not followed). `close`
looks twice, to see whether the coroutine is the current one and to remove it,
and each time it may miss. `quit` from another thread is two steps, the write of
`quit_` without the mutex and the wake-up, with anything in between.

`accept` has references to the new `Continuation` and `Events` until its block
ends (TcpServer.cpp:67-73), behind `updateEvents`, which has already given the
connection to its loop: `Register` and `Leave` are two steps. A worker may serve
the whole connection in between; the last references then go in `Leave`, and
with them `McoFree` and `::close` run on the main thread. `McoFree` does not find
the routine in the main thread's manager, and the worker's keeps a pointer to it.
`Server` does not follow what becomes of that pointer; its properties, and
the theorems about it, take the runtime to behave.

`kReadEvent` is `POLLIN | POLLPRI`. `Readable` says that the call behind the hook
would not block, `Signalled` that epoll reports the descriptor: the two differ for
a client that has sent urgent data and nothing else (`SendUrgent`; `Urgents` says
who may). Its coroutine is resumed, the hook calls the blocking `read`, and the
thread hangs, with all its other clients, until that client sends or closes
(`Blocked`). `OnlyUrgentDataBlock` says that nothing else makes a thread hang, and the
liveness properties except this case. A read that goes on from the urgent mark
drops the urgent data; one that ends there does not.

`boundEvents`, chosen at the start, distinguishes the two programs of the
repository that use the hooks: `TcpServer` (the coroutine's function owns the
`Events`; the loop resumes the accepting coroutine) and `test/HookApi.cpp` (it
owns only the number, `close()` destroys the `Events`; `main` resumes the
accepting coroutine). `allowed`, also chosen at the start, is the set of
descriptors the process may use. `Asserts` matters because `events_.erase` is
inside an `assert`. The runtime's own assertion (above) is taken as repaired
here.

`Epoll` is in `Polled` (ADD, MOD, DEL), in `Ready`, and in `EpollWait`:
`revents_` is handed to `epoll_wait` with size 0, and the number of events asked
for, `maxNum_`, must not exceed the capacity `room` that earlier calls left.
`epoll_wait` chooses among what is ready when not all fit. It reports the
hang-up of a descriptor even when its interest is empty ("off") and
`eventHandleAble` lets that pass. The model leaves this out: a muted descriptor
is neither in `Ready` nor able. `MutedOnlyWhileRunning`, that no loop waits while
one of its descriptors is muted, is why nothing is lost.

Clients connect, send, close, and reset the connection, which discards what was
not read (`Hangup`). `Phase` maps a connection to `Connections`: waiting in the
backlog, open as long as somebody holds its `Events`, closed afterwards.

Not in the model: write events, the
hooks' branches for a null current coroutine, which `client_call` never
reaches, and `~TcpServer`, which no program runs.

### PoolInThreads, EventLoopPool, ThreadPool

`PoolInThreads` has a step for every access to `instance_` (`Check`, `Make`,
`Load`, where a build may or may not read the pointer again) and for the
critical section (`Lock`, `Find`, `Insert`, `Return`). `Warm` says that `main`
uses the pool before it starts threads, which holds for `EventLoopPool` in
`test/MultiThreadServer.cpp` and not for the pools of `McoPool`s and call
stacks in general: for a cold pool (`Warm = FALSE`) TLC finds `OneObjectPerThread`
violated, but no program of the repository makes several threads race for the
first use of a pool. `EventLoopPool`'s methods hold the mutex throughout and are
one step each. `ThreadPool` lets `pthread_create` fail after any number of
threads, and lets a thread's function throw: what derives from `std::exception`
ends the thread, anything else the process.

## 3. Runs

| Run | Instance | Question |
|---|---|---|
| `mco_client` | 3 coroutines, private or common stack, 2 stack contents, call depth 4 | does the runtime implement `Coroutine` and keep its records straight? |
| `mco_committed`, `mco_asserts`, `mco_ancestor` | the same, call depth 6 in the last | findings |
| `mco_threads` | 2 threads, 3 coroutines, private or common stack, call depth 4 | do flags, sinks and areas survive routines that move, and do the threads implement `MovingCoroutines`? |
| `server_alone` | main loop, 2 connections, 1 or 2 descriptors, both programs, result buffer of 1 entry that grows by 1, `quit()` at any time, one client that may send urgent data, fair | lost wake-ups, blocking, spinning, starvation, exhausted descriptors, reuse, the end of the loop, the promise to clients |
| `server_workers` | main and 2 workers, 2 connections, 1 descriptor, serialised `McoPool`, one client that may send urgent data, fair | a descriptor that moves from loop to loop; who runs and who frees a coroutine |
| `server_race`, `server_ndebug` | 2 connections, 2 descriptors | findings |
| `pool_warm` | 3 threads, any tid asked for by any thread | stability of the pool |
| `eventlooppool` | 6 loops of 5 threads, each added as worker or main at any time | round robin, starvation, registration |
| `threadpool` | up to 4 threads, any number starts | lifetime |

Why the bounds are enough. Three coroutines are needed for one to be evicted by
a second while a third waits; call depth 4 is all three over the main routine.
Two stack contents tell any two frames apart that differ. A visit needs a host,
an owner and two routines that compete for one area, and the third routine of
`mco_threads` is the competitor on the host; with three threads the same
properties hold (2,403,805 states, too slow to repeat every time). In `Server`
two connections and one descriptor already give reuse and exhaustion, the
instances with two descriptors two clients that are served at once, and a
result buffer of one entry (instead of 20) both a choice among events that do
not fit and growth. `MaxChunks` = 1 bounds what a client has sent and nobody has read, and
data arrive again after each read. One client that may send urgent data and one
that may not show what such a client does to the other. Two workers let a descriptor move between
loops that are both different from the acceptor's. The unbounded numbers of the
code are bounded by these constants only; no other guard was added, except
`MaxDepth` in `McoResume` and `MaxChunks` in `Send`. What is proved (section 4) holds
without any of these bounds on the number of threads, routines, connections and
descriptors.

`CHECK_DEADLOCK FALSE` is set where the behaviour may end: after a crash (the
runs of the findings), when the only loop has been told to quit, and when a
thread pool is gone.

Fairness. `server_alone` and `server_workers` assume that the operating system
schedules every thread (`WF` of all that a thread does by itself). Clients, the
timeout of epoll_wait (2000 seconds) and `quit` are not fair: every liveness
property is conditional on what a client has done and excludes the loops that
were told to quit and the threads that urgent data block (`Blocked`): how long
these hang is up to that client. That a thread which has begun `quit` goes on to
wake the loop is part of the fairness.
`EventLoopPool!FairSpec` assumes that the accepting coroutine goes on asking
for loops. The other properties need none.

Each property of a passing run has a faulty variant of the code's definition,
kept just before the definition it replaces (for instance `CurKept` before
`CurAfterClose`), under which TLC finds the property violated.

### Findings

1. `mco_committed`: `stackMgr` is null, the first resume kills the process.
2. `mco_asserts`: `(*callstack)[index++] = sink` fails the assertion inside
   `operator[]` at the first resume.
3. `mco_ancestor`: resuming a routine that waits deeper in the call stack
   overwrites its sink; its next yield returns to the wrong routine.
4. `server_race`: an unlocked insertion into another thread's `McoPool` can make
   a hooked `read` register its descriptor twice, and `pollUpdate` aborts
   (`NoFault`). `server_workers` and the proofs assume that the calls of one
   `McoPool` are serialised (`GuardedPool`).
5. `server_ndebug`: without assertions closed connections are never erased from
   their loop and their descriptors never closed (`DescriptorsRunOut`).

Remarks that need no run. `ThreadPool::start` sets `started_` although a
`pthread_create` failed, and the destructor then calls `pthread_join` for
`Thread` objects that never got a thread (`JoinNothing`), against ThreadPool.h:32;
`curThreadNum_` (ThreadPool.h:26) stays 0 and is not modelled. A loop that quits
stays in the rotation of `EventLoopPool`, which has no operation to remove it.

## 4. Proofs

All theorems hold for every value of the constants, under the named assumption
of their module (`McoAssumption`, `McoThreadsAssumption`, `ServerAssumption`,
`PoolAssumption`, `LoopAssumption`, `ThreadPoolAssumption`).

*Runtime* (`McoProofs`, `McoRefinement`). `RunningIsTop`, `SinkIsBelow`, `OneCopy`
and `NoCrash` are not inductive one by one: that a yield lands on the routine
below needs the sinks, that the swap enters a routine with frames needs to know
who is stored, and that needs to know that only a routine that waits or is
suspended is stored. Three invariants close this circle, each for as many
builds and clients as it holds for:

| Invariant | Says | Assumes | Theorems |
|---|---|---|---|
| `TypeOK` | types | nothing | `TypeCorrect` |
| `CInv` | `Agreement`: until the process dies, flags, call stack, registers, the sinks of started routines and the occupant of the shared area agree | nobody resumes an ancestor (`Orderly`) | `AgreementInvariance`, `OneRuns`, `FramesHaveOneCopy` |
| `PInv` | and the call stack is a path of started routines along their sinks | nor frees a routine that waits | `PathInvariance`, `YieldReturnsBelow` |
| `IInv` | and the process does not die | `Repaired == StackMgrSet /\ ~Asserts /\ Misuse = {}` | `Invariance`, `NeverCrashes` |

There is one lemma per action and a common one for `McoSwap`. `Agreement` is
false once an ancestor is resumed (finding 3), and a routine that is freed while
it waits stays on the call stack without a context. `CommittedNeverRuns` is about the
code as committed. `Refinement` maps every step of `Mco` to a step of `Coroutine`
or a stutter, in every build and for a client that at most yields the main
routine: a saved and restored frame is the same frame, and a step in which the
process dies has no other effect.

*Threads* (`McoThreadsProofs`), for any number of threads and routines within the
contract. `TInv` is `McoThreadsTypeOK` with two groups of parts. *Control*: each
routine is in one place of one call stack, above the thread's own routine, and
the sinks are the entries below; with it a switch always enters a routine that
no other thread executes. *Frames*: of the routines that share an area one has
its frames there and is the occupant its manager remembers, the others have
saved them (`Areas`); a manager that remembers a visitor has no routines of its
own (`Visits`); and an area is used by one call stack at a time (`Guests`). The
lemma `EnterTInv` carries these through `McoSwap` for whoever is entered, with a
lemma each for a private stack, an area's own routine and a guest;
`TInvImplies` then gives `McoThreadsTypeCorrect`, `OneThreadRunsIt`, `FramesStayOwn`
and `YieldsStay`. For `MovingRefinement` the invariant
is used twice: it reduces the mapping to who is live, started, finished and on
which call stack (`MappedFacts`: every started routine finds its own frames, every
thread executes what its call stack says), and what is left is one lemma per
operation (`CreateMoves`, `PushMoves`, `SwitchMoves`, `FreeMoves`).

*Server* (`ServerProofs`), for any threads, connections and descriptors, both
programs and builds with and without assertions, under `Serialised`: the race of
finding 4 cannot happen, because `McoPool` calls are serialised or there are no
workers. `WaiterIsArmed` is not inductive. That the loop finds a coroutine needs
that its descriptor is its own as long as it is open (`Descriptions`), which
needs that what is open is in the tables (`Entered`) and that the tables hold
nothing else (`Tables`), across threads and while a connection is handed over
(`Handover`); that it can be resumed needs that only a running coroutine is
muted, and that what `epoll_wait` returned is still true when its turn comes
(`Occurrences`). Without assertions a closed connection stays in its loop
(finding 5): it is then in `Left`, and `Leftovers` says that its entry stays and
its descriptor with it, which is why no later connection collides with it.
`SInv` is the conjunction of these parts with the type invariant, the thread's
own records (`Scheduling`) and the data (`Reads`). There is one lemma per action,
common ones for `updateEvents` (`UpdateFacts`, `ModFacts`) and for a coroutine
that goes on (`MovesOn`); `Served` is the set of coroutines that a loop has.
From `ServerInvariance` follow:

- `ServerTypeCorrect`, `WaitersAreArmed`, `OnlyUrgentBlocks`, `NothingFaults`,
  `OnlyTheRunningIsMuted`, `ThreadsKeepTheirClients`, `ReuseIsSafe`;
- `ClosedLeaveNothing`, with assertions compiled in;
- the action property `ReleasesAreLate`, with the lemma that a `Continuation` is
  held from `accept()` to the return of its coroutine, and beyond only by the
  block of `accept()` (`HoldingsFacts`); `ContractIsKept` follows from it when the
  main thread is the only one, which cannot be in that block meanwhile;
- `NoWakeupIsLost`: a loop that waits has in its epoll, ready, every coroutine of
  its own for which an event has come, and its eventfd once `quit` has woken it. It needs one
  more invariant, `QuitIsSeen`. This is the part of the liveness properties that
  does not depend on fairness: a loop never sleeps over something to do;
- `DescriptorsRunOut`, finding 5 in general: without assertions every accepted
  connection stays open for ever, so that no more are ever accepted than the
  process may have descriptors. It needs `Within`: connections only get
  descriptors that the process may use.

*The promise to clients* (`ServerRefinement`), with assertions compiled in (finding
5 breaks the promise otherwise). Under `SInv` the counting of `shared_ptr`s agrees
with where the coroutine is (`AgreeFacts`), so that only six kinds of steps are
visible to clients; `ServerKeepsPromise` maps each to the step of `Connections` and
all others to a stutter.

*The server's use of coroutines* (`ServerRefinement`), in both builds.
`ServerUsesCoroutines` maps where each coroutine is to a `status` of
`MovingCoroutines`: a connection's first `accept` is `Create`, `HandleEvent` is
`Resume`, a hook that waits is `Yield`, the end of `client_call` is `Finish`, and all
other steps stutter. The work is in `HandleEvent` and the hooks: that what `loop()`
finds in its tables is `first` or `await` (`OccurrenceFacts`, from `Occurrences` and
`Tables`) and that the coroutine in a hook is the current one (`Scheduling`), without
which `Yield` would do nothing. The theorem is about steps, not about `Init`: the
program of `test/HookApi.cpp` begins with its accepting coroutine already running.
`Server` has no frames; the mapping makes them what `MovingCoroutines` prescribes. That
an ended routine is released, as `Free` asks, is `ReleasesAreLate`. It
assumes that threads and coroutines have different names.

*Pool* (`PoolProofs`). `PoolTypeCorrect` is type correctness.
`ObjectsAreNotShared`: a mutex holder's lookup stays true, what was returned is
in some pool, and objects have distinct numbers across all pools; hence no object
is returned for two threads. It is about threads that race to make the pool
(`Warm = FALSE`), for which there is no run: with one pool it says little, and it is
not checked by TLC. `WarmPoolIsStable`:
with `Warm`, only the starter can be between test and assignment, so there is
one pool.

*Loops* (`EventLoopPoolProofs`). `LoopPoolTypeCorrect`, `RegistrationHolds`, and `RoundRobinRefinement`
with the cursor mapped to the set of loops not yet served in the round.

*Thread pool* (`ThreadPoolProofs`). The invariant says that before the
destructor's position no thread runs; `ThreadPoolTypeCorrect` and
`NothingOutlivesPool` follow for pools of any size.

Only model-checked: liveness (`HangupsAreAnswered`, `WaitersAreAccepted`,
`DataIsRead`, `QuitEnds`, `ComesToRest`, `NoLoopStarves`), which is out of reach of
the prover under fairness, and the findings. Every safety property of a
passing run is proved. Nothing is proved of workers whose `McoPool` calls are not
serialised (`GuardedPool = FALSE`): there the model lets a lookup miss, the mildest
of the outcomes an unlocked map has, so a theorem would promise more than the
code.

## 5. Not modelled

- Sockets and addresses (`Socket`, `NetAddress`): thin wrappers around system
  calls without state of their own; what they do to the kernel is in `accept`
  and `Open`.
- Time, log and signals: conversions and output on which no state depends.
- Unused templates (`tools/CallStack.hpp`, `Handler.h`), `PthreadSpecificData`.
- The C++ machinery of exceptions: a routine that throws ends like one that
  returns, as `CoroutineRun` makes it.
- Two threads inside the runtime with one routine at the same instant
  (`McoYield` clears `running` before the registers are saved): excluded by the
  contract of `McoThreads`, which is what the mutex in the test ensures.
- What a compiler may do with the plain bool `quit_`.
- The i386 branches of `Mcontext.cpp` and `swap.S`.
- What a worker's runtime does after `accept()` has freed a coroutine that the
  worker's stack manager remembers.

## 6. Plan

Done: `Mco`, `McoThreads`, `Server`, `PoolInThreads`, `EventLoopPool` and `ThreadPool`
with proofs of their safety properties; refinements of `Coroutine`,
`MovingCoroutines`, `Connections` and `RoundRobin`.

`Server` and `McoThreads` meet in `MovingCoroutines`: the one makes only its steps, the
other implements it.

Left: `Server` with `EventLoopPool`'s rotation in place of an arbitrary loop, to count
how clients are spread.
