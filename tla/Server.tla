-------------------------------- MODULE Server --------------------------------
(***************************************************************************)
(* The server: EventLoop, Events, Epoll, McoPool, the hooks of             *)
(* SysapiHook.cpp and TcpServer (or its like in test/HookApi.cpp), with    *)
(* the kernel and the clients as their environment.  A thread runs its     *)
(* loop() and the coroutines that loop() resumes; coroutines are taken to  *)
(* be what module Coroutine promises, and the loop for a connection to be  *)
(* any one (module EventLoopPool chooses it).                              *)
(*                                                                         *)
(* A connection names its descriptor's file, its Events and its            *)
(* Continuation.  Whatever happens under EventLoop::mutex_ is one step,    *)
(* and so is the work of a thread that no other thread can observe.        *)
(***************************************************************************)
EXTENDS Naturals, Sequences, FiniteSetsExt, Functions

CONSTANTS
  Threads, MainThread,  (* the threads that have a loop; one also accepts   *)
  Conns,                (* the connections that clients may open            *)
  Listener,             (* the listening socket and its coroutine           *)
  Fds, ListenFd, WakeFd,
  Limits,       (* the sets of Fds that the process may be allowed to use   *)
  Null,
  MaxChunks,            (* bound on what a client has sent and nobody read  *)
  MaxNum, AddStep,      (* maxNum_ and addStep_ of a new Epoll: 20 and 15   *)
  Programs,     (* the values of boundEvents to begin with                  *)
  Asserts,      (* are assert()s compiled in?                               *)
  GuardedPool,  (* are concurrent calls of one McoPool serialised?  Not as  *)
                (* committed                                                *)
  Quitters,     (* the loops that another thread may quit()                 *)
  Urgents       (* the clients that may send urgent data                    *)

Mcos == Conns \cup {Listener}
Descriptors == Fds \cup {ListenFd}

ASSUME ServerAssumption ==
  /\ MainThread \in Threads
  /\ Listener \notin Conns
  /\ Null \notin Mcos \cup Threads \cup Descriptors
  /\ Fds \subseteq Nat /\ IsFiniteSet(Fds)
  /\ ListenFd \in Nat \ Fds /\ WakeFd \notin Descriptors
  /\ Limits \subseteq SUBSET Fds
  /\ MaxChunks \in Nat \ {0}
  /\ MaxNum \in Nat \ {0} /\ AddStep \in Nat
  /\ Programs \subseteq BOOLEAN /\ {Asserts, GuardedPool} \subseteq BOOLEAN
  /\ Quitters \subseteq Threads /\ Urgents \subseteq Conns

VARIABLES
  boundEvents, (* does a client's coroutine keep its Events, as TcpServer   *)
               (* makes it, or only the fd, as test/HookApi.cpp does?       *)
  (* the kernel and the clients                                             *)
  allowed,   (* the descriptors of connections that the process may use     *)
  backlog,   (* connections that wait for accept()                          *)
  sent,      (* sent[c] : unread data of c                                  *)
  urgent,    (* the connections with urgent data that were not read over    *)
  hung,      (* the connections whose client has closed                     *)
  fd,        (* fd[c] : the descriptor that accept() gave to c              *)
  closed,    (* the connections whose descriptor close() closed itself      *)
  epoll,     (* epoll[t][c] : what t's epoll waits for: "in", "off" for     *)
             (* nothing, or "out" if it does not have c                     *)
  wake,      (* the threads whose eventfd is readable                       *)
  (* Epoll, EventLoop, McoPool and Events                                   *)
  maxNum_,   (* maxNum_[t] : how many events epoll_wait may return          *)
  room,      (* room[t] : the capacity of revents_, into which it writes    *)
  quit_,
  quitting,  (* the loops whose quit() has not woken them yet               *)
  occur,     (* occur[t] : what epoll_wait returned and loop() has still to *)
             (* handle                                                      *)
  events_,   (* events_[t][f], fdMcos_[t][f] : Null if absent               *)
  fdMcos_,
  cur_,
  state_, eorigin_, tid_,   (* of the Events of a connection; eorigin_ is   *)
                            (* TRUE if it has kReadEvent                    *)
  (* control                                                                *)
  pc,        (* of loop()                                                   *)
  on,        (* on[t] : the coroutine that t executes, Null for loop()      *)
  at,        (* where each coroutine is                                     *)
  got, to,   (* the locals of TcpServer::accept: new connection and loop    *)
  fate

kernel == <<backlog, sent, urgent, hung, fd, closed>>
tables == <<events_, epoll, state_, eorigin_, tid_>>
pools == <<fdMcos_, cur_>>
control == <<pc, occur, on, at, got, to>>
loops == <<boundEvents, allowed, maxNum_, room, quit_, quitting>>
vars == <<kernel, wake, loops, tables, pools, control, fate>>

Init ==
  /\ boundEvents \in Programs /\ allowed \in Limits
  /\ maxNum_ = [t \in Threads |-> MaxNum] /\ room = maxNum_
  /\ backlog = <<>> /\ urgent = {} /\ hung = {} /\ closed = {}
  /\ sent = [c \in Conns |-> 0]
  /\ fd = [c \in Mcos |-> IF c = Listener THEN ListenFd ELSE Null]
  /\ wake = Threads /\ quit_ = {} /\ quitting = {}
  /\ state_ = [c \in Mcos |-> "new"]
  /\ eorigin_ = [c \in Mcos |-> TRUE]
  /\ tid_ = [c \in Mcos |-> MainThread]
  /\ occur = [t \in Threads |-> {}]
  /\ got = Null /\ to = Null /\ fate = "ok"
  /\ LET there(t, f) == boundEvents /\ t = MainThread /\ f = ListenFd IN
     /\ events_ = [t \in Threads |-> [f \in Descriptors |->
                     IF there(t, f) THEN Listener ELSE Null]]
     /\ fdMcos_ = events_
     /\ epoll = [t \in Threads |-> [c \in Mcos |->
                   IF there(t, fd[c]) THEN "in" ELSE "out"]]
  (* test/HookApi.cpp resumes the accepting coroutine before it calls       *)
  (* loop(); TcpServer::start leaves that to the loop.                      *)
  /\ on = [t \in Threads |->
             IF t = MainThread /\ ~boundEvents THEN Listener ELSE Null]
  /\ cur_ = on
  /\ pc = [t \in Threads |-> IF on[t] = Null THEN "wait" ELSE "batch"]
  /\ at = [c \in Mcos |->
             IF c = Listener /\ ~boundEvents THEN "call" ELSE "first"]
-----------------------------------------------------------------------------
(* Lifetimes.  A Continuation lives while McoPool, loop(), accept() or the   *)
(* frames of a hook have a shared_ptr to it, an Events also while a loop has *)
(* one; and ~Events closes the descriptor.  accept() has both until the end  *)
(* of its block, when they may be in use elsewhere or done with.             *)
ContinuationHeld(c) ==
  \/ got = c
  \/ at[c] \in {"await", "woken"}
  \/ \E t \in Threads : on[t] = c \/ cur_[t] = c \/ c \in Range(fdMcos_[t])

EventsHeld(c) ==
  \/ got = c
  \/ at[c] \in {"await", "woken"}
  \/ boundEvents /\ ContinuationHeld(c)
  \/ \E t \in Threads : c \in Range(events_[t])

(* accept() has not given it to a loop yet.                                  *)
Unregistered(c) == got = c /\ at[Listener] # "leave"

Open(c) == fd[c] # Null /\ c \notin closed /\ EventsHeld(c)

FreeFds == allowed \ {fd[c] : c \in {x \in Conns : Open(x)}}

(* accept() returns the lowest free descriptor.                              *)
LowestFree == CHOOSE f \in FreeFds : \A g \in FreeFds : f <= g

(* uni_read and uni_accept would not block.                                  *)
Readable(c) ==
  IF c = Listener THEN backlog # <<>> ELSE sent[c] > 0 \/ c \in hung

(* kReadEvent is POLLIN or POLLPRI: epoll reports urgent data as well, which *)
(* alone do not keep uni_read from blocking.                                 *)
Signalled(c) == Readable(c) \/ c \in urgent

Ready(t) ==
  {fd[c] : c \in {x \in Mcos : epoll[t][x] = "in" /\ Signalled(x)
                               /\ (x = Listener \/ Open(x))}}
  \cup (IF t \in wake THEN {WakeFd} ELSE {})
-----------------------------------------------------------------------------
(* McoPool of another thread is written without a lock: an insertion that    *)
(* rehashes hides what is there from its owner.                              *)
Overlapped(t) == ~GuardedPool /\ t # MainThread /\ at[Listener] = "inserting"
                 /\ to = t

getMcoRoutine(t, f) ==
  {fdMcos_[t][f]} \cup (IF Overlapped(t) THEN {Null} ELSE {})

SetNothing(t, f, c) == UNCHANGED fdMcos_            \* the entry is not made
setMcoRoutine(t, f, c) == fdMcos_' = [fdMcos_ EXCEPT ![t][f] = c]

(* The pool once f's coroutine is removed, if erase() finds it.              *)
McosKept(t, f, mco) == fdMcos_[t]                   \* it is not removed
McosWithout(t, f, mco) ==
  IF mco = Null THEN fdMcos_[t] ELSE [fdMcos_[t] EXCEPT ![f] = Null]

(* The assertions of EventLoop::pollUpdate on event e of loop l.             *)
EventsAssertion(l, e, state) ==
  LET present == events_[l][fd[e]] # Null IN
  CASE state = "new" -> ~present
    [] state = "del" -> present
    [] OTHER -> TRUE

(* The poll entry of e after epoll_ctl: ADD, MOD or DEL.                     *)
Interest(read) == IF read THEN "in" ELSE "off"

Polled(l, e, state, read) ==
  CASE state = "del" -> "out"
    [] state = "mod" /\ events_[l][fd[e]] # Null ->
         IF epoll[l][e] = "out" THEN "out" ELSE Interest(read)
    [] OTHER -> IF epoll[l][e] = "out" THEN Interest(read) ELSE epoll[l][e]

(* events_.erase is the argument of an assert.                               *)
EntryNotErased(l, e, state) ==                      \* nothing is erased
  IF state = "new" THEN e ELSE events_[l][fd[e]]

EntryAfter(l, e, state) ==
  CASE state = "del" -> IF Asserts THEN Null ELSE events_[l][fd[e]]
    [] state = "mod" /\ events_[l][fd[e]] # Null -> events_[l][fd[e]]
    [] OTHER -> e

(* EventLoop::updateEvents(e) on loop l, with the given state and interest.  *)
updateEvents(l, e, state, read) ==
  /\ wake' = wake \cup {l}
  /\ state_' = [state_ EXCEPT ![e] = state]
  /\ eorigin_' = [eorigin_ EXCEPT ![e] = read]
  /\ epoll' = [epoll EXCEPT ![l][e] = Polled(l, e, state, read)]
  /\ events_' = [events_ EXCEPT ![l][fd[e]] = EntryAfter(l, e, state)]

Fate(assertion) ==
  fate' = IF assertion THEN "ok" ELSE IF Asserts THEN "abort" ELSE "ub"
-----------------------------------------------------------------------------
(* Thread t is in loop() itself, or executes coroutine c at point p.         *)
Looping(t, p) == fate = "ok" /\ on[t] = Null /\ pc[t] = p
Executing(t, c, p) == fate = "ok" /\ on[t] = c /\ at[c] = p

(* Epoll::Loop: how many events fit, and the buffer for them, once n came    *)
(* in.  clear() leaves the capacity of revents_ alone.                       *)
NeverGrows(t, n) == maxNum_[t]                      \* the buffer stays full
GrownNum(t, n) == maxNum_[t] + IF n = maxNum_[t] THEN AddStep ELSE 0

RoomForLast(t, n) == Max({room[t], maxNum_[t]})     \* resized a step too soon
GrownRoom(t, n) == Max({room[t], GrownNum(t, n)})

(* loop() waits: epoll_wait picks among the ready descriptors what fits, and *)
(* writes it to revents_.                                                    *)
EpollWait(t) ==
  /\ Looping(t, "wait")
  /\ Ready(t) # {}
  /\ LET n == Min({Cardinality(Ready(t)), maxNum_[t]}) IN
     /\ \E some \in kSubset(n, Ready(t)) : occur' = [occur EXCEPT ![t] = some]
     /\ maxNum_' = [maxNum_ EXCEPT ![t] = GrownNum(t, n)]
     /\ room' = [room EXCEPT ![t] = GrownRoom(t, n)]
     /\ fate' = IF n > room[t] THEN "ub" ELSE "ok"
  /\ pc' = [pc EXCEPT ![t] = "batch"]
  /\ UNCHANGED <<boundEvents, allowed, kernel, wake, quit_, quitting, tables,
                 pools, on, at, got, to>>

(* Its timeout is 2000 seconds.                                              *)
Timeout(t) ==
  /\ Looping(t, "wait")
  /\ Ready(t) = {}
  /\ pc' = [pc EXCEPT ![t] = IF t \in quit_ THEN "ended" ELSE "wait"]
  /\ UNCHANGED <<kernel, wake, loops, tables, pools, occur, on, at, got, to,
                 fate>>

Handled(t, f) == occur' = [occur EXCEPT ![t] = @ \ {f}]

WakeUnread(t) == wake                               \* the eventfd is not read
WakeRead(t) == wake \ {t}

HandleWake(t) ==
  /\ Looping(t, "batch") /\ WakeFd \in occur[t]
  /\ Handled(t, WakeFd)
  /\ wake' = WakeRead(t)
  /\ UNCHANGED <<kernel, loops, tables, pools, pc, on, at, got, to, fate>>

eventHandleAble(e) == state_[e] # "del" /\ (state_[e] = "mod" => eorigin_[e])

(* Mcosops::Resume makes the coroutine the current one.                      *)
CurUnset(t, mco) == cur_[t]                         \* it does not
CurSet(t, mco) == mco

(* A coroutine goes on behind its Yield, or begins with its first call.      *)
Resume(t, mco) ==
  /\ cur_' = [cur_ EXCEPT ![t] = CurSet(t, mco)]
  /\ IF at[mco] \in {"first", "await"}
       THEN /\ on' = [on EXCEPT ![t] = mco]
            /\ at' = [at EXCEPT ![mco] =
                        IF @ = "first" THEN "call" ELSE "woken"]
       ELSE UNCHANGED <<on, at>>

HandleEvent(t, f) ==
  /\ Looping(t, "batch") /\ f \in occur[t] \ {WakeFd}
  /\ Handled(t, f)
  /\ LET e == events_[t][f] IN
     IF e # Null /\ eventHandleAble(e)
       THEN \E mco \in getMcoRoutine(t, f) :
              IF mco # Null THEN Resume(t, mco) ELSE UNCHANGED <<cur_, on, at>>
       ELSE UNCHANGED <<cur_, on, at>>
  /\ UNCHANGED <<kernel, wake, loops, tables, fdMcos_, pc, got, to, fate>>

EndOfBatch(t) ==
  /\ Looping(t, "batch") /\ occur[t] = {}
  /\ pc' = [pc EXCEPT ![t] = IF t \in quit_ THEN "ended" ELSE "wait"]
  /\ UNCHANGED <<kernel, wake, loops, tables, pools, occur, on, at, got, to,
                 fate>>

(* quit() from another thread: it writes quit_ ...                           *)
quit(t) ==
  /\ fate = "ok" /\ t \in Quitters \ quit_
  /\ quit_' = quit_ \cup {t}
  /\ quitting' = quitting \cup {t}
  /\ UNCHANGED <<boundEvents, allowed, maxNum_, room, kernel, wake, tables,
                 pools, control, fate>>

(* ... and then wakes the loop, which may have ended meanwhile.              *)
Unwoken(t) == wake                                  \* without wakeupLoop
Woken(t) == wake \cup {t}

wakeupLoop(t) ==
  /\ fate = "ok" /\ t \in quitting
  /\ quitting' = quitting \ {t}
  /\ wake' = Woken(t)
  /\ UNCHANGED <<boundEvents, allowed, maxNum_, room, quit_, kernel, tables,
                 pools, control, fate>>
-----------------------------------------------------------------------------
(* Mcosops::Yield, at the end of the first half of a hook.                   *)
NoYield(t, c) ==                                    \* the hook goes on
  at' = [at EXCEPT ![c] = "woken"] /\ UNCHANGED on
Yield(t, c) ==
  IF cur_[t] = c
    THEN on' = [on EXCEPT ![t] = Null] /\ at' = [at EXCEPT ![c] = "await"]
    ELSE at' = [at EXCEPT ![c] = "woken"] /\ UNCHANGED on

(* event->updateEvents(kReadEvent) before the hook yields.                   *)
NotRearmed(c) == eorigin_[c]                        \* it is left out
Rearmed(c) == TRUE

(* read(fd[c]) by a client's coroutine, accept(ListenFd) by the accepting    *)
(* one, as far as Yield.  (The branches for a null current coroutine are     *)
(* left out: only close() makes it null, and client_call then returns.)      *)
Hook(t, c) ==
  /\ Executing(t, c, "call")
  /\ \E mco \in getMcoRoutine(t, fd[c]) :
       IF mco # Null
         THEN LET l == IF events_[t][fd[c]] = Null THEN t ELSE tid_[c] IN
              /\ updateEvents(l, c, "mod", Rearmed(c))
              /\ Fate(mco = cur_[t])
              /\ tid_' = [tid_ EXCEPT ![c] = l]
              /\ UNCHANGED fdMcos_
         ELSE /\ setMcoRoutine(t, fd[c], cur_[t])
              /\ updateEvents(t, c, "new", TRUE)
              /\ Fate(EventsAssertion(t, c, "new"))
              /\ tid_' = [tid_ EXCEPT ![c] = t]
  /\ Yield(t, c)
  /\ UNCHANGED <<kernel, loops, cur_, pc, occur, got, to>>

(* uni_read, once it does not block any more.  Reading on from the mark of   *)
(* urgent data drops them; a read ends at the mark.                          *)
(* The client sees -1 or 0 bytes as the end.                                 *)
NeverEnds(c) == FALSE                               \* it reads on
EndsEarly(c) == c \in hung                          \* data may be left
AtEnd(c) == sent[c] = 0

read(t, c) ==
  /\ c \in Conns /\ Executing(t, c, "woken")
  /\ Readable(c)
  /\ updateEvents(tid_[c], c, "mod", FALSE)
  /\ sent' = [sent EXCEPT ![c] = IF AtEnd(c) THEN @ ELSE @ - 1]
  /\ urgent' \in {urgent, urgent \ {c}}
  /\ at' = [at EXCEPT ![c] = IF AtEnd(c) THEN "close" ELSE "call"]
  /\ UNCHANGED <<backlog, hung, fd, closed, loops, tid_, pools, pc, occur, on,
                 got, to, fate>>

(* The hooked close(): the current coroutine stops being current.            *)
CurKept(t, mco) == cur_[t]                          \* stays current
CurAfterClose(t, mco) == IF cur_[t] = mco THEN Null ELSE cur_[t]

close(t, c) ==
  /\ Executing(t, c, "close")
  /\ \E mco, erased \in getMcoRoutine(t, fd[c]) :
       /\ cur_' = [cur_ EXCEPT ![t] = CurAfterClose(t, mco)]
       /\ fdMcos_' = [fdMcos_ EXCEPT ![t] = McosWithout(t, fd[c], erased)]
  /\ IF events_[t][fd[c]] # Null
       THEN /\ updateEvents(tid_[c], c, "del", eorigin_[c])
            /\ Fate(EventsAssertion(tid_[c], c, "del"))
            /\ UNCHANGED closed
       ELSE /\ closed' = closed \cup {c}
            /\ UNCHANGED <<wake, state_, eorigin_, epoll, events_, fate>>
  /\ at' = [at EXCEPT ![c] = "return"]
  /\ UNCHANGED <<backlog, sent, urgent, hung, fd, loops, tid_, pc, occur, on,
                 got, to>>

(* client_call returns: control is back in loop(), which drops its           *)
(* shared_ptr to the Continuation.                                           *)
Return(t, c) ==
  /\ Executing(t, c, "return")
  /\ on' = [on EXCEPT ![t] = Null]
  /\ at' = [at EXCEPT ![c] = "done"]
  /\ UNCHANGED <<kernel, wake, loops, tables, pools, pc, occur, got, to, fate>>
-----------------------------------------------------------------------------
(* TcpServer::accept, after the hook yielded: a new connection gets a        *)
(* descriptor if one is left, its Events and Continuation, and a loop: one   *)
(* of the workers, or the main loop until a worker has registered.           *)
accept(t) ==
  /\ Executing(t, Listener, "woken")
  /\ Readable(Listener)
  /\ updateEvents(tid_[Listener], Listener, "mod", FALSE)
  /\ IF FreeFds = {}
       THEN /\ at' = [at EXCEPT ![Listener] = "call"]
            /\ UNCHANGED <<backlog, fd, got, to>>
       ELSE /\ got' = Head(backlog)
            /\ backlog' = Tail(backlog)
            /\ fd' = [fd EXCEPT ![Head(backlog)] = LowestFree]
            /\ to' \in Threads
            /\ at' = [at EXCEPT ![Listener] = "insert"]
  /\ UNCHANGED <<sent, urgent, hung, closed, loops, tid_, pools, pc, occur, on,
                 fate>>

(* SetMcoRoutine(fd, co, tid) begins and ends.                               *)
BeginInsert(t) ==
  /\ Executing(t, Listener, "insert")
  /\ at' = [at EXCEPT ![Listener] = "inserting"]
  /\ UNCHANGED <<kernel, wake, loops, tables, pools, pc, occur, on, got, to,
                 fate>>

(* event->setTid(tid) follows.                                               *)
TidLeft(c) == tid_[c]                               \* setTid is left out
TidSet(c) == to

EndInsert(t) ==
  /\ Executing(t, Listener, "inserting")
  /\ setMcoRoutine(to, fd[got], got)
  /\ tid_' = [tid_ EXCEPT ![got] = TidSet(got)]
  /\ at' = [at EXCEPT ![Listener] = "register"]
  /\ UNCHANGED <<kernel, wake, loops, events_, epoll, state_, eorigin_, cur_,
                 pc, occur, on, got, to, fate>>

(* loop->updateEvents(event): from now on the loop may serve the connection. *)
Register(t) ==
  /\ Executing(t, Listener, "register")
  /\ updateEvents(to, got, "new", TRUE)
  /\ Fate(EventsAssertion(to, got, "new"))
  /\ at' = [at EXCEPT ![Listener] = "leave"]
  /\ UNCHANGED <<kernel, loops, tid_, pools, pc, occur, on, got, to>>

(* The block ends, and the lifetimes of co and event.                        *)
Leave(t) ==
  /\ Executing(t, Listener, "leave")
  /\ got' = Null /\ to' = Null
  /\ at' = [at EXCEPT ![Listener] = "call"]
  /\ UNCHANGED <<kernel, wake, loops, tables, pools, pc, occur, on, fate>>
-----------------------------------------------------------------------------
(* Clients.                                                                  *)
Connect(c) ==
  /\ fate = "ok" /\ fd[c] = Null /\ c \notin Range(backlog) \cup hung
  /\ backlog' = Append(backlog, c)
  /\ UNCHANGED <<sent, urgent, hung, fd, closed, wake, loops, tables, pools,
                 control, fate>>

Connected(c) ==
  fate = "ok" /\ (fd[c] # Null \/ c \in Range(backlog)) /\ c \notin hung

Send(c) ==
  /\ Connected(c)
  /\ sent[c] < MaxChunks
  /\ sent' = [sent EXCEPT ![c] = @ + 1]
  /\ UNCHANGED <<backlog, urgent, hung, fd, closed, wake, loops, tables, pools,
                 control, fate>>

(* It sends a byte with MSG_OOB.                                             *)
SendUrgent(c) ==
  /\ Connected(c)
  /\ c \in Urgents \ urgent
  /\ urgent' = urgent \cup {c}
  /\ UNCHANGED <<backlog, sent, hung, fd, closed, wake, loops, tables, pools,
                 control, fate>>

(* It closes, or resets the connection: what nobody has read yet is lost.    *)
(* Urgent data make no difference any more.                                  *)
Hangup(c) ==
  /\ Connected(c)
  /\ hung' = hung \cup {c}
  /\ urgent' = urgent \ {c}
  /\ sent' \in {sent, [sent EXCEPT ![c] = 0]}
  /\ UNCHANGED <<backlog, fd, closed, wake, loops, tables, pools,
                 control, fate>>
-----------------------------------------------------------------------------
(* What thread t does by itself.                                             *)
Step(t) ==
  \/ EpollWait(t) \/ HandleWake(t) \/ EndOfBatch(t)
  \/ \E f \in Descriptors : HandleEvent(t, f)
  \/ \E c \in Mcos : Hook(t, c) \/ read(t, c) \/ close(t, c) \/ Return(t, c)
  \/ accept(t) \/ BeginInsert(t) \/ EndInsert(t) \/ Register(t) \/ Leave(t)

Next ==
  \/ \E t \in Threads : Step(t) \/ Timeout(t) \/ quit(t) \/ wakeupLoop(t)
  \/ \E c \in Conns : Connect(c) \/ Send(c) \/ SendUrgent(c) \/ Hangup(c)

Spec == Init /\ [][Next]_vars

(* The operating system schedules every thread, the one that quits a loop    *)
(* included.                                                                 *)
FairSpec ==
  Spec /\ \A t \in Threads : WF_vars(Step(t)) /\ WF_vars(wakeupLoop(t))
-----------------------------------------------------------------------------
RunningPoints ==
  {"call", "woken", "close", "return", "insert", "inserting", "register",
   "leave"}

(* Type invariant of the tables, and of who executes what.                   *)
ServerTypeOK ==
  /\ boundEvents \in BOOLEAN /\ allowed \subseteq Fds
  /\ maxNum_ \in [Threads -> Nat] /\ room \in [Threads -> Nat]
  /\ backlog \in Seq(Conns) /\ hung \subseteq Conns /\ closed \subseteq Conns
  /\ urgent \subseteq Conns
  /\ sent \in [Conns -> 0 .. MaxChunks]
  /\ fd \in [Mcos -> Descriptors \cup {Null}]
  /\ epoll \in [Threads -> [Mcos -> {"in", "off", "out"}]]
  /\ wake \subseteq Threads /\ quit_ \subseteq Threads
  /\ quitting \subseteq Threads
  /\ events_ \in [Threads -> [Descriptors -> Mcos \cup {Null}]]
  /\ fdMcos_ \in [Threads -> [Descriptors -> Mcos \cup {Null}]]
  /\ cur_ \in [Threads -> Mcos \cup {Null}]
  /\ state_ \in [Mcos -> {"new", "mod", "del"}]
  /\ eorigin_ \in [Mcos -> BOOLEAN]
  /\ tid_ \in [Mcos -> Threads]
  /\ occur \in [Threads -> SUBSET (Descriptors \cup {WakeFd})]
  /\ pc \in [Threads -> {"wait", "batch", "ended"}]
  /\ on \in [Threads -> Mcos \cup {Null}]
  /\ at \in [Mcos -> RunningPoints \cup {"first", "await", "done"}]
  /\ got \in Conns \cup {Null} /\ to \in Threads \cup {Null}
  /\ fate \in {"ok", "abort", "ub"}

(* No lost arming: a coroutine that yielded in a hook is in its thread's     *)
(* McoPool, its Events in that thread's loop and in no other, and epoll      *)
(* waits for the read event, so that the loop will resume it.                *)
WaiterIsArmed ==
  \A c \in Mcos : at[c] = "await" =>
    /\ eventHandleAble(c)
    /\ LET t == tid_[c] IN
       /\ fdMcos_[t][fd[c]] = c /\ events_[t][fd[c]] = c
       /\ epoll[t][c] = "in"
       /\ \A u \in Threads \ {t} : epoll[u][c] = "out"

(* A thread is in a uni_read or uni_accept that blocks, for the descriptors  *)
(* stay in blocking mode; nobody else on it is served meanwhile.             *)
Blocked(t) == on[t] # Null /\ at[on[t]] = "woken" /\ ~Readable(on[t])

(* Behind a Yield there is something to read or accept, with one exception:  *)
(* urgent data of the client resumed its coroutine, and nothing else came.   *)
OnlyUrgentDataBlock == \A t \in Threads : Blocked(t) => on[t] \in urgent

(* accept() reuses the lowest free descriptor at once: by the time one is    *)
(* free no thread's tables name it.                                          *)
FreeIsForgotten ==
  \A f \in FreeFds, t \in Threads :
    events_[t][f] = Null /\ fdMcos_[t][f] = Null /\ f \notin occur[t]

(* The assertions of EventLoop::pollUpdate and of the hooks hold, and        *)
(* epoll_wait never writes behind the result buffer of Epoll::Loop, which    *)
(* hands it over with size 0 and the capacity of an earlier resize.          *)
NoFault == fate = "ok"

(* Between its Yield and its next hook a coroutine is muted; epoll reports a *)
(* hang-up even then, and eventHandleAble lets it pass.  No loop waits while *)
(* a connection is muted, so nothing resumes a coroutine out of turn.        *)
MutedOnlyWhileRunning ==
  \A t \in Threads, c \in Mcos : epoll[t][c] = "off" => on[t] = c

(* A coroutine runs on the thread that its Events names and on no other, so  *)
(* the stack area it was started on is always its thread's.                  *)
OneThreadServes ==
  \A t \in Threads, c \in Mcos : on[t] = c =>
    tid_[c] = t /\ \A u \in Threads \ {t} : on[u] # c

(* The contract of McoFree, kept by a server without workers: a Continuation *)
(* is released by the thread that executed it, in the step in which it       *)
(* returns; never before it ran and never while it is suspended.             *)
Released(c) == ContinuationHeld(c) /\ ~ContinuationHeld(c)'

ContractKept ==
  [][\A c \in Mcos : Released(c) => at'[c] = "done" /\ on[tid_[c]] = c]_vars

(* With workers a Continuation is still released once, when its function has *)
(* returned; but by the accepting thread if the worker was faster than the   *)
(* end of accept()'s block, and then McoFree does not know of the worker's   *)
(* shared stack area.                                                        *)
ReleasedAtTheEnd ==
  [][\A c \in Mcos : Released(c) =>
       /\ at'[c] = "done"
       /\ on[tid_[c]] = c \/ (got = c /\ tid_[c] # MainThread)]_vars

(* What the assertion around events_.erase takes for granted: a closed       *)
(* connection is no longer in any loop, and its descriptor can be closed.    *)
ClosedIsErased ==
  \A c \in Conns : at[c] = "done" =>
    \A t \in Threads : c \notin Range(events_[t])

(* A client that hangs up gets its connection closed, unless another client  *)
(* of the same thread blocks it.                                             *)
HangupsAreAnswered ==
  \A c \in Conns :
    c \in hung /\ fd[c] # Null ~>
      ~Open(c) \/ tid_[c] \in quit_ \/ Blocked(tid_[c])

(* A waiting connection is accepted unless the descriptors run out.          *)
WaitersAreAccepted ==
  \A c \in Conns :
    c \in Range(backlog) ~> c \notin Range(backlog) \/ FreeFds = {}
                            \/ MainThread \in quit_ \/ Blocked(MainThread)

(* Data that fill what a client may send are read, unless a reset discards   *)
(* them.                                                                     *)
DataIsRead ==
  \A c \in Conns :
    sent[c] = MaxChunks /\ fd[c] # Null ~>
      sent[c] < MaxChunks \/ tid_[c] \in quit_ \/ Blocked(tid_[c])

(* No lost wake-up: a loop that is about to wait has in its epoll, ready,    *)
(* every coroutine it is in charge of that could go on, and its eventfd once *)
(* another thread has told it to quit.                                       *)
NothingIsMissed ==
  \A t \in Threads : pc[t] = "wait" =>
    /\ t \in quit_ \ quitting => WakeFd \in Ready(t)
    /\ \A c \in Mcos :
         tid_[c] = t /\ fd[c] # Null /\ at[c] \in {"first", "await"}
           /\ ~Unregistered(c) /\ Signalled(c)
         => fd[c] \in Ready(t)

(* Once the last client has gone no loop spins: not on its eventfd, not on a *)
(* listening socket from which it cannot accept.                             *)
Rests(t) == pc[t] = "ended" \/ (Looping(t, "wait") /\ Ready(t) = {})

ComesToRest == hung = Conns ~> [](\A t \in Threads \ quit_ : Rests(t))

(* A loop that another thread quits ends, without waiting for the timeout,   *)
(* unless a client blocks it.                                                *)
QuitEnds == \A t \in Threads : t \in quit_ ~> pc[t] = "ended" \/ Blocked(t)
-----------------------------------------------------------------------------
(* The refinement mapping to Connections.                                    *)
Phase(c) ==
  IF fd[c] = Null THEN IF c \in Range(backlog) THEN "waiting" ELSE "new"
  ELSE IF Open(c) THEN "open" ELSE "closed"

Promise ==
  INSTANCE Connections WITH phase <- [c \in Conns |-> Phase(c)],
                            queue <- backlog, unread <- sent, gone <- hung

(* The server implements Connections: through every interleaving of loops,   *)
(* hooks and destructors a connection is accepted in its turn, its data are  *)
(* read and it is closed for good, after its client's end and not earlier.   *)
ImplementsConnections == Promise!Spec

=============================================================================
