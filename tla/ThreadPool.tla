------------------------------ MODULE ThreadPool ------------------------------
(***************************************************************************)
(* base/ThreadPool.cpp and base/Thread.cpp: a pool owned by one thread     *)
(* that makes threadNum_ Thread objects, starts them until pthread_create  *)
(* fails and joins them when it is destroyed.  A thread never touches the  *)
(* pool, only its Thread object, which dies with the pool.  What the       *)
(* assert()s of the pool forbid its owner does not do.                     *)
(***************************************************************************)
EXTENDS Naturals, Sequences

CONSTANT MaxThreads   (* bound on the number of threads asked for           *)

ASSUME ThreadPoolAssumption == MaxThreads \in Nat

VARIABLES
  threadNum_,
  threads_,     (* what became of each Thread object                        *)
  started_,
  life,         (* of the pool                                              *)
  iter          (* the destructor's position in threads_                    *)

vars == <<threadNum_, threads_, started_, life, iter>>

(* "made" is a Thread that pthread_create has not made a thread for.         *)
ThreadStates == {"made", "running", "ended", "joined"}

Init ==
  /\ threadNum_ \in 0 .. MaxThreads
  /\ threads_ = <<>>
  /\ started_ = FALSE
  /\ life = "alive"
  /\ iter = 1

updateThreadNum(newNum) ==
  /\ life = "alive" /\ ~started_
  /\ threadNum_' = newNum
  /\ UNCHANGED <<threads_, started_, life, iter>>

(* started_ once start() has created count threads.                          *)
StartedIfAll(count) == count = threadNum_           \* only if all started
StartedAfter(count) == TRUE

(* start(): pthread_create works count times, then it fails or all is done.  *)
start(count) ==
  /\ life = "alive" /\ threads_ = <<>> /\ ~started_
  /\ count <= threadNum_
  /\ threads_' =
       [i \in 1 .. threadNum_ |-> IF i <= count THEN "running" ELSE "made"]
  /\ started_' = StartedAfter(count)
  /\ UNCHANGED <<threadNum_, life, iter>>

(* The thread's function returns, or throws: ThreadFunc catches what derives *)
(* from std::exception, anything else ends the process.                      *)
ThreadFunc(i) ==
  /\ life # "crashed"
  /\ threads_[i] = "running"
  /\ threads_' = [threads_ EXCEPT ![i] = "ended"]
  /\ life' \in {life, "crashed"}
  /\ UNCHANGED <<threadNum_, started_, iter>>

(* ~ThreadPool begins.                                                       *)
Destroy ==
  /\ life = "alive"
  /\ life' = IF started_ /\ threads_ # <<>> THEN "joining" ELSE "gone"
  /\ UNCHANGED <<threadNum_, threads_, started_, iter>>

(* Behind the last Thread the destructor is done.                            *)
DoneTooLate(i) == i > Len(threads_)                 \* goes one too far
Done(i) == i = Len(threads_)

(* pthread_join waits until the thread has ended.                            *)
join(i) ==
  /\ life = "joining" /\ i = iter
  /\ threads_[i] = "ended"
  /\ threads_' = [threads_ EXCEPT ![i] = "joined"]
  /\ life' = IF Done(i) THEN "gone" ELSE life
  /\ iter' = i + 1
  /\ UNCHANGED <<threadNum_, started_>>

(* pthread_join of a Thread that has no thread: its threadId_ is 0 or stale, *)
(* so the call fails and the destructor goes on, or the process dies.        *)
JoinNothing(i) ==
  /\ life = "joining" /\ i = iter
  /\ threads_[i] = "made"
  /\ life' \in {"crashed", IF Done(i) THEN "gone" ELSE life}
  /\ iter' = i + 1
  /\ UNCHANGED <<threadNum_, threads_, started_>>

Next ==
  \/ \E n \in 0 .. MaxThreads : updateThreadNum(n) \/ start(n)
  \/ \E i \in 1 .. Len(threads_) : ThreadFunc(i) \/ join(i) \/ JoinNothing(i)
  \/ Destroy

Spec == Init /\ [][Next]_vars
-----------------------------------------------------------------------------
(* Type invariant: while the destructor joins, its position is in the pool.  *)
ThreadPoolTypeOK ==
  /\ threadNum_ \in 0 .. MaxThreads
  /\ threads_ \in Seq(ThreadStates)
  /\ started_ \in BOOLEAN
  /\ life \in {"alive", "joining", "gone", "crashed"}
  /\ iter \in Nat
  /\ life = "joining" => iter \in 1 .. Len(threads_)

(* Once the pool is destroyed no thread is left that would read its deleted  *)
(* Thread object, also when start() failed half way.                         *)
NoThreadOutlivesPool ==
  life = "gone" => \A i \in 1 .. Len(threads_) : threads_[i] # "running"

=============================================================================
