---------------------------- MODULE PoolInThreads ----------------------------
(***************************************************************************)
(* tools/PoolInThreads.hpp: the process-wide map from a thread's id to     *)
(* that thread's object, through which every thread finds its call stack,  *)
(* its stack manager and its McoPool.  Item(tid) is also called by other   *)
(* threads (McoPool::SetMcoRoutine).  Instance() makes the map on first    *)
(* use without any synchronisation; each access to instance_ is a step of  *)
(* its own.  EventLoopPool::Instance() is the same code.                   *)
(***************************************************************************)
EXTENDS Naturals

CONSTANTS
  Threads,
  Starter,   (* the thread that runs main() and starts the others           *)
  Null,
  Warm       (* does Starter call Item() before it starts another thread?   *)
             (* main() of test/MultiThreadServer.cpp does for EventLoopPool *)

ASSUME PoolAssumption ==
  /\ Starter \in Threads
  /\ Null \notin Threads
  /\ Warm \in BOOLEAN

(* A thread makes at most one pool, so a pool is named by its maker.         *)
Pools == Threads

VARIABLES
  instance_,  (* the pool everybody uses, or Null                           *)
  pools_,     (* pools_[p][k] : the object of thread k in pool p; 0 is none *)
  made,       (* how many objects were allocated: an object is a number     *)
  holder,     (* holder[p] : who holds p's mutex_                           *)
  pc,         (* what each thread does                                      *)
  key,        (* the tid it asked for                                       *)
  seen,       (* the value of instance_ that it read or wrote last          *)
  my,         (* the pool on which it calls getT                            *)
  returned    (* returned[k] : the objects that Item(k) has returned        *)

vars == <<instance_, pools_, made, holder, pc, key, seen, my, returned>>

Init ==
  /\ instance_ = Null
  /\ pools_ = [p \in Pools |-> [k \in Threads |-> 0]]
  /\ made = 0
  /\ holder = [p \in Pools |-> Null]
  /\ pc = [t \in Threads |-> IF t = Starter THEN "idle" ELSE "unborn"]
  /\ key = [t \in Threads |-> t]
  /\ seen = [t \in Threads |-> Null]
  /\ my = [t \in Threads |-> Null]
  /\ returned = [k \in Threads |-> {}]

Goto(t, from, to) == pc[t] = from /\ pc' = [pc EXCEPT ![t] = to]

(* Thread::start: pthread_create orders what Starter did before it.          *)
Start(t) ==
  /\ Warm => instance_ # Null
  /\ Goto(t, "unborn", "idle")
  /\ UNCHANGED <<instance_, pools_, made, holder, key, seen, my, returned>>

(* Item(k) begins: if (!instance_) ...                                       *)
NotMissing == instance_ # Null                      \* the test without its !
Missing == instance_ = Null

Check(t, k) ==
  /\ Goto(t, "idle", IF Missing THEN "make" ELSE "load")
  /\ key' = [key EXCEPT ![t] = k]
  /\ seen' = [seen EXCEPT ![t] = instance_]
  /\ UNCHANGED <<instance_, pools_, made, holder, my, returned>>

(* ... instance_ = new PoolInThreads ...                                     *)
Make(t) ==
  /\ Goto(t, "make", "load")
  /\ instance_' = t
  /\ seen' = [seen EXCEPT ![t] = t]
  /\ UNCHANGED <<pools_, made, holder, key, my, returned>>

(* ... return instance_, which a build may read again or not.                *)
Load(t) ==
  /\ Goto(t, "load", "lock")
  /\ \E p \in {seen[t], instance_} : my' = [my EXCEPT ![t] = p]
  /\ UNCHANGED <<instance_, pools_, made, holder, key, seen, returned>>

(* getT(tid): MutexLocker lock(mutex_) ...                                   *)
LockFree(p) == TRUE                                 \* no MutexLocker
Lockable(p) == holder[p] = Null

Lock(t) ==
  /\ Goto(t, "lock", "find")
  /\ Lockable(my[t])
  /\ holder' = [holder EXCEPT ![my[t]] = t]
  /\ UNCHANGED <<instance_, pools_, made, key, seen, my, returned>>

(* ... pools_.find(tid) ...                                                  *)
Find(t) ==
  /\ Goto(t, "find", IF pools_[my[t]][key[t]] = 0 THEN "insert" ELSE "unlock")
  /\ UNCHANGED <<instance_, pools_, made, holder, key, seen, my, returned>>

(* ... pools_[tid] = new T() ...                                             *)
Allocated == made + 1

Insert(t) ==
  /\ Goto(t, "insert", "unlock")
  /\ made' = Allocated
  /\ pools_' = [pools_ EXCEPT ![my[t]][key[t]] = Allocated]
  /\ UNCHANGED <<instance_, holder, key, seen, my, returned>>

(* ... and return it, releasing the mutex.                                   *)
Return(t) ==
  /\ Goto(t, "unlock", "idle")
  /\ holder' = [holder EXCEPT ![my[t]] = Null]
  /\ returned' = [returned EXCEPT ![key[t]] = @ \cup {pools_[my[t]][key[t]]}]
  /\ UNCHANGED <<instance_, pools_, made, key, seen, my>>

Next ==
  \E t \in Threads :
    \/ Start(t) \/ Make(t) \/ Load(t) \/ Lock(t) \/ Find(t) \/ Insert(t)
    \/ Return(t)
    \/ \E k \in Threads : Check(t, k)

Spec == Init /\ [][Next]_vars
-----------------------------------------------------------------------------
(* A thread is inside getT, and has the mutex_ of its pool.                  *)
InGetT == {"find", "insert", "unlock"}

(* Type invariant of the pool and of the threads that use it: nobody calls   *)
(* getT on a null pool.                                                      *)
PoolTypeOK ==
  /\ instance_ \in Pools \cup {Null}
  /\ pools_ \in [Pools -> [Threads -> Nat]]
  /\ made \in Nat
  /\ holder \in [Pools -> Threads \cup {Null}]
  /\ pc \in [Threads -> {"unborn", "idle", "make", "load", "lock", "find",
                         "insert", "unlock"}]
  /\ key \in [Threads -> Threads]
  /\ seen \in [Threads -> Pools \cup {Null}]
  /\ my \in [Threads -> Pools \cup {Null}]
  /\ \A t \in Threads : pc[t] \in InGetT \cup {"lock"} => my[t] # Null
  /\ returned \in [Threads -> SUBSET Nat]

(* Whoever calls Item(k), whenever, gets the same object: what a coroutine   *)
(* registered in a thread's McoPool or call stack is there when that thread  *)
(* looks for it.                                                             *)
OneObjectPerThread ==
  \A k \in Threads : \A x, y \in returned[k] : x = y

=============================================================================
