-------------------------- MODULE ThreadPoolProofs --------------------------
(***************************************************************************)
(* Theorems about ThreadPool for any number of threads.                    *)
(***************************************************************************)
EXTENDS ThreadPool, TLAPS

(* Threads exist only in a pool that knows it was started, however far       *)
(* start() got; and those the destructor has passed run no more.             *)
Joining ==
  /\ life = "alive" => iter = 1
  /\ ~started_ => threads_ = <<>>
  /\ life = "joining" =>
       \A i \in 1 .. Len(threads_) : i < iter => threads_[i] # "running"

TInv == ThreadPoolTypeOK /\ Joining /\ NoThreadOutlivesPool

LEMMA InitTInv == Init => TInv
<1> SUFFICES ASSUME Init PROVE TInv
  OBVIOUS
<1>1. threads_ \in Seq(ThreadStates)
  BY DEF Init
<1>2. started_ \in BOOLEAN
  BY DEF Init
<1> QED
  BY <1>1, <1>2
     DEF Init, TInv, ThreadPoolTypeOK, Joining, NoThreadOutlivesPool

(* An assignment to one Thread of the pool.                                  *)
LEMMA ExceptFacts ==
  ASSUME threads_ \in Seq(ThreadStates), NEW i \in 1 .. Len(threads_),
         NEW v \in ThreadStates, threads_' = [threads_ EXCEPT ![i] = v]
  PROVE  /\ threads_' \in Seq(ThreadStates)
         /\ Len(threads_') = Len(threads_)
         /\ threads_ # <<>> /\ threads_' # <<>>
         /\ threads_'[i] = v
         /\ \A j \in 1 .. Len(threads_) : j # i => threads_'[j] = threads_[j]
OBVIOUS

LEMMA StartTInv ==
  ASSUME TInv, NEW count \in 0 .. MaxThreads, start(count)
  PROVE  TInv'
<1>1. /\ threads_' \in Seq(ThreadStates) /\ started_' = TRUE
      /\ UNCHANGED <<threadNum_, life, iter>> /\ life = "alive"
  BY ThreadPoolAssumption
     DEF start, StartedAfter, ThreadStates, TInv, ThreadPoolTypeOK
<1> QED
  BY <1>1 DEF TInv, ThreadPoolTypeOK, Joining, NoThreadOutlivesPool

LEMMA ThreadTInv ==
  ASSUME TInv, NEW i \in 1 .. Len(threads_),
         ThreadFunc(i) \/ join(i) \/ JoinNothing(i)
  PROVE  TInv'
<1> USE DEF TInv, ThreadPoolTypeOK, Joining, NoThreadOutlivesPool
<1>1. CASE ThreadFunc(i)
  <2>1. threads_' = [threads_ EXCEPT ![i] = "ended"] /\ "ended" \in ThreadStates
    BY <1>1 DEF ThreadFunc, ThreadStates
  <2> QED
    BY <1>1, <2>1, ExceptFacts DEF ThreadFunc
<1>2. CASE join(i)
  <2>1. /\ threads_' = [threads_ EXCEPT ![i] = "joined"]
        /\ "joined" \in ThreadStates
    BY <1>2 DEF join, ThreadStates
  <2> QED
    BY <1>2, <2>1, ExceptFacts DEF join, Done
<1>3. CASE JoinNothing(i)
  BY <1>3 DEF JoinNothing, Done
<1> QED
  BY <1>1, <1>2, <1>3

LEMMA NextTInv ==
  ASSUME TInv, [Next]_vars
  PROVE  TInv'
<1>1. CASE UNCHANGED vars
  BY <1>1 DEF vars, TInv, ThreadPoolTypeOK, Joining, NoThreadOutlivesPool
<1>2. ASSUME NEW n \in 0 .. MaxThreads, updateThreadNum(n)
      PROVE  TInv'
  BY <1>2 DEF updateThreadNum, TInv, ThreadPoolTypeOK, Joining,
              NoThreadOutlivesPool
<1>3. CASE Destroy
  BY <1>3 DEF Destroy, TInv, ThreadPoolTypeOK, Joining, NoThreadOutlivesPool
<1> QED
  BY <1>1, <1>2, <1>3, StartTInv, ThreadTInv DEF Next

THEOREM PoolInvariance == Spec => []TInv
BY InitTInv, NextTInv, PTL DEF Spec

(* The destructor's position stays within the pool while it joins, for any   *)
(* number of threads.                                                        *)
THEOREM ThreadPoolTypeCorrect == Spec => []ThreadPoolTypeOK
BY PoolInvariance, PTL DEF TInv

(* No thread runs once the pool is destroyed, wherever pthread_create failed *)
(* and in whatever order the threads end.                                    *)
THEOREM NothingOutlivesPool == Spec => []NoThreadOutlivesPool
BY PoolInvariance, PTL DEF TInv

=============================================================================
