----------------------------- MODULE PoolProofs -----------------------------
(***************************************************************************)
(* Theorems about PoolInThreads for any number of threads.                 *)
(***************************************************************************)
EXTENDS PoolInThreads, TLAPS

(* A thread calls getT on a pool, and holds its mutex while it looks and     *)
(* inserts; what it looked up is still so.                                   *)
Locking ==
  \A t \in Threads :
    /\ pc[t] = "load" => seen[t] # Null /\ instance_ # Null
    /\ pc[t] \in InGetT => holder[my[t]] = t
    /\ pc[t] = "insert" => pools_[my[t]][key[t]] = 0
    /\ pc[t] = "unlock" => pools_[my[t]][key[t]] # 0

(* No object is in two places, and none has a number yet to be allocated.    *)
Distinct ==
  \A p, q \in Pools, k, l \in Threads :
    /\ pools_[p][k] <= made
    /\ pools_[p][k] = pools_[q][l] /\ pools_[p][k] # 0 => p = q /\ k = l

(* What was returned is still in some pool.                                  *)
Kept ==
  \A k \in Threads : \A x \in returned[k] :
    x # 0 /\ \E p \in Pools : pools_[p][k] = x

PInv == PoolTypeOK /\ Locking /\ Distinct /\ Kept

(* When Starter makes the pool before it starts a thread, there is one pool. *)
OnePool ==
  /\ instance_ = Null => \A t \in Threads \ {Starter} : pc[t] = "unborn"
  /\ \A t \in Threads :
       /\ pc[t] = "make" => instance_ = Null
       /\ pc[t] = "load" => seen[t] = instance_
       /\ pc[t] \in InGetT \cup {"lock"} => my[t] = instance_
  /\ \A k \in Threads : \A x \in returned[k] :
       instance_ # Null /\ x = pools_[instance_][k]
-----------------------------------------------------------------------------
LEMMA InitPInv == Init => PInv /\ OnePool
BY PoolAssumption
   DEF Init, PInv, PoolTypeOK, Locking, Distinct, Kept, OnePool, Pools, InGetT

LEMMA NextPInv ==
  ASSUME PInv, [Next]_vars
  PROVE  PInv'
<1> USE PoolAssumption DEF PInv, Pools
<1>1. CASE UNCHANGED vars
  BY <1>1 DEF vars, PoolTypeOK, Locking, Distinct, Kept
<1>2. ASSUME NEW t \in Threads, Start(t) PROVE PInv'
  BY <1>2 DEF Start, Goto, PoolTypeOK, Locking, Distinct, Kept, InGetT
<1>3. ASSUME NEW t \in Threads, NEW k \in Threads, Check(t, k) PROVE PInv'
  BY <1>3 DEF Check, Missing, Goto, PoolTypeOK, Locking, Distinct, Kept, InGetT
<1>4. ASSUME NEW t \in Threads, Make(t) PROVE PInv'
  BY <1>4 DEF Make, Goto, PoolTypeOK, Locking, Distinct, Kept, InGetT
<1>5. ASSUME NEW t \in Threads, Load(t) PROVE PInv'
  <2>1. seen[t] # Null /\ instance_ # Null
    BY <1>5 DEF Load, Goto, Locking
  <2> QED
    BY <1>5, <2>1
       DEF Load, Goto, PoolTypeOK, Locking, Distinct, Kept, InGetT
<1>6. ASSUME NEW t \in Threads, Lock(t) PROVE PInv'
  <2>1. \A u \in Threads : pc[u] \in InGetT => my[u] # my[t]
    BY <1>6 DEF Lock, Goto, Lockable, Locking, PoolTypeOK
  <2> QED
    BY <1>6, <2>1
       DEF Lock, Goto, Lockable, PoolTypeOK, Locking, Distinct, Kept, InGetT
<1>7. ASSUME NEW t \in Threads, Find(t) PROVE PInv'
  BY <1>7 DEF Find, Goto, PoolTypeOK, Locking, Distinct, Kept, InGetT
<1>8. ASSUME NEW t \in Threads, Insert(t) PROVE PInv'
  <2> DEFINE p == my[t]
             k == key[t]
  <2>1. /\ p \in Pools /\ k \in Threads /\ pools_[p][k] = 0 /\ holder[p] = t
        /\ pc[t] = "insert"
    BY <1>8 DEF Insert, Goto, Locking, PoolTypeOK, InGetT
  <2>2. /\ made' = made + 1 /\ made \in Nat
        /\ pools_'[p][k] = made + 1
        /\ \A q \in Pools, l \in Threads :
             q # p \/ l # k => pools_'[q][l] = pools_[q][l]
        /\ pools_' \in [Pools -> [Threads -> Nat]]
    BY <1>8, <2>1 DEF Insert, Allocated, PoolTypeOK
  <2>3. PoolTypeOK'
    BY <1>8, <2>2 DEF Insert, Goto, PoolTypeOK
  <2>4. Distinct'
    BY <2>2 DEF Distinct, PoolTypeOK
  <2>5. Kept'
    BY <1>8, <2>1, <2>2 DEF Insert, Kept, PoolTypeOK
  <2>6. Locking'
    <3>1. \A u \in Threads \ {t} : pc[u] \in InGetT => my[u] # p
      BY <2>1 DEF Locking
    <3> QED
      BY <1>8, <2>1, <2>2, <3>1 DEF Insert, Goto, Locking, PoolTypeOK, InGetT
  <2> QED
    BY <2>3, <2>4, <2>5, <2>6
<1>9. ASSUME NEW t \in Threads, Return(t) PROVE PInv'
  <2>1. /\ my[t] \in Pools /\ pools_[my[t]][key[t]] # 0 /\ holder[my[t]] = t
    BY <1>9 DEF Return, Goto, Locking, PoolTypeOK, InGetT
  <2>2. \A u \in Threads \ {t} : pc[u] \in InGetT => my[u] # my[t]
    BY <2>1 DEF Locking
  <2>3. Kept'
    BY <1>9, <2>1 DEF Return, Kept, PoolTypeOK
  <2> QED
    BY <1>9, <2>1, <2>2, <2>3
       DEF Return, Goto, PoolTypeOK, Locking, Distinct, InGetT
<1> QED
  BY <1>1, <1>2, <1>3, <1>4, <1>5, <1>6, <1>7, <1>8, <1>9 DEF Next

LEMMA NextOnePool ==
  ASSUME PInv, OnePool, Warm, [Next]_vars
  PROVE  OnePool'
<1> USE PoolAssumption DEF Pools
<1>1. CASE UNCHANGED vars
  BY <1>1 DEF vars, OnePool
<1>2. ASSUME NEW t \in Threads, Start(t) PROVE OnePool'
  BY <1>2 DEF Start, Goto, OnePool, InGetT, PInv, PoolTypeOK
<1>3. ASSUME NEW t \in Threads, NEW k \in Threads, Check(t, k) PROVE OnePool'
  BY <1>3 DEF Check, Missing, Goto, OnePool, InGetT, PInv, PoolTypeOK
<1>4. ASSUME NEW t \in Threads, Make(t) PROVE OnePool'
  <2>1. /\ pc[t] = "make" /\ instance_ = Null /\ t = Starter
        /\ \A u \in Threads \ {t} : pc[u] = "unborn"
        /\ \A k \in Threads : returned[k] = {}
    BY <1>4 DEF Make, Goto, OnePool, PInv, PoolTypeOK
  <2> QED
    BY <1>4, <2>1 DEF Make, Goto, OnePool, InGetT, PInv, PoolTypeOK
<1>5. ASSUME NEW t \in Threads, Load(t) PROVE OnePool'
  BY <1>5 DEF Load, Goto, OnePool, InGetT, PInv, PoolTypeOK
<1>6. ASSUME NEW t \in Threads, Lock(t) PROVE OnePool'
  BY <1>6 DEF Lock, Goto, OnePool, InGetT, PInv, PoolTypeOK
<1>7. ASSUME NEW t \in Threads, Find(t) PROVE OnePool'
  BY <1>7 DEF Find, Goto, OnePool, InGetT, PInv, PoolTypeOK
<1>8. ASSUME NEW t \in Threads, Insert(t) PROVE OnePool'
  <2>1. /\ my[t] \in Pools /\ my[t] = instance_ /\ pc[t] = "insert"
        /\ pools_[my[t]][key[t]] = 0 /\ key[t] \in Threads
    BY <1>8 DEF Insert, Goto, OnePool, PInv, Locking, PoolTypeOK, InGetT
  <2>2. returned[key[t]] = {}
    BY <2>1 DEF OnePool, PInv, Kept
  <2> QED
    BY <1>8, <2>1, <2>2
       DEF Insert, Goto, OnePool, InGetT, PInv, PoolTypeOK
<1>9. ASSUME NEW t \in Threads, Return(t) PROVE OnePool'
  <2>1. my[t] \in Pools /\ my[t] = instance_
    BY <1>9 DEF Return, Goto, OnePool, PInv, Locking, PoolTypeOK, InGetT
  <2> QED
    BY <1>9, <2>1 DEF Return, Goto, OnePool, InGetT, PInv, PoolTypeOK
<1> QED
  BY <1>1, <1>2, <1>3, <1>4, <1>5, <1>6, <1>7, <1>8, <1>9 DEF Next

(* No thread ever calls getT on a null pool, with or without the race on     *)
(* instance_.                                                                *)
THEOREM PoolTypeCorrect == Spec => []PoolTypeOK
BY InitPInv, NextPInv, PTL DEF Spec, PInv

(* Two threads' objects are never the same: no thread runs on another one's  *)
(* call stack, even when Instance() has made several pools.                  *)
NoObjectShared ==
  \A k, l \in Threads : k # l => returned[k] \cap returned[l] = {}

(* getT never gives two threads the same object, with or without a race on   *)
(* instance_: after a lost pool a thread may get a new object, never that of *)
(* another thread.                                                           *)
THEOREM ObjectsAreNotShared == Spec => []NoObjectShared
<1>1. Init => PInv
  BY InitPInv
<1>2. PInv /\ [Next]_vars => PInv'
  BY NextPInv
<1>3. PInv => NoObjectShared
  BY DEF PInv, PoolTypeOK, Kept, Distinct, NoObjectShared
<1> QED
  BY <1>1, <1>2, <1>3, PTL DEF Spec

(* Item(k) always returns the same object if main() calls Item() before it   *)
(* starts a thread.                                                          *)
THEOREM WarmPoolIsStable ==
  ASSUME Warm
  PROVE  Spec => []OneObjectPerThread
<1>1. Init => PInv /\ OnePool
  BY InitPInv
<1>2. PInv /\ OnePool /\ [Next]_vars => (PInv /\ OnePool)'
  BY NextPInv, NextOnePool
<1>3. OnePool => OneObjectPerThread
  BY DEF OnePool, OneObjectPerThread
<1> QED
  BY <1>1, <1>2, <1>3, PTL DEF Spec

=============================================================================
