------------------------- MODULE EventLoopPoolProofs -------------------------
(***************************************************************************)
(* Theorems about EventLoopPool for any number of loops and threads.       *)
(***************************************************************************)
EXTENDS EventLoopPool, TLAPS

LInv == LoopPoolTypeOK /\ Registered

LEMMA RangeFacts ==
  ASSUME NEW S, NEW s \in Seq(S)
  PROVE  Range(s) = {s[i] : i \in 1 .. Len(s)}
<1>1. DOMAIN s = 1 .. Len(s)
  OBVIOUS
<1> QED
  BY <1>1 DEF Range

LEMMA InitLInv == Init => LInv
BY DEF Init, LInv, LoopPoolTypeOK, Registered

LEMMA AddLInv ==
  ASSUME LInv, NEW l \in Loops, NEW ismain \in BOOLEAN, addEventLoop(l, ismain)
  PROVE  LInv'
<1>1. /\ TidOf[l] \in Tids /\ loops_[TidOf[l]] = Null
      /\ loops_' = [loops_ EXCEPT ![TidOf[l]] = l]
      /\ UNCHANGED <<next_, handed>>
  BY LoopAssumption DEF addEventLoop, TidVacant
<1>2. \A m \in Loops : loops_[TidOf[m]] = m => m # l /\ loops_'[TidOf[m]] = m
  BY <1>1, LoopAssumption DEF LInv, LoopPoolTypeOK
<1>3. loops_'[TidOf[l]] = l
  BY <1>1 DEF LInv, LoopPoolTypeOK
<1>4. CASE ismain
  BY <1>1, <1>2, <1>3, <1>4
     DEF addEventLoop, LInv, LoopPoolTypeOK, Registered
<1>5. CASE ~ismain
  <2> DEFINE n == Len(nextLoops_)
  <2>1. nextLoops_' = Append(nextLoops_, l) /\ UNCHANGED mainLoop_
    BY <1>5 DEF addEventLoop
  <2>2. /\ nextLoops_' \in Seq(Loops) /\ n \in Nat
        /\ Len(nextLoops_') = n + 1
        /\ \A i \in 1 .. n : nextLoops_'[i] = nextLoops_[i]
        /\ nextLoops_'[n + 1] = l
    BY <2>1 DEF LInv, LoopPoolTypeOK
  <2>3. /\ \A i \in 1 .. n : nextLoops_[i] \in Loops /\ nextLoops_[i] # l
        /\ mainLoop_ # l
    BY <1>2, <2>2, LoopAssumption DEF LInv, LoopPoolTypeOK, Registered
  <2>4. LoopPoolTypeOK'
    BY <1>1, <2>1, <2>2 DEF LInv, LoopPoolTypeOK
  <2>5. Registered'
    BY <1>2, <1>3, <2>1, <2>2, <2>3 DEF LInv, LoopPoolTypeOK, Registered
  <2> QED
    BY <2>4, <2>5 DEF LInv
<1> QED
  BY <1>4, <1>5

LEMMA CursorFacts ==
  ASSUME LInv, nextLoops_ # <<>>
  PROVE  /\ Cursor + 1 \in 1 .. Len(nextLoops_)
         /\ Cursor = IF next_ = Len(nextLoops_) THEN 0 ELSE next_
BY DEF LInv, LoopPoolTypeOK, Cursor

LEMMA NextLInv ==
  ASSUME LInv, [Next]_vars
  PROVE  LInv'
<1>1. CASE UNCHANGED vars
  BY <1>1 DEF vars, LInv, LoopPoolTypeOK, Registered
<1>2. CASE getNextLoop
  <2>1. CASE nextLoops_ = <<>>
    BY <1>2, <2>1 DEF getNextLoop, LInv, LoopPoolTypeOK, Registered
  <2>2. CASE nextLoops_ # <<>>
    BY <1>2, <2>2, CursorFacts
       DEF getNextLoop, After, LInv, LoopPoolTypeOK, Registered
  <2> QED
    BY <2>1, <2>2
<1>3. ASSUME NEW l \in Loops, NEW ismain \in BOOLEAN, addEventLoop(l, ismain)
      PROVE  LInv'
  BY <1>3, AddLInv
<1> QED
  BY <1>1, <1>2, <1>3 DEF Next

(* getLoop and getNextLoop agree on who is registered, no loop is in the     *)
(* rotation twice, and the cursor stays within one past the end.             *)
THEOREM PoolInvariance == Spec => []LInv
BY InitLInv, NextLInv, PTL DEF Spec

(* getNextLoop never indexes nextLoops_ behind its end.                      *)
THEOREM LoopPoolTypeCorrect == Spec => []LoopPoolTypeOK
BY PoolInvariance, PTL DEF LInv

(* getLoop(tid) and the rotation agree on who serves which thread.           *)
THEOREM RegistrationHolds == Spec => []Registered
BY PoolInvariance, PTL DEF LInv
-----------------------------------------------------------------------------
LEMMA AddRefines ==
  ASSUME LInv, NEW l \in Loops, NEW ismain \in BOOLEAN, addEventLoop(l, ismain)
  PROVE  Abs!Next
<1>1. loops_[TidOf[l]] = Null /\ UNCHANGED <<next_, handed>>
  BY DEF addEventLoop, TidVacant
<1>2. l \notin Range(nextLoops_)
  BY <1>1, RangeFacts, LoopAssumption DEF LInv, LoopPoolTypeOK, Registered
<1>3. CASE ismain
  <2>1. mainLoop_' = l /\ UNCHANGED nextLoops_
    BY <1>3 DEF addEventLoop
  <2> QED
    BY <1>1, <1>2, <2>1 DEF Abs!Next, Abs!SetFallback, Unserved
<1>4. CASE ~ismain
  <2> DEFINE n == Len(nextLoops_)
  <2>1. nextLoops_' = Append(nextLoops_, l) /\ UNCHANGED mainLoop_
    BY <1>4 DEF addEventLoop
  <2>2. /\ nextLoops_' \in Seq(Loops) /\ n \in Nat /\ next_ \in 0 .. n
        /\ Len(nextLoops_') = n + 1
        /\ \A i \in 1 .. n : nextLoops_'[i] = nextLoops_[i]
        /\ nextLoops_'[n + 1] = l
    BY <2>1 DEF LInv, LoopPoolTypeOK
  <2>3. Range(nextLoops_') = Range(nextLoops_) \cup {l}
    BY <2>2, RangeFacts DEF LInv, LoopPoolTypeOK
  <2>4. Unserved' = Unserved \cup {l}
    BY <1>1, <2>2 DEF Unserved
  <2> QED
    BY <1>1, <1>2, <2>1, <2>3, <2>4 DEF Abs!Next, Abs!Join
<1> QED
  BY <1>3, <1>4

LEMMA GetNextRefines ==
  ASSUME LInv, getNextLoop
  PROVE  Abs!Next
<1> DEFINE n == Len(nextLoops_)
           l == nextLoops_[Cursor + 1]
<1>1. nextLoops_ \in Seq(Loops) /\ n \in Nat /\ next_ \in 0 .. n
  BY DEF LInv, LoopPoolTypeOK
<1>2. CASE nextLoops_ = <<>>
  <2>1. Range(nextLoops_) = {}
    BY <1>2 DEF Range
  <2> QED
    BY <1>2, <2>1
       DEF getNextLoop, Abs!Next, Abs!ServeFallback, Unserved
<1>3. CASE nextLoops_ # <<>>
  <2>1. /\ Cursor + 1 \in 1 .. n
        /\ Cursor = IF next_ = n THEN 0 ELSE next_
        /\ handed' = l /\ next_' = Cursor + 1
        /\ UNCHANGED <<mainLoop_, nextLoops_>>
    BY <1>3, CursorFacts DEF getNextLoop, After
  <2>2. Abs!Round = {nextLoops_[i] : i \in Cursor + 1 .. n}
    <3>1. CASE next_ = n
      <4>1. Unserved = {}
        BY <1>1, <3>1 DEF Unserved
      <4> QED
        BY <1>1, <2>1, <3>1, <4>1, RangeFacts DEF Abs!Round
    <3>2. CASE next_ # n
      <4>1. nextLoops_[n] \in Unserved
        BY <1>1, <3>2 DEF Unserved
      <4> QED
        BY <1>1, <2>1, <3>2, <4>1 DEF Abs!Round, Unserved
    <3> QED
      BY <3>1, <3>2
  <2>3. l \in Abs!Round /\ l \in Loops
    BY <1>1, <2>1, <2>2
  <2>4. Unserved' = Abs!Round \ {l}
    <3>1. \A i \in 1 .. n : nextLoops_[i] = l => i = Cursor + 1
      BY <2>1 DEF LInv, Registered
    <3>2. Unserved' = {nextLoops_[i] : i \in Cursor + 2 .. n}
      BY <1>1, <2>1 DEF Unserved
    <3> QED
      BY <1>1, <2>1, <2>2, <3>1, <3>2
  <2> QED
    BY <2>1, <2>3, <2>4 DEF Abs!Next, Abs!Serve
<1> QED
  BY <1>2, <1>3

LEMMA InitRefines == Init => Abs!Init
BY DEF Init, Abs!Init, Unserved, Range

(* EventLoopPool serves the loops in rounds, whatever the moment at which    *)
(* loops join.                                                               *)
THEOREM RoundRobinRefinement == Spec => ServesInRounds
<1>1. LInv /\ [Next]_vars => [Abs!Next]_(Abs!vars)
  <2> SUFFICES ASSUME LInv, [Next]_vars
               PROVE  [Abs!Next]_(Abs!vars)
    OBVIOUS
  <2>1. CASE UNCHANGED vars
    BY <2>1 DEF vars, Abs!vars, Unserved
  <2>2. CASE getNextLoop
    BY <2>2, GetNextRefines
  <2>3. ASSUME NEW l \in Loops, NEW ismain \in BOOLEAN, addEventLoop(l, ismain)
        PROVE  Abs!Next
    BY <2>3, AddRefines
  <2> QED
    BY <2>1, <2>2, <2>3 DEF Next
<1> QED
  BY <1>1, InitRefines, PoolInvariance, PTL DEF Spec, ServesInRounds, Abs!Spec

=============================================================================
