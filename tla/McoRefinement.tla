---------------------------- MODULE McoRefinement ----------------------------
(***************************************************************************)
(* The coroutine runtime implements Coroutine: under the refinement        *)
(* mapping of Mco, its initial state is an initial state of Coroutine and  *)
(* each of its steps is a step of Coroutine or leaves it unchanged.        *)
(***************************************************************************)
EXTENDS McoProofs

AbsStatus == [c \in Coroutines |-> Status(c)]
AbsLocal == [c \in Coroutines |-> Local(c)]

(* A client that resumes and frees what the contract lets it.                *)
Lawful == Misuse \subseteq {"yield_main"}

(* The initial states.                                                       *)
LEMMA InitRefines == Init => Abs!Init
BY DEF Init, Abs!Init, Status, Local, Booted

(* McoCreate is Create.                                                      *)
LEMMA CreateRefines ==
  ASSUME IInv, NEW c \in Coroutines, NEW private \in BOOLEAN,
         McoCreate(c, private)
  PROVE  Abs!Create(c)
<1>1. /\ c \notin live /\ live' = live \cup {c}
      /\ use_private' = IF private THEN use_private \cup {c} ELSE use_private
      /\ UNCHANGED <<start, running, finished, should_close, stack_store,
                     commonOccupy, common, frames, sink, callStack, slots,
                     cpu, fate>>
  BY DEF McoCreate, stack
<1>2. c \notin start /\ c \notin finished /\ c # Main
  BY <1>1, McoAssumption, IInvParts DEF Lifetimes
<1>3. ~Stacked(c)
  BY <1>2, RangeFacts, IInvParts DEF Stacked, TypeOK, StackShape, Contexts
<1>4. \A d \in Coroutines : Stacked(d)' <=> Stacked(d)
  BY <1>1 DEF Stacked
<1>5. AbsStatus' = [AbsStatus EXCEPT ![c] = "fresh"]
  BY <1>1, <1>2, <1>3, <1>4 DEF AbsStatus, Status
<1>6. \A d \in Coroutines : Local(d)' = Local(d)
  BY <1>1, <1>2 DEF Local, IsPrivate
<1>7. AbsLocal' = AbsLocal /\ Booted' = Booted
  BY <1>1, <1>6 DEF AbsLocal, Booted
<1>8. AbsStatus[c] = "absent"
  BY <1>1 DEF AbsStatus, Status
<1> QED
  BY <1>5, <1>7, <1>8 DEF Abs!Create, AbsStatus, AbsLocal

(* What a client can see of a process is the same when it has died.          *)
LEMMA DieRefines ==
  ASSUME NEW f, Die(f)
  PROVE  UNCHANGED Abs!vars
BY DEF Die, flags, stack, Abs!vars, Status, Local, Stacked, IsPrivate, Booted

(* MainMco changes nothing that a client can see.                            *)
LEMMA MainMcoRefines ==
  ASSUME MainMco, BootFate = "ok"
  PROVE  UNCHANGED Abs!vars
<1>1. /\ callStack = <<>>
      /\ callStack' = <<Main>>
      /\ start' = start \cup {Main}
      /\ UNCHANGED <<live, use_private, finished, stack_store, common, frames>>
  BY DEF MainMco, stack
<1>2. \A d \in Coroutines : ~Stacked(d) /\ ~Stacked(d)'
  BY <1>1, McoAssumption DEF Stacked, Range
<1>3. \A d \in Coroutines : Status(d)' = Status(d)
  BY <1>1, <1>2, McoAssumption DEF Status
<1>4. \A d \in Coroutines : Local(d)' = Local(d)
  BY <1>1, McoAssumption DEF Local, IsPrivate
<1>5. Booted' = Booted
  BY <1>1 DEF Booted
<1> QED
  BY <1>3, <1>4, <1>5 DEF Abs!vars

(* Giving control back is Yield, or Finish at the end of CoroutineRun; the   *)
(* frames that McoSwap moves are those of the occupant and of the routine    *)
(* that gets control.                                                        *)
LEMMA SwitchRefines ==
  ASSUME IInv, NEW c \in running, c # Main, NEW ends \in BOOLEAN,
         SwitchToSink(c, ends)
  PROVE  IF ends THEN Abs!Finish ELSE Abs!Yield
<1> DEFINE n == Len(callStack)
           to == callStack[n - 1]
<1>1. /\ callStack \in Seq(Mcos) /\ n \in Nat
      /\ callStack # <<>>
      /\ c = cpu /\ c = callStack[n] /\ running = {c}
  BY IInvParts DEF TypeOK, BeforeBoot, StackShape, Contexts
<1>2. n > 1
  BY <1>1, IInvParts DEF StackShape, Contexts
<1>3. /\ sink[c] = to /\ to \in start /\ to \in Mcos /\ to # c /\ to # Null
  BY <1>1, <1>2, McoAssumption, IInvParts
     DEF StackShape, Contexts, SinkIsBelow, TypeOK
<1>4. /\ finished' = IF ends THEN finished \cup {c} ELSE finished
      /\ start' = IF ends THEN start \ {c} ELSE start
      /\ callStack' = Front(callStack)
      /\ McoSwap(c, to, Last(callStack'), finished')
      /\ UNCHANGED <<live, use_private>>
  BY <1>1, <1>2, <1>3 DEF SwitchToSink
<1>5. /\ callStack' # <<>>
      /\ Last(callStack') = to
      /\ Range(callStack') = {callStack[i] : i \in 1 .. n - 1}
  BY <1>1, <1>2, <1>4, FrontFacts
<1>6. /\ stack_store' = (stack_store \cup Evicted(to, finished'))
                           \ Recovered(to, to, finished')
      /\ common' = IF Recovered(to, to, finished') = {}
                     THEN common ELSE Saved(to, finished')[to]
      /\ frames' = Saved(to, finished')
  BY <1>1, <1>3, <1>4, <1>5 DEF McoSwap, mco_swap, Restored, Fresh
<1>7. c \in Coroutines /\ c \in live /\ c \in start /\ c \notin finished
  BY <1>1, <1>3, IInvParts DEF StackShape, Contexts, Lifetimes, Mcos
<1>8. Range(callStack) = {callStack[i] : i \in 1 .. n}
  BY <1>1, RangeFacts
<1>9. \A d \in Coroutines : Stacked(d)' <=> Stacked(d) /\ d # c
  BY <1>1, <1>2, <1>5, <1>8, IInvParts DEF Stacked, StackShape, Contexts
<1>10. Stacked(c)
  BY <1>1, <1>2, <1>8 DEF Stacked
<1>11. AbsStatus' = [AbsStatus EXCEPT ![c] = IF ends THEN "finished"
                                                     ELSE "suspended"]
  BY <1>4, <1>7, <1>9, <1>10 DEF AbsStatus, Status
<1>12. Booted' = Front(Booted) /\ Last(Booted) = c
  BY <1>1, <1>4, <1>5 DEF Booted, Last
<1>13. \A d \in Coroutines : d \in start' => Local(d)' = Local(d)
  <2> SUFFICES ASSUME NEW d \in Coroutines, d \in start'
               PROVE  Local(d)' = Local(d)
    OBVIOUS
  <2>1. d \in start /\ d \in Mcos /\ d # Null /\ d \notin finished'
    BY <1>4, <1>7, McoAssumption, IInvParts DEF Mcos, Lifetimes
  <2>2. IsPrivate(d)' <=> IsPrivate(d)
    BY <1>4 DEF IsPrivate
  <2>3. CASE IsPrivate(d)
    <3>1. d \notin Evicted(to, finished')
      BY <2>3, McoAssumption, IInvParts DEF Evicted, Ownership
    <3> QED
      BY <1>6, <2>1, <2>2, <2>3, <3>1 DEF Local, Saved
  <2>4. CASE ~IsPrivate(d)
    <3>1. d \in stack_store <=> commonOccupy # d
      BY <2>1, <2>4, IInvParts DEF Ownership
    <3>2. CASE IsPrivate(to)
      <4>1. Evicted(to, finished') = {} /\ Recovered(to, to, finished') = {}
        BY <3>2 DEF Evicted, Recovered, Fresh
      <4> QED
        BY <1>6, <2>1, <2>2, <4>1 DEF Local, Saved
    <3>3. CASE ~IsPrivate(to) /\ d = to
      <4>1. d \notin Evicted(to, finished')
        BY <3>3 DEF Evicted
      <4>2. Recovered(to, to, finished') = {to} \cap stack_store
        BY <1>3, <3>3, <4>1 DEF Recovered, Fresh
      <4>3. Saved(to, finished')[to] = frames[to]
        BY <1>3, <3>3, <4>1 DEF Saved
      <4>4. d \notin stack_store'
        BY <1>6, <3>3, <4>1, <4>2
      <4> QED
        BY <1>6, <2>1, <2>2, <2>4, <3>3, <4>2, <4>3, <4>4 DEF Local
    <3>4. CASE ~IsPrivate(to) /\ d # to
      <4>1. d \in Evicted(to, finished') <=> commonOccupy = d
        BY <2>1, <3>4 DEF Evicted
      <4>2. d \in stack_store'
        BY <1>6, <3>1, <3>4, <4>1 DEF Recovered, Fresh
      <4>3. frames'[d] = IF commonOccupy = d THEN common ELSE frames[d]
        BY <1>6, <2>1, <4>1 DEF Saved
      <4> QED
        BY <2>1, <2>2, <2>4, <3>1, <4>2, <4>3, <1>4 DEF Local
    <3> QED
      BY <3>2, <3>3, <3>4
  <2> QED
    BY <2>3, <2>4
<1>14. \A d \in Coroutines : d \notin start => Local(d)' = Local(d)
  BY <1>4 DEF Local
<1>15. AbsLocal' = IF ends THEN [AbsLocal EXCEPT ![c] = Blank] ELSE AbsLocal
  <2>1. CASE ends
    <3>1. Local(c)' = Blank
      BY <1>4, <2>1 DEF Local
    <3>2. \A d \in Coroutines \ {c} : Local(d)' = Local(d)
      BY <1>4, <1>13, <1>14
    <3> QED
      BY <2>1, <3>1, <3>2 DEF AbsLocal
  <2>2. CASE ~ends
    BY <1>4, <1>13, <1>14, <2>2 DEF AbsLocal
  <2> QED
    BY <2>1, <2>2
<1>16. Abs!Running = c
  BY <1>12 DEF Abs!Running, Abs!Last, Last
<1>17. Abs!Front(Booted) = Front(Booted)
  BY DEF Abs!Front, Front
<1>18. CASE ends
  BY <1>11, <1>12, <1>15, <1>16, <1>17, <1>18
     DEF Abs!Finish, AbsStatus, AbsLocal
<1>19. CASE ~ends
  BY <1>11, <1>12, <1>15, <1>16, <1>17, <1>19
     DEF Abs!Yield, AbsStatus, AbsLocal
<1> QED
  BY <1>18, <1>19

(* McoResume of a waiting routine is Resume.                                 *)
LEMMA PushRefines ==
  ASSUME IInv, NEW c \in Coroutines, c \in live, c \notin finished,
         c \notin Range(callStack), Push(c)
  PROVE  Abs!Resume(c)
<1>1. /\ Booted \in Seq(Mcos) /\ Resumer = cpu /\ cpu \in Mcos
      /\ Range(Booted) = Range(callStack) \cup (Range(Booted) \cap {Main})
  <2>1. CASE callStack = <<>>
    BY <2>1, IInvParts
       DEF Booted, Resumer, Last, TypeOK, BeforeBoot, Mcos, Range
  <2>2. CASE callStack # <<>>
    BY <2>2, IInvParts DEF Booted, Resumer, Last, TypeOK, StackShape, Contexts
  <2> QED
    BY <2>1, <2>2
<1>2. c \in Mcos /\ c # Main /\ c # Null
  BY McoAssumption DEF Mcos
<1>3. /\ callStack' = Append(Booted, c)
      /\ start' = start \cup {Main, c}
      /\ McoSwap(cpu, c, c, finished)
      /\ UNCHANGED <<live, use_private, finished>>
  BY <1>1 DEF Push
<1>4. /\ stack_store' = (stack_store \cup Evicted(c, finished))
                           \ Recovered(c, c, finished)
      /\ common' = IF c \notin start /\ ~IsPrivate(c) THEN Blank
                   ELSE IF Recovered(c, c, finished) = {} THEN common
                   ELSE Saved(c, finished)[c]
      /\ frames' = IF c \notin start /\ IsPrivate(c)
                     THEN [Saved(c, finished) EXCEPT ![c] = Blank]
                     ELSE Saved(c, finished)
  BY <1>3 DEF McoSwap, mco_swap, Restored, Fresh
<1>5. callStack' # <<>> /\ Range(callStack') = Range(Booted) \cup {c}
  BY <1>1, <1>2, <1>3, AppendFacts
<1>6. \A d \in Coroutines : Stacked(d)' <=> Stacked(d) \/ d = c
  BY <1>1, <1>5, McoAssumption DEF Stacked
<1>7. AbsStatus' = [AbsStatus EXCEPT ![c] = "active"]
  BY <1>3, <1>6, McoAssumption DEF AbsStatus, Status
<1>8. AbsStatus[c] \in {"fresh", "suspended"}
  BY DEF AbsStatus, Status, Stacked
<1>9. Booted' = Append(Booted, c)
  BY <1>3, <1>5 DEF Booted
<1>10. \A d \in Mcos : IsPrivate(d)' <=> IsPrivate(d)
  BY <1>3 DEF IsPrivate
<1>11. c \notin Evicted(c, finished)
  BY DEF Evicted
<1>12. Local(c)' = Local(c)
  <2>1. c \in start'
    BY <1>3
  <2>2. Recovered(c, c, finished) =
          IF c \in start /\ ~IsPrivate(c) THEN stack_store \cap {c} ELSE {}
    BY <1>11 DEF Recovered, Fresh
  <2>3. Saved(c, finished)[c] = frames[c] /\ DOMAIN Saved(c, finished) = Mcos
    BY <1>2, <1>11 DEF Saved
  <2>4. c \in stack_store => c \in start /\ ~IsPrivate(c)
    BY <1>2, IInvParts DEF Ownership
  <2>5. c \notin stack_store'
    BY <1>4, <1>11, <2>2, <2>4
  <2>6. CASE c \notin start
    BY <1>2, <1>4, <1>10, <2>1, <2>3, <2>5, <2>6 DEF Local
  <2>7. CASE c \in start
    BY <1>2, <1>4, <1>10, <2>1, <2>2, <2>3, <2>4, <2>5, <2>7 DEF Local
  <2> QED
    BY <2>6, <2>7
<1>13. \A d \in Coroutines \ {c} : Local(d)' = Local(d)
  <2> SUFFICES ASSUME NEW d \in Coroutines \ {c}
               PROVE  Local(d)' = Local(d)
    OBVIOUS
  <2>1. d \in start' <=> d \in start
    BY <1>3, McoAssumption
  <2>2. d \in Mcos /\ d # Null
    BY McoAssumption DEF Mcos
  <2>3. CASE d \notin start
    BY <2>1, <2>3 DEF Local
  <2>4. CASE d \in start
    <3>1. d \in stack_store <=> ~IsPrivate(d) /\ commonOccupy # d
      BY <2>2, <2>4, IInvParts DEF Ownership
    <3>2. d \notin finished /\ (commonOccupy = d => ~IsPrivate(d))
      BY <2>2, <2>4, McoAssumption, IInvParts DEF Lifetimes, Ownership
    <3>3. d \in Evicted(c, finished) <=> ~IsPrivate(c) /\ commonOccupy = d
      BY <2>2, <3>2 DEF Evicted
    <3>4. d \in stack_store' <=> d \in stack_store \cup Evicted(c, finished)
      BY <1>4 DEF Recovered, Fresh
    <3>5. frames'[d] = IF d \in Evicted(c, finished) THEN common ELSE frames[d]
      BY <1>4, <2>2 DEF Saved
    <3>6. CASE IsPrivate(d) \/ d \in stack_store \/ ~IsPrivate(c)
      BY <1>10, <2>1, <2>2, <2>4, <3>1, <3>2, <3>3, <3>4, <3>5, <3>6 DEF Local
    <3>7. CASE ~(IsPrivate(d) \/ d \in stack_store \/ ~IsPrivate(c))
      <4>1. Recovered(c, c, finished) = {} /\ common' = common
        BY <1>4, <3>7 DEF Recovered, Fresh
      <4> QED
        BY <1>10, <2>1, <2>2, <2>4, <3>3, <3>4, <3>7, <4>1 DEF Local
    <3> QED
      BY <3>6, <3>7
  <2> QED
    BY <2>3, <2>4
<1>14. AbsLocal' = AbsLocal
  BY <1>12, <1>13 DEF AbsLocal
<1> QED
  BY <1>7, <1>8, <1>9, <1>14 DEF Abs!Resume, AbsStatus, AbsLocal

(* McoFree is Free; of a running routine it changes nothing.                 *)
LEMMA FreeRefines ==
  ASSUME IInv, Lawful, NEW c \in Coroutines, McoFree(c)
  PROVE  Abs!Free(c) \/ UNCHANGED Abs!vars
<1>1. CASE c \in running
  BY <1>1 DEF McoFree, MarkShouldClose, flags, stack, Abs!vars, Status, Local,
              Stacked, IsPrivate, Booted
<1>2. CASE c \notin running
  <2>1. /\ c \in live /\ c \notin Range(callStack) /\ c \in start \cup finished
        /\ live' = live \ {c}
        /\ use_private' = use_private \ {c}
        /\ start' = start \ {c}
        /\ finished' = finished \ {c}
        /\ stack_store' = stack_store \ {c}
        /\ frames' = [frames EXCEPT ![c] = Blank]
        /\ UNCHANGED <<callStack, common>>
    BY <1>2 DEF McoFree, Delete, Lawful
  <2>2. \A d \in Coroutines : Stacked(d)' <=> Stacked(d)
    BY <2>1 DEF Stacked
  <2>3. AbsStatus' = [AbsStatus EXCEPT ![c] = "absent"]
    BY <2>1, <2>2 DEF AbsStatus, Status
  <2>4. AbsStatus[c] \in {"suspended", "finished"}
    BY <2>1 DEF AbsStatus, Status, Stacked
  <2>5. AbsLocal' = [AbsLocal EXCEPT ![c] = Blank]
    <3>1. Local(c)' = Blank
      BY <2>1 DEF Local
    <3>2. \A d \in Coroutines \ {c} : Local(d)' = Local(d)
      BY <2>1, IInvParts DEF Local, IsPrivate, TypeOK
    <3> QED
      BY <3>1, <3>2 DEF AbsLocal
  <2>6. Booted' = Booted
    BY <2>1 DEF Booted
  <2> QED
    BY <2>3, <2>4, <2>5, <2>6 DEF Abs!Free, AbsStatus, AbsLocal
<1> QED
  BY <1>1, <1>2

(* A routine's writes reach its own frames and no other.                     *)
LEMMA ComputeRefines ==
  ASSUME IInv, NEW v \in Vals, Compute(v)
  PROVE  Abs!Compute(v)
<1>1. /\ cpu # Main /\ cpu \in Coroutines /\ cpu \in start
      /\ callStack # <<>> /\ cpu = callStack[Len(callStack)]
      /\ cpu \notin stack_store
  BY IInvParts
     DEF Compute, TypeOK, BeforeBoot, StackShape, Contexts, Mcos, Ownership
<1>2. Abs!Running = cpu
  BY <1>1 DEF Abs!Running, Abs!Last, Booted
<1>3. UNCHANGED <<live, use_private, start, finished, stack_store,
                  commonOccupy, callStack>>
  BY DEF Compute, flags
<1>4. Local(cpu)' = v
  BY <1>1, <1>3, IInvParts DEF Compute, Local, IsPrivate, TypeOK
<1>5. \A d \in Coroutines \ {cpu} : Local(d)' = Local(d)
  <2>1. CASE IsPrivate(cpu)
    BY <1>3, <2>1, IInvParts DEF Compute, Local, IsPrivate, TypeOK
  <2>2. CASE ~IsPrivate(cpu)
    <3>1. \A d \in start \ {cpu} : IsPrivate(d) \/ d \in stack_store
      BY <2>2, IInvParts DEF TypeOK, Ownership
    <3> QED
      BY <1>3, <2>2, <3>1 DEF Compute, Local, IsPrivate
  <2> QED
    BY <2>1, <2>2
<1>6. AbsLocal' = [AbsLocal EXCEPT ![cpu] = v]
  BY <1>3, <1>4, <1>5 DEF AbsLocal, Compute
<1>7. AbsStatus' = AbsStatus /\ Booted' = Booted
  BY <1>3 DEF AbsStatus, Status, Stacked, Booted
<1> QED
  BY <1>1, <1>2, <1>6, <1>7 DEF Abs!Compute, AbsLocal, AbsStatus

(* Every step of the runtime is a step of Coroutine or a stutter.            *)
LEMMA NextRefines ==
  ASSUME PInv, Lawful, [Next]_vars
  PROVE  [Abs!Next]_(Abs!vars)
<1>1. CASE UNCHANGED vars
  BY <1>1 DEF vars, flags, stack, Abs!vars, Status, Local, Stacked, IsPrivate,
              Booted
<1> SUFFICES ASSUME Next PROVE [Abs!Next]_(Abs!vars)
  BY <1>1
<1>2. IInv /\ Orderly
  BY DEF IInv, Lawful, Orderly, Next, MainMco, CoroutineRun, McoCreate, McoFree,
         McoResume, McoYield, Compute
<1>3. ASSUME NEW c \in running, NEW ends \in BOOLEAN, SwitchToSink(c, ends)
      PROVE  [Abs!Next]_(Abs!vars)
  <2>1. CASE c = Main
    <3>1. Die("segv")
      BY <1>2, <1>3, <2>1, IInvParts DEF SwitchToSink, BeforeBoot, StackShape
    <3> QED
      BY <3>1, DieRefines
  <2>2. CASE c # Main
    BY <1>2, <1>3, <2>2, SwitchRefines DEF Abs!Next
  <2> QED
    BY <2>1, <2>2
<1>4. CASE MainMco
  <2>1. CASE BootFate = "ok"
    BY <1>4, <2>1, MainMcoRefines
  <2>2. CASE BootFate # "ok"
    BY <1>4, <2>2, DieRefines DEF MainMco
  <2> QED
    BY <2>1, <2>2
<1>5. CASE CoroutineRun
  <2>1. cpu \in running
    BY <1>2, <1>5, IInvParts DEF CoroutineRun, BeforeBoot, StackShape
  <2> QED
    BY <1>3, <1>5, <2>1 DEF CoroutineRun
<1>6. ASSUME NEW c \in Coroutines, NEW private \in BOOLEAN,
             McoCreate(c, private)
      PROVE  Abs!Next
  BY <1>2, <1>6, CreateRefines DEF Abs!Next
<1>7. ASSUME NEW c \in Coroutines, McoFree(c)
      PROVE  [Abs!Next]_(Abs!vars)
  BY <1>2, <1>7, FreeRefines DEF Abs!Next
<1>8. ASSUME NEW c \in Mcos, McoResume(c) PROVE [Abs!Next]_(Abs!vars)
  <2>1. CASE Die(BootFate)
    BY <2>1, DieRefines
  <2>2. CASE cpu \in running /\ SwitchToSink(cpu, FALSE)
    BY <1>3, <2>2
  <2>3. CASE /\ c \in Coroutines /\ c \in live /\ c \notin finished
             /\ c \notin Range(callStack) /\ Push(c)
    BY <1>2, <2>3, PushRefines DEF Abs!Next
  <2> QED
    BY <1>2, <1>8, <2>1, <2>2, <2>3, ResumeCases DEF PInv
<1>9. ASSUME NEW c \in Mcos, McoYield(c) PROVE [Abs!Next]_(Abs!vars)
  BY <1>3, <1>9 DEF McoYield
<1>10. ASSUME NEW v \in Vals, Compute(v) PROVE Abs!Next
  BY <1>2, <1>10, ComputeRefines DEF Abs!Next
<1> QED
  BY <1>4, <1>5, <1>6, <1>7, <1>8, <1>9, <1>10 DEF Next

(* The runtime implements coroutines, in every build: McoResume, McoYield    *)
(* and McoFree nest, and McoSwap never changes the frames of any routine but *)
(* through its own writes; where the process dies, it does so without        *)
(* another effect.                                                           *)
THEOREM Refinement == ASSUME Lawful PROVE Spec => ImplementsCoroutine
<1>1. Init => Abs!Init
  BY InitRefines
<1>2. PInv /\ [Next]_vars => [Abs!Next]_(Abs!vars)
  BY NextRefines
<1>3. Spec => []PInv
  BY PathInvariance DEF Lawful
<1> QED
  BY <1>1, <1>2, <1>3, PTL DEF Spec, ImplementsCoroutine, Abs!Spec

=============================================================================
