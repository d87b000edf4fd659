------------------------------ MODULE McoProofs ------------------------------
(***************************************************************************)
(* Theorems about Mco for every set of coroutines and stack contents.      *)
(* What each one assumes of the configuration and of the client is in its  *)
(* statement: nothing for the types; that nobody resumes a routine that    *)
(* waits further down the call stack for the agreement of the runtime's    *)
(* records, up to the step that kills the process; the repaired runtime    *)
(* and a client within the whole contract for the absence of crashes.      *)
(***************************************************************************)
EXTENDS Mco, TLAPS

(* Of the contract, the part whose breach is not noticed at once.            *)
Orderly == "ancestor" \notin Misuse

Repaired == StackMgrSet /\ ~Asserts /\ Misuse = {}

(* Until the first resume nothing but McoCreate has had an effect.           *)
BeforeBoot ==
  callStack = <<>> =>
    start = {} /\ running = {} /\ cpu = Main

(* The call stack is a simple path from Main to the routine that runs.       *)
StackShape ==
  /\ callStack # <<>> =>
       /\ callStack[1] = Main /\ cpu = callStack[Len(callStack)]
       /\ running = {cpu} /\ cpu \in start
  /\ \A i, j \in 1 .. Len(callStack) : callStack[i] = callStack[j] => i = j
  /\ sink[Main] = Null

(* The routines on it have contexts, and sinks, unless they were freed there.*)
Contexts == \A i \in 1 .. Len(callStack) : callStack[i] \in start

SinksOfStarted ==
  \A i \in 2 .. Len(callStack) :
    callStack[i] \in start => sink[callStack[i]] = callStack[i - 1]

(* Contexts belong to routines that exist, and no finished one has any.      *)
Lifetimes ==
  /\ start \subseteq live \cup {Main}
  /\ finished \subseteq live
  /\ start \cap finished = {}

(* The occupant of the shared area has run and has no private stack; the     *)
(* saved routines are the other started ones without a private stack.        *)
Ownership ==
  /\ commonOccupy # Null =>
       ~IsPrivate(commonOccupy) /\ commonOccupy \in start \cup finished
  /\ \A c \in Mcos :
       c \in stack_store <=> c \in start /\ ~IsPrivate(c) /\ commonOccupy # c
  /\ IsPrivate(cpu) \/ commonOccupy = cpu

Agreement ==
  /\ BeforeBoot
  /\ StackShape
  /\ SinksOfStarted
  /\ Lifetimes
  /\ Ownership

(* What holds as long as nobody resumes out of order, ...                    *)
CInv == TypeOK /\ (fate = "ok" => Agreement)

(* ... as long as nobody frees a routine that waits, either, ...             *)
PInv == CInv /\ Contexts /\ SinkIsBelow

(* ... and with the repaired runtime within the whole contract.              *)
IInv == PInv /\ fate = "ok"
-----------------------------------------------------------------------------
(* Facts about the three sequence operators of the model.                    *)
LEMMA AppendFacts ==
  ASSUME NEW S, NEW s \in Seq(S), NEW e \in S
  PROVE  /\ Append(s, e) \in Seq(S)
         /\ Append(s, e) # <<>>
         /\ Len(Append(s, e)) = Len(s) + 1
         /\ \A i \in 1 .. Len(s) : Append(s, e)[i] = s[i]
         /\ Append(s, e)[Len(s) + 1] = e
         /\ Last(Append(s, e)) = e
         /\ Range(Append(s, e)) = Range(s) \cup {e}
<1>1. /\ Append(s, e) \in Seq(S)
      /\ Append(s, e) # <<>>
      /\ Len(Append(s, e)) = Len(s) + 1
      /\ \A i \in 1 .. Len(s) : Append(s, e)[i] = s[i]
      /\ Append(s, e)[Len(s) + 1] = e
  OBVIOUS
<1>2. DOMAIN s = 1 .. Len(s) /\ DOMAIN Append(s, e) = 1 .. Len(s) + 1
  OBVIOUS
<1>3. Range(Append(s, e)) = Range(s) \cup {e}
  BY <1>1, <1>2 DEF Range
<1> QED
  BY <1>1, <1>3 DEF Last

LEMMA FrontFacts ==
  ASSUME NEW S, NEW s \in Seq(S), Len(s) > 1
  PROVE  /\ Front(s) \in Seq(S)
         /\ Front(s) # <<>>
         /\ Len(Front(s)) = Len(s) - 1
         /\ \A i \in 1 .. Len(s) - 1 : Front(s)[i] = s[i]
         /\ Last(Front(s)) = s[Len(s) - 1]
         /\ Range(Front(s)) = {s[i] : i \in 1 .. Len(s) - 1}
<1>1. /\ Front(s) \in Seq(S)
      /\ Len(Front(s)) = Len(s) - 1
      /\ \A i \in 1 .. Len(s) - 1 : Front(s)[i] = s[i]
  BY DEF Front
<1>2. DOMAIN Front(s) = 1 .. Len(s) - 1
  BY <1>1
<1>3. Front(s) # <<>>
  BY <1>1
<1>4. Range(Front(s)) = {s[i] : i \in 1 .. Len(s) - 1}
  BY <1>1, <1>2 DEF Range
<1> QED
  BY <1>1, <1>3, <1>4 DEF Last

LEMMA RangeFacts ==
  ASSUME NEW S, NEW s \in Seq(S)
  PROVE  Range(s) = {s[i] : i \in 1 .. Len(s)}
BY DEF Range

(* The types hold whatever the client does.                                  *)
LEMMA SwapTypes ==
  ASSUME TypeOK, NEW from \in Mcos, NEW to \in Mcos, NEW top \in Mcos, NEW fin,
         McoSwap(from, to, top, fin)
  PROVE  /\ stack_store' \subseteq Mcos /\ commonOccupy' \in Mcos \cup {Null}
         /\ common' \in Vals /\ frames' \in [Mcos -> Vals]
         /\ cpu' \in Mcos /\ fate' \in Fates
<1>1. Evicted(to, fin) \subseteq Mcos
  BY DEF Evicted, TypeOK
<1>2. Saved(to, fin) \in [Mcos -> Vals]
  BY DEF Saved, TypeOK
<1>3. Restored(to, top, fin) \in Vals
  BY <1>2 DEF Restored, TypeOK
<1>4. common' \in Vals
  BY <1>3, McoAssumption DEF McoSwap
<1>5. frames' \in [Mcos -> Vals]
  BY <1>2, McoAssumption DEF McoSwap
<1>6. stack_store' \subseteq Mcos /\ commonOccupy' \in Mcos \cup {Null}
  BY <1>1 DEF McoSwap, TypeOK
<1> QED
  BY <1>4, <1>5, <1>6 DEF McoSwap, mco_swap, Fates

LEMMA SwitchTypes ==
  ASSUME TypeOK, NEW c \in Mcos, NEW ends \in BOOLEAN, SwitchToSink(c, ends)
  PROVE  TypeOK'
<1>1. CASE sink[c] = Null \/ Len(callStack) < 2
  BY <1>1 DEF SwitchToSink, Die, TypeOK, Fates, flags, stack
<1>2. CASE ~(sink[c] = Null \/ Len(callStack) < 2)
  <2>1. sink[c] \in Mcos /\ callStack \in Seq(Mcos) /\ Len(callStack) > 1
    BY <1>2 DEF TypeOK
  <2>2. /\ finished' = IF ends THEN finished \cup {c} ELSE finished
        /\ start' = IF ends THEN start \ {c} ELSE start
        /\ running' = HandOver(c, sink[c])
        /\ callStack' = Front(callStack)
        /\ McoSwap(c, sink[c], Last(callStack'), finished')
        /\ UNCHANGED <<live, use_private, should_close, sink, slots>>
    BY <1>2 DEF SwitchToSink
  <2>3. callStack' \in Seq(Mcos) /\ Last(callStack') \in Mcos
    <3>1. /\ Front(callStack) \in Seq(Mcos)
          /\ Last(Front(callStack)) = callStack[Len(callStack) - 1]
      BY <2>1, FrontFacts
    <3> QED
      BY <2>1, <2>2, <3>1
  <2>4. /\ stack_store' \subseteq Mcos /\ commonOccupy' \in Mcos \cup {Null}
        /\ common' \in Vals /\ frames' \in [Mcos -> Vals]
        /\ cpu' \in Mcos /\ fate' \in Fates
    BY <2>1, <2>2, <2>3, SwapTypes
  <2>5. finished' \subseteq Mcos /\ start' \subseteq Mcos /\ running' \subseteq Mcos
    BY <2>1, <2>2 DEF HandOver, TypeOK
  <2> QED
    BY <2>2, <2>3, <2>4, <2>5 DEF TypeOK
<1> QED
  BY <1>1, <1>2

LEMMA BootedTypes ==
  ASSUME TypeOK
  PROVE  /\ Booted \in Seq(Mcos) /\ Len(Booted) \in Nat \ {0}
         /\ Resumer = Booted[Len(Booted)] /\ Resumer \in Mcos
<1>1. CASE callStack = <<>>
  BY <1>1 DEF Booted, Resumer, Last, Mcos
<1>2. CASE callStack # <<>>
  BY <1>2 DEF Booted, Resumer, Last, TypeOK
<1> QED
  BY <1>1, <1>2

LEMMA PushTypes ==
  ASSUME TypeOK, NEW c \in Mcos, Push(c)
  PROVE  TypeOK'
<1>1. Booted \in Seq(Mcos) /\ Len(Booted) \in Nat /\ Resumer \in Mcos
  BY BootedTypes
<1>2. callStack' \in Seq(Mcos) /\ slots' \in Nat
  BY <1>1, AppendFacts DEF Push, Larger, TypeOK
<1>3. /\ sink' = [sink EXCEPT ![c] = Resumer]
      /\ start' = start \cup {Main, c}
      /\ running' = (running \ {Resumer}) \cup {c}
      /\ McoSwap(Resumer, c, c, finished)
      /\ UNCHANGED <<live, use_private, finished, should_close>>
  BY DEF Push, HandOver
<1>4. /\ stack_store' \subseteq Mcos /\ commonOccupy' \in Mcos \cup {Null}
      /\ common' \in Vals /\ frames' \in [Mcos -> Vals]
      /\ cpu' \in Mcos /\ fate' \in Fates
  BY <1>1, <1>3, SwapTypes
<1>5. sink' \in [Mcos -> Mcos \cup {Null}]
  BY <1>1, <1>3 DEF TypeOK
<1> QED
  BY <1>2, <1>3, <1>4, <1>5 DEF TypeOK, Mcos

LEMMA DieTypes ==
  ASSUME TypeOK, NEW f \in Fates, Die(f)
  PROVE  TypeOK'
BY DEF Die, TypeOK, flags, stack

LEMMA ResumeTypes ==
  ASSUME TypeOK, NEW c \in Mcos, McoResume(c)
  PROVE  TypeOK'
<1>1. CASE callStack = <<>> /\ BootFate # "ok"
  BY <1>1, DieTypes DEF McoResume, BootFate, Fates
<1>2. CASE /\ ~(callStack = <<>> /\ BootFate # "ok") /\ sink[Resumer] = c
           /\ Last(callStack) \in running
           /\ SwitchToSink(Last(callStack), FALSE)
  BY <1>2, SwitchTypes DEF TypeOK
<1>3. CASE Push(c)
  BY <1>3, PushTypes
<1> QED
  BY <1>1, <1>2, <1>3 DEF McoResume

LEMMA NextTypes ==
  ASSUME TypeOK, [Next]_vars
  PROVE  TypeOK'
<1> USE DEF flags, stack
<1>1. CASE UNCHANGED vars
  BY <1>1 DEF vars, TypeOK
<1>2. CASE MainMco
  <2>1. CASE BootFate # "ok"
    BY <1>2, <2>1, DieTypes DEF MainMco, BootFate, Fates
  <2>2. CASE BootFate = "ok"
    <3>1. slots' \in Nat
      BY <1>2, <2>2 DEF MainMco, TypeOK, Larger
    <3>2. Main \in Mcos /\ callStack' = <<Main>>
      BY <1>2, <2>2 DEF MainMco, Mcos
    <3>3. callStack' \in Seq(Mcos)
      BY <3>2
    <3> QED
      BY <1>2, <2>2, <3>1, <3>2, <3>3 DEF MainMco, TypeOK
  <2> QED
    BY <2>1, <2>2
<1>3. CASE CoroutineRun
  <2>1. CASE cpu \in running
    BY <1>3, <2>1, SwitchTypes DEF CoroutineRun, TypeOK
  <2>2. CASE cpu \notin running
    BY <1>3, <2>2, DieTypes DEF CoroutineRun, Fates
  <2> QED
    BY <2>1, <2>2
<1>4. ASSUME NEW c \in Coroutines, NEW private \in BOOLEAN,
             McoCreate(c, private)
      PROVE  TypeOK'
  BY <1>4 DEF McoCreate, TypeOK
<1>5. ASSUME NEW c \in Coroutines, McoFree(c) PROVE TypeOK'
  <2>1. CASE MarkShouldClose(c)
    BY <2>1 DEF MarkShouldClose, TypeOK, Mcos
  <2>2. CASE Delete(c)
    <3>1. commonOccupy' \in Mcos \cup {Null} /\ fate' \in Fates
      BY <2>2 DEF Delete, OccupantWithout, Fates, TypeOK
    <3>2. sink' \in [Mcos -> Mcos \cup {Null}] /\ frames' \in [Mcos -> Vals]
      BY <2>2, McoAssumption DEF Delete, TypeOK
    <3> QED
      BY <2>2, <3>1, <3>2 DEF Delete, TypeOK
  <2> QED
    BY <1>5, <2>1, <2>2 DEF McoFree
<1>6. ASSUME NEW c \in Mcos, McoResume(c) PROVE TypeOK'
  BY <1>6, ResumeTypes
<1>7. ASSUME NEW c \in Mcos, McoYield(c) PROVE TypeOK'
  BY <1>7, SwitchTypes DEF McoYield
<1>8. ASSUME NEW v \in Vals, Compute(v) PROVE TypeOK'
  <2>1. common' \in Vals /\ frames' \in [Mcos -> Vals]
    BY <1>8 DEF Compute, TypeOK
  <2> QED
    BY <1>8, <2>1 DEF Compute, TypeOK
<1> QED
  BY <1>1, <1>2, <1>3, <1>4, <1>5, <1>6, <1>7, <1>8 DEF Next

(* Type correctness, for every build, every client and up to any crash: no   *)
(* call of the runtime takes a flag, a pointer or a counter out of its range.*)
THEOREM TypeCorrect == Spec => []TypeOK
<1>1. Init => TypeOK
  BY McoAssumption DEF Init, TypeOK, Fates, Mcos
<1>2. TypeOK /\ [Next]_vars => TypeOK'
  BY NextTypes
<1> QED
  BY <1>1, <1>2, PTL DEF Spec
-----------------------------------------------------------------------------
(* Init establishes the invariant.                                           *)
LEMMA InitInv == Init => IInv
BY McoAssumption
   DEF Init, IInv, PInv, CInv, Agreement, TypeOK, BeforeBoot, StackShape,
       Contexts, SinksOfStarted, SinkIsBelow, Lifetimes, Ownership, IsPrivate,
       Fates, Mcos

(* A routine that runs yields, if it can: it hands over to its sink, which   *)
(* is the routine below it, or the process dies.                             *)
LEMMA SwitchCases ==
  ASSUME CInv, fate = "ok", NEW c \in running, NEW ends \in BOOLEAN,
         SwitchToSink(c, ends)
  PROVE  \/ fate' # "ok" /\ UNCHANGED <<callStack, sink, start>>
         \/ /\ c # Main /\ Len(callStack) > 1 /\ c = callStack[Len(callStack)]
            /\ sink[c] = callStack[Len(callStack) - 1]
<1>1. /\ callStack \in Seq(Mcos) /\ callStack # <<>> /\ c = cpu /\ c \in start
      /\ c = callStack[Len(callStack)]
  BY DEF CInv, TypeOK, Agreement, BeforeBoot, StackShape
<1>2. CASE sink[c] = Null \/ Len(callStack) < 2
  BY <1>2 DEF SwitchToSink, Die, flags
<1>3. CASE sink[c] # Null /\ Len(callStack) >= 2
  <2>1. c # Main
    BY <1>3 DEF CInv, Agreement, StackShape
  <2>2. Len(callStack) \in 2 .. Len(callStack) /\ Len(callStack) > 1
    BY <1>1, <1>3
  <2>3. sink[c] = callStack[Len(callStack) - 1]
    BY <1>1, <2>2 DEF CInv, Agreement, SinksOfStarted
  <2> QED
    BY <1>1, <2>1, <2>2, <2>3
<1> QED
  BY <1>1, <1>2, <1>3 DEF CInv, TypeOK

(* McoYield of the routine that runs hands over to the routine below it.     *)
LEMMA SwitchAgrees ==
  ASSUME CInv, fate = "ok", NEW c \in running, NEW ends \in BOOLEAN,
         SwitchToSink(c, ends), c # Main, Len(callStack) > 1,
         c = callStack[Len(callStack)],
         sink[c] = callStack[Len(callStack) - 1]
  PROVE  /\ fate' = "ok" => Agreement'
         /\ Contexts => fate' = "ok" /\ Contexts' /\ Agreement'
<1> DEFINE n == Len(callStack)
           to == callStack[n - 1]
<1>1. /\ callStack \in Seq(Mcos) /\ n \in Nat /\ n > 1
      /\ callStack # <<>>
      /\ c = cpu /\ c = callStack[n] /\ running = {c}
  BY DEF CInv, TypeOK, Agreement, StackShape
<1>2. /\ sink[c] = to /\ to \in Mcos /\ to # c /\ to # Null
      /\ c \in start
  BY <1>1, McoAssumption DEF CInv, Agreement, StackShape
<1>3. /\ finished' = IF ends THEN finished \cup {c} ELSE finished
      /\ start' = IF ends THEN start \ {c} ELSE start
      /\ running' = {to}
      /\ callStack' = Front(callStack)
      /\ McoSwap(c, to, Last(callStack'), finished')
      /\ UNCHANGED <<live, use_private, should_close, sink, slots>>
  BY <1>1, <1>2 DEF SwitchToSink, HandOver
<1>4. /\ callStack' \in Seq(Mcos)
      /\ callStack' # <<>>
      /\ Len(callStack') = n - 1
      /\ \A i \in 1 .. n - 1 : callStack'[i] = callStack[i]
      /\ Last(callStack') = to
  BY <1>1, <1>3, FrontFacts
<1>5. /\ commonOccupy' = IF IsPrivate(to) THEN commonOccupy ELSE to
      /\ stack_store' = (stack_store \cup Evicted(to, finished'))
                           \ Recovered(to, to, finished')
      /\ cpu' = to
      /\ fate' = IF to \in start' /\ to \notin stack_store' THEN "ok" ELSE "ub"
  BY <1>1, <1>2, <1>3, <1>4 DEF McoSwap, mco_swap
<1>6. start' \cap finished' = {} /\ c \in live
  BY <1>1, <1>2, <1>3, McoAssumption DEF CInv, Agreement, Lifetimes
<1>7. \A d \in Mcos : IsPrivate(d)' <=> IsPrivate(d)
  BY <1>3 DEF IsPrivate
<1>8. ASSUME to \in start' PROVE Ownership'
  <2>1. commonOccupy' # Null =>
          ~IsPrivate(commonOccupy') /\ commonOccupy' \in start' \cup finished'
    BY <1>1, <1>2, <1>3, <1>5, <1>6, <1>8 DEF CInv, Agreement, Ownership
  <2>2. \A d \in Mcos :
          d \in stack_store' <=> d \in start' /\ ~IsPrivate(d) /\ commonOccupy' # d
    <3>1. \A d \in Mcos : d \in start' <=> d \in start /\ d \notin finished'
      BY <1>1, <1>3, <1>6 DEF CInv, Agreement, Lifetimes
    <3>2. c \notin stack_store
      BY <1>1, <1>2 DEF CInv, TypeOK, Agreement, Ownership
    <3>3. CASE IsPrivate(to)
      <4>1. Evicted(to, finished') = {} /\ Recovered(to, to, finished') = {}
        BY <3>3 DEF Evicted, Recovered, Fresh
      <4>2. stack_store' = stack_store /\ commonOccupy' = commonOccupy
        BY <1>5, <3>3, <4>1
      <4>3. c \in start /\ (~IsPrivate(c) => commonOccupy = c)
        BY <1>1, <1>2 DEF CInv, Agreement, Ownership
      <4>4. \A d \in Mcos : d \in start' <=> d \in start /\ ~(ends /\ d = c)
        BY <1>3
      <4> QED
        BY <4>2, <4>3, <4>4 DEF CInv, Agreement, Ownership
    <3>4. CASE ~IsPrivate(to)
      <4>1. to \notin stack_store'
        BY <1>2, <1>3, <1>5, <1>8, <3>4 DEF Recovered, Fresh
      <4>2. to \in start' /\ commonOccupy' = to
        BY <1>5, <1>8, <3>4
      <4>3. \A d \in Mcos \ {to} :
              d \in stack_store' <=> d \in stack_store \cup Evicted(to, finished')
        BY <1>5 DEF Recovered, Fresh
      <4>4. \A d \in Mcos \ {to} :
              d \in Evicted(to, finished') <=>
                commonOccupy = d /\ d \notin finished'
        BY <3>4, McoAssumption DEF Evicted
      <4>5. \A d \in Mcos \ {to} :
              d \in stack_store' <=> d \in start' /\ ~IsPrivate(d)
        <5> SUFFICES ASSUME NEW d \in Mcos \ {to}
                     PROVE  d \in stack_store' <=> d \in start' /\ ~IsPrivate(d)
          OBVIOUS
        <5>1. d \in stack_store <=>
                d \in start /\ ~IsPrivate(d) /\ commonOccupy # d
          BY DEF CInv, Agreement, Ownership
        <5>2. commonOccupy = d =>
                ~IsPrivate(d) /\ d \in start \cup finished
          BY McoAssumption DEF CInv, Agreement, Ownership
        <5>3. finished \subseteq finished'
          BY <1>3
        <5> QED
          BY <3>1, <3>2, <4>3, <4>4, <5>1, <5>2, <5>3, <1>3
      <4> QED
        BY <4>1, <4>2, <4>5, <3>4
    <3> QED
      BY <3>3, <3>4
  <2>3. IsPrivate(to) \/ commonOccupy' = to
    BY <1>5
  <2> QED
    BY <1>3, <1>5, <2>1, <2>2, <2>3 DEF Ownership, IsPrivate
<1>9. ASSUME to \in start' PROVE fate' = "ok"
  BY <1>2, <1>5, <1>7, <1>8, <1>9 DEF Ownership
<1>10. ASSUME to \in start' PROVE StackShape'
  BY <1>1, <1>2, <1>3, <1>4, <1>5, <1>10 DEF CInv, Agreement, StackShape
<1>11. \A i \in 1 .. n - 1 : callStack[i] # c
  BY <1>1 DEF CInv, Agreement, StackShape
<1>12. SinksOfStarted'
  BY <1>1, <1>3, <1>4, <1>11 DEF CInv, Agreement, SinksOfStarted
<1>13. Lifetimes' /\ BeforeBoot'
  BY <1>2, <1>3, <1>4, <1>6 DEF CInv, Agreement, Lifetimes, BeforeBoot
<1>14. fate' = "ok" => to \in start'
  BY <1>5
<1>15. Contexts => to \in start' /\ Contexts'
  BY <1>1, <1>2, <1>3, <1>4, <1>11 DEF Contexts
<1> QED
  BY <1>8, <1>9, <1>10, <1>12, <1>13, <1>14, <1>15 DEF Agreement

LEMMA SwitchInv ==
  ASSUME CInv, fate = "ok", NEW c \in running, NEW ends \in BOOLEAN,
         SwitchToSink(c, ends)
  PROVE  CInv' /\ (PInv => PInv')
<1>1. TypeOK'
  BY SwitchTypes DEF CInv, TypeOK
<1>2. CASE fate' # "ok" /\ UNCHANGED <<callStack, sink, start>>
  BY <1>1, <1>2 DEF CInv, PInv, Contexts, SinkIsBelow
<1>3. CASE /\ c # Main /\ Len(callStack) > 1 /\ c = callStack[Len(callStack)]
           /\ sink[c] = callStack[Len(callStack) - 1]
  <2>1. /\ fate' = "ok" => Agreement'
        /\ Contexts => fate' = "ok" /\ Contexts' /\ Agreement'
    BY <1>3, SwitchAgrees
  <2>2. Contexts' /\ Agreement' => SinkIsBelow'
    BY <1>1 DEF Agreement, SinksOfStarted, Contexts, SinkIsBelow, TypeOK
  <2> QED
    BY <1>1, <2>1, <2>2 DEF CInv, PInv
<1> QED
  BY <1>2, <1>3, SwitchCases

(* Within the contract it does not die.                                      *)
LEMMA SwitchLives ==
  ASSUME IInv, NEW c \in running, c # Main, NEW ends \in BOOLEAN,
         SwitchToSink(c, ends)
  PROVE  /\ fate' = "ok" /\ Len(callStack) > 1
         /\ c = callStack[Len(callStack)]
         /\ sink[c] = callStack[Len(callStack) - 1]
<1> DEFINE n == Len(callStack)
<1>1. /\ callStack \in Seq(Mcos) /\ n \in Nat /\ callStack # <<>>
      /\ c = callStack[n] /\ c \in start
  BY DEF IInv, PInv, CInv, TypeOK, Agreement, BeforeBoot, StackShape
<1>2. n > 1
  BY <1>1 DEF IInv, PInv, CInv, Agreement, StackShape
<1>3. sink[c] = callStack[n - 1] /\ callStack[n - 1] \in Mcos
  BY <1>1, <1>2 DEF IInv, PInv, SinkIsBelow
<1>4. fate' = "ok"
  BY <1>1, <1>2, <1>3, SwitchAgrees DEF IInv, PInv
<1> QED
  BY <1>1, <1>2, <1>3, <1>4

(* McoResume of a routine that is not on the call stack puts it on top.      *)
LEMMA PushInv ==
  ASSUME CInv, fate = "ok", NEW c \in Coroutines, c \in live, c \notin finished,
         c \notin Range(callStack), Push(c)
  PROVE  fate' = "ok" /\ CInv' /\ (PInv => PInv')
<1> DEFINE n == Len(Booted)
<1>1. /\ Booted \in Seq(Mcos) /\ n \in Nat /\ n > 0
      /\ Booted[1] = Main /\ Booted[n] = cpu /\ Resumer = cpu
      /\ \A i, j \in 1 .. n : Booted[i] = Booted[j] => i = j
      /\ \A i \in 1 .. n : Booted[i] # c
      /\ \A i \in 2 .. n : Booted[i] \in start => sink[Booted[i]] = Booted[i - 1]
      /\ Contexts => \A i \in 1 .. n : Booted[i] \in start \cup {Main}
      /\ running \subseteq {cpu}
      /\ cpu \in Mcos
  <2>1. CASE callStack = <<>>
    BY <2>1, McoAssumption
       DEF Booted, Resumer, Last, CInv, Agreement, TypeOK, BeforeBoot, Mcos
  <2>2. CASE callStack # <<>>
    <3>1. \A i \in 1 .. Len(callStack) : callStack[i] # c
      BY RangeFacts DEF CInv, TypeOK
    <3> QED
      BY <2>2, <3>1
         DEF Booted, Resumer, Last, CInv, Agreement, TypeOK, StackShape,
             SinksOfStarted, Contexts
  <2> QED
    BY <2>1, <2>2
<1>2. c # cpu /\ c \in Mcos /\ c # Main /\ c # Null
  BY <1>1, McoAssumption DEF Mcos
<1>3. /\ callStack' = Append(Booted, c)
      /\ sink' = [sink EXCEPT ![c] = cpu]
      /\ start' = start \cup {Main, c}
      /\ running' = {c}
      /\ McoSwap(cpu, c, c, finished)
      /\ UNCHANGED <<live, use_private, finished, should_close>>
  BY <1>1, <1>2 DEF Push, HandOver
<1>4. /\ callStack' \in Seq(Mcos)
      /\ callStack' # <<>>
      /\ Len(callStack') = n + 1
      /\ \A i \in 1 .. n : callStack'[i] = Booted[i]
      /\ callStack'[n + 1] = c
  BY <1>1, <1>2, <1>3, AppendFacts
<1>5. /\ commonOccupy' = IF IsPrivate(c) THEN commonOccupy ELSE c
      /\ stack_store' = (stack_store \cup Evicted(c, finished))
                           \ Recovered(c, c, finished)
      /\ cpu' = c
      /\ fate' = IF c \notin stack_store' THEN "ok" ELSE "ub"
  BY <1>3 DEF McoSwap, mco_swap
<1>6. TypeOK'
  BY <1>2, PushTypes DEF CInv
<1>7. Main \in Mcos /\ IsPrivate(Main)
  BY DEF Mcos, IsPrivate
<1>8. Ownership'
  <2>1. commonOccupy' # Null =>
          ~IsPrivate(commonOccupy') /\ commonOccupy' \in start' \cup finished'
    BY <1>3, <1>5 DEF CInv, Agreement, Ownership
  <2>2. \A d \in Mcos :
          d \in stack_store' <=> d \in start' /\ ~IsPrivate(d) /\ commonOccupy' # d
    <3>1. start' \cap finished = {}
      BY <1>3, McoAssumption DEF CInv, Agreement, Lifetimes, TypeOK
    <3>2. CASE IsPrivate(c)
      <4>1. Evicted(c, finished) = {} /\ Recovered(c, c, finished) = {}
        BY <3>2 DEF Evicted, Recovered, Fresh
      <4> QED
        BY <1>2, <1>3, <1>5, <1>7, <3>2, <4>1 DEF CInv, Agreement, Ownership
    <3>3. CASE ~IsPrivate(c)
      <4>1. c \notin stack_store'
        BY <1>2, <1>5, <3>3
           DEF CInv, Agreement, Ownership, Evicted, Recovered, Fresh
      <4>2. c \in start' /\ commonOccupy' = c
        BY <1>3, <1>5, <3>3
      <4>3. \A d \in Mcos \ {c} :
              d \in stack_store' <=> d \in stack_store \cup Evicted(c, finished)
        BY <1>5 DEF Recovered, Fresh
      <4>4. \A d \in Mcos \ {c} :
              d \in Evicted(c, finished) <=>
                commonOccupy = d /\ d \notin finished
        BY <3>3, McoAssumption DEF Evicted
      <4>5. \A d \in Mcos \ {c} :
              d \in stack_store' <=> d \in start' /\ ~IsPrivate(d)
        BY <1>3, <1>7, <3>1, <4>3, <4>4, McoAssumption
           DEF CInv, Agreement, Ownership
      <4> QED
        BY <4>1, <4>2, <4>5, <3>3
    <3> QED
      BY <3>2, <3>3
  <2> QED
    BY <1>3, <1>5, <2>1, <2>2 DEF Ownership, IsPrivate
<1>9. fate' = "ok"
  BY <1>2, <1>3, <1>5, <1>8 DEF Ownership, IsPrivate
<1>10. sink'[c] = cpu /\ \A m \in Mcos \ {c} : sink'[m] = sink[m]
  BY <1>2, <1>3 DEF CInv, TypeOK
<1>11. StackShape'
  <2>1. /\ callStack'[1] = Main /\ cpu' = callStack'[Len(callStack')]
        /\ running' = {cpu'} /\ cpu' \in start'
    BY <1>1, <1>3, <1>4, <1>5
  <2>2. \A i, j \in 1 .. n + 1 : callStack'[i] = callStack'[j] => i = j
    BY <1>1, <1>4
  <2>3. sink'[Main] = Null
    BY <1>2, <1>7, <1>10 DEF CInv, Agreement, StackShape
  <2> QED
    BY <1>4, <2>1, <2>2, <2>3 DEF StackShape
<1>12. SinksOfStarted'
  <2>1. \A i \in 1 .. n : Booted[i] \in Mcos \ {c} /\ (i > 1 => Booted[i] # Main)
    BY <1>1
  <2> SUFFICES ASSUME NEW i \in 2 .. n + 1, callStack'[i] \in start'
               PROVE  sink'[callStack'[i]] = callStack'[i - 1]
    BY <1>4 DEF SinksOfStarted
  <2>2. CASE i = n + 1
    BY <1>1, <1>4, <1>10, <2>2
  <2>3. CASE i \in 2 .. n
    BY <1>1, <1>3, <1>4, <1>10, <2>1, <2>3
  <2> QED
    BY <1>1, <2>2, <2>3
<1>13. Lifetimes' /\ BeforeBoot'
  BY <1>3, <1>4, McoAssumption DEF CInv, Agreement, Lifetimes, BeforeBoot, TypeOK
<1>14. CInv'
  BY <1>6, <1>8, <1>11, <1>12, <1>13 DEF CInv, Agreement
<1>15. Contexts => Contexts' /\ SinkIsBelow'
  BY <1>1, <1>3, <1>4, <1>12 DEF Contexts, SinksOfStarted, SinkIsBelow
<1> QED
  BY <1>9, <1>14, <1>15 DEF PInv

(* McoCreate only adds an object that nothing refers to.                     *)
LEMMA CreateInv ==
  ASSUME CInv, NEW c \in Coroutines, NEW private \in BOOLEAN,
         McoCreate(c, private)
  PROVE  fate' = "ok" /\ CInv' /\ (PInv => PInv')
<1>1. /\ fate = "ok" /\ live' = live \cup {c}
      /\ use_private' = IF private THEN use_private \cup {c} ELSE use_private
      /\ UNCHANGED <<start, running, finished, should_close, stack_store,
                     commonOccupy, common, frames, sink, callStack, slots,
                     cpu, fate>>
  BY DEF McoCreate, stack
<1>2. c \notin start /\ c \notin finished /\ c # Main
  BY McoAssumption DEF McoCreate, CInv, Agreement, Lifetimes
<1>3. \A d \in start \cup finished \cup {Main} : IsPrivate(d)' <=> IsPrivate(d)
  BY <1>1, <1>2 DEF IsPrivate
<1>4. cpu \in start \cup {Main}
  BY <1>1 DEF CInv, Agreement, TypeOK, BeforeBoot, StackShape
<1>5. Ownership'
  <2>1. \A d \in Mcos :
          d \in stack_store' <=> d \in start' /\ ~IsPrivate(d)' /\ commonOccupy' # d
    BY <1>1, <1>3 DEF CInv, Agreement, Ownership
  <2>2. commonOccupy' # Null =>
          ~IsPrivate(commonOccupy)' /\ commonOccupy' \in start' \cup finished'
    BY <1>1, <1>3 DEF CInv, Agreement, Ownership
  <2>3. IsPrivate(cpu)' \/ commonOccupy' = cpu'
    BY <1>1, <1>3, <1>4 DEF CInv, Agreement, Ownership
  <2> QED
    BY <2>1, <2>2, <2>3 DEF Ownership, IsPrivate
<1>6. TypeOK'
  BY <1>1 DEF CInv, TypeOK
<1>7. BeforeBoot' /\ StackShape' /\ SinksOfStarted' /\ Lifetimes'
  BY <1>1
     DEF CInv, Agreement, BeforeBoot, StackShape, SinksOfStarted, Lifetimes
<1>8. PInv => Contexts' /\ SinkIsBelow'
  BY <1>1 DEF PInv, Contexts, SinkIsBelow
<1> QED
  BY <1>1, <1>5, <1>6, <1>7, <1>8 DEF CInv, PInv, Agreement

(* MainMco makes the bottom entry of the call stack.                         *)
LEMMA MainMcoInv ==
  ASSUME CInv, MainMco, BootFate = "ok"
  PROVE  fate' = "ok" /\ CInv' /\ PInv'
<1>1. /\ callStack = <<>>
      /\ callStack' = <<Main>>
      /\ slots' = Larger(slots, 1)
      /\ start' = start \cup {Main}
      /\ running' = running \cup {Main}
      /\ fate = "ok"
      /\ UNCHANGED <<live, use_private, finished, should_close, stack_store,
                     commonOccupy, common, frames, sink, cpu, fate>>
  BY DEF MainMco, stack
<1>2. start = {} /\ running = {} /\ cpu = Main /\ Main \in Mcos
  BY <1>1 DEF CInv, Agreement, BeforeBoot, Mcos
<1>3. TypeOK'
  BY NextTypes DEF CInv, Next
<1>4. Ownership'
  BY <1>1, <1>2 DEF CInv, Agreement, Ownership, IsPrivate
<1>5. callStack' # <<>> /\ Len(callStack') = 1 /\ callStack'[1] = Main
  BY <1>1
<1>6. StackShape' /\ BeforeBoot' /\ SinksOfStarted'
  BY <1>1, <1>2, <1>5
     DEF CInv, Agreement, StackShape, BeforeBoot, SinksOfStarted
<1>7. Lifetimes'
  BY <1>1, McoAssumption DEF CInv, Agreement, Lifetimes, TypeOK
<1>8. Contexts' /\ SinkIsBelow'
  BY <1>1, <1>5 DEF Contexts, SinkIsBelow
<1> QED
  BY <1>1, <1>3, <1>4, <1>6, <1>7, <1>8 DEF CInv, PInv, Agreement

(* The process dies and leaves the records as they are.                      *)
LEMMA DieInv ==
  ASSUME CInv, NEW f \in Fates \ {"ok"}, Die(f)
  PROVE  CInv' /\ (PInv => PInv')
<1>1. TypeOK' /\ fate' # "ok"
  BY DieTypes DEF CInv, Die
<1>2. UNCHANGED <<callStack, sink, start>>
  BY DEF Die, flags
<1> QED
  BY <1>1, <1>2 DEF CInv, PInv, Contexts, SinkIsBelow

(* McoResume pushes, or yields to the routine that resumed the running one,  *)
(* or dies before the call stack has an entry.                               *)
LEMMA ResumeCases ==
  ASSUME CInv, Orderly, NEW c \in Mcos, McoResume(c)
  PROVE  \/ BootFate # "ok" /\ Die(BootFate)
         \/ cpu # Main /\ cpu \in running /\ SwitchToSink(cpu, FALSE)
         \/ /\ c \in Coroutines /\ c \in live /\ c \notin finished
            /\ c \notin Range(callStack) /\ Push(c)
<1> SUFFICES ASSUME ~(callStack = <<>> /\ BootFate # "ok")
             PROVE  \/ cpu # Main /\ cpu \in running /\ SwitchToSink(cpu, FALSE)
                    \/ /\ c \in Coroutines /\ c \in live /\ c \notin finished
                       /\ c \notin Range(callStack) /\ Push(c)
  BY DEF McoResume
<1>1. Agreement
  BY DEF McoResume, CInv
<1>2. CASE sink[Resumer] = c
  <2>1. callStack # <<>>
    BY <1>1, <1>2, McoAssumption
       DEF Resumer, Booted, Last, Agreement, StackShape, Mcos
  <2>2. Resumer = cpu /\ Last(callStack) = cpu /\ running = {cpu}
    BY <1>1, <2>1 DEF Resumer, Booted, Last, Agreement, StackShape
  <2>3. cpu # Main
    BY <1>1, <1>2, <2>2, McoAssumption DEF Agreement, StackShape
  <2> QED
    BY <1>2, <2>2, <2>3 DEF McoResume
<1>3. CASE sink[Resumer] # c
  <2>1. c \notin Range(callStack) /\ Push(c) /\ c \notin finished
    BY <1>3 DEF McoResume, Resumable, Orderly
  <2>2. c # Main
    <3>1. CASE callStack = <<>>
      BY <3>1, McoAssumption DEF McoResume, Handles, CInv, TypeOK
    <3>2. CASE callStack # <<>>
      <4>1. callStack \in Seq(Mcos) /\ callStack[1] = Main
        BY <1>1, <3>2 DEF CInv, TypeOK, Agreement, StackShape
      <4>2. 1 \in 1 .. Len(callStack)
        BY <3>2, <4>1
      <4> QED
        BY <2>1, <4>1, <4>2, RangeFacts
    <3> QED
      BY <3>1, <3>2
  <2>3. c \in live /\ c \in Coroutines
    BY <2>2 DEF McoResume, Handles, Mcos
  <2> QED
    BY <2>1, <2>3
<1> QED
  BY <1>2, <1>3

(* McoFree of a routine that does not run takes every reference to it away,  *)
(* but for its entry of the call stack, if it waits there.                   *)
LEMMA DeleteInv ==
  ASSUME CInv, fate = "ok", NEW c \in Coroutines, c \notin running, Delete(c)
  PROVE  /\ CInv'
         /\ PInv /\ c \notin Range(callStack) => PInv'
<1>1. /\ live' = live \ {c}
      /\ use_private' = use_private \ {c}
      /\ start' = start \ {c}
      /\ finished' = finished \ {c}
      /\ stack_store' = stack_store \ {c}
      /\ sink' = [sink EXCEPT ![c] = Null]
      /\ commonOccupy' = IF commonOccupy = c THEN Null ELSE commonOccupy
      /\ UNCHANGED <<running, callStack, cpu>>
  BY DEF Delete, OccupantWithout
<1>2. callStack \in Seq(Mcos) /\ c \in Mcos /\ c # Main
  BY McoAssumption DEF CInv, TypeOK, Mcos
<1>3. cpu # c
  BY <1>2 DEF CInv, Agreement, TypeOK, BeforeBoot, StackShape
<1>4. \A d \in Mcos \ {c} : /\ IsPrivate(d)' <=> IsPrivate(d)
                            /\ sink'[d] = sink[d]
  BY <1>1, <1>2 DEF IsPrivate, CInv, TypeOK
<1>5. TypeOK'
  <2>1. commonOccupy' \in Mcos \cup {Null} /\ fate' \in Fates
    BY <1>1 DEF Delete, Fates, CInv, TypeOK
  <2>2. sink' \in [Mcos -> Mcos \cup {Null}] /\ frames' \in [Mcos -> Vals]
    BY McoAssumption DEF Delete, CInv, TypeOK
  <2> QED
    BY <2>1, <2>2 DEF Delete, CInv, TypeOK
<1>6. Ownership'
  <2>1. \A d \in Mcos :
          d \in stack_store' <=> d \in start' /\ ~IsPrivate(d)' /\ commonOccupy' # d
    <3> SUFFICES ASSUME NEW d \in Mcos
                 PROVE  d \in stack_store' <=>
                          d \in start' /\ ~IsPrivate(d)' /\ commonOccupy' # d
      OBVIOUS
    <3>1. CASE d = c
      BY <1>1, <3>1
    <3>2. CASE d # c
      BY <1>1, <1>4, <3>2, McoAssumption DEF CInv, Agreement, Ownership
    <3> QED
      BY <3>1, <3>2
  <2>2. commonOccupy' # Null =>
          ~IsPrivate(commonOccupy)' /\ commonOccupy' \in start' \cup finished'
    BY <1>1, <1>4 DEF CInv, Agreement, Ownership, TypeOK
  <2>3. IsPrivate(cpu)' \/ commonOccupy' = cpu'
    BY <1>1, <1>3, <1>4 DEF CInv, Agreement, Ownership, TypeOK
  <2> QED
    BY <2>1, <2>2, <2>3 DEF Ownership, IsPrivate
<1>7. StackShape' /\ BeforeBoot'
  BY <1>1, <1>2, <1>3, <1>4
     DEF CInv, Agreement, StackShape, BeforeBoot, Mcos
<1>8. SinksOfStarted'
  BY <1>1, <1>2, <1>4 DEF CInv, Agreement, SinksOfStarted, TypeOK
<1>9. Lifetimes'
  BY <1>1, <1>2 DEF CInv, Agreement, Lifetimes
<1>10. ASSUME PInv, c \notin Range(callStack) PROVE Contexts' /\ SinkIsBelow'
  <2>1. \A i \in 1 .. Len(callStack) : callStack[i] # c
    BY <1>2, <1>10, RangeFacts
  <2> QED
    BY <1>1, <1>2, <1>4, <1>10, <2>1 DEF PInv, Contexts, SinkIsBelow
<1> QED
  BY <1>5, <1>6, <1>7, <1>8, <1>9, <1>10 DEF CInv, PInv, Agreement
-----------------------------------------------------------------------------
(* Every step of the runtime preserves the invariant.                        *)
LEMMA NextInv ==
  ASSUME CInv, Orderly, [Next]_vars
  PROVE  /\ CInv'
         /\ PInv /\ "free_stacked" \notin Misuse => PInv'
<1> USE DEF flags, stack
<1>1. CASE UNCHANGED vars
  BY <1>1 DEF vars, CInv, PInv, Agreement, TypeOK, BeforeBoot, StackShape,
              Contexts, SinksOfStarted, SinkIsBelow, Lifetimes, Ownership,
              IsPrivate
<1>2. CASE MainMco
  <2>1. BootFate # "ok" => BootFate \in Fates \ {"ok"} /\ Die(BootFate)
    BY <1>2 DEF MainMco, BootFate, Fates
  <2> QED
    BY <1>2, <2>1, DieInv, MainMcoInv
<1>3. CASE CoroutineRun
  <2>1. fate = "ok" /\ cpu \in running
    <3>1. callStack # <<>>
      BY <1>3 DEF CoroutineRun, CInv, Agreement, BeforeBoot
    <3> QED
      BY <1>3, <3>1 DEF CoroutineRun, CInv, Agreement, StackShape
  <2> QED
    BY <1>3, <2>1, SwitchInv DEF CoroutineRun
<1>4. ASSUME NEW c \in Coroutines, NEW private \in BOOLEAN,
             McoCreate(c, private)
      PROVE  CInv' /\ (PInv => PInv')
  BY <1>4, CreateInv
<1>5. ASSUME NEW c \in Coroutines, McoFree(c)
      PROVE  CInv' /\ (PInv /\ "free_stacked" \notin Misuse => PInv')
  <2>1. CASE c \in running
    BY <1>5, <2>1
       DEF McoFree, MarkShouldClose, CInv, PInv, Agreement, TypeOK, BeforeBoot,
           StackShape, Contexts, SinksOfStarted, SinkIsBelow, Lifetimes,
           Ownership, IsPrivate, Mcos
  <2>2. CASE c \notin running
    BY <1>5, <2>2, DeleteInv DEF McoFree
  <2> QED
    BY <2>1, <2>2
<1>6. ASSUME NEW c \in Mcos, McoResume(c) PROVE CInv' /\ (PInv => PInv')
  <2>1. fate = "ok"
    BY <1>6 DEF McoResume
  <2>2. CASE BootFate # "ok" /\ Die(BootFate)
    BY <2>2, DieInv DEF BootFate, Fates
  <2>3. CASE cpu \in running /\ SwitchToSink(cpu, FALSE)
    BY <2>1, <2>3, SwitchInv
  <2>4. CASE /\ c \in Coroutines /\ c \in live /\ c \notin finished
             /\ c \notin Range(callStack) /\ Push(c)
    BY <2>1, <2>4, PushInv
  <2> QED
    BY <1>6, <2>2, <2>3, <2>4, ResumeCases
<1>7. ASSUME NEW c \in Mcos, McoYield(c) PROVE CInv' /\ (PInv => PInv')
  BY <1>7, SwitchInv DEF McoYield
<1>8. ASSUME NEW v \in Vals, Compute(v) PROVE CInv' /\ (PInv => PInv')
  <2>1. TypeOK'
    BY <1>8, NextTypes DEF CInv, Next
  <2> QED
    BY <1>8, <2>1
       DEF Compute, CInv, PInv, Agreement, BeforeBoot, StackShape, Contexts,
           SinksOfStarted, SinkIsBelow, Lifetimes, Ownership, IsPrivate
<1> QED
  BY <1>1, <1>2, <1>3, <1>4, <1>5, <1>6, <1>7, <1>8 DEF Next

(* The repaired runtime survives the calls of a client within the contract.  *)
LEMMA NextLives ==
  ASSUME IInv, Repaired, [Next]_vars
  PROVE  IInv'
<1>1. PInv' /\ Orderly /\ CInv /\ fate = "ok" /\ BootFate = "ok"
  BY NextInv DEF IInv, PInv, Repaired, Orderly, BootFate
<1>2. ASSUME NEW c \in running, c # Main, NEW ends \in BOOLEAN,
             SwitchToSink(c, ends)
      PROVE  fate' = "ok"
  BY <1>2, SwitchLives
<1>3. CASE CoroutineRun
  <2>1. callStack # <<>>
    BY <1>1, <1>3 DEF CoroutineRun, CInv, Agreement, BeforeBoot
  <2>2. cpu \in running /\ cpu # Main
    BY <1>1, <1>3, <2>1 DEF CoroutineRun, CInv, Agreement, StackShape
  <2> QED
    BY <1>1, <1>2, <1>3, <2>2 DEF CoroutineRun, IInv
<1>4. ASSUME NEW c \in Coroutines, McoFree(c) PROVE fate' = "ok"
  BY <1>1, <1>4 DEF McoFree, MarkShouldClose, Delete, Repaired
<1>5. ASSUME NEW c \in Mcos, McoResume(c) PROVE fate' = "ok"
  BY <1>1, <1>2, <1>5, ResumeCases, PushInv
<1>6. ASSUME NEW c \in Mcos, McoYield(c) PROVE fate' = "ok"
  BY <1>2, <1>6 DEF McoYield, Repaired
<1>7. CASE UNCHANGED vars \/ MainMco \/ \E v \in Vals : Compute(v)
  BY <1>1, <1>7 DEF vars, MainMco, Compute, IInv
<1>8. ASSUME NEW c \in Coroutines, NEW private \in BOOLEAN,
             McoCreate(c, private)
      PROVE  fate' = "ok"
  BY <1>1, <1>8 DEF McoCreate
<1> QED
  BY <1>1, <1>3, <1>4, <1>5, <1>6, <1>7, <1>8 DEF Next, IInv

(* As long as nobody resumes out of order, the records of who runs, of who   *)
(* resumed whom and of whose bytes the shared stack area holds agree in      *)
(* every state in which the process has not died.                            *)
THEOREM AgreementInvariance == ASSUME Orderly PROVE Spec => []CInv
<1>1. Init => CInv
  BY InitInv DEF IInv, PInv
<1>2. CInv /\ [Next]_vars => CInv'
  BY NextInv
<1> QED
  BY <1>1, <1>2, PTL DEF Spec

(* If nobody frees a routine that waits, either, the call stack stays a path *)
(* of started routines along their sinks, in every build.                    *)
THEOREM PathInvariance ==
  ASSUME Misuse \subseteq {"yield_main", "free_fresh"}
  PROVE  Spec => []PInv
<1>1. Orderly /\ "free_stacked" \notin Misuse
  BY DEF Orderly
<1>2. Init => PInv
  BY InitInv DEF IInv
<1>3. PInv /\ [Next]_vars => PInv'
  BY <1>1, NextInv DEF PInv
<1> QED
  BY <1>2, <1>3, PTL DEF Spec

(* The repaired runtime keeps them so and never crashes.                     *)
THEOREM Invariance == ASSUME Repaired PROVE Spec => []IInv
<1>1. Init => IInv
  BY InitInv
<1>2. IInv /\ [Next]_vars => IInv'
  BY NextLives
<1> QED
  BY <1>1, <1>2, PTL DEF Spec

LEMMA IInvParts ==
  ASSUME IInv
  PROVE  /\ TypeOK /\ fate = "ok" /\ BeforeBoot /\ StackShape /\ Contexts
         /\ SinkIsBelow /\ Lifetimes /\ Ownership
BY DEF IInv, PInv, CInv, Agreement

LEMMA CInvImplies ==
  ASSUME CInv
  PROVE  RunningIsTop /\ OneCopy
<1>1. RunningIsTop
  BY DEF CInv, TypeOK, Agreement, StackShape, RunningIsTop, Last
<1>2. OneCopy
  BY DEF CInv, TypeOK, Agreement, Ownership, OneCopy
<1> QED
  BY <1>1, <1>2

(* McoResume and McoYield keep running flags, call stack and registers in    *)
(* agreement, even for a client that frees routines too early or yields the  *)
(* main one.                                                                 *)
THEOREM OneRuns == ASSUME Orderly PROVE Spec => []RunningIsTop
BY AgreementInvariance, CInvImplies, PTL

(* McoSwap keeps one valid copy of every started routine's frames, for the   *)
(* same clients: a call out of contract that goes wrong ends the process, it *)
(* never mixes two stacks.                                                   *)
THEOREM FramesHaveOneCopy == ASSUME Orderly PROVE Spec => []OneCopy
BY AgreementInvariance, CInvImplies, PTL

(* McoYield returns to the routine below: its assertion would hold, unless a *)
(* routine was resumed out of order or freed while it waited.                *)
THEOREM YieldReturnsBelow ==
  ASSUME Misuse \subseteq {"yield_main", "free_fresh"}
  PROVE  Spec => []SinkIsBelow
<1>1. PInv => SinkIsBelow
  BY DEF PInv
<1> QED
  BY <1>1, PathInvariance, PTL

(* McoSwap never enters a routine without context or without its frames, and *)
(* nothing else kills the process.                                           *)
THEOREM NeverCrashes == ASSUME Repaired PROVE Spec => []NoCrash
<1>1. IInv => NoCrash
  BY DEF IInv, NoCrash
<1> QED
  BY <1>1, Invariance, PTL
-----------------------------------------------------------------------------
(* No routine has ever been entered.                                         *)
NobodyRan ==
  /\ callStack = <<>> /\ slots = 0
  /\ cpu = Main /\ start = {} /\ running = {}

(* As committed, with McoRoutine::stackMgr unassigned, or with the assertion *)
(* of McoCallStack::operator[] compiled in, no sequence of calls ever makes  *)
(* a coroutine run.                                                          *)
THEOREM CommittedNeverRuns ==
  ASSUME Asserts \/ ~StackMgrSet
  PROVE  Spec => []NobodyRan
<1>1. Init => NobodyRan
  BY DEF Init, NobodyRan
<1>2. ASSUME NobodyRan, [Next]_vars PROVE NobodyRan'
  <2> USE DEF flags, stack
  <2>1. BootFate # "ok"
    BY <1>2 DEF BootFate, StoreAssertion, NobodyRan
  <2>2. CASE UNCHANGED vars
    BY <1>2, <2>2 DEF vars, NobodyRan
  <2>3. CASE MainMco
    BY <1>2, <2>1, <2>3 DEF MainMco, Die, NobodyRan
  <2>4. ~CoroutineRun
    BY <1>2 DEF CoroutineRun, NobodyRan
  <2>5. ASSUME NEW c \in Coroutines, NEW private \in BOOLEAN,
               McoCreate(c, private)
        PROVE  NobodyRan'
    BY <1>2, <2>5 DEF McoCreate, NobodyRan
  <2>6. ASSUME NEW c \in Coroutines, McoFree(c) PROVE NobodyRan'
    BY <1>2, <2>6 DEF McoFree, Delete, NobodyRan
  <2>7. ASSUME NEW c \in Mcos, McoResume(c) PROVE NobodyRan'
    BY <1>2, <2>1, <2>7 DEF McoResume, Die, NobodyRan
  <2>8. ASSUME NEW c \in Mcos PROVE ~McoYield(c)
    BY <1>2 DEF McoYield, NobodyRan
  <2>9. ASSUME NEW v \in Vals PROVE ~Compute(v)
    BY <1>2 DEF Compute, NobodyRan
  <2> QED
    BY <1>2, <2>2, <2>3, <2>4, <2>5, <2>6, <2>7, <2>8, <2>9 DEF Next
<1> QED
  BY <1>1, <1>2, PTL DEF Spec

=============================================================================
