---------------------------- MODULE EventLoopPool ----------------------------
(***************************************************************************)
(* base/EventLoopPool.cpp: the loops of the process by thread, and the     *)
(* choice of the loop that gets the next connection.  Every method holds   *)
(* mutex_ from its first to its last line, so a method is one step.  The   *)
(* pool object itself is made by main() before it starts a thread; module  *)
(* PoolInThreads has the race of Instance().                               *)
(***************************************************************************)
EXTENDS Naturals, Sequences, SequencesExt

CONSTANTS
  Loops,     (* the EventLoop objects                                       *)
  Tids,      (* thread ids                                                  *)
  TidOf,     (* TidOf[l] : the thread that made loop l, l->getTid()         *)
  Null

ASSUME LoopAssumption ==
  /\ TidOf \in [Loops -> Tids]
  /\ Null \notin Loops

VARIABLES
  mainLoop_,
  loops_,      (* loops_[tid]; Null if absent                               *)
  nextLoops_,
  next_,
  handed       (* what getNextLoop returned last                            *)

vars == <<mainLoop_, loops_, nextLoops_, next_, handed>>

Init ==
  /\ mainLoop_ = Null
  /\ loops_ = [tid \in Tids |-> Null]
  /\ nextLoops_ = <<>>
  /\ next_ = 0
  /\ handed = Null

(* A thread has at most one loop in the pool: the second one is refused.     *)
TidUnchecked(l) == TRUE                             \* refuses nobody
TidVacant(l) == loops_[TidOf[l]] = Null

addEventLoop(l, ismain) ==
  /\ TidVacant(l)
  /\ loops_' = [loops_ EXCEPT ![TidOf[l]] = l]
  /\ IF ismain
       THEN mainLoop_' = l /\ UNCHANGED nextLoops_
       ELSE nextLoops_' = Append(nextLoops_, l) /\ UNCHANGED mainLoop_
  /\ UNCHANGED <<next_, handed>>

(* next_ starts again at the front when it is past the end.                  *)
CursorTooEarly ==                                   \* the last one is skipped
  IF Len(nextLoops_) <= next_ + 1 THEN 0 ELSE next_
Cursor == IF Len(nextLoops_) <= next_ THEN 0 ELSE next_

(* The cursor moves past the loop that was handed out.                       *)
Skipping(cursor) == cursor + 2                      \* skips a loop
After(cursor) == cursor + 1

getNextLoop ==
  /\ IF nextLoops_ = <<>>
       THEN handed' = mainLoop_ /\ UNCHANGED next_
       ELSE handed' = nextLoops_[Cursor + 1] /\ next_' = After(Cursor)
  /\ UNCHANGED <<mainLoop_, loops_, nextLoops_>>

Next ==
  \/ getNextLoop
  \/ \E l \in Loops, ismain \in BOOLEAN : addEventLoop(l, ismain)

Spec == Init /\ [][Next]_vars

(* The accepting coroutine asks again and again.                             *)
FairSpec == Spec /\ WF_vars(getNextLoop)
-----------------------------------------------------------------------------
(* Type invariant: the cursor is a legal index or just past the end.         *)
LoopPoolTypeOK ==
  /\ mainLoop_ \in Loops \cup {Null}
  /\ loops_ \in [Tids -> Loops \cup {Null}]
  /\ nextLoops_ \in Seq(Loops)
  /\ next_ \in 0 .. Len(nextLoops_)
  /\ handed \in Loops \cup {Null}

(* getLoop(tid), by which hooked calls find the loop that waits for their    *)
(* fd, and getNextLoop agree: a loop that is handed connections or is the    *)
(* main loop is the one registered for its thread, and no loop is both or    *)
(* twice in the rotation.                                                    *)
Registered ==
  /\ \A i, j \in 1 .. Len(nextLoops_) : nextLoops_[i] = nextLoops_[j] => i = j
  /\ \A i \in 1 .. Len(nextLoops_) :
       nextLoops_[i] # mainLoop_ /\ loops_[TidOf[nextLoops_[i]]] = nextLoops_[i]
  /\ mainLoop_ # Null => loops_[TidOf[mainLoop_]] = mainLoop_

(* The loops before the cursor have been served in this round.               *)
Unserved == {nextLoops_[i] : i \in next_ + 1 .. Len(nextLoops_)}

Abs == INSTANCE RoundRobin WITH
  members <- Range(nextLoops_),
  pending <- Unserved,
  fallback <- mainLoop_,
  served <- handed

(* getNextLoop serves the registered loops in rounds, also when loops join   *)
(* in the middle of a round.                                                 *)
ServesInRounds == Abs!Spec

(* Every loop that has joined the rotation gets connections for ever.        *)
NoLoopStarves ==
  \A l \in Loops : l \in Range(nextLoops_) ~> handed = l

=============================================================================
