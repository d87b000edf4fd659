--------------------------- MODULE MovingCoroutines ---------------------------
(***************************************************************************)
(* What the coroutine runtime promises to a program of several threads     *)
(* that hand coroutines to each other, without flags, call-stack slots,    *)
(* stack managers or shared areas: whichever threads a coroutine visits,   *)
(* it is active on one at a time, goes back to whoever resumed it there,   *)
(* and finds its own frames wherever it goes on.  Coroutine is the promise *)
(* to one thread.                                                          *)
(***************************************************************************)
EXTENDS Sequences, SequencesExt

CONSTANTS
  Threads,     (* each also names its own flow of control                   *)
  Coroutines,  (* the routines McoCreate may hand out                       *)
  Null

VARIABLES
  status,      (* status[c] : where coroutine c is in its life              *)
  control,     (* control[t] : who resumed whom on t; the last one runs     *)
  contents     (* contents[c] : whose frames c finds on its stack           *)

vars == <<status, control, contents>>

Running(t) == Last(control[t])

Init ==
  /\ status = [c \in Coroutines |-> "absent"]
  /\ control = [t \in Threads |-> <<t>>]
  /\ contents = [c \in Coroutines |-> Null]

(* A new coroutine exists and has not run yet.                               *)
Create(c) ==
  /\ status[c] = "absent"
  /\ status' = [status EXCEPT ![c] = "fresh"]
  /\ UNCHANGED <<control, contents>>

(* What runs on t gives control to a coroutine that is nowhere active.       *)
Resume(t, c) ==
  /\ status[c] \in {"fresh", "suspended"}
  /\ status' = [status EXCEPT ![c] = "active"]
  /\ control' = [control EXCEPT ![t] = Append(@, c)]
  /\ contents' = IF status[c] = "fresh" THEN [contents EXCEPT ![c] = c]
                 ELSE contents

(* The coroutine that runs on t gives control back to its resumer.           *)
Yield(t) ==
  /\ Running(t) # t
  /\ status' = [status EXCEPT ![Running(t)] = "suspended"]
  /\ control' = [control EXCEPT ![t] = Front(@)]
  /\ UNCHANGED contents

(* Its function returned or threw: it never runs again.                      *)
Finish(t) ==
  /\ Running(t) # t
  /\ status' = [status EXCEPT ![Running(t)] = "finished"]
  /\ control' = [control EXCEPT ![t] = Front(@)]
  /\ contents' = [contents EXCEPT ![Running(t)] = Null]

(* A coroutine that was resumed and is nowhere active goes away.             *)
Free(c) ==
  /\ status[c] \in {"suspended", "finished"}
  /\ status' = [status EXCEPT ![c] = "absent"]
  /\ contents' = [contents EXCEPT ![c] = Null]
  /\ UNCHANGED control

Next ==
  \/ \E c \in Coroutines : Create(c) \/ Free(c)
  \/ \E t \in Threads :
       Yield(t) \/ Finish(t) \/ \E c \in Coroutines : Resume(t, c)

Spec == Init /\ [][Next]_vars

=============================================================================
