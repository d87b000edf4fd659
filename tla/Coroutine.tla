------------------------------ MODULE Coroutine ------------------------------
(***************************************************************************)
(* What the coroutine runtime of mco/ promises to the code of one thread,  *)
(* without saying how: a coroutine is resumed by whoever runs, control     *)
(* comes back to the resumer at a yield or at the end, and nobody but the  *)
(* coroutine itself ever changes the contents of its stack.                *)
(* Module Mco implements this specification with call-stack slots, flags   *)
(* and one stack area shared by all coroutines.                            *)
(***************************************************************************)
EXTENDS Sequences, SequencesExt

CONSTANTS
  Coroutines,  (* the routines McoCreate may hand out                       *)
  Main,        (* the thread's own flow of control                          *)
  Vals,        (* what a coroutine's frames may contain                     *)
  Blank        (* the contents of a stack on which nothing was computed yet *)

VARIABLES
  status,      (* status[c] : where coroutine c is in its life              *)
  control,     (* who resumed whom: the last element runs                   *)
  local        (* local[c] : the contents of c's frames                     *)

vars == <<status, control, local>>

Running == Last(control)

Init ==
  /\ status = [c \in Coroutines |-> "absent"]
  /\ control = <<Main>>
  /\ local = [c \in Coroutines |-> Blank]

(* A new coroutine exists and has not run yet. *)
Create(c) ==
  /\ status[c] = "absent"
  /\ status' = [status EXCEPT ![c] = "fresh"]
  /\ UNCHANGED <<control, local>>

(* The running code gives control to a coroutine that waits for it. *)
Resume(c) ==
  /\ status[c] \in {"fresh", "suspended"}
  /\ status' = [status EXCEPT ![c] = "active"]
  /\ control' = Append(control, c)
  /\ UNCHANGED local

(* The running coroutine gives control back to its resumer. *)
Yield ==
  /\ Running # Main
  /\ status' = [status EXCEPT ![Running] = "suspended"]
  /\ control' = Front(control)
  /\ UNCHANGED local

(* The running coroutine's function returned or threw: it never runs again. *)
Finish ==
  /\ Running # Main
  /\ status' = [status EXCEPT ![Running] = "finished"]
  /\ control' = Front(control)
  /\ local' = [local EXCEPT ![Running] = Blank]

(* A coroutine that was resumed and does not wait for another goes away.    *)
Free(c) ==
  /\ status[c] \in {"suspended", "finished"}
  /\ status' = [status EXCEPT ![c] = "absent"]
  /\ local' = [local EXCEPT ![c] = Blank]
  /\ UNCHANGED control

(* The running coroutine changes the contents of its own frames. *)
Compute(v) ==
  /\ Running # Main
  /\ local' = [local EXCEPT ![Running] = v]
  /\ UNCHANGED <<status, control>>

Next ==
  \/ \E c \in Coroutines : Create(c) \/ Resume(c) \/ Free(c)
  \/ Yield
  \/ Finish
  \/ \E v \in Vals : Compute(v)

Spec == Init /\ [][Next]_vars

=============================================================================
