----------------------------- MODULE RoundRobin -----------------------------
(***************************************************************************)
(* What EventLoopPool promises to the accepting coroutine: new connections *)
(* go to the loops in rounds, and in one round every loop that has joined  *)
(* gets one connection.  With no loop they go to the fallback.             *)
(***************************************************************************)
CONSTANTS Loops, Null

VARIABLES
  members,   (* the loops that take part                                    *)
  pending,   (* those not served yet in this round                          *)
  fallback,  (* who is served while there is no member                      *)
  served     (* who was served last                                         *)

vars == <<members, pending, fallback, served>>

Init ==
  /\ members = {}
  /\ pending = {}
  /\ fallback = Null
  /\ served = Null

Join(l) ==
  /\ l \notin members
  /\ members' = members \cup {l}
  /\ pending' = pending \cup {l}
  /\ UNCHANGED <<fallback, served>>

SetFallback(l) ==
  /\ l \notin members
  /\ fallback' = l
  /\ UNCHANGED <<members, pending, served>>

(* A round ends when nobody is pending; the next one has every member.       *)
Round == IF pending = {} THEN members ELSE pending

Serve(l) ==
  /\ l \in Round
  /\ pending' = Round \ {l}
  /\ served' = l
  /\ UNCHANGED <<members, fallback>>

ServeFallback ==
  /\ members = {}
  /\ served' = fallback
  /\ UNCHANGED <<members, pending, fallback>>

Next ==
  \/ \E l \in Loops : Join(l) \/ SetFallback(l) \/ Serve(l)
  \/ ServeFallback

Spec == Init /\ [][Next]_vars

=============================================================================
