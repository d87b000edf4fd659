----------------------------- MODULE Connections -----------------------------
(***************************************************************************)
(* What the server promises to its clients, whichever thread serves them:  *)
(* connections are accepted once, in the order in which they arrived; what *)
(* a client sent is read unless the client itself discards it by a reset;  *)
(* the server closes a connection only after its client has gone and       *)
(* everything has been read, and a closed connection stays closed.         *)
(* Module Server implements this with hooks, coroutines and shared_ptrs.   *)
(***************************************************************************)
EXTENDS Naturals, Sequences

CONSTANT Conns

VARIABLES
  phase,   (* phase[c] : "new", "waiting", "open" or "closed"               *)
  queue,   (* the waiting connections                                       *)
  unread,  (* unread[c] : what c's client has sent and the server not read  *)
  gone     (* the connections whose client has closed                       *)

vars == <<phase, queue, unread, gone>>

Init ==
  /\ phase = [c \in Conns |-> "new"]
  /\ queue = <<>>
  /\ unread = [c \in Conns |-> 0]
  /\ gone = {}

Becomes(c, from, to) == phase[c] = from /\ phase' = [phase EXCEPT ![c] = to]

Connect(c) ==
  /\ Becomes(c, "new", "waiting")
  /\ queue' = Append(queue, c)
  /\ UNCHANGED <<unread, gone>>

Connected(c) == phase[c] \in {"waiting", "open"} /\ c \notin gone

Send(c) ==
  /\ Connected(c)
  /\ unread' = [unread EXCEPT ![c] = @ + 1]
  /\ UNCHANGED <<phase, queue, gone>>

(* A client that resets the connection takes back what was not read.         *)
Hangup(c) ==
  /\ Connected(c)
  /\ gone' = gone \cup {c}
  /\ unread' \in {unread, [unread EXCEPT ![c] = 0]}
  /\ UNCHANGED <<phase, queue>>

Accept(c) ==
  /\ queue # <<>> /\ c = Head(queue)
  /\ Becomes(c, "waiting", "open")
  /\ queue' = Tail(queue)
  /\ UNCHANGED <<unread, gone>>

Read(c) ==
  /\ phase[c] = "open" /\ unread[c] > 0
  /\ unread' = [unread EXCEPT ![c] = @ - 1]
  /\ UNCHANGED <<phase, queue, gone>>

Close(c) ==
  /\ c \in gone /\ unread[c] = 0
  /\ Becomes(c, "open", "closed")
  /\ UNCHANGED <<queue, unread, gone>>

Next ==
  \E c \in Conns :
    Connect(c) \/ Send(c) \/ Hangup(c) \/ Accept(c) \/ Read(c) \/ Close(c)

Spec == Init /\ [][Next]_vars

=============================================================================
