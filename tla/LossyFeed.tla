------------------------------ MODULE LossyFeed -------------------------------
(***************************************************************************)
(* What services/event_stream.py promises a subscriber, with no queues:    *)
(* items are numbered as they are published, a reader remembers only how   *)
(* far it has read, and its next item is the oldest it has not read among  *)
(* the QueueSize newest.  Hence items arrive in order, none twice, and one *)
(* is skipped only when QueueSize newer ones were already waiting.         *)
(***************************************************************************)
EXTENDS BoundedQueue

CONSTANTS Client, QueueSize, MaxBatch

VARIABLES subs, items, last

vars == <<subs, items, last>>

Init ==
  /\ subs = {}
  /\ items = 0
  /\ last = [c \in Client |-> 0]

Join(c) ==
  /\ c \notin subs
  /\ subs' = subs \union {c}
  /\ last' = [last EXCEPT ![c] = items]
  /\ UNCHANGED items

Leave(c) ==
  /\ c \in subs
  /\ subs' = subs \ {c}
  /\ last' = [last EXCEPT ![c] = 0]
  /\ UNCHANGED items

Publish(n) ==
  /\ items' = items + n
  /\ UNCHANGED <<subs, last>>

Deliver(c) ==
  /\ c \in subs
  /\ last[c] < items
  /\ last' = [last EXCEPT ![c] = Greatest(@, items - QueueSize) + 1]
  /\ UNCHANGED <<subs, items>>

Next ==
  \/ \E c \in Client : Join(c) \/ Leave(c) \/ Deliver(c)
  \/ \E n \in 1..MaxBatch : Publish(n)

Spec == Init /\ [][Next]_vars
=============================================================================
