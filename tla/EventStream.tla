----------------------------- MODULE EventStream ------------------------------
(***************************************************************************)
(* backend/app/services/event_stream.py: the in-process publish/subscribe  *)
(* bus between the backend's loops (collector, telemetry, GPU, infra, AI)  *)
(* and the WebSocket endpoint's connections.                               *)
(*                                                                         *)
(* An item is abstracted to its position in the order of publication: the  *)
(* k-th item ever published is the number k.  Everything runs on one       *)
(* asyncio loop and no method awaits, so each method is one step.          *)
(* publish() handles its list of events with a loop per subscriber; what   *)
(* the loop does to a queue is stated here in closed form (Latest) and     *)
(* EventStreamLoop, which has the loop, is proved to implement this.       *)
(***************************************************************************)
EXTENDS BoundedQueue

CONSTANTS
  Client,     \* the connections that may subscribe
  QueueSize,  \* EventStream(queue_size), cfg.event_queue_size
  MaxBatch,   \* bound: the longest list one publish() call carries
  MaxItems    \* bound: items published in a behaviour

ASSUME StreamAssumption ==
  /\ QueueSize \in Nat \ {0}
  /\ MaxBatch \in Nat \ {0}
  /\ MaxItems \in Nat

VARIABLES
  subs,   \* self._subs: the subscribed clients
  queue,  \* queue[c]: c's asyncio.Queue, empty while c is not subscribed
  items,  \* how many items have been published
  last    \* history: the last item c took, or items when c subscribed

vars == <<subs, queue, items, last>>

Init ==
  /\ subs = {}
  /\ queue = [c \in Client |-> <<>>]
  /\ items = 0
  /\ last = [c \in Client |-> 0]

(* A new connection gets an empty queue: it sees later items only. *)
Subscribe(c) ==
  /\ c \notin subs
  /\ subs' = subs \union {c}
  /\ queue' = [queue EXCEPT ![c] = <<>>]
  /\ last' = [last EXCEPT ![c] = items]
  /\ UNCHANGED items

(* The queue object is garbage once the endpoint has left. *)
Unsubscribe(c) ==
  /\ c \in subs
  /\ subs' = subs \ {c}
  /\ queue' = [queue EXCEPT ![c] = <<>>]
  /\ last' = [last EXCEPT ![c] = 0]
  /\ UNCHANGED items

(* The items of one publish() call of n events; publish_message() is n = 1. *)
Batch(n) == [i \in 1..n |-> items + i]

Publish(n) ==
  /\ items + n <= MaxItems
  /\ items' = items + n
  /\ queue' = [c \in Client |->
                 IF c \in subs THEN Latest(queue[c] \o Batch(n), QueueSize)
                               ELSE queue[c]]
  /\ UNCHANGED <<subs, last>>

(* Mutant of Get: the newest item first. *)
GetNewest(c) ==
  /\ c \in subs
  /\ queue[c] # <<>>
  /\ queue' = [queue EXCEPT ![c] = SubSeq(@, 1, Len(@) - 1)]
  /\ last' = [last EXCEPT ![c] = queue[c][Len(queue[c])]]
  /\ UNCHANGED <<subs, items>>

(* The endpoint takes the oldest item: await queue.get() or get_nowait(). *)
Get(c) ==
  /\ c \in subs
  /\ queue[c] # <<>>
  /\ queue' = [queue EXCEPT ![c] = Tail(@)]
  /\ last' = [last EXCEPT ![c] = Head(queue[c])]
  /\ UNCHANGED <<subs, items>>

Next ==
  \/ \E c \in Client : Subscribe(c) \/ Unsubscribe(c) \/ Get(c)
  \/ \E n \in 1..MaxBatch : Publish(n)

Spec == Init /\ [][Next]_vars

-----------------------------------------------------------------------------
TypeOK ==
  /\ subs \in SUBSET Client
  /\ queue \in [Client -> Seq(Nat)]
  /\ items \in Nat
  /\ last \in [Client -> Nat]

(* What a slow client still has waiting is exactly the newest items it has *)
(* not taken, consecutive and in order, as many as the queue has slots     *)
(* for: an item is lost only to a newer one, and never while a slot is     *)
(* free (publish's "drop the oldest event, keep the newest").              *)
QueueIsNewestWindow ==
  \A c \in subs :
    /\ last[c] <= items
    /\ Len(queue[c]) = Least(QueueSize, items - last[c])
    /\ \A i \in 1..Len(queue[c]) : queue[c][i] = items - Len(queue[c]) + i

(* The promise subscribers rely on: EventStream implements the lossy,      *)
(* ordered, duplicate-free feed of LossyFeed, whoever else is subscribed   *)
(* and however slow they are.                                              *)
Feed == INSTANCE LossyFeed WITH
          Client <- Client, QueueSize <- QueueSize, MaxBatch <- MaxBatch,
          subs <- subs, items <- items, last <- last
ImplementsLossyFeed == Feed!Spec
=============================================================================
