--------------------------- MODULE EventStreamLoop ----------------------------
(***************************************************************************)
(* services/event_stream.py with the loops of publish() and                *)
(* publish_message() as the code writes them: one put_nowait per event     *)
(* and subscriber, and the QueueFull branch that takes one item out and    *)
(* puts again.  It refines EventStream, where the loop is a closed form.   *)
(***************************************************************************)
EXTENDS EventStream

(* Mutant: on QueueFull the new event is given up. *)
PutOrGiveUp(q, ev) == IF Len(q) < QueueSize THEN Append(q, ev) ELSE q

(* put_nowait(ev); on QueueFull get_nowait() then put_nowait(ev).  With a  *)
(* slot just freed and no await in between the second put cannot fail, so  *)
(* the code's final break is not reached.                                  *)
PutDroppingOldest(q, ev) ==
  IF Len(q) < QueueSize THEN Append(q, ev) ELSE Append(Tail(q), ev)

(* for ev in events: the queue after the first i of them, up to the last.  *)
PutAll(q, events) ==
  LET after[i \in 0..Len(events)] ==
        IF i = 0 THEN q ELSE PutDroppingOldest(after[i - 1], events[i])
  IN  after[Len(events)]

PublishLoop(n) ==
  /\ items + n <= MaxItems
  /\ items' = items + n
  /\ queue' = [c \in Client |->
                 IF c \in subs THEN PutAll(queue[c], Batch(n)) ELSE queue[c]]
  /\ UNCHANGED <<subs, last>>

(* Mutant of PublishMessage: the message is given up on QueueFull. *)
PublishMessageIfRoom ==
  /\ items + 1 <= MaxItems
  /\ items' = items + 1
  /\ queue' = [c \in Client |->
                 IF c \in subs THEN PutOrGiveUp(queue[c], items + 1) ELSE queue[c]]
  /\ UNCHANGED <<subs, last>>

(* publish_message(message): the same body without the inner loop. *)
PublishMessage ==
  /\ items + 1 <= MaxItems
  /\ items' = items + 1
  /\ queue' = [c \in Client |->
                 IF c \in subs THEN PutDroppingOldest(queue[c], items + 1)
                               ELSE queue[c]]
  /\ UNCHANGED <<subs, last>>

LoopNext ==
  \/ \E c \in Client : Subscribe(c) \/ Unsubscribe(c) \/ Get(c)
  \/ \E n \in 1..MaxBatch : PublishLoop(n)
  \/ PublishMessage

LoopSpec == Init /\ [][LoopNext]_vars

(* Publishing with the code's loop does to every queue what the closed     *)
(* form of EventStream says, for every queue content and batch length:     *)
(* LoopSpec implements EventStream's Spec.                                 *)
ImplementsEventStream == Spec
=============================================================================
