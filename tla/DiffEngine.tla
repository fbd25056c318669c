------------------------------ MODULE DiffEngine ------------------------------
(***************************************************************************)
(* backend/app/services/diff_engine.py: the lifecycle events between two   *)
(* consecutive snapshots, in the order diff() appends them.                *)
(***************************************************************************)
EXTENDS Topology, SequencesExt

(* Mutant: whether the owner is still there is not looked at.              *)
OwnerWasThere(old, new, owner, k) ==
  /\ owner \in old.procs
  /\ ~ \E o \in new.conns : o.local = k.local /\ o.remote = k.remote

(* _owner_really_gone: the owner's scan entry is gone and no socket with   *)
(* the same two addresses is left.                                         *)
OwnerReallyGone(old, new, owner, k) ==
  /\ owner \in old.procs \ new.procs
  /\ ~ \E o \in new.conns : o.local = k.local /\ o.remote = k.remote

Started(p) == [type |-> "PROCESS_STARTED", node |-> p]
Stopped(p) == [type |-> "PROCESS_STOPPED", node |-> p]

Opened(new, k) ==
  [type |-> "CONNECTION_OPENED", edge |-> EdgeOf(new, k), port |-> k.port]

(* remaining and ports describe the edge in the new topology.              *)
Closed(old, new, k) ==
  LET e == EdgeOf(old, k) IN
  [type |-> "CONNECTION_CLOSED", edge |-> e,
   remaining |-> Cardinality({c \in new.conns : EdgeOf(new, c) = e}),
   ports |-> PortsOf(new, e)]

InOrder(S, Ev(_)) == LET q == SetToSeq(S) IN [i \in 1..Len(q) |-> Ev(q[i])]

Diff(old, new) ==
  LET opened == {k \in new.conns \ old.conns :
                   ~OwnerReallyGone(old, new, Owner(new, k), k)}
      closed == {k \in old.conns \ new.conns :
                   ~OwnerReallyGone(old, new, Owner(old, k), k)}
  IN  InOrder(new.procs \ old.procs, Started) \o
      InOrder(old.procs \ new.procs, Stopped) \o
      InOrder(opened, LAMBDA k : Opened(new, k)) \o
      InOrder(closed, LAMBDA k : Closed(old, new, k))
=============================================================================
