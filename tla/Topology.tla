------------------------------- MODULE Topology -------------------------------
(***************************************************************************)
(* backend/app/services/topology.py: TopologyEngine.build as a function of *)
(* a collector snapshot.  A snapshot s has s.procs, the processes the scan *)
(* saw, s.conns, the sockets psutil listed, and s.shown, the endpoints     *)
(* that got a node of their own: the code lets them in in enumeration      *)
(* order until a cap is reached, and that order is psutil's.               *)
(*                                                                         *)
(* A socket k is a record: k.pid (a process or NoPid), k.kind, k.local and *)
(* k.remote (its two addresses), k.end (the endpoint node of its remote    *)
(* address, or of its own when listening) and k.port (the port the edge    *)
(* lists).  The record is its lifecycle key: it leaves the TCP state out.  *)
(***************************************************************************)
EXTENDS Integers, FiniteSets

CONSTANTS
  Proc,       \* stable process ids
  Conn,       \* sockets
  Sys,        \* SYSTEM_NODE_ID
  NoPid,      \* pid None: a socket Windows does not attribute
  Cap         \* Cap[kind]: max_listen_nodes, max_external_nodes, max_loc_nodes

Kinds == {"listening", "external", "localhost"}

(* Ids of processes, of SYSTEM and of endpoints do not meet: each carries  *)
(* its kind in front.                                                      *)
ASSUME TopologyAssumption ==
  /\ IsFiniteSet(Proc) /\ IsFiniteSet(Conn)
  /\ Sys \notin Proc
  /\ \A k \in Conn : k.kind \in Kinds /\ k.end \notin Proc
  /\ (Kinds \X (Proc \union {Sys})) \intersect Proc = {}

(* NetworkCollector.collect: owner_map, read through the processes the     *)
(* scan before it saw; build() maps an unowned socket to SYSTEM.           *)
Owner(s, k) == IF k.pid \in s.procs THEN k.pid ELSE Sys

(* Pass 1: the other side of a loopback connection, when both sides are    *)
(* listed and belong to two different processes.                           *)
Peers(s, k) ==
  {o \in s.conns : /\ k.kind = "localhost" /\ o.kind = "localhost"
                   /\ o.local = k.remote /\ o.remote = k.local
                   /\ Owner(s, k) # Sys /\ Owner(s, o) # Sys
                   /\ Owner(s, k) # Owner(s, o)}
Paired(s, k) == Peers(s, k) # {}

(* Pass 2: the endpoints that compete for nodes, and which sets of them    *)
(* the caps let in.                                                        *)
Wanted(procs, conns, kind) ==
  {k.end : k \in {c \in conns : c.kind = kind
                    /\ ~Paired([procs |-> procs, conns |-> conns], c)}}
WithinCaps(procs, conns, shown) ==
  \A kind \in Kinds :
    LET wanted == Wanted(procs, conns, kind) IN
    Cardinality(shown \intersect wanted)
      = IF Cardinality(wanted) <= Cap[kind] THEN Cardinality(wanted) ELSE Cap[kind]

(* _target, and pass 3: the edge a socket is drawn as.  An edge is named   *)
(* by its kind and its two endpoints; a set, as _canon makes the id of an  *)
(* undirected edge independent of the side seen first.                     *)
Target(s, k) ==
  IF Paired(s, k) THEN (CHOOSE o \in Peers(s, k) : TRUE).pid
  ELSE IF k.end \in s.shown THEN k.end ELSE <<k.kind, Owner(s, k)>>
EdgeOf(s, k) == [kind |-> k.kind, ends |-> {Owner(s, k), Target(s, k)}]

Edges(s) == {EdgeOf(s, k) : k \in s.conns}
Nodes(s) == {Sys} \union s.procs \union {Target(s, k) : k \in s.conns}
PortsOf(s, e) == {k.port : k \in {c \in s.conns : EdgeOf(s, c) = e}}

(* The snapshots the collectors can return: psutil lists a socket once.    *)
Snapshots ==
  {s \in [procs : SUBSET Proc, conns : SUBSET Conn,
          shown : SUBSET {k.end : k \in Conn}] :
     /\ \A k, o \in s.conns : k.local = o.local /\ k.remote = o.remote => k = o
     /\ s.shown \subseteq UNION {Wanted(s.procs, s.conns, kind) : kind \in Kinds}
     /\ WithinCaps(s.procs, s.conns, s.shown)}
=============================================================================
