------------------------------ MODULE ClientGraph -----------------------------
(***************************************************************************)
(* frontend/src/graph/GraphController.ts: the graph a client keeps from a  *)
(* snapshot (replaceAll) and lifecycle events (applyEvent).  Removals are  *)
(* not immediate: the element fades, and a timer removes it 600 ms later   *)
(* unless it was wanted again.  All these timers have the same delay, so   *)
(* they fire in the order they were set.                                   *)
(***************************************************************************)
EXTENDS Integers, Sequences, FiniteSets

VARIABLES
  nodes,         \* the Cytoscape nodes
  edges,         \* the Cytoscape edges
  ports,         \* ports[e]: data('ports') of edge e
  pendingNodes,  \* pendingNodeRemoves
  pendingEdges,  \* pendingEdgeRemoves
  timers         \* window.setTimeout callbacks of the two fade functions

graph == <<nodes, edges, ports, pendingNodes, pendingEdges, timers>>

(* cy.remove() on a node takes its connected edges along.                  *)
Incident(n) == {e \in edges : n \in e.ends}

(* Mutant: the pending removal is not cancelled.                           *)
UpsertNodeKeepsFade(n) ==
  /\ nodes' = nodes \union {n}
  /\ UNCHANGED <<edges, ports, pendingNodes, pendingEdges, timers>>

UpsertNode(n) ==
  /\ nodes' = nodes \union {n}
  /\ pendingNodes' = pendingNodes \ {n}
  /\ UNCHANGED <<edges, ports, pendingEdges, timers>>

FadeRemoveNode(n) ==
  /\ pendingNodes' = IF n \in nodes THEN pendingNodes \union {n} ELSE pendingNodes
  /\ timers' = IF n \in nodes THEN Append(timers, [node |-> n]) ELSE timers
  /\ UNCHANGED <<nodes, edges, ports, pendingEdges>>

(* Mutant of OpenEdge: the pending removal of the edge stays.              *)
OpenEdgeKeepsFade(e, port) ==
  /\ nodes' = nodes \union e.ends
  /\ pendingNodes' = pendingNodes \ e.ends
  /\ edges' = edges \union {e}
  /\ ports' = [ports EXCEPT ![e] = IF e \in edges THEN @ \union {port} ELSE {port}]
  /\ UNCHANGED <<pendingEdges, timers>>

(* CONNECTION_OPENED: both endpoints are upserted, then the edge; an edge  *)
(* that is there keeps its ports and stops fading.  pendingEdgeRemoves is  *)
(* only cleared on that path.                                              *)
OpenEdge(e, port) ==
  /\ nodes' = nodes \union e.ends
  /\ pendingNodes' = pendingNodes \ e.ends
  /\ edges' = edges \union {e}
  /\ ports' = [ports EXCEPT ![e] = IF e \in edges THEN @ \union {port} ELSE {port}]
  /\ pendingEdges' = IF e \in edges THEN pendingEdges \ {e} ELSE pendingEdges
  /\ UNCHANGED timers

(* Mutant: the ports are merged.                                           *)
MergePorts(e, list) ==
  /\ ports' = IF e \in edges THEN [ports EXCEPT ![e] = @ \union list] ELSE ports
  /\ UNCHANGED <<nodes, edges, pendingNodes, pendingEdges, timers>>

(* CONNECTION_CLOSED with sockets remaining: upsertEdgePorts replaces.     *)
ReplacePorts(e, list) ==
  /\ ports' = IF e \in edges THEN [ports EXCEPT ![e] = list] ELSE ports
  /\ UNCHANGED <<nodes, edges, pendingNodes, pendingEdges, timers>>

(* CONNECTION_CLOSED with none remaining: fadeRemoveEdge.                  *)
FadeRemoveEdge(e) ==
  /\ pendingEdges' = IF e \in edges THEN pendingEdges \union {e} ELSE pendingEdges
  /\ timers' = IF e \in edges THEN Append(timers, [edge |-> e]) ELSE timers
  /\ UNCHANGED <<nodes, edges, ports, pendingNodes>>

ApplyEvent(ev) ==
  CASE ev.type = "PROCESS_STARTED" -> UpsertNode(ev.node)
    [] ev.type = "PROCESS_STOPPED" -> FadeRemoveNode(ev.node)
    [] ev.type = "CONNECTION_OPENED" -> OpenEdge(ev.edge, ev.port)
    [] ev.type = "CONNECTION_CLOSED" ->
         IF ev.remaining > 0 THEN ReplacePorts(ev.edge, ev.ports)
                             ELSE FadeRemoveEdge(ev.edge)

(* Mutant: the mark is not taken back.                                     *)
NodeTimerKeepsMark(n) ==
  /\ timers' = Tail(timers)
  /\ nodes' = IF n \in pendingNodes THEN nodes \ {n} ELSE nodes
  /\ edges' = IF n \in pendingNodes THEN edges \ Incident(n) ELSE edges
  /\ UNCHANGED <<ports, pendingNodes, pendingEdges>>

(* A timer callback removes its element only if that is still pending.     *)
NodeTimer(n) ==
  /\ timers' = Tail(timers)
  /\ pendingNodes' = pendingNodes \ {n}
  /\ nodes' = IF n \in pendingNodes THEN nodes \ {n} ELSE nodes
  /\ edges' = IF n \in pendingNodes THEN edges \ Incident(n) ELSE edges
  /\ UNCHANGED <<ports, pendingEdges>>

EdgeTimer(e) ==
  /\ timers' = Tail(timers)
  /\ pendingEdges' = pendingEdges \ {e}
  /\ edges' = IF e \in pendingEdges THEN edges \ {e} ELSE edges
  /\ UNCHANGED <<nodes, ports, pendingNodes>>

FireTimer ==
  /\ timers # <<>>
  /\ IF "node" \in DOMAIN Head(timers) THEN NodeTimer(Head(timers).node)
                                       ELSE EdgeTimer(Head(timers).edge)

(* replaceAll: what was pending is forgotten, its timers still fire.       *)
ReplaceGraph(newNodes, newEdges, newPorts) ==
  /\ nodes' = newNodes
  /\ edges' = newEdges
  /\ ports' = newPorts
  /\ pendingNodes' = {}
  /\ pendingEdges' = {}
  /\ UNCHANGED timers

(* What is on the screen for good: not on its way out.                     *)
StandingNodes == nodes \ pendingNodes
StandingEdges == {e \in edges \ pendingEdges : e.ends \intersect pendingNodes = {}}
=============================================================================
