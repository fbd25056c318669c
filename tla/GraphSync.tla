------------------------------- MODULE GraphSync ------------------------------
(***************************************************************************)
(* Does a client that applies every lifecycle event show the topology the  *)
(* server has?  Collector ticks (Topology, DiffEngine) feed the events to  *)
(* one client (ClientGraph) through a lossless ordered channel; what loss  *)
(* does is the subject of LiveFeed.                                        *)
(***************************************************************************)
EXTENDS DiffEngine, ClientGraph

CONSTANTS
  MaxTicks,    \* bound: collector ticks
  MaxBehind,   \* bound: events on their way when a tick starts
  MaxChanges   \* bound: processes and sockets that come or go in a tick

ASSUME BoundsAssumption == MaxTicks \in Nat /\ MaxBehind \in Nat /\ MaxChanges \in Nat

VARIABLES
  snap,    \* the server's snapshot: DiffEngine._prev_snap
  inbox,   \* events published and not yet applied
  odd,     \* history: the edges something unusual happened to, by what it was
  behind,  \* history: a tick came before the client was done with the last
  ticks    \* ticks so far

vars == <<graph, snap, inbox, odd, behind, ticks>>

AllEdges == UNION {Edges(s) : s \in Snapshots}

(* moved: a socket left or took on the edge without an event.  spared: the *)
(* edge was fading with an end that was wanted again.  reopened: it was    *)
(* opened while it was fading.  doomed: it was opened anew after its node  *)
(* had gone and before its own fade timer fired.                           *)
Nothing == [moved |-> {}, spared |-> {}, reopened |-> {}, doomed |-> {}]

(* The baseline: the processes are there, their sockets not yet; a client  *)
(* has its snapshot.                                                       *)
Init ==
  /\ snap \in {s \in Snapshots : s.procs = Proc /\ s.conns = {}}
  /\ nodes = Nodes(snap) /\ edges = Edges(snap)
  /\ ports = [e \in AllEdges |-> PortsOf(snap, e)]
  /\ pendingNodes = {} /\ pendingEdges = {} /\ timers = <<>>
  /\ inbox = <<>> /\ odd = Nothing /\ behind = FALSE /\ ticks = 0

(* Sockets in both snapshots whose edge differs: their key did not change, *)
(* so diff() has nothing to say about them.                                *)
Retargeted(old, new) ==
  {k \in old.conns \intersect new.conns : EdgeOf(old, k) # EdgeOf(new, k)}
Moved(old, new) == {EdgeOf(s, k) : s \in {old, new}, k \in Retargeted(old, new)}

Changes(old, new) ==
  (old.procs \ new.procs) \union (new.procs \ old.procs) \union
  (old.conns \ new.conns) \union (new.conns \ old.conns)

Tick(new) ==
  /\ ticks < MaxTicks
  /\ Len(inbox) <= MaxBehind
  /\ Cardinality(Changes(snap, new)) <= MaxChanges
  /\ ticks' = ticks + 1
  /\ snap' = new
  /\ inbox' = inbox \o Diff(snap, new)
  /\ odd' = [odd EXCEPT !.moved = @ \union Moved(snap, new)]
  /\ behind' = (behind \/ inbox # <<>> \/ timers # <<>>)
  /\ UNCHANGED graph

Apply ==
  /\ inbox # <<>>
  /\ ApplyEvent(Head(inbox))
  /\ inbox' = Tail(inbox)
  /\ LET opened == IF Head(inbox).type = "CONNECTION_OPENED"
                   THEN {Head(inbox).edge} ELSE {}
         fading == edges \ StandingEdges
     IN  odd' = [odd EXCEPT
           !.spared = @ \union {e \in fading \ pendingEdges :
                                 e.ends \intersect pendingNodes' = {}},
           !.reopened = @ \union (opened \intersect fading),
           !.doomed = @ \union (opened \intersect (pendingEdges \ edges))]
  /\ UNCHANGED <<snap, behind, ticks>>

Fire ==
  /\ FireTimer
  /\ UNCHANGED <<snap, inbox, odd, behind, ticks>>

(* The socket was lost and is back: a snapshot replaces the graph.         *)
Reconnect ==
  /\ ReplaceGraph(Nodes(snap), Edges(snap), [e \in AllEdges |-> PortsOf(snap, e)])
  /\ inbox' = <<>>
  /\ odd' = Nothing
  /\ UNCHANGED <<snap, behind, ticks>>

Next ==
  \/ \E new \in Snapshots : Tick(new)
  \/ Apply
  \/ Fire
  \/ Reconnect

Spec == Init /\ [][Next]_vars

-----------------------------------------------------------------------------
(* Types; and no edge hangs in the air, whatever order stops, opens,       *)
(* closes and fade timers come in: both its ends are drawn.                *)
TypeOK ==
  /\ snap \in Snapshots
  /\ edges \subseteq AllEdges /\ pendingEdges \subseteq AllEdges
  /\ \A e \in edges : e.ends \subseteq nodes
  /\ odd \in [DOMAIN Nothing -> SUBSET AllEdges]
  /\ ports \in [AllEdges -> SUBSET {k.port : k \in Conn}]
  /\ pendingNodes \subseteq nodes
  /\ behind \in BOOLEAN
  /\ ticks \in 0..MaxTicks

(* Once it has applied everything, a client shows the processes of the     *)
(* server's snapshot: a stop is never undone by a late timer or event.     *)
ProcessesInSync == inbox = <<>> => StandingNodes \intersect Proc = snap.procs

(* A client whose fades (600 ms) end before the next tick (1 s) differs    *)
(* from the server only where a socket silently moved to another edge:     *)
(* diff() compares socket keys.  One that lags also where these happened.  *)
Unusual(oddities) == odd.moved \union (IF behind THEN oddities ELSE {})

(* ... and its edges.  None is missing, but one that the stale timer of an *)
(* earlier edge of that name takes away.                                   *)
EdgesInSync ==
  inbox = <<>> => Edges(snap) \ Unusual(odd.doomed) \subseteq StandingEdges

(* ... and none is left over, although the closes of a stopped process are *)
(* never sent: except on a node that was wanted again while it was fading, *)
(* which keeps the edges it should have taken along.                       *)
NoGhostEdge ==
  inbox = <<>> => StandingEdges \ Unusual(odd.spared) \subseteq Edges(snap)

(* An edge has the ports of its sockets, unless one of the above happened  *)
(* to it or it was reopened before its fading ended.                       *)
PortsInSync ==
  inbox = <<>> =>
    \A e \in StandingEdges \ Unusual(odd.doomed \union odd.spared \union odd.reopened) :
      ports[e] = PortsOf(snap, e)
=============================================================================
