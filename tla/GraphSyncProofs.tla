---------------------------- MODULE GraphSyncProofs ---------------------------
(***************************************************************************)
(* What a client shows is what the server has, for any processes, sockets, *)
(* caps and bounds: every invariant of GraphSync.  They speak of a client  *)
(* that has applied everything, and are not inductive: what such a client  *)
(* shows was decided by the events it had not applied before.  Foretold    *)
(* says what these will leave of each process, edge and list of ports.     *)
(***************************************************************************)
EXTENDS GraphSync, ListingLemmas, TLAPS

Port == {k.port : k \in Conn}

Event ==
  [type : {"PROCESS_STARTED", "PROCESS_STOPPED"}, node : Proc]
    \union [type : {"CONNECTION_OPENED"}, edge : AllEdges, port : Port]
    \union [type : {"CONNECTION_CLOSED"}, edge : AllEdges, remaining : Nat,
            ports : SUBSET Port]

(* The events that put a process, an edge or a port on the screen for good, *)
(* and those that take it away.                                            *)
Starts(p) == {ev \in Event : \/ ev.type = "PROCESS_STARTED" /\ ev.node = p
                             \/ ev.type = "CONNECTION_OPENED" /\ p \in ev.edge.ends}
Stops(p)  == {ev \in Event : ev.type = "PROCESS_STOPPED" /\ ev.node = p}
Opens(e)  == {ev \in Event : ev.type = "CONNECTION_OPENED" /\ ev.edge = e}
Ends(e)   == {ev \in Event : \/ ev.type = "CONNECTION_CLOSED" /\ ev.edge = e /\ ev.remaining = 0
                             \/ ev.type = "PROCESS_STOPPED" /\ ev.node \in e.ends}
Sets(e)   == {ev \in Event : ev.type = "CONNECTION_CLOSED" /\ ev.edge = e /\ ev.remaining > 0}
Lists(e, q) == {ev \in Opens(e) : ev.port = q} \union {ev \in Sets(e) : q \in ev.ports}
Resets(e) == Ends(e) \union Sets(e)

(* The ports of an edge that stands; one that fades or is gone starts anew. *)
Shown(e) == IF e \in StandingEdges THEN ports[e] ELSE {}

(* What the client will show after the first n events on their way.        *)
WillRun(p, n)     == Holds(inbox, n, Starts(p), Stops(p), p, StandingNodes)
WillStand(e, n)   == Holds(inbox, n, Opens(e), Ends(e), e, StandingEdges)
WillList(e, q, n) == Holds(inbox, n, Lists(e, q), Resets(e), q, Shown(e))

Doubtful == odd.moved \union odd.doomed \union odd.spared \union odd.reopened

RunsForetold == \A p \in Proc : WillRun(p, Len(inbox)) <=> p \in snap.procs
EdgesForetold ==
  /\ \A e \in Edges(snap) \ (odd.moved \union odd.doomed) : WillStand(e, Len(inbox))
  /\ \A e \in AllEdges \ (Edges(snap) \union odd.moved \union odd.spared) :
       ~WillStand(e, Len(inbox))
(* The new ports of an edge find it standing.                              *)
ListsMeet ==
  \A i \in 1..Len(inbox) : \A e \in AllEdges \ (odd.moved \union odd.doomed) :
    inbox[i] \in Sets(e) => WillStand(e, i - 1)
PortsForetold ==
  \A e \in AllEdges \ Doubtful : \A q \in Port :
    WillList(e, q, Len(inbox)) <=> q \in PortsOf(snap, e)

(* What is pending has a timer.                                            *)
Timed ==
  /\ \A n \in pendingNodes : \E i \in 1..Len(timers) : timers[i] = [node |-> n]
  /\ \A e \in pendingEdges : \E i \in 1..Len(timers) : timers[i] = [edge |-> e]

(* A client that keeps up meets nothing unusual but moved sockets: the     *)
(* events of a tick come in an order that makes no pending element wanted. *)
Calm ==
  ~behind =>
    /\ odd.doomed = {} /\ odd.spared = {} /\ odd.reopened = {}
    /\ \A i, j \in 1..Len(inbox) :
         /\ inbox[j].type = "CONNECTION_OPENED" =>
              pendingEdges = {} /\ (inbox[i].type = "CONNECTION_CLOSED" => j < i)
         /\ \A p \in Proc : inbox[j] \in Starts(p) =>
              p \notin pendingNodes /\ (inbox[i] \in Stops(p) => j < i)

Types ==
  /\ TypeOK
  /\ inbox \in Seq(Event)
  /\ timers \in Seq([node : Proc] \union [edge : AllEdges])
  /\ pendingNodes \subseteq Proc

IInv ==
  /\ Types /\ Timed /\ Calm
  /\ RunsForetold /\ EdgesForetold /\ ListsMeet /\ PortsForetold

-----------------------------------------------------------------------------
(* Topologies.                                                             *)
LEMMA SnapshotType ==
  ASSUME NEW s \in Snapshots
  PROVE  s.procs \subseteq Proc /\ s.conns \subseteq Conn
BY DEF Snapshots

(* The ends of an edge are nodes of its topology, and no processes but its. *)
LEMMA EdgeEnds ==
  ASSUME NEW s \in Snapshots, NEW k \in s.conns
  PROVE  /\ EdgeOf(s, k).ends \subseteq Nodes(s)
         /\ EdgeOf(s, k).ends \intersect Proc \subseteq s.procs
         /\ Owner(s, k) \in EdgeOf(s, k).ends
         /\ Target(s, k) \in Proc => Target(s, k) \in s.procs
<1>1. s.procs \subseteq Proc /\ k \in Conn
  BY SnapshotType
<1>2. Owner(s, k) \in s.procs \union {Sys}
  BY DEF Owner
<1>3. Target(s, k) \in Proc => Target(s, k) \in s.procs
  <2>1. CASE Paired(s, k)
    <3>1. PICK o \in Peers(s, k) : Target(s, k) = o.pid
      BY <2>1 DEF Target, Paired
    <3>2. Owner(s, o) # Sys
      BY DEF Peers
    <3> QED BY <3>1, <3>2 DEF Owner
  <2>2. CASE ~Paired(s, k) /\ k.end \in s.shown
    BY <1>1, <2>2, TopologyAssumption DEF Target
  <2>3. CASE ~Paired(s, k) /\ k.end \notin s.shown
    <3>1. Target(s, k) = <<k.kind, Owner(s, k)>>
      BY <2>3 DEF Target
    <3>2. <<k.kind, Owner(s, k)>> \in Kinds \X (Proc \union {Sys})
      BY <1>1, <1>2, TopologyAssumption
    <3> QED BY <3>1, <3>2, TopologyAssumption
  <2> QED BY <2>1, <2>2, <2>3
<1>4. EdgeOf(s, k).ends = {Owner(s, k), Target(s, k)}
  BY DEF EdgeOf
<1> QED BY <1>2, <1>3, <1>4, TopologyAssumption DEF Nodes

LEMMA EdgesKnown ==
  ASSUME NEW s \in Snapshots
  PROVE  /\ Edges(s) \subseteq AllEdges
         /\ \A e \in Edges(s) : /\ e.ends \subseteq Nodes(s)
                                /\ e.ends \intersect Proc \subseteq s.procs
         /\ Nodes(s) \intersect Proc = s.procs
<1>1. Edges(s) \subseteq AllEdges
  BY DEF AllEdges
<1>2. \A e \in Edges(s) : /\ e.ends \subseteq Nodes(s)
                          /\ e.ends \intersect Proc \subseteq s.procs
  BY EdgeEnds DEF Edges
<1>3. Nodes(s) \intersect Proc = s.procs
  <2>1. \A n \in {Target(s, k) : k \in s.conns} \intersect Proc : n \in s.procs
    BY EdgeEnds
  <2> QED BY <2>1, SnapshotType, TopologyAssumption DEF Nodes
<1> QED BY <1>1, <1>2, <1>3

(* build()'s first pass: the two sides of a loopback connection between    *)
(* processes are one edge, whichever side is met first, and it runs from   *)
(* one of the processes to the other.                                      *)
THEOREM PairIsOneEdge ==
  ASSUME NEW s \in Snapshots, NEW k \in s.conns, NEW o \in Peers(s, k)
  PROVE  /\ Peers(s, k) = {o} /\ Peers(s, o) = {k}
         /\ EdgeOf(s, o) = EdgeOf(s, k)
         /\ EdgeOf(s, k).ends = {k.pid, o.pid}
         /\ k.pid \in s.procs /\ o.pid \in s.procs /\ k.pid # o.pid
<1>1. \A x, y \in s.conns : x.local = y.local /\ x.remote = y.remote => x = y
  BY DEF Snapshots
<1>2. /\ o \in s.conns /\ k.kind = "localhost" /\ o.kind = "localhost"
      /\ o.local = k.remote /\ o.remote = k.local
      /\ Owner(s, k) # Sys /\ Owner(s, o) # Sys /\ Owner(s, k) # Owner(s, o)
  BY DEF Peers
<1>3. k \in Peers(s, o)
  BY <1>2 DEF Peers
<1>4. \A x \in s.conns : \A y, z \in Peers(s, x) : y = z
  BY <1>1 DEF Peers
<1>5. Peers(s, k) = {o} /\ Peers(s, o) = {k}
  BY <1>2, <1>3, <1>4
<1>6. /\ Owner(s, k) = k.pid /\ k.pid \in s.procs
      /\ Owner(s, o) = o.pid /\ o.pid \in s.procs
  BY <1>2 DEF Owner
<1>7. Target(s, k) = o.pid /\ Target(s, o) = k.pid
  BY <1>5 DEF Target, Paired
<1>8. EdgeOf(s, k) = [kind |-> k.kind, ends |-> {k.pid, o.pid}]
  BY <1>6, <1>7 DEF EdgeOf
<1>9. EdgeOf(s, o) = [kind |-> o.kind, ends |-> {o.pid, k.pid}]
  BY <1>6, <1>7 DEF EdgeOf
<1>10. EdgeOf(s, o) = EdgeOf(s, k)
  <2>1. {o.pid, k.pid} = {k.pid, o.pid}
    OBVIOUS
  <2> QED BY <1>2, <1>8, <1>9, <2>1
<1> QED BY <1>2, <1>5, <1>6, <1>8, <1>10

LEMMA PortsKnown ==
  ASSUME NEW s \in Snapshots, NEW e
  PROVE  /\ PortsOf(s, e) \subseteq Port
         /\ \A q : q \in PortsOf(s, e) <=> \E k \in s.conns : EdgeOf(s, k) = e /\ k.port = q
         /\ e \notin Edges(s) => PortsOf(s, e) = {}
<1>1. s.conns \subseteq Conn
  BY SnapshotType
<1>2. \A q : q \in PortsOf(s, e) <=> \E k \in s.conns : EdgeOf(s, k) = e /\ k.port = q
  BY DEF PortsOf
<1>3. PortsOf(s, e) \subseteq Port
  BY <1>1, <1>2 DEF Port
<1> QED BY <1>2, <1>3 DEF Edges

-----------------------------------------------------------------------------
(* The events of a tick: what diff() reports of which sockets.             *)
NewlyOpen(old, new) ==
  {k \in new.conns \ old.conns : ~OwnerReallyGone(old, new, Owner(new, k), k)}
NewlyClosed(old, new) ==
  {k \in old.conns \ new.conns : ~OwnerReallyGone(old, new, Owner(old, k), k)}

LEMMA FiniteParts ==
  ASSUME NEW old \in Snapshots, NEW new \in Snapshots
  PROVE  /\ IsFiniteSet(new.procs \ old.procs) /\ IsFiniteSet(old.procs \ new.procs)
         /\ IsFiniteSet(NewlyOpen(old, new)) /\ IsFiniteSet(NewlyClosed(old, new))
         /\ \A e : IsFiniteSet({c \in new.conns : EdgeOf(new, c) = e})
<1>1. /\ new.procs \ old.procs \in SUBSET Proc /\ old.procs \ new.procs \in SUBSET Proc
      /\ NewlyOpen(old, new) \in SUBSET Conn /\ NewlyClosed(old, new) \in SUBSET Conn
      /\ \A e : {c \in new.conns : EdgeOf(new, c) = e} \in SUBSET Conn
  BY SnapshotType DEF NewlyOpen, NewlyClosed
<1> QED BY <1>1, FS_Subset, TopologyAssumption

(* A socket is counted as remaining on an edge of the new topology only.   *)
LEMMA ClosedType ==
  ASSUME NEW old \in Snapshots, NEW new \in Snapshots, NEW k \in old.conns
  PROVE  /\ Closed(old, new, k) \in Event
         /\ Closed(old, new, k).remaining > 0 <=> EdgeOf(old, k) \in Edges(new)
<1> DEFINE e == EdgeOf(old, k)
           left == {c \in new.conns : EdgeOf(new, c) = e}
<1>1. e \in AllEdges
  BY EdgesKnown DEF Edges
<1>2. Cardinality(left) \in Nat /\ (Cardinality(left) = 0 <=> left = {})
  BY FiniteParts, FS_CardinalityType, FS_EmptySet
<1>3. left = {} <=> e \notin Edges(new)
  BY DEF Edges
<1>4. PortsOf(new, e) \subseteq Port
  BY PortsKnown
<1>5. Closed(old, new, k) = [type |-> "CONNECTION_CLOSED", edge |-> e,
                             remaining |-> Cardinality(left), ports |-> PortsOf(new, e)]
  BY DEF Closed
<1> HIDE DEF e, left
<1>6. Closed(old, new, k) \in Event
  BY <1>1, <1>2, <1>4, <1>5 DEF Event
<1> QED BY <1>2, <1>3, <1>5, <1>6 DEF e

LEMMA OpenedType ==
  ASSUME NEW new \in Snapshots, NEW k \in new.conns
  PROVE  Opened(new, k) \in Event
<1>1. EdgeOf(new, k) \in AllEdges /\ k.port \in Port
  BY EdgesKnown, SnapshotType DEF Edges, Port
<1> QED BY <1>1 DEF Opened, Event

(* Entries from+1, from+2, ... of `all` are those of `list`.               *)
PartAt(list, from, all) ==
  /\ from \in Nat /\ from + Len(list) <= Len(all)
  /\ \A i \in 1..Len(list) : all[from + i] = list[i]

(* The entries of four lists after one another.                            *)
LEMMA FourLists ==
  ASSUME NEW S, NEW a \in Seq(S), NEW b \in Seq(S), NEW c \in Seq(S), NEW d \in Seq(S)
  PROVE  /\ a \o b \o c \o d \in Seq(S)
         /\ Len(a \o b \o c \o d) = Len(a) + Len(b) + Len(c) + Len(d)
         /\ PartAt(a, 0, a \o b \o c \o d)
         /\ PartAt(b, Len(a), a \o b \o c \o d)
         /\ PartAt(c, Len(a) + Len(b), a \o b \o c \o d)
         /\ PartAt(d, Len(a) + Len(b) + Len(c), a \o b \o c \o d)
<1> DEFINE ab == a \o b
           abc == ab \o c
           all == abc \o d
<1>1. /\ ab \in Seq(S) /\ Len(ab) = Len(a) + Len(b)
      /\ \A i \in 1..Len(a) : ab[i] = a[i] /\ i \in 1..Len(ab)
      /\ \A i \in 1..Len(b) : ab[Len(a) + i] = b[i] /\ Len(a) + i \in 1..Len(ab)
  OBVIOUS
<1> HIDE DEF ab
<1>2. /\ abc \in Seq(S) /\ Len(abc) = Len(ab) + Len(c)
      /\ \A i \in 1..Len(ab) : abc[i] = ab[i] /\ i \in 1..Len(abc)
      /\ \A i \in 1..Len(c) : abc[Len(ab) + i] = c[i] /\ Len(ab) + i \in 1..Len(abc)
  BY <1>1, TwoLists
<1> HIDE DEF abc
<1>8. abc \in Seq(S)
  BY <1>2
<1>3. /\ all \in Seq(S) /\ Len(all) = Len(abc) + Len(d)
      /\ \A i \in 1..Len(abc) : all[i] = abc[i]
      /\ \A i \in 1..Len(d) : all[Len(abc) + i] = d[i]
  BY <1>8, TwoLists
<1> HIDE DEF all
<1>4. /\ \A i \in 1..Len(a) : all[0 + i] = a[i]
      /\ \A i \in 1..Len(b) : all[Len(a) + i] = b[i]
  <2>1. \A i \in 1..Len(a) : all[i] = a[i] /\ 0 + i = i
    BY <1>1, <1>2, <1>3
  <2>2. \A i \in 1..Len(b) : all[Len(a) + i] = b[i]
    BY <1>1, <1>2, <1>3
  <2> QED BY <2>1, <2>2
<1>5. \A i \in 1..Len(c) : all[Len(a) + Len(b) + i] = c[i]
  BY <1>1, <1>2, <1>3
<1>6. \A i \in 1..Len(d) : all[Len(a) + Len(b) + Len(c) + i] = d[i]
  BY <1>1, <1>2, <1>3
<1>7. Len(all) = Len(a) + Len(b) + Len(c) + Len(d)
  BY <1>1, <1>2, <1>3
<1>9. Len(a) \in Nat /\ Len(b) \in Nat /\ Len(c) \in Nat /\ Len(d) \in Nat
  OBVIOUS
<1>10. /\ PartAt(a, 0, all) /\ PartAt(b, Len(a), all) /\ PartAt(c, Len(a) + Len(b), all)
       /\ PartAt(d, Len(a) + Len(b) + Len(c), all)
  BY <1>4, <1>5, <1>6, <1>7, <1>9 DEF PartAt
<1> QED BY <1>3, <1>7, <1>10 DEF all, abc, ab

(* A list of events, one for each element of a set.                        *)
Reports(list, set, events) ==
  /\ list \in Seq(Event)
  /\ \A i \in 1..Len(list) : \E x \in set : list[i] = events[x]
  /\ \A x \in set : \E i \in 1..Len(list) : list[i] = events[x]

LEMMA InOrderReports ==
  ASSUME NEW S, IsFiniteSet(S), NEW events \in [S -> Event]
  PROVE  LET q == SetToSeq(S) IN Reports([i \in 1..Len(q) |-> events[q[i]]], S, events)
<1> DEFINE q == SetToSeq(S)
           list == [i \in 1..Len(q) |-> events[q[i]]]
<1>1. /\ q \in Seq(S) /\ \A i \in 1..Len(q) : q[i] \in S
      /\ \A x \in S : \E i \in 1..Len(q) : q[i] = x
  BY SetToSeqLists
<1> HIDE DEF q
<1>2. Len(q) \in Nat /\ list \in [1..Len(q) -> Event]
  BY <1>1
<1>3. list \in Seq(Event) /\ Len(list) = Len(q)
  BY <1>2, FunctionIsSeq
<1>4. \A i \in 1..Len(q) : list[i] = events[q[i]]
  OBVIOUS
<1> HIDE DEF list
<1>5. Reports(list, S, events)
  BY <1>1, <1>3, <1>4 DEF Reports
<1> QED BY <1>5 DEF list, q

Starting(old, new) == [p \in new.procs \ old.procs |-> Started(p)]
Stopping(old, new) == [p \in old.procs \ new.procs |-> Stopped(p)]
Opening(old, new)  == [k \in NewlyOpen(old, new) |-> Opened(new, k)]
Closing(old, new)  == [k \in NewlyClosed(old, new) |-> Closed(old, new, k)]

(* diff() reports starts, stops, opened sockets and closed ones, in turn.  *)
LEMMA DiffInParts ==
  ASSUME NEW old \in Snapshots, NEW new \in Snapshots
  PROVE  \E a, b, c, d :
           /\ Diff(old, new) = a \o b \o c \o d
           /\ Reports(a, new.procs \ old.procs, Starting(old, new))
           /\ Reports(b, old.procs \ new.procs, Stopping(old, new))
           /\ Reports(c, NewlyOpen(old, new), Opening(old, new))
           /\ Reports(d, NewlyClosed(old, new), Closing(old, new))
<1> DEFINE Sa == new.procs \ old.procs
           Sb == old.procs \ new.procs
           Sc == NewlyOpen(old, new)
           Sd == NewlyClosed(old, new)
           a == [i \in 1..Len(SetToSeq(Sa)) |-> Starting(old, new)[SetToSeq(Sa)[i]]]
           b == [i \in 1..Len(SetToSeq(Sb)) |-> Stopping(old, new)[SetToSeq(Sb)[i]]]
           c == [i \in 1..Len(SetToSeq(Sc)) |-> Opening(old, new)[SetToSeq(Sc)[i]]]
           d == [i \in 1..Len(SetToSeq(Sd)) |-> Closing(old, new)[SetToSeq(Sd)[i]]]
<1>1. /\ Starting(old, new) \in [Sa -> Event] /\ Stopping(old, new) \in [Sb -> Event]
  BY SnapshotType DEF Starting, Stopping, Started, Stopped, Event
<1>2. Opening(old, new) \in [Sc -> Event]
  BY OpenedType DEF Opening, NewlyOpen
<1>3. Closing(old, new) \in [Sd -> Event]
  BY ClosedType DEF Closing, NewlyClosed
<1>4. IsFiniteSet(Sa) /\ IsFiniteSet(Sb) /\ IsFiniteSet(Sc) /\ IsFiniteSet(Sd)
  BY FiniteParts
<1> HIDE DEF Sa, Sb, Sc, Sd
<1>5. Reports(a, Sa, Starting(old, new)) /\ Reports(b, Sb, Stopping(old, new))
  BY <1>1, <1>4, InOrderReports
<1>6. Reports(c, Sc, Opening(old, new)) /\ Reports(d, Sd, Closing(old, new))
  BY <1>2, <1>3, <1>4, InOrderReports
<1>7. Diff(old, new) = a \o b \o c \o d
  <2>1. a = [i \in 1..Len(SetToSeq(Sa)) |-> Started(SetToSeq(Sa)[i])]
    <3>1. \A i \in 1..Len(SetToSeq(Sa)) : SetToSeq(Sa)[i] \in Sa
      BY <1>4, SetToSeqLists
    <3>2. \A p \in Sa : Starting(old, new)[p] = Started(p)
      BY DEF Starting, Sa
    <3> QED BY <3>1, <3>2
  <2>2. b = [i \in 1..Len(SetToSeq(Sb)) |-> Stopped(SetToSeq(Sb)[i])]
    <3>1. \A i \in 1..Len(SetToSeq(Sb)) : SetToSeq(Sb)[i] \in Sb
      BY <1>4, SetToSeqLists
    <3>2. \A p \in Sb : Stopping(old, new)[p] = Stopped(p)
      BY DEF Stopping, Sb
    <3> QED BY <3>1, <3>2
  <2>3. c = [i \in 1..Len(SetToSeq(Sc)) |-> Opened(new, SetToSeq(Sc)[i])]
    <3>1. \A i \in 1..Len(SetToSeq(Sc)) : SetToSeq(Sc)[i] \in Sc
      BY <1>4, SetToSeqLists
    <3>2. \A k \in Sc : Opening(old, new)[k] = Opened(new, k)
      BY DEF Opening, Sc
    <3> QED BY <3>1, <3>2
  <2>4. d = [i \in 1..Len(SetToSeq(Sd)) |-> Closed(old, new, SetToSeq(Sd)[i])]
    <3>1. \A i \in 1..Len(SetToSeq(Sd)) : SetToSeq(Sd)[i] \in Sd
      BY <1>4, SetToSeqLists
    <3>2. \A k \in Sd : Closing(old, new)[k] = Closed(old, new, k)
      BY DEF Closing, Sd
    <3> QED BY <3>1, <3>2
  <2> HIDE DEF a, b, c, d
  <2> QED BY <2>1, <2>2, <2>3, <2>4 DEF Diff, InOrder, Sa, Sb, Sc, Sd, NewlyOpen, NewlyClosed
<1> QED BY <1>5, <1>6, <1>7 DEF Sa, Sb, Sc, Sd

(* One list of events within a longer one.                                 *)
LEMMA PartOfList ==
  ASSUME NEW list, NEW set, NEW events, Reports(list, set, events),
         NEW all \in Seq(Event), NEW from, PartAt(list, from, all)
  PROVE  /\ \A i \in 1..Len(list) : \E x \in set : all[from + i] = events[x]
         /\ \A x \in set : \E i \in 1..Len(all) : all[i] = events[x]
<1>1. Len(list) \in Nat /\ Len(all) \in Nat
  BY DEF Reports
<1>2. \A i \in 1..Len(list) : from + i \in 1..Len(all)
  BY <1>1 DEF PartAt
<1>3. \A i \in 1..Len(list) : \E x \in set : all[from + i] = events[x]
  BY DEF Reports, PartAt
<1>4. ASSUME NEW x \in set PROVE \E i \in 1..Len(all) : all[i] = events[x]
  <2>1. PICK i \in 1..Len(list) : list[i] = events[x]
    BY DEF Reports
  <2>2. from + i \in 1..Len(all) /\ all[from + i] = events[x]
    BY <1>2, <2>1 DEF PartAt
  <2> QED BY <2>2
<1> QED BY <1>3, <1>4

(* Hence what the events of a tick are, and in which order they come.      *)
LEMMA DiffEvents ==
  ASSUME NEW old \in Snapshots, NEW new \in Snapshots
  PROVE  LET D == Diff(old, new)
         IN  /\ D \in Seq(Event)
             /\ \A i \in 1..Len(D) :
                  \/ \E p \in new.procs \ old.procs : D[i] = Started(p)
                  \/ \E p \in old.procs \ new.procs : D[i] = Stopped(p)
                  \/ \E k \in NewlyOpen(old, new) : D[i] = Opened(new, k)
                  \/ \E k \in NewlyClosed(old, new) : D[i] = Closed(old, new, k)
             /\ \A p \in new.procs \ old.procs : \E i \in 1..Len(D) : D[i] = Started(p)
             /\ \A p \in old.procs \ new.procs : \E i \in 1..Len(D) : D[i] = Stopped(p)
             /\ \A k \in NewlyOpen(old, new) : \E i \in 1..Len(D) : D[i] = Opened(new, k)
             /\ \A k \in NewlyClosed(old, new) : \E i \in 1..Len(D) : D[i] = Closed(old, new, k)
             /\ \A i, j \in 1..Len(D) :
                  /\ D[i].type = "CONNECTION_CLOSED" /\ D[j].type = "CONNECTION_OPENED" => j < i
                  /\ D[i].type = "PROCESS_STOPPED" /\ D[j].type = "PROCESS_STARTED" => j < i
<1> DEFINE D == Diff(old, new)
           ins  == new.procs \ old.procs
           outs == old.procs \ new.procs
<1>1. PICK a, b, c, d :
           /\ Diff(old, new) = a \o b \o c \o d
           /\ Reports(a, new.procs \ old.procs, Starting(old, new))
           /\ Reports(b, old.procs \ new.procs, Stopping(old, new))
           /\ Reports(c, NewlyOpen(old, new), Opening(old, new))
           /\ Reports(d, NewlyClosed(old, new), Closing(old, new))
  BY DiffInParts
<1>2. /\ Reports(a, ins, Starting(old, new)) /\ Reports(b, outs, Stopping(old, new))
      /\ Reports(c, NewlyOpen(old, new), Opening(old, new))
      /\ Reports(d, NewlyClosed(old, new), Closing(old, new))
  BY <1>1
<1>3. a \in Seq(Event) /\ b \in Seq(Event) /\ c \in Seq(Event) /\ d \in Seq(Event)
  BY <1>2 DEF Reports
<1> DEFINE all == a \o b \o c \o d
           la == Len(a)
           m  == Len(a) + Len(b)
           n  == Len(a) + Len(b) + Len(c)
<1>4. D = all
  BY <1>1
<1>5. all \in Seq(Event) /\ Len(all) = n + Len(d)
  BY <1>3, FourLists
<1>8. PartAt(a, 0, all) /\ PartAt(b, la, all) /\ PartAt(c, m, all) /\ PartAt(d, n, all)
  BY <1>3, FourLists
<1> HIDE DEF all, D
<1>6. /\ la \in Nat /\ m \in Nat /\ n \in Nat /\ Len(b) \in Nat /\ Len(c) \in Nat
      /\ Len(d) \in Nat /\ m = la + Len(b) /\ n = m + Len(c) /\ Len(a) = la
  BY <1>3
<1> HIDE DEF la, m, n, ins, outs
<1>7. D \in Seq(Event) /\ Len(D) = n + Len(d)
  BY <1>4, <1>5
<1>9. PartAt(a, 0, D) /\ PartAt(b, la, D) /\ PartAt(c, m, D) /\ PartAt(d, n, D)
  BY <1>4, <1>8
<1>12. /\ \A i \in 1..Len(a) : \E x \in ins : D[0 + i] = Starting(old, new)[x]
       /\ \A x \in ins : \E i \in 1..Len(D) : D[i] = Starting(old, new)[x]
  <2>1. Reports(a, ins, Starting(old, new)) /\ PartAt(a, 0, D)
    BY <1>2, <1>9
  <2> QED BY <1>7, <2>1, PartOfList
<1>13. /\ \A i \in 1..Len(b) : \E x \in outs : D[la + i] = Stopping(old, new)[x]
       /\ \A x \in outs : \E i \in 1..Len(D) : D[i] = Stopping(old, new)[x]
  <2>1. Reports(b, outs, Stopping(old, new)) /\ PartAt(b, la, D)
    BY <1>2, <1>9
  <2> QED BY <1>7, <2>1, PartOfList
<1>14. /\ \A i \in 1..Len(c) : \E x \in NewlyOpen(old, new) : D[m + i] = Opening(old, new)[x]
       /\ \A x \in NewlyOpen(old, new) : \E i \in 1..Len(D) : D[i] = Opening(old, new)[x]
  <2>1. Reports(c, NewlyOpen(old, new), Opening(old, new)) /\ PartAt(c, m, D)
    BY <1>2, <1>9
  <2> QED BY <1>7, <2>1, PartOfList
<1>15. /\ \A i \in 1..Len(d) : \E x \in NewlyClosed(old, new) : D[n + i] = Closing(old, new)[x]
       /\ \A x \in NewlyClosed(old, new) : \E i \in 1..Len(D) : D[i] = Closing(old, new)[x]
  <2>1. Reports(d, NewlyClosed(old, new), Closing(old, new)) /\ PartAt(d, n, D)
    BY <1>2, <1>9
  <2> QED BY <1>7, <2>1, PartOfList
<1>16. /\ \A p \in ins : Starting(old, new)[p] = Started(p)
       /\ \A p \in outs : Stopping(old, new)[p] = Stopped(p)
  BY DEF Starting, Stopping, ins, outs
<1>17. /\ \A k \in NewlyOpen(old, new) : Opening(old, new)[k] = Opened(new, k)
       /\ \A k \in NewlyClosed(old, new) : Closing(old, new)[k] = Closed(old, new, k)
  BY DEF Opening, Closing
<1>18. \A i \in 1..Len(D) : \/ i \in 1..Len(a) /\ 0 + i = i
                            \/ i - la \in 1..Len(b) /\ la + (i - la) = i
                            \/ i - m \in 1..Len(c) /\ m + (i - m) = i
                            \/ i - n \in 1..Len(d) /\ n + (i - n) = i
  BY <1>6, <1>7
<1>19. ASSUME NEW i \in 1..Len(D)
       PROVE  /\ \/ \E p \in ins : D[i] = Started(p)
                 \/ \E p \in outs : D[i] = Stopped(p)
                 \/ \E k \in NewlyOpen(old, new) : D[i] = Opened(new, k)
                 \/ \E k \in NewlyClosed(old, new) : D[i] = Closed(old, new, k)
              /\ D[i].type = "PROCESS_STARTED" => i <= la
              /\ D[i].type = "PROCESS_STOPPED" => i > la
              /\ D[i].type = "CONNECTION_OPENED" => i <= n
              /\ D[i].type = "CONNECTION_CLOSED" => i > n
  <2>1. CASE i \in 1..Len(a) /\ 0 + i = i
    <3>1. PICK p \in ins : D[i] = Started(p)
      BY <1>12, <1>16, <2>1
    <3>2. D[i].type = "PROCESS_STARTED"
      BY <3>1 DEF Started
    <3>3. i <= la
      BY <1>6, <2>1
    <3> QED BY <3>1, <3>2, <3>3
  <2>2. CASE i - la \in 1..Len(b) /\ la + (i - la) = i
    <3>1. PICK p \in outs : D[i] = Stopped(p)
      BY <1>13, <1>16, <2>2
    <3>2. D[i].type = "PROCESS_STOPPED"
      BY <3>1 DEF Stopped
    <3>3. i > la
      BY <1>6, <2>2
    <3> QED BY <3>1, <3>2, <3>3
  <2>3. CASE i - m \in 1..Len(c) /\ m + (i - m) = i
    <3>1. PICK k \in NewlyOpen(old, new) : D[i] = Opened(new, k)
      BY <1>14, <1>17, <2>3
    <3>2. D[i].type = "CONNECTION_OPENED"
      BY <3>1 DEF Opened
    <3>3. i <= n
      BY <1>6, <2>3
    <3> QED BY <3>1, <3>2, <3>3
  <2>4. CASE i - n \in 1..Len(d) /\ n + (i - n) = i
    <3>1. PICK k \in NewlyClosed(old, new) : D[i] = Closed(old, new, k)
      BY <1>15, <1>17, <2>4
    <3>2. D[i].type = "CONNECTION_CLOSED"
      BY <3>1 DEF Closed
    <3>3. i > n /\ i > la
      BY <1>6, <2>4
    <3> QED BY <3>1, <3>2, <3>3
  <2> QED BY <1>18, <2>1, <2>2, <2>3, <2>4
<1>20. ASSUME NEW i \in 1..Len(D), NEW j \in 1..Len(D)
       PROVE  /\ D[i].type = "CONNECTION_CLOSED" /\ D[j].type = "CONNECTION_OPENED" => j < i
              /\ D[i].type = "PROCESS_STOPPED" /\ D[j].type = "PROCESS_STARTED" => j < i
  BY <1>6, <1>19
<1>21. /\ \A p \in ins : \E i \in 1..Len(D) : D[i] = Started(p)
       /\ \A p \in outs : \E i \in 1..Len(D) : D[i] = Stopped(p)
  BY <1>12, <1>13, <1>16
<1>22. /\ \A k \in NewlyOpen(old, new) : \E i \in 1..Len(D) : D[i] = Opened(new, k)
       /\ \A k \in NewlyClosed(old, new) : \E i \in 1..Len(D) : D[i] = Closed(old, new, k)
  BY <1>14, <1>15, <1>17
<1>23. \A i \in 1..Len(D) : \/ \E p \in ins : D[i] = Started(p)
                            \/ \E p \in outs : D[i] = Stopped(p)
                            \/ \E k \in NewlyOpen(old, new) : D[i] = Opened(new, k)
                            \/ \E k \in NewlyClosed(old, new) : D[i] = Closed(old, new, k)
  BY <1>19
<1> QED BY <1>7, <1>20, <1>21, <1>22, <1>23 DEF D, ins, outs

-----------------------------------------------------------------------------
(* What these events do to processes and edges.                            *)
LEMMA EventKinds ==
  /\ \A ev, p : ev \in Starts(p) => ev \in Event /\ ev.type \in {"PROCESS_STARTED", "CONNECTION_OPENED"}
  /\ \A ev, p : ev \in Stops(p) <=> ev \in Event /\ ev.type = "PROCESS_STOPPED" /\ ev.node = p
  /\ \A ev, e : ev \in Opens(e) <=> ev \in Event /\ ev.type = "CONNECTION_OPENED" /\ ev.edge = e
  /\ \A ev, e : ev \in Sets(e) <=> /\ ev \in Event /\ ev.type = "CONNECTION_CLOSED"
                                   /\ ev.edge = e /\ ev.remaining > 0
  /\ \A ev, e : ev \in Ends(e) => ev \in Event /\ ev.type \in {"CONNECTION_CLOSED", "PROCESS_STOPPED"}
BY DEF Starts, Stops, Opens, Sets, Ends

LEMMA NotReallyGone ==
  ASSUME NEW old \in Snapshots, NEW new \in Snapshots, NEW k \in new.conns
  PROVE  ~OwnerReallyGone(old, new, Owner(new, k), k)
<1>1. Owner(new, k) \in new.procs \union {Sys}
  BY DEF Owner
<1>2. old.procs \subseteq Proc
  BY SnapshotType
<1> QED BY <1>1, <1>2, TopologyAssumption DEF OwnerReallyGone

LEMMA DiffMeans ==
  ASSUME NEW old \in Snapshots, NEW new \in Snapshots, NEW i \in 1..Len(Diff(old, new))
  PROVE  LET ev == Diff(old, new)[i]
         IN  /\ ev \in Event
             /\ \A p \in Proc : ev \in Starts(p) => p \in new.procs
             /\ \A p : ev \in Stops(p) => p \in old.procs \ new.procs
             /\ \A e : ev \in Opens(e) =>
                  \E k \in new.conns : EdgeOf(new, k) = e /\ ev.port = k.port
             /\ \A e : ev \in Ends(e) => e \notin Edges(new)
             /\ \A e : ev \in Sets(e) => e \in Edges(new) /\ ev.ports = PortsOf(new, e)
<1> DEFINE ev == Diff(old, new)[i]
<1>1. ev \in Event
  BY DiffEvents
<1>2. \/ \E p \in new.procs \ old.procs : ev = Started(p)
      \/ \E p \in old.procs \ new.procs : ev = Stopped(p)
      \/ \E k \in NewlyOpen(old, new) : ev = Opened(new, k)
      \/ \E k \in NewlyClosed(old, new) : ev = Closed(old, new, k)
  BY DiffEvents
<1> HIDE DEF ev
<1>3. ASSUME NEW p \in new.procs \ old.procs, ev = Started(p)
      PROVE  /\ ev.type = "PROCESS_STARTED" /\ ev.node = p
             /\ \A q \in Proc : ev \in Starts(q) => q \in new.procs
    BY <1>3 DEF Started, Starts
<1>4. ASSUME NEW p \in old.procs \ new.procs, ev = Stopped(p)
      PROVE  /\ ev.type = "PROCESS_STOPPED" /\ ev.node = p
             /\ \A e : ev \in Ends(e) => e \notin Edges(new)
  <2>1. ev.type = "PROCESS_STOPPED" /\ ev.node = p /\ p \in Proc
    BY <1>4, SnapshotType DEF Stopped
  <2>2. ASSUME NEW e, ev \in Ends(e), e \in Edges(new) PROVE FALSE
    <3>1. p \in e.ends
      BY <2>1, <2>2 DEF Ends
    <3> QED BY <2>1, <2>2, <3>1, EdgesKnown
  <2> QED BY <2>1, <2>2
<1>5. ASSUME NEW k \in NewlyOpen(old, new), ev = Opened(new, k)
      PROVE  /\ ev.type = "CONNECTION_OPENED" /\ ev.edge = EdgeOf(new, k) /\ ev.port = k.port
             /\ k \in new.conns
             /\ \A q \in Proc : ev \in Starts(q) => q \in new.procs
  <2>1. /\ ev.type = "CONNECTION_OPENED" /\ ev.edge = EdgeOf(new, k) /\ ev.port = k.port
        /\ k \in new.conns
    BY <1>5 DEF Opened, NewlyOpen
  <2>2. \A q \in Proc : ev \in Starts(q) => q \in new.procs
    BY <2>1, EdgeEnds DEF Starts
  <2> QED BY <2>1, <2>2
<1>6. ASSUME NEW k \in NewlyClosed(old, new), ev = Closed(old, new, k)
      PROVE  /\ ev.type = "CONNECTION_CLOSED" /\ ev.edge = EdgeOf(old, k)
             /\ ev.ports = PortsOf(new, EdgeOf(old, k))
             /\ ev.remaining > 0 <=> EdgeOf(old, k) \in Edges(new)
             /\ \A e : ev \in Ends(e) => e \notin Edges(new)
  <2>1. /\ ev.type = "CONNECTION_CLOSED" /\ ev.edge = EdgeOf(old, k)
        /\ ev.ports = PortsOf(new, EdgeOf(old, k)) /\ k \in old.conns
    BY <1>6 DEF Closed, NewlyClosed
  <2>2. ev.remaining > 0 <=> EdgeOf(old, k) \in Edges(new)
    BY <1>6, <2>1, ClosedType
  <2>3. \A e : ev \in Ends(e) => e = EdgeOf(old, k) /\ ev.remaining = 0
    BY <2>1 DEF Ends
  <2> QED BY <2>1, <2>2, <2>3
<1>7. \A p : ev \in Stops(p) => p \in old.procs \ new.procs
  BY <1>2, <1>3, <1>4, <1>5, <1>6, EventKinds
<1>8. \A e : ev \in Opens(e) => \E k \in new.conns : EdgeOf(new, k) = e /\ ev.port = k.port
  BY <1>2, <1>3, <1>4, <1>5, <1>6, EventKinds
<1>9. \A e : ev \in Sets(e) => e \in Edges(new) /\ ev.ports = PortsOf(new, e)
  BY <1>2, <1>3, <1>4, <1>5, <1>6, EventKinds
<1>10. \A e : ev \in Ends(e) => e \notin Edges(new)
  BY <1>2, <1>3, <1>4, <1>5, <1>6, EventKinds
<1>11. \A p \in Proc : ev \in Starts(p) => p \in new.procs
  BY <1>2, <1>3, <1>4, <1>5, <1>6, EventKinds
<1> QED BY <1>1, <1>7, <1>8, <1>9, <1>10, <1>11 DEF ev

(* ... and none is missing.                                                *)
LEMMA DiffTells ==
  ASSUME NEW old \in Snapshots, NEW new \in Snapshots
  PROVE  LET D == Diff(old, new)
         IN  /\ \A p \in new.procs \ old.procs : \E i \in 1..Len(D) : D[i] \in Starts(p)
             /\ \A p \in old.procs \ new.procs : \E i \in 1..Len(D) : D[i] \in Stops(p)
             /\ \A k \in new.conns \ old.conns :
                  \E i \in 1..Len(D) : D[i] \in Opens(EdgeOf(new, k)) /\ D[i].port = k.port
             /\ \A k \in old.conns \ new.conns :
                  \E i \in 1..Len(D) : D[i] \in Resets(EdgeOf(old, k))
<1> DEFINE D == Diff(old, new)
<1>0. \A i \in 1..Len(D) : D[i] \in Event
  BY DiffEvents
<1>1. ASSUME NEW p \in new.procs \ old.procs PROVE \E i \in 1..Len(D) : D[i] \in Starts(p)
  <2>1. PICK i \in 1..Len(D) : D[i] = Started(p)
    BY DiffEvents
  <2>2. D[i].type = "PROCESS_STARTED" /\ D[i].node = p
    BY <2>1 DEF Started
  <2> QED BY <1>0, <2>2 DEF Starts
<1>2. ASSUME NEW p \in old.procs \ new.procs PROVE \E i \in 1..Len(D) : D[i] \in Stops(p)
  <2>1. PICK i \in 1..Len(D) : D[i] = Stopped(p)
    BY DiffEvents
  <2>2. D[i].type = "PROCESS_STOPPED" /\ D[i].node = p
    BY <2>1 DEF Stopped
  <2> QED BY <1>0, <2>2 DEF Stops
<1>3. ASSUME NEW k \in new.conns \ old.conns
      PROVE  \E i \in 1..Len(D) : D[i] \in Opens(EdgeOf(new, k)) /\ D[i].port = k.port
  <2>1. k \in NewlyOpen(old, new)
    BY NotReallyGone DEF NewlyOpen
  <2>2. PICK i \in 1..Len(D) : D[i] = Opened(new, k)
    BY <2>1, DiffEvents
  <2>3. D[i].type = "CONNECTION_OPENED" /\ D[i].edge = EdgeOf(new, k) /\ D[i].port = k.port
    BY <2>2 DEF Opened
  <2> QED BY <1>0, <2>3 DEF Opens
<1>4. ASSUME NEW k \in old.conns \ new.conns
      PROVE  \E i \in 1..Len(D) : D[i] \in Resets(EdgeOf(old, k))
  <2>1. CASE k \in NewlyClosed(old, new)
    <3>1. PICK i \in 1..Len(D) : D[i] = Closed(old, new, k)
      BY <2>1, DiffEvents
    <3>2. D[i].type = "CONNECTION_CLOSED" /\ D[i].edge = EdgeOf(old, k)
      BY <3>1 DEF Closed
    <3>3. D[i].remaining \in Nat
      BY <1>0, <3>2 DEF Event
    <3> QED BY <1>0, <3>2, <3>3 DEF Resets, Ends, Sets
  <2>2. CASE k \notin NewlyClosed(old, new)
    <3>1. Owner(old, k) \in old.procs \ new.procs
      BY <2>2 DEF NewlyClosed, OwnerReallyGone
    <3>2. PICK i \in 1..Len(D) : D[i] \in Stops(Owner(old, k))
      BY <1>2, <3>1
    <3>3. Owner(old, k) \in EdgeOf(old, k).ends
      BY EdgeEnds
    <3> QED BY <1>0, <3>2, <3>3 DEF Resets, Ends, Stops
  <2> QED BY <2>1, <2>2
<1> QED BY <1>1, <1>2, <1>3, <1>4

-----------------------------------------------------------------------------
(* What they leave of a process, an edge and a port, when before them the  *)
(* client had what the old snapshot has.                                   *)
LEMMA TickRuns ==
  ASSUME NEW old \in Snapshots, NEW new \in Snapshots, NEW p \in Proc, NEW then,
         p \in then <=> p \in old.procs
  PROVE  LET D == Diff(old, new)
         IN  Holds(D, Len(D), Starts(p), Stops(p), p, then) <=> p \in new.procs
<1> DEFINE D == Diff(old, new)
<1>1. /\ p \in new.procs \ old.procs => \E i \in 1..Len(D) : D[i] \in Starts(p)
      /\ p \in old.procs \ new.procs => \E i \in 1..Len(D) : D[i] \in Stops(p)
  BY DiffTells
<1>2. \A i \in 1..Len(D) : /\ D[i] \in Starts(p) => p \in new.procs
                           /\ D[i] \in Stops(p) => p \in old.procs \ new.procs
  BY DiffMeans
<1>3. Len(D) \in Nat
  BY DiffEvents
<1> HIDE DEF D
<1>4. CASE p \in new.procs
  <2>1. \A i \in 1..Len(D) : D[i] \notin Stops(p)
    BY <1>2, <1>4
  <2>2. \A i \in 1..Len(D) : \A j \in (i + 1)..Len(D) : j \in 1..Len(D)
    BY <1>3
  <2>3. p \in then \/ \E i \in 1..Len(D) : D[i] \in Starts(p)
    BY <1>1, <1>4
  <2>4. Holds(D, Len(D), Starts(p), Stops(p), p, then)
    BY <2>1, <2>2, <2>3 DEF Holds
  <2> QED BY <1>4, <2>4 DEF D
<1>5. CASE p \notin new.procs
  <2>1. \A i \in 1..Len(D) : D[i] \notin Starts(p)
    BY <1>2, <1>5
  <2>2. p \notin then \/ \E i \in 1..Len(D) : D[i] \in Stops(p)
    BY <1>1, <1>5
  <2>3. ~Holds(D, Len(D), Starts(p), Stops(p), p, then)
    BY <2>1, <2>2 DEF Holds
  <2> QED BY <1>5, <2>3 DEF D
<1> QED BY <1>4, <1>5

LEMMA TickStands ==
  ASSUME NEW old \in Snapshots, NEW new \in Snapshots,
         NEW e \in Edges(new) \ Moved(old, new), NEW then,
         e \in Edges(old) => e \in then,
         NEW n \in 0..Len(Diff(old, new)),
         \A i \in (n + 1)..Len(Diff(old, new)) : Diff(old, new)[i] \notin Opens(e)
  PROVE  Holds(Diff(old, new), n, Opens(e), Ends(e), e, then)
<1> DEFINE D == Diff(old, new)
<1>1. \A i \in 1..Len(D) : D[i] \notin Ends(e)
  BY DiffMeans
<1>2. Len(D) \in Nat /\ n \in Nat /\ n <= Len(D)
  BY DiffEvents
<1>3. PICK k \in new.conns : EdgeOf(new, k) = e
  BY DEF Edges
<1>4. CASE k \in old.conns
  <2>1. EdgeOf(old, k) = e
    BY <1>3, <1>4 DEF Moved, Retargeted
  <2>2. e \in then
    BY <1>4, <2>1 DEF Edges
  <2> HIDE DEF D
  <2>3. \A j \in 1..n : D[j] \notin Ends(e)
    BY <1>1, <1>2
  <2>4. Holds(D, n, Opens(e), Ends(e), e, then)
    BY <2>2, <2>3 DEF Holds
  <2> QED BY <2>4 DEF D
<1>5. CASE k \notin old.conns
  <2>1. PICK i \in 1..Len(D) : D[i] \in Opens(e)
    BY <1>3, <1>5, DiffTells
  <2>2. ~(i \in (n + 1)..Len(D))
    BY <2>1
  <2> HIDE DEF D
  <2>3. i \in 1..n
    BY <1>2, <2>2
  <2>4. \A j \in (i + 1)..n : D[j] \notin Ends(e)
    BY <1>1, <1>2
  <2>5. Holds(D, n, Opens(e), Ends(e), e, then)
    BY <2>1, <2>3, <2>4 DEF Holds
  <2> QED BY <2>5 DEF D
<1> QED BY <1>4, <1>5

LEMMA TickGone ==
  ASSUME NEW old \in Snapshots, NEW new \in Snapshots,
         NEW e, e \notin Edges(new) \union Moved(old, new), NEW then,
         e \in then => e \in Edges(old)
  PROVE  ~Holds(Diff(old, new), Len(Diff(old, new)), Opens(e), Ends(e), e, then)
<1> DEFINE D == Diff(old, new)
<1>1. \A i \in 1..Len(D) : D[i] \notin Opens(e) /\ D[i] \notin Sets(e)
  BY DiffMeans DEF Edges
<1>2. e \notin then \/ \E i \in 1..Len(D) : D[i] \in Ends(e)
  <2> SUFFICES ASSUME e \in then PROVE \E i \in 1..Len(D) : D[i] \in Ends(e)
    OBVIOUS
  <2>1. PICK k \in old.conns : EdgeOf(old, k) = e
    BY DEF Edges
  <2>2. k \notin new.conns
    BY <2>1 DEF Moved, Retargeted, Edges
  <2>3. PICK i \in 1..Len(D) : D[i] \in Resets(e)
    BY <2>1, <2>2, DiffTells
  <2> QED BY <1>1, <2>3 DEF Resets
<1> HIDE DEF D
<1>3. ~Holds(D, Len(D), Opens(e), Ends(e), e, then)
  BY <1>1, <1>2 DEF Holds
<1> QED BY <1>3 DEF D

LEMMA TickPorts ==
  ASSUME NEW old \in Snapshots, NEW new \in Snapshots,
         NEW e, e \notin Moved(old, new), NEW q, NEW then,
         q \in then <=> q \in PortsOf(old, e)
  PROVE  LET D == Diff(old, new)
         IN  Holds(D, Len(D), Lists(e, q), Resets(e), q, then) <=> q \in PortsOf(new, e)
<1> DEFINE D == Diff(old, new)
<1>1. /\ D \in Seq(Event) /\ Len(D) \in Nat
      /\ \A i, j \in 1..Len(D) : D[i] \in Sets(e) /\ D[j] \in Opens(e) => j < i
  BY DiffEvents, EventKinds
<1>2. \A i \in 1..Len(D) :
        /\ D[i] \in Opens(e) => \E k \in new.conns : EdgeOf(new, k) = e /\ D[i].port = k.port
        /\ D[i] \in Ends(e) => e \notin Edges(new)
        /\ D[i] \in Sets(e) => e \in Edges(new) /\ D[i].ports = PortsOf(new, e)
  BY DiffMeans
<1>3. \A k \in new.conns \ old.conns : EdgeOf(new, k) = e =>
        \E i \in 1..Len(D) : D[i] \in Opens(e) /\ D[i].port = k.port
  BY DiffTells
<1>4. \A k \in old.conns \ new.conns : EdgeOf(old, k) = e =>
        \E i \in 1..Len(D) : D[i] \in Resets(e)
  BY DiffTells
<1>5. \A k \in old.conns \intersect new.conns : EdgeOf(old, k) = e <=> EdgeOf(new, k) = e
  BY DEF Moved, Retargeted
<1>6. /\ q \in PortsOf(old, e) <=> \E k \in old.conns : EdgeOf(old, k) = e /\ k.port = q
      /\ q \in PortsOf(new, e) <=> \E k \in new.conns : EdgeOf(new, k) = e /\ k.port = q
  BY PortsKnown
<1> HIDE DEF D
<1>7. \A i \in 1..Len(D) : D[i] \in Lists(e, q) =>
        (D[i] \in Opens(e) /\ D[i].port = q) \/ (D[i] \in Sets(e) /\ q \in D[i].ports)
  BY DEF Lists
<1>8. \A i \in 1..Len(D) : \A j \in (i + 1)..Len(D) : j \in 1..Len(D)
  BY <1>1
<1>9. CASE e \notin Edges(new)
  <2>1. \A i \in 1..Len(D) : D[i] \notin Lists(e, q)
    BY <1>2, <1>7, <1>9 DEF Edges
  <2>2. q \in then => \E i \in 1..Len(D) : D[i] \in Resets(e)
    BY <1>4, <1>5, <1>6, <1>9 DEF Edges
  <2>3. q \notin PortsOf(new, e)
    BY <1>6, <1>9 DEF Edges
  <2>4. ~Holds(D, Len(D), Lists(e, q), Resets(e), q, then)
    BY <2>1, <2>2 DEF Holds
  <2> QED BY <2>3, <2>4 DEF D
<1>10. CASE e \in Edges(new) /\ \A i \in 1..Len(D) : D[i] \notin Sets(e)
  <2>1. \A i \in 1..Len(D) : D[i] \notin Resets(e)
    BY <1>2, <1>10 DEF Resets
  <2>2. Holds(D, Len(D), Lists(e, q), Resets(e), q, then) <=>
          (\E i \in 1..Len(D) : D[i] \in Lists(e, q)) \/ q \in then
    BY <1>8, <2>1 DEF Holds
  <2>3. ASSUME NEW i \in 1..Len(D), D[i] \in Lists(e, q) PROVE q \in PortsOf(new, e)
    BY <1>2, <1>6, <1>7, <1>10, <2>3
  <2>4. q \in then => q \in PortsOf(new, e)
    BY <1>4, <1>5, <1>6, <2>1
  <2>5. ASSUME q \in PortsOf(new, e), q \notin then
        PROVE  \E i \in 1..Len(D) : D[i] \in Lists(e, q)
    <3>1. PICK k \in new.conns : EdgeOf(new, k) = e /\ k.port = q
      BY <1>6, <2>5
    <3>2. k \notin old.conns
      BY <1>5, <1>6, <2>5, <3>1
    <3>3. PICK i \in 1..Len(D) : D[i] \in Opens(e) /\ D[i].port = q
      BY <1>3, <3>1, <3>2
    <3> QED BY <3>3 DEF Lists
  <2> QED BY <2>2, <2>3, <2>4, <2>5 DEF D
<1>11. CASE \E i \in 1..Len(D) : D[i] \in Sets(e)
  <2> DEFINE at == {i \in 1..Len(D) : D[i] \in Sets(e)}
  <2>1. PICK g \in at : \A i \in at : i <= g
    BY <1>1, <1>11, GreatestExists
  <2>2. g \in 1..Len(D) /\ D[g] \in Sets(e) /\ e \in Edges(new) /\ D[g].ports = PortsOf(new, e)
    BY <1>2, <2>1
  <2>3. \A i \in (g + 1)..Len(D) : i \in 1..Len(D) /\ ~(i <= g)
    BY <1>1, <2>2
  <2>4. \A i \in (g + 1)..Len(D) : D[i] \notin Sets(e) /\ D[i] \notin Ends(e) /\ D[i] \notin Opens(e)
    <3> SUFFICES ASSUME NEW i \in (g + 1)..Len(D)
                 PROVE  D[i] \notin Sets(e) /\ D[i] \notin Ends(e) /\ D[i] \notin Opens(e)
      OBVIOUS
    <3>1. i \in 1..Len(D) /\ ~(i <= g) /\ ~(i < g)
      BY <2>2, <2>3
    <3>2. D[i] \notin Sets(e)
      BY <2>1, <3>1
    <3>3. D[i] \notin Opens(e)
      BY <1>1, <2>2, <3>1
    <3>4. D[i] \notin Ends(e)
      BY <1>2, <2>2, <3>1
    <3> QED BY <3>2, <3>3, <3>4
  <2>5. ASSUME q \in PortsOf(new, e) PROVE Holds(D, Len(D), Lists(e, q), Resets(e), q, then)
    <3>1. D[g] \in Lists(e, q)
      BY <2>2, <2>5 DEF Lists
    <3>2. \A i \in (g + 1)..Len(D) : D[i] \notin Resets(e)
      BY <2>4 DEF Resets
    <3> QED BY <2>2, <3>1, <3>2 DEF Holds
  <2>6. ASSUME Holds(D, Len(D), Lists(e, q), Resets(e), q, then) PROVE q \in PortsOf(new, e)
    <3>1. D[g] \in Resets(e)
      BY <2>2 DEF Resets
    <3>2. PICK i \in 1..Len(D) : D[i] \in Lists(e, q) /\ \A j \in (i + 1)..Len(D) : D[j] \notin Resets(e)
      BY <2>2, <2>6, <3>1 DEF Holds
    <3>3. g \notin (i + 1)..Len(D)
      BY <3>1, <3>2
    <3>4. i = g \/ i \in (g + 1)..Len(D)
      BY <1>1, <2>2, <3>3
    <3>5. i = g
      BY <1>7, <2>4, <3>2, <3>4
    <3>6. D[g] \notin Opens(e)
      BY <2>2, EventKinds
    <3> QED BY <1>7, <2>2, <3>2, <3>5, <3>6
  <2> QED BY <2>5, <2>6 DEF D
<1> QED BY <1>9, <1>10, <1>11

(* New ports of an edge come after its opened sockets.                     *)
LEMMA TickMeets ==
  ASSUME NEW old \in Snapshots, NEW new \in Snapshots,
         NEW e, e \notin Moved(old, new), NEW then, e \in Edges(old) => e \in then,
         NEW i \in 1..Len(Diff(old, new)), Diff(old, new)[i] \in Sets(e)
  PROVE  Holds(Diff(old, new), i - 1, Opens(e), Ends(e), e, then)
<1> DEFINE D == Diff(old, new)
<1>1. e \in Edges(new)
  BY DiffMeans
<1>2. /\ Len(D) \in Nat
      /\ \A j \in 1..Len(D) : D[j] \in Opens(e) => j < i
  BY DiffEvents, EventKinds
<1>3. i - 1 \in 0..Len(D) /\ \A j \in (i - 1 + 1)..Len(D) : j \in 1..Len(D) /\ ~(j < i)
  BY <1>2
<1>4. \A j \in (i - 1 + 1)..Len(D) : D[j] \notin Opens(e)
  BY <1>2, <1>3
<1> QED BY <1>1, <1>3, <1>4, TickStands

-----------------------------------------------------------------------------
(* Every step keeps the invariant: first a tick of the server.             *)
LEMMA TickTypes ==
  ASSUME Types, NEW new \in Snapshots, Tick(new)
  PROVE  Types'
<1>1. /\ inbox \in Seq(Event) /\ Diff(snap, new) \in Seq(Event)
      /\ inbox' = inbox \o Diff(snap, new)
  BY DiffEvents DEF Types, TypeOK, Tick
<1>2. inbox' \in Seq(Event)
  BY <1>1
<1>3. Moved(snap, new) \subseteq AllEdges
  <2> SUFFICES ASSUME NEW e \in Moved(snap, new) PROVE e \in AllEdges
    OBVIOUS
  <2>1. PICK s \in {snap, new}, k \in Retargeted(snap, new) : e = EdgeOf(s, k)
    BY DEF Moved
  <2>2. s \in Snapshots /\ k \in s.conns
    BY <2>1 DEF Retargeted, Types, TypeOK
  <2>3. e \in Edges(s)
    BY <2>1, <2>2 DEF Edges
  <2> QED BY <2>2, <2>3, EdgesKnown
<1>4. odd' \in [DOMAIN Nothing -> SUBSET AllEdges]
  BY <1>3 DEF Types, TypeOK, Tick, Nothing
<1>5. ticks' \in 0..MaxTicks /\ behind' \in BOOLEAN
  <2>1. ticks \in 0..MaxTicks /\ ticks < MaxTicks /\ ticks' = ticks + 1
    BY DEF Types, TypeOK, Tick
  <2>2. ticks' \in 0..MaxTicks
    BY <2>1, BoundsAssumption
  <2>3. behind' \in BOOLEAN
    BY DEF Types, TypeOK, Tick
  <2> QED BY <2>2, <2>3
<1>6. /\ edges' \subseteq AllEdges /\ pendingEdges' \subseteq AllEdges
      /\ \A e \in edges' : e.ends \subseteq nodes'
      /\ ports' \in [AllEdges -> SUBSET {k.port : k \in Conn}]
      /\ pendingNodes' \subseteq nodes' /\ pendingNodes' \subseteq Proc
      /\ timers' \in Seq([node : Proc] \union [edge : AllEdges])
      /\ snap' \in Snapshots
  BY DEF Types, TypeOK, Tick, graph
<1> QED BY <1>2, <1>4, <1>5, <1>6 DEF Types, TypeOK

LEMMA TickForetold ==
  ASSUME IInv, NEW new \in Snapshots, Tick(new)
  PROVE  RunsForetold' /\ EdgesForetold' /\ ListsMeet' /\ PortsForetold'
<1> DEFINE D == Diff(snap, new)
<1>1. /\ inbox \in Seq(Event) /\ D \in Seq(Event) /\ inbox' = inbox \o D /\ snap' = new
      /\ snap \in Snapshots /\ Len(inbox) \in Nat /\ Len(D) \in Nat
      /\ Len(inbox') = Len(inbox) + Len(D)
  BY DiffEvents DEF IInv, Types, TypeOK, Tick
<1>2. /\ StandingNodes' = StandingNodes /\ StandingEdges' = StandingEdges
      /\ \A e : Shown(e)' = Shown(e)
  BY DEF Tick, graph, StandingNodes, StandingEdges, Shown
<1>3. /\ odd'.moved = odd.moved \union Moved(snap, new) /\ odd'.doomed = odd.doomed
      /\ odd'.spared = odd.spared /\ odd'.reopened = odd.reopened
  BY DEF IInv, Types, TypeOK, Tick, Nothing
<1>4. ASSUME NEW p \in Proc
      PROVE  Holds(inbox', Len(inbox'), Starts(p), Stops(p), p, StandingNodes') <=> p \in new.procs
  <2>1. p \in snap.procs <=> Holds(inbox, Len(inbox), Starts(p), Stops(p), p, StandingNodes)
    BY DEF IInv, RunsForetold, WillRun
  <2>2. Holds(inbox \o D, Len(inbox) + Len(D), Starts(p), Stops(p), p, StandingNodes)
          <=> Holds(D, Len(D), Starts(p), Stops(p), p, snap.procs)
    <3>1. Len(D) \in 0..Len(D)
      BY <1>1
    <3> HIDE DEF D
    <3> QED BY <1>1, <2>1, <3>1, HoldsConcat
  <2>3. Holds(D, Len(D), Starts(p), Stops(p), p, snap.procs) <=> p \in new.procs
    BY <1>1, TickRuns
  <2> QED BY <1>1, <1>2, <2>2, <2>3
<1>5. ASSUME NEW e, NEW m \in 0..Len(D)
      PROVE  LET then == IF WillStand(e, Len(inbox)) THEN {e} ELSE {}
             IN  Holds(inbox', Len(inbox) + m, Opens(e), Ends(e), e, StandingEdges')
                   <=> Holds(D, m, Opens(e), Ends(e), e, then)
  <2> DEFINE then == IF WillStand(e, Len(inbox)) THEN {e} ELSE {}
  <2>1. e \in then <=> Holds(inbox, Len(inbox), Opens(e), Ends(e), e, StandingEdges)
    BY DEF WillStand
  <2> HIDE DEF D, then
  <2>2. Holds(inbox \o D, Len(inbox) + m, Opens(e), Ends(e), e, StandingEdges)
          <=> Holds(D, m, Opens(e), Ends(e), e, then)
    BY <1>1, <2>1, HoldsConcat
  <2> QED BY <1>1, <1>2, <2>2 DEF then
<1>6. \A e \in Edges(snap) \ (odd.moved \union odd.doomed) : WillStand(e, Len(inbox))
  BY DEF IInv, EdgesForetold
<1>7. ASSUME NEW e \in Edges(new) \ (odd'.moved \union odd'.doomed)
      PROVE  Holds(inbox', Len(inbox'), Opens(e), Ends(e), e, StandingEdges')
  <2> DEFINE then == IF WillStand(e, Len(inbox)) THEN {e} ELSE {}
  <2>1. e \in Edges(snap) => e \in then
    BY <1>3, <1>6
  <2>2. /\ e \in Edges(new) \ Moved(snap, new)
        /\ Len(D) \in 0..Len(D) /\ \A i \in (Len(D) + 1)..Len(D) : D[i] \notin Opens(e)
    BY <1>1, <1>3
  <2> HIDE DEF then
  <2>3. Holds(D, Len(D), Opens(e), Ends(e), e, then)
    BY <1>1, <2>1, <2>2, TickStands
  <2>4. Len(D) \in 0..Len(D)
    BY <2>2
  <2> HIDE DEF D
  <2> QED BY <1>1, <1>5, <2>3, <2>4 DEF then
<1>8. ASSUME NEW e \in AllEdges \ (Edges(new) \union odd'.moved \union odd'.spared)
      PROVE  ~Holds(inbox', Len(inbox'), Opens(e), Ends(e), e, StandingEdges')
  <2> DEFINE then == IF WillStand(e, Len(inbox)) THEN {e} ELSE {}
  <2>1. e \in then => e \in Edges(snap)
    BY <1>3 DEF IInv, EdgesForetold
  <2> HIDE DEF then
  <2>2. ~Holds(D, Len(D), Opens(e), Ends(e), e, then)
    BY <1>1, <1>3, <2>1, TickGone
  <2>3. Len(D) \in 0..Len(D)
    BY <1>1
  <2> HIDE DEF D
  <2> QED BY <1>1, <1>5, <2>2, <2>3 DEF then
<1>9. ASSUME NEW i \in 1..Len(inbox'), NEW e \in AllEdges \ (odd'.moved \union odd'.doomed),
             inbox'[i] \in Sets(e)
      PROVE  Holds(inbox', i - 1, Opens(e), Ends(e), e, StandingEdges')
  <2>1. CASE i \in 1..Len(inbox)
    <3>1. inbox[i] \in Sets(e) /\ i - 1 \in 0..Len(inbox)
      BY <1>1, <1>9, <2>1
    <3>2. Holds(inbox, i - 1, Opens(e), Ends(e), e, StandingEdges)
      BY <1>3, <2>1, <3>1 DEF IInv, ListsMeet, WillStand
    <3> HIDE DEF D
    <3> QED BY <1>1, <1>2, <3>1, <3>2, HoldsPrefix
  <2>2. CASE i \notin 1..Len(inbox)
    <3> DEFINE m == i - Len(inbox)
               then == IF WillStand(e, Len(inbox)) THEN {e} ELSE {}
    <3>1. m \in 1..Len(D) /\ i = Len(inbox) + m /\ m - 1 \in 0..Len(D)
          /\ i - 1 = Len(inbox) + (m - 1)
      BY <1>1, <2>2
    <3>2. D[m] \in Sets(e)
      <4> HIDE DEF D, m
      <4> QED BY <1>1, <1>9, <3>1, TwoLists
    <3>3. e \in Edges(snap) => e \in then
      BY <1>3, <1>6
    <3> HIDE DEF m, then
    <3>4. Holds(D, m - 1, Opens(e), Ends(e), e, then)
      BY <1>1, <1>3, <3>1, <3>2, <3>3, TickMeets
    <3> HIDE DEF D
    <3> QED BY <1>5, <3>1, <3>4 DEF then
  <2> QED BY <2>1, <2>2
<1>10. ASSUME NEW e \in AllEdges \ Doubtful', NEW q \in Port
       PROVE  Holds(inbox', Len(inbox'), Lists(e, q), Resets(e), q, Shown(e)')
                <=> q \in PortsOf(new, e)
  <2>1. e \notin Doubtful /\ e \notin Moved(snap, new)
    BY <1>3 DEF Doubtful
  <2>2. q \in PortsOf(snap, e) <=> Holds(inbox, Len(inbox), Lists(e, q), Resets(e), q, Shown(e))
    BY <2>1 DEF IInv, PortsForetold, WillList
  <2>3. Holds(inbox \o D, Len(inbox) + Len(D), Lists(e, q), Resets(e), q, Shown(e))
          <=> Holds(D, Len(D), Lists(e, q), Resets(e), q, PortsOf(snap, e))
    <3>1. Len(D) \in 0..Len(D)
      BY <1>1
    <3> HIDE DEF D
    <3> QED BY <1>1, <2>2, <3>1, HoldsConcat
  <2>4. Holds(D, Len(D), Lists(e, q), Resets(e), q, PortsOf(snap, e)) <=> q \in PortsOf(new, e)
    BY <1>1, <2>1, TickPorts
  <2> QED BY <1>1, <1>2, <2>3, <2>4
<1> HIDE DEF D
<1>11. RunsForetold'
  BY <1>1, <1>4 DEF RunsForetold, WillRun
<1>12. EdgesForetold'
  BY <1>1, <1>7, <1>8 DEF EdgesForetold, WillStand
<1>13. ListsMeet'
  BY <1>9 DEF ListsMeet, WillStand
<1>14. PortsForetold'
  BY <1>1, <1>10 DEF PortsForetold, WillList
<1> QED BY <1>11, <1>12, <1>13, <1>14

LEMMA TickCalm ==
  ASSUME IInv, NEW new \in Snapshots, Tick(new)
  PROVE  Timed' /\ Calm'
<1>1. Timed'
  BY DEF IInv, Timed, Tick, graph
<1>2. ASSUME ~behind' PROVE Calm'
  <2> DEFINE D == Diff(snap, new)
  <2>1. /\ ~behind /\ inbox = <<>> /\ timers = <<>> /\ snap \in Snapshots
        /\ inbox' = <<>> \o D /\ pendingNodes' = pendingNodes /\ pendingEdges' = pendingEdges
    BY <1>2 DEF Tick, graph, IInv, Types, TypeOK
  <2>2. D \in Seq(Event)
    BY <2>1, DiffEvents
  <2>3. inbox' = D
    <3> HIDE DEF D
    <3> QED BY <2>1, <2>2
  <2>4. pendingNodes = {} /\ pendingEdges = {}
    BY <2>1 DEF IInv, Timed
  <2>5. odd'.doomed = {} /\ odd'.spared = {} /\ odd'.reopened = {}
    BY <2>1 DEF IInv, Calm, Types, TypeOK, Tick, Nothing
  <2>6. \A i, j \in 1..Len(D) :
          D[j].type = "CONNECTION_OPENED" => (D[i].type = "CONNECTION_CLOSED" => j < i)
    BY <2>1, DiffEvents
  <2>7. \A i, j \in 1..Len(D) : \A p \in Proc :
          D[j] \in Starts(p) => D[i] \notin Stops(p)
    BY <2>1, DiffMeans
  <2> HIDE DEF D
  <2> QED BY <2>1, <2>3, <2>4, <2>5, <2>6, <2>7 DEF Calm
<1>3. behind' => Calm'
  BY DEF Calm
<1> QED BY <1>1, <1>2, <1>3

-----------------------------------------------------------------------------
(* The client applies the first event on its way.                          *)
LEMMA EventMeans ==
  ASSUME NEW ev \in Event
  PROVE  /\ ev.type \in {"PROCESS_STARTED", "PROCESS_STOPPED",
                         "CONNECTION_OPENED", "CONNECTION_CLOSED"}
         /\ ev.type = "PROCESS_STARTED" =>
              /\ ev.node \in Proc /\ \A p : ev \in Starts(p) <=> p = ev.node
              /\ \A p : ev \notin Stops(p)
              /\ \A e, q : ev \notin Opens(e) /\ ev \notin Ends(e) /\ ev \notin Sets(e)
                           /\ ev \notin Lists(e, q) /\ ev \notin Resets(e)
         /\ ev.type = "PROCESS_STOPPED" =>
              /\ ev.node \in Proc /\ \A p : ev \notin Starts(p)
              /\ \A p : ev \in Stops(p) <=> p = ev.node
              /\ \A e, q : ev \notin Opens(e) /\ (ev \in Ends(e) <=> ev.node \in e.ends)
                           /\ ev \notin Sets(e) /\ ev \notin Lists(e, q)
                           /\ (ev \in Resets(e) <=> ev.node \in e.ends)
         /\ ev.type = "CONNECTION_OPENED" =>
              /\ ev.edge \in AllEdges /\ ev.port \in Port
              /\ \A p : ev \in Starts(p) <=> p \in ev.edge.ends
              /\ \A p : ev \notin Stops(p)
              /\ \A e, q : (ev \in Opens(e) <=> e = ev.edge) /\ ev \notin Ends(e)
                           /\ ev \notin Sets(e) /\ ev \notin Resets(e)
                           /\ (ev \in Lists(e, q) <=> e = ev.edge /\ q = ev.port)
         /\ ev.type = "CONNECTION_CLOSED" =>
              /\ ev.edge \in AllEdges /\ ev.remaining \in Nat /\ ev.ports \subseteq Port
              /\ \A p : ev \notin Starts(p) /\ ev \notin Stops(p)
              /\ \A e, q : ev \notin Opens(e) /\ (ev \in Resets(e) <=> e = ev.edge)
                           /\ (ev \in Ends(e) <=> e = ev.edge /\ ev.remaining = 0)
                           /\ (ev \in Sets(e) <=> e = ev.edge /\ ev.remaining > 0)
                           /\ (ev \in Lists(e, q) <=>
                                 e = ev.edge /\ ev.remaining > 0 /\ q \in ev.ports)
<1>1. ev.type \in {"PROCESS_STARTED", "PROCESS_STOPPED",
                   "CONNECTION_OPENED", "CONNECTION_CLOSED"}
  BY DEF Event
<1>2. /\ ev.type \in {"PROCESS_STARTED", "PROCESS_STOPPED"} => ev.node \in Proc
      /\ ev.type = "CONNECTION_OPENED" => ev.edge \in AllEdges /\ ev.port \in Port
      /\ ev.type = "CONNECTION_CLOSED" =>
           ev.edge \in AllEdges /\ ev.remaining \in Nat /\ ev.ports \subseteq Port
  BY DEF Event
<1>3. /\ \A p : ev \in Starts(p) <=>
           \/ ev.type = "PROCESS_STARTED" /\ ev.node = p
           \/ ev.type = "CONNECTION_OPENED" /\ p \in ev.edge.ends
      /\ \A p : ev \in Stops(p) <=> ev.type = "PROCESS_STOPPED" /\ ev.node = p
      /\ \A e : ev \in Opens(e) <=> ev.type = "CONNECTION_OPENED" /\ ev.edge = e
      /\ \A e : ev \in Ends(e) <=>
           \/ ev.type = "CONNECTION_CLOSED" /\ ev.edge = e /\ ev.remaining = 0
           \/ ev.type = "PROCESS_STOPPED" /\ ev.node \in e.ends
      /\ \A e : ev \in Sets(e) <=> ev.type = "CONNECTION_CLOSED" /\ ev.edge = e /\ ev.remaining > 0
  BY DEF Starts, Stops, Opens, Ends, Sets
<1>4. /\ \A e, q : ev \in Lists(e, q) <=> \/ ev \in Opens(e) /\ ev.port = q
                                          \/ ev \in Sets(e) /\ q \in ev.ports
      /\ \A e : ev \in Resets(e) <=> ev \in Ends(e) \/ ev \in Sets(e)
  BY DEF Lists, Resets
<1>5. ev.remaining \in Nat => (ev.remaining = 0 \/ ev.remaining > 0) /\ ~(ev.remaining = 0 /\ ev.remaining > 0)
  OBVIOUS
<1>6. CASE ev.type = "PROCESS_STARTED"
  BY <1>2, <1>3, <1>4, <1>6
<1>7. CASE ev.type = "PROCESS_STOPPED"
  BY <1>2, <1>3, <1>4, <1>7
<1>8. CASE ev.type = "CONNECTION_OPENED"
  BY <1>2, <1>3, <1>4, <1>8
<1>9. CASE ev.type = "CONNECTION_CLOSED"
  BY <1>2, <1>3, <1>4, <1>5, <1>9
<1> QED BY <1>1, <1>6, <1>7, <1>8, <1>9

(* What counts as unusual when it does.                                    *)
LEMMA ApplyOdd ==
  ASSUME Types, Apply
  PROVE  LET opened == IF Head(inbox).type = "CONNECTION_OPENED"
                       THEN {Head(inbox).edge} ELSE {}
             fading == edges \ StandingEdges
         IN  /\ odd'.moved = odd.moved
             /\ odd'.doomed = odd.doomed \union (opened \intersect (pendingEdges \ edges))
             /\ odd'.reopened = odd.reopened \union (opened \intersect fading)
             /\ odd'.spared = odd.spared \union {e \in fading \ pendingEdges :
                                e.ends \intersect pendingNodes' = {}}
             /\ odd' \in [DOMAIN Nothing -> SUBSET AllEdges]
<1> DEFINE opened == IF Head(inbox).type = "CONNECTION_OPENED"
                     THEN {Head(inbox).edge} ELSE {}
           fading == edges \ StandingEdges
<1>1. odd \in [DOMAIN Nothing -> SUBSET AllEdges]
  BY DEF Types, TypeOK
<1>2. Head(inbox) \in Event
  BY DEF Types, Apply
<1>3. opened \subseteq AllEdges
  BY <1>2, EventMeans
<1>4. fading \subseteq AllEdges
  BY DEF Types, TypeOK
<1>5. odd' = [odd EXCEPT
           !.spared = @ \union {e \in fading \ pendingEdges :
                                 e.ends \intersect pendingNodes' = {}},
           !.reopened = @ \union (opened \intersect fading),
           !.doomed = @ \union (opened \intersect (pendingEdges \ edges))]
  BY DEF Apply
<1> HIDE DEF opened, fading
<1> QED BY <1>1, <1>3, <1>4, <1>5 DEF Nothing, opened, fading

LEMMA ApplyShows ==
  ASSUME Types, Apply
  PROVE  LET ev == Head(inbox)
         IN  /\ \A p \in Proc : p \in StandingNodes' <=>
                  ev \in Starts(p) \/ (p \in StandingNodes /\ ev \notin Stops(p))
             /\ \A e \in AllEdges \ odd'.doomed :
                  ev \in Opens(e) \/ (e \in StandingEdges /\ ev \notin Ends(e))
                    => e \in StandingEdges'
             /\ \A e \in AllEdges \ odd'.spared :
                  e \in StandingEdges' =>
                    ev \in Opens(e) \/ (e \in StandingEdges /\ ev \notin Ends(e))
             /\ \A e \in AllEdges \ Doubtful' : \A q \in Port :
                  (ev \in Sets(e) => e \in StandingEdges) =>
                    (q \in Shown(e)' <=>
                       ev \in Lists(e, q) \/ (q \in Shown(e) /\ ev \notin Resets(e)))
<1> DEFINE ev == Head(inbox)
<1>0. ev \in Event /\ ApplyEvent(ev)
  BY DEF Apply, Types
<1>1. /\ StandingNodes' = nodes' \ pendingNodes'
      /\ \A e : e \in StandingEdges' <=>
           e \in edges' /\ e \notin pendingEdges' /\ e.ends \intersect pendingNodes' = {}
      /\ StandingNodes = nodes \ pendingNodes
      /\ \A e : e \in StandingEdges <=>
           e \in edges /\ e \notin pendingEdges /\ e.ends \intersect pendingNodes = {}
  BY DEF StandingNodes, StandingEdges
<1>2. /\ \A e : Shown(e) = IF e \in StandingEdges THEN ports[e] ELSE {}
      /\ \A e : Shown(e)' = IF e \in StandingEdges' THEN ports'[e] ELSE {}
  BY DEF Shown
<1>3. /\ \A e \in edges : e.ends \subseteq nodes
      /\ pendingNodes \subseteq nodes /\ edges \subseteq AllEdges /\ DOMAIN ports = AllEdges
  BY DEF Types, TypeOK
<1>4. \A e : e \notin odd'.spared =>
        ~(e \in edges \ StandingEdges /\ e \notin pendingEdges /\ e.ends \intersect pendingNodes' = {})
  BY ApplyOdd
<1>5. ev.type = "CONNECTION_OPENED" =>
        \A e : /\ e \notin odd'.doomed => ~(e = ev.edge /\ e \in pendingEdges \ edges)
               /\ e \notin odd'.reopened => ~(e = ev.edge /\ e \in edges \ StandingEdges)
  BY ApplyOdd
<1>6. \A e : e \notin Doubtful' => e \notin odd'.spared /\ e \notin odd'.doomed /\ e \notin odd'.reopened
  BY DEF Doubtful
<1> HIDE DEF ev
<1>7. CASE ev.type = "PROCESS_STARTED"
  <2>1. /\ ev.node \in Proc /\ \A p : ev \in Starts(p) <=> p = ev.node
        /\ \A p : ev \notin Stops(p)
        /\ \A e, q : ev \notin Opens(e) /\ ev \notin Ends(e) /\ ev \notin Sets(e)
                     /\ ev \notin Lists(e, q) /\ ev \notin Resets(e)
    BY <1>0, <1>7, EventMeans
  <2>2. /\ nodes' = nodes \union {ev.node} /\ pendingNodes' = pendingNodes \ {ev.node}
        /\ edges' = edges /\ pendingEdges' = pendingEdges /\ ports' = ports
    BY <1>0, <1>7 DEF ApplyEvent, UpsertNode
  <2>3. \A p : p \in StandingNodes' <=> p = ev.node \/ p \in StandingNodes
    BY <1>1, <2>2
  <2>4. \A e : e \in StandingEdges => e \in StandingEdges'
    BY <1>1, <2>2
  <2>5. \A e : e \notin odd'.spared => (e \in StandingEdges' => e \in StandingEdges)
    BY <1>1, <1>4, <2>2
  <2>6. \A e : e \notin Doubtful' => Shown(e)' = Shown(e)
    BY <1>2, <1>6, <2>2, <2>4, <2>5
  <2> QED BY <2>1, <2>3, <2>4, <2>5, <2>6 DEF ev
<1>8. CASE ev.type = "PROCESS_STOPPED"
  <2>1. /\ ev.node \in Proc /\ \A p : ev \notin Starts(p)
        /\ \A p : ev \in Stops(p) <=> p = ev.node
        /\ \A e, q : ev \notin Opens(e) /\ (ev \in Ends(e) <=> ev.node \in e.ends)
                     /\ ev \notin Sets(e) /\ ev \notin Lists(e, q)
                     /\ (ev \in Resets(e) <=> ev.node \in e.ends)
    BY <1>0, <1>8, EventMeans
  <2>2. /\ nodes' = nodes
        /\ pendingNodes' = IF ev.node \in nodes THEN pendingNodes \union {ev.node} ELSE pendingNodes
        /\ edges' = edges /\ pendingEdges' = pendingEdges /\ ports' = ports
    BY <1>0, <1>8 DEF ApplyEvent, FadeRemoveNode
  <2>3. \A p : p \in StandingNodes' <=> p \in StandingNodes /\ p # ev.node
    BY <1>1, <2>2
  <2>4. \A e : e \in StandingEdges' <=> e \in StandingEdges /\ ev.node \notin e.ends
    <3>1. CASE ev.node \in nodes
      <4>1. pendingNodes' = pendingNodes \union {ev.node}
        BY <2>2, <3>1
      <4>2. \A e : e.ends \intersect pendingNodes' = {} <=>
                     e.ends \intersect pendingNodes = {} /\ ev.node \notin e.ends
        BY <4>1
      <4> QED BY <1>1, <2>2, <4>2
    <3>2. CASE ev.node \notin nodes
      BY <1>1, <1>3, <2>2, <3>2
    <3> QED BY <3>1, <3>2
  <2>5. \A e : Shown(e)' = IF ev.node \in e.ends THEN {} ELSE Shown(e)
    BY <1>2, <2>2, <2>4
  <2> QED BY <2>1, <2>3, <2>4, <2>5 DEF ev
<1>9. CASE ev.type = "CONNECTION_OPENED"
  <2>1. /\ ev.edge \in AllEdges /\ ev.port \in Port
        /\ \A p : ev \in Starts(p) <=> p \in ev.edge.ends
        /\ \A p : ev \notin Stops(p)
        /\ \A e, q : (ev \in Opens(e) <=> e = ev.edge) /\ ev \notin Ends(e)
                     /\ ev \notin Sets(e) /\ ev \notin Resets(e)
                     /\ (ev \in Lists(e, q) <=> e = ev.edge /\ q = ev.port)
    BY <1>0, <1>9, EventMeans
  <2>2. /\ nodes' = nodes \union ev.edge.ends /\ pendingNodes' = pendingNodes \ ev.edge.ends
        /\ edges' = edges \union {ev.edge}
        /\ pendingEdges' = IF ev.edge \in edges THEN pendingEdges \ {ev.edge} ELSE pendingEdges
        /\ ports' = [ports EXCEPT ![ev.edge] =
                       IF ev.edge \in edges THEN @ \union {ev.port} ELSE {ev.port}]
    BY <1>0, <1>9 DEF ApplyEvent, OpenEdge
  <2>3. \A p : p \in StandingNodes' <=> p \in ev.edge.ends \/ p \in StandingNodes
    BY <1>1, <2>2
  <2>4. \A e : e \in StandingEdges /\ e # ev.edge => e \in StandingEdges'
    BY <1>1, <2>2
  <2>5. ev.edge \notin odd'.doomed => ev.edge \in StandingEdges'
    <3>1. ev.edge \in edges' /\ ev.edge.ends \intersect pendingNodes' = {}
      BY <2>2
    <3>2. ev.edge \notin odd'.doomed => ev.edge \notin pendingEdges'
      BY <1>5, <1>9, <2>2
    <3> QED BY <1>1, <3>1, <3>2
  <2>6. \A e : e \notin odd'.spared /\ e # ev.edge => (e \in StandingEdges' => e \in StandingEdges)
    BY <1>1, <1>4, <2>2
  <2>7. ASSUME NEW e \in AllEdges \ Doubtful', NEW q \in Port
        PROVE  q \in Shown(e)' <=> ev \in Lists(e, q) \/ q \in Shown(e)
    <3>1. CASE e # ev.edge
      <4>1. ports'[e] = ports[e] /\ (e \in StandingEdges' <=> e \in StandingEdges)
        BY <1>3, <1>6, <2>2, <2>4, <2>6, <3>1
      <4>2. Shown(e)' = Shown(e)
        BY <1>2, <4>1
      <4> QED BY <2>1, <3>1, <4>2
    <3>2. CASE e = ev.edge /\ e \in edges
      <4>1. e \in StandingEdges /\ e \in StandingEdges'
        BY <1>5, <1>6, <1>9, <2>5, <3>2
      <4>2. ports'[e] = ports[e] \union {ev.port}
        BY <1>3, <2>2, <3>2
      <4>3. Shown(e)' = Shown(e) \union {ev.port}
        BY <1>2, <4>1, <4>2
      <4> QED BY <2>1, <3>2, <4>3
    <3>3. CASE e = ev.edge /\ e \notin edges
      <4>1. e \notin StandingEdges /\ e \in StandingEdges'
        BY <1>1, <1>6, <2>5, <3>3
      <4>2. ports'[e] = {ev.port}
        BY <1>3, <2>2, <3>3
      <4>3. Shown(e)' = {ev.port} /\ Shown(e) = {}
        BY <1>2, <4>1, <4>2
      <4> QED BY <2>1, <3>3, <4>3
    <3> QED BY <3>1, <3>2, <3>3
  <2> QED BY <2>1, <2>3, <2>4, <2>5, <2>6, <2>7 DEF ev
<1>10. ev.type = "CONNECTION_CLOSED" =>
         /\ ev.edge \in AllEdges /\ ev.remaining \in Nat /\ ev.ports \subseteq Port
         /\ \A p : ev \notin Starts(p) /\ ev \notin Stops(p)
         /\ \A e, q : ev \notin Opens(e) /\ (ev \in Resets(e) <=> e = ev.edge)
                      /\ (ev \in Ends(e) <=> e = ev.edge /\ ev.remaining = 0)
                      /\ (ev \in Sets(e) <=> e = ev.edge /\ ev.remaining > 0)
                      /\ (ev \in Lists(e, q) <=>
                            e = ev.edge /\ ev.remaining > 0 /\ q \in ev.ports)
  BY <1>0, EventMeans
<1>11. CASE ev.type = "CONNECTION_CLOSED" /\ ev.remaining > 0
  <2>1. /\ ports' = IF ev.edge \in edges THEN [ports EXCEPT ![ev.edge] = ev.ports] ELSE ports
        /\ nodes' = nodes /\ pendingNodes' = pendingNodes
        /\ edges' = edges /\ pendingEdges' = pendingEdges
    BY <1>0, <1>11 DEF ApplyEvent, ReplacePorts
  <2>2. StandingNodes' = StandingNodes /\ \A e : e \in StandingEdges' <=> e \in StandingEdges
    BY <1>1, <2>1
  <2>3. ev.remaining # 0
    BY <1>10, <1>11
  <2>4. \A e : e # ev.edge => Shown(e)' = Shown(e)
    BY <1>2, <1>3, <2>1, <2>2
  <2>5. ASSUME NEW e \in StandingEdges, e = ev.edge PROVE Shown(e)' = ev.ports
    <3>1. e \in AllEdges /\ e \in edges /\ e \in StandingEdges'
      BY <1>1, <1>10, <1>11, <2>2, <2>5
    <3>2. ports'[e] = ev.ports
      BY <1>3, <2>1, <2>5, <3>1
    <3> QED BY <1>2, <3>1, <3>2
  <2>6. /\ \A p : ev \notin Starts(p) /\ ev \notin Stops(p)
        /\ \A e : ev \notin Opens(e) /\ ev \notin Ends(e)
    BY <1>10, <1>11, <2>3
  <2>7. \A e, q : /\ ev \in Resets(e) <=> e = ev.edge
                  /\ ev \in Sets(e) <=> e = ev.edge
                  /\ ev \in Lists(e, q) <=> e = ev.edge /\ q \in ev.ports
    BY <1>10, <1>11
  <2>8. \A e, q : (ev \in Sets(e) => e \in StandingEdges) =>
          (q \in Shown(e)' <=> ev \in Lists(e, q) \/ (q \in Shown(e) /\ ev \notin Resets(e)))
    BY <2>4, <2>5, <2>7
  <2> QED BY <2>2, <2>6, <2>8 DEF ev
<1>12. CASE ev.type = "CONNECTION_CLOSED" /\ ~(ev.remaining > 0)
  <2>1. /\ pendingEdges' = IF ev.edge \in edges THEN pendingEdges \union {ev.edge} ELSE pendingEdges
        /\ nodes' = nodes /\ pendingNodes' = pendingNodes /\ edges' = edges /\ ports' = ports
    BY <1>0, <1>12 DEF ApplyEvent, FadeRemoveEdge
  <2>2. /\ StandingNodes' = StandingNodes
        /\ \A e : e \in StandingEdges' <=> e \in StandingEdges /\ e # ev.edge
    BY <1>1, <2>1
  <2>3. ev.remaining = 0
    BY <1>10, <1>12
  <2>4. \A e : Shown(e)' = IF e = ev.edge THEN {} ELSE Shown(e)
    BY <1>2, <2>1, <2>2
  <2> QED BY <1>10, <1>12, <2>2, <2>3, <2>4 DEF ev
<1>13. ev.type \in {"PROCESS_STARTED", "PROCESS_STOPPED",
                    "CONNECTION_OPENED", "CONNECTION_CLOSED"}
  BY <1>0, EventMeans
<1> QED BY <1>7, <1>8, <1>9, <1>11, <1>12, <1>13

LEMMA ApplyForetold ==
  ASSUME IInv, Apply
  PROVE  RunsForetold' /\ EdgesForetold' /\ ListsMeet' /\ PortsForetold'
<1> DEFINE ev == Head(inbox)
<1>0. Types
  BY DEF IInv
<1>1. /\ inbox \in Seq(Event) /\ inbox # <<>> /\ inbox' = Tail(inbox) /\ snap' = snap
      /\ Len(inbox') = Len(inbox) - 1 /\ Len(inbox) \in Nat \ {0}
      /\ \A i \in 1..Len(inbox') : inbox'[i] = inbox[i + 1]
  BY <1>0 DEF Types, Apply
<1>2. Len(inbox') \in 0..(Len(inbox) - 1) /\ Len(inbox') + 1 = Len(inbox) /\ Len(inbox') \in Nat
  BY <1>1
<1>3. /\ odd'.moved = odd.moved /\ odd.doomed \subseteq odd'.doomed
      /\ odd.spared \subseteq odd'.spared /\ odd.reopened \subseteq odd'.reopened
  BY <1>0, ApplyOdd
<1>4. ASSUME NEW p \in Proc
      PROVE  Holds(inbox', Len(inbox'), Starts(p), Stops(p), p, StandingNodes') <=> p \in snap.procs
  <2>1. Holds(inbox, Len(inbox') + 1, Starts(p), Stops(p), p, StandingNodes) <=> p \in snap.procs
    BY <1>2 DEF IInv, RunsForetold, WillRun
  <2>2. p \in StandingNodes' <=> ev \in Starts(p) \/ (p \in StandingNodes /\ ev \notin Stops(p))
    BY <1>0, ApplyShows
  <2>3. Holds(Tail(inbox), Len(inbox'), Starts(p), Stops(p), p, StandingNodes')
          <=> Holds(inbox, Len(inbox') + 1, Starts(p), Stops(p), p, StandingNodes)
    BY <1>1, <1>2, <2>2, HoldsTail
  <2> QED BY <1>1, <2>1, <2>3
<1>5. ASSUME NEW e \in AllEdges \ odd'.doomed, NEW n \in 0..(Len(inbox) - 1),
             Holds(inbox, n + 1, Opens(e), Ends(e), e, StandingEdges)
      PROVE  Holds(inbox', n, Opens(e), Ends(e), e, StandingEdges')
  <2>1. ev \in Opens(e) \/ (e \in StandingEdges /\ ev \notin Ends(e)) => e \in StandingEdges'
    BY <1>0, ApplyShows
  <2>2. Holds(Tail(inbox), n, Opens(e), Ends(e), e, StandingEdges')
    BY <1>1, <1>5, <2>1, HoldsTail
  <2> QED BY <1>1, <2>2
<1>6. ASSUME NEW e \in AllEdges \ odd'.spared,
             Holds(inbox', Len(inbox'), Opens(e), Ends(e), e, StandingEdges')
      PROVE  Holds(inbox, Len(inbox), Opens(e), Ends(e), e, StandingEdges)
  <2>1. e \in StandingEdges' => ev \in Opens(e) \/ (e \in StandingEdges /\ ev \notin Ends(e))
    BY <1>0, ApplyShows
  <2>2. Holds(Tail(inbox), Len(inbox'), Opens(e), Ends(e), e, StandingEdges')
    BY <1>1, <1>6
  <2>3. Holds(inbox, Len(inbox') + 1, Opens(e), Ends(e), e, StandingEdges)
    BY <1>1, <1>2, <2>1, <2>2, HoldsTail
  <2> QED BY <1>2, <2>3
<1>7. Edges(snap) \subseteq AllEdges
  BY <1>0, EdgesKnown DEF Types, TypeOK
<1>8. ASSUME NEW e \in Edges(snap) \ (odd'.moved \union odd'.doomed)
      PROVE  Holds(inbox', Len(inbox'), Opens(e), Ends(e), e, StandingEdges')
  <2>1. Holds(inbox, Len(inbox') + 1, Opens(e), Ends(e), e, StandingEdges)
    BY <1>2, <1>3 DEF IInv, EdgesForetold, WillStand
  <2> QED BY <1>2, <1>5, <1>7, <2>1
<1>9. ASSUME NEW e \in AllEdges \ (Edges(snap) \union odd'.moved \union odd'.spared)
      PROVE  ~Holds(inbox', Len(inbox'), Opens(e), Ends(e), e, StandingEdges')
  <2>1. ~Holds(inbox, Len(inbox), Opens(e), Ends(e), e, StandingEdges)
    BY <1>3 DEF IInv, EdgesForetold, WillStand
  <2> QED BY <1>6, <2>1
<1>10. ASSUME NEW i \in 1..Len(inbox'), NEW e \in AllEdges \ (odd'.moved \union odd'.doomed),
              inbox'[i] \in Sets(e)
       PROVE  Holds(inbox', i - 1, Opens(e), Ends(e), e, StandingEdges')
  <2>1. /\ i + 1 \in 1..Len(inbox) /\ inbox[i + 1] \in Sets(e) /\ (i + 1) - 1 = i
        /\ i - 1 \in 0..(Len(inbox) - 1) /\ (i - 1) + 1 = i
    BY <1>1, <1>10
  <2>2. Holds(inbox, i, Opens(e), Ends(e), e, StandingEdges)
    BY <1>3, <2>1 DEF IInv, ListsMeet, WillStand
  <2> QED BY <1>5, <2>1, <2>2
<1>11. ASSUME NEW e \in AllEdges \ (odd.moved \union odd.doomed), ev \in Sets(e)
       PROVE  e \in StandingEdges
  <2>1. 1 \in 1..Len(inbox) /\ inbox[1] = ev /\ 1 - 1 = 0
    BY <1>1
  <2>2. Holds(inbox, 0, Opens(e), Ends(e), e, StandingEdges)
    BY <1>11, <2>1 DEF IInv, ListsMeet, WillStand
  <2>3. ~ \E i \in 1..0 : TRUE
    OBVIOUS
  <2> QED BY <2>2, <2>3 DEF Holds
<1>12. ASSUME NEW e \in AllEdges \ Doubtful', NEW q \in Port
       PROVE  Holds(inbox', Len(inbox'), Lists(e, q), Resets(e), q, Shown(e)')
                <=> q \in PortsOf(snap, e)
  <2>1. e \notin Doubtful
    BY <1>3 DEF Doubtful
  <2>2. Holds(inbox, Len(inbox') + 1, Lists(e, q), Resets(e), q, Shown(e))
          <=> q \in PortsOf(snap, e)
    BY <1>2, <2>1 DEF IInv, PortsForetold, WillList
  <2>3. ev \in Sets(e) => e \in StandingEdges
    BY <1>11, <2>1 DEF Doubtful
  <2>4. q \in Shown(e)' <=> ev \in Lists(e, q) \/ (q \in Shown(e) /\ ev \notin Resets(e))
    BY <1>0, <2>3, ApplyShows
  <2>5. Holds(Tail(inbox), Len(inbox'), Lists(e, q), Resets(e), q, Shown(e)')
          <=> Holds(inbox, Len(inbox') + 1, Lists(e, q), Resets(e), q, Shown(e))
    BY <1>1, <1>2, <2>4, HoldsTail
  <2> QED BY <1>1, <2>2, <2>5
<1>13. RunsForetold'
  BY <1>1, <1>4 DEF RunsForetold, WillRun
<1>14. EdgesForetold'
  BY <1>1, <1>8, <1>9 DEF EdgesForetold, WillStand
<1>15. ListsMeet'
  BY <1>10 DEF ListsMeet, WillStand
<1>16. PortsForetold'
  BY <1>1, <1>12 DEF PortsForetold, WillList
<1> QED BY <1>13, <1>14, <1>15, <1>16

LEMMA ApplyTypes ==
  ASSUME Types, Apply
  PROVE  Types'
<1> DEFINE ev == Head(inbox)
           Timer == [node : Proc] \union [edge : AllEdges]
<1>1. ev \in Event /\ ApplyEvent(ev) /\ inbox' \in Seq(Event)
  BY DEF Types, Apply
<1>2. /\ edges \subseteq AllEdges /\ pendingEdges \subseteq AllEdges
      /\ \A e \in edges : e.ends \subseteq nodes
      /\ ports \in [AllEdges -> SUBSET Port]
      /\ pendingNodes \subseteq nodes /\ pendingNodes \subseteq Proc
      /\ timers \in Seq(Timer)
  BY DEF Types, TypeOK, Port
<1>3. ev.type \in {"PROCESS_STARTED", "PROCESS_STOPPED",
                   "CONNECTION_OPENED", "CONNECTION_CLOSED"}
  BY <1>1, EventMeans
<1>4. /\ ev.type \in {"PROCESS_STARTED", "PROCESS_STOPPED"} => ev.node \in Proc
      /\ ev.type = "CONNECTION_OPENED" => ev.edge \in AllEdges /\ ev.port \in Port
      /\ ev.type = "CONNECTION_CLOSED" => ev.edge \in AllEdges /\ ev.ports \subseteq Port
  BY <1>1, EventMeans
<1> HIDE DEF ev
<1>5. /\ edges' \subseteq AllEdges /\ pendingEdges' \subseteq AllEdges
      /\ \A e \in edges' : e.ends \subseteq nodes'
      /\ ports' \in [AllEdges -> SUBSET Port]
      /\ pendingNodes' \subseteq nodes' /\ pendingNodes' \subseteq Proc
      /\ timers' \in Seq(Timer)
  <2>1. CASE ev.type = "PROCESS_STARTED"
    <3>1. UpsertNode(ev.node)
      BY <1>1, <2>1 DEF ApplyEvent
    <3> QED BY <1>2, <3>1 DEF UpsertNode
  <2>2. CASE ev.type = "PROCESS_STOPPED"
    <3>1. FadeRemoveNode(ev.node) /\ [node |-> ev.node] \in Timer
      BY <1>1, <1>4, <2>2 DEF ApplyEvent
    <3>2. timers' \in Seq(Timer)
      <4> HIDE DEF Timer
      <4> QED BY <1>2, <3>1 DEF FadeRemoveNode
    <3> QED BY <1>2, <1>4, <2>2, <3>1, <3>2 DEF FadeRemoveNode
  <2>3. CASE ev.type = "CONNECTION_OPENED"
    <3>1. OpenEdge(ev.edge, ev.port)
      BY <1>1, <2>3 DEF ApplyEvent
    <3>2. ports' \in [AllEdges -> SUBSET Port]
      BY <1>2, <1>4, <2>3, <3>1 DEF OpenEdge
    <3> QED BY <1>2, <1>4, <2>3, <3>1, <3>2 DEF OpenEdge
  <2>4. CASE ev.type = "CONNECTION_CLOSED" /\ ev.remaining > 0
    <3>1. ReplacePorts(ev.edge, ev.ports)
      BY <1>1, <2>4 DEF ApplyEvent
    <3> QED BY <1>2, <1>4, <2>4, <3>1 DEF ReplacePorts
  <2>5. CASE ev.type = "CONNECTION_CLOSED" /\ ~(ev.remaining > 0)
    <3>1. FadeRemoveEdge(ev.edge) /\ [edge |-> ev.edge] \in Timer
      BY <1>1, <1>4, <2>5 DEF ApplyEvent
    <3>2. timers' \in Seq(Timer)
      <4> HIDE DEF Timer
      <4> QED BY <1>2, <3>1 DEF FadeRemoveEdge
    <3> QED BY <1>2, <1>4, <2>5, <3>1, <3>2 DEF FadeRemoveEdge
  <2> QED BY <1>3, <2>1, <2>2, <2>3, <2>4, <2>5
<1>6. odd' \in [DOMAIN Nothing -> SUBSET AllEdges]
  BY ApplyOdd
<1>7. snap' \in Snapshots /\ behind' \in BOOLEAN /\ ticks' \in 0..MaxTicks
  BY DEF Types, TypeOK, Apply
<1> QED BY <1>1, <1>5, <1>6, <1>7 DEF Types, TypeOK, Port

(* What becomes pending, and what no longer is.                            *)
LEMMA ApplyPending ==
  ASSUME Types, Apply
  PROVE  LET ev == Head(inbox)
         IN  /\ \A p \in pendingNodes' : p \in pendingNodes \/ ev \in Stops(p)
             /\ \A p \in pendingNodes : p \in pendingNodes' \/ ev \in Starts(p)
             /\ ev.type # "CONNECTION_CLOSED" => pendingEdges' \subseteq pendingEdges
<1> DEFINE ev == Head(inbox)
<1>1. ev \in Event /\ ApplyEvent(ev)
  BY DEF Types, Apply
<1>2. ev.type \in {"PROCESS_STARTED", "PROCESS_STOPPED",
                   "CONNECTION_OPENED", "CONNECTION_CLOSED"}
  BY <1>1, EventMeans
<1>3. /\ ev.type = "PROCESS_STARTED" => ev \in Starts(ev.node)
      /\ ev.type = "PROCESS_STOPPED" => ev \in Stops(ev.node)
      /\ ev.type = "CONNECTION_OPENED" => \A p : ev \in Starts(p) <=> p \in ev.edge.ends
  BY <1>1, EventMeans
<1> HIDE DEF ev
<1>4. CASE ev.type = "PROCESS_STARTED"
  <2>1. UpsertNode(ev.node)
    BY <1>1, <1>4 DEF ApplyEvent
  <2> QED BY <1>3, <1>4, <2>1 DEF UpsertNode, ev
<1>5. CASE ev.type = "PROCESS_STOPPED"
  <2>1. FadeRemoveNode(ev.node)
    BY <1>1, <1>5 DEF ApplyEvent
  <2> QED BY <1>3, <1>5, <2>1 DEF FadeRemoveNode, ev
<1>6. CASE ev.type = "CONNECTION_OPENED"
  <2>1. OpenEdge(ev.edge, ev.port)
    BY <1>1, <1>6 DEF ApplyEvent
  <2> QED BY <1>3, <1>6, <2>1 DEF OpenEdge, ev
<1>7. CASE ev.type = "CONNECTION_CLOSED"
  <2>1. ReplacePorts(ev.edge, ev.ports) \/ FadeRemoveEdge(ev.edge)
    BY <1>1, <1>7 DEF ApplyEvent
  <2>2. pendingNodes' = pendingNodes
    BY <2>1 DEF ReplacePorts, FadeRemoveEdge
  <2> QED BY <1>7, <2>2 DEF ev
<1> QED BY <1>2, <1>4, <1>5, <1>6, <1>7

LEMMA ApplyTimed ==
  ASSUME Types, Timed, Apply
  PROVE  Timed'
<1> DEFINE ev == Head(inbox)
           Timer == [node : Proc] \union [edge : AllEdges]
<1>1. ev \in Event /\ ApplyEvent(ev) /\ timers \in Seq(Timer)
  BY DEF Types, Apply
<1>2. ev.type \in {"PROCESS_STARTED", "PROCESS_STOPPED",
                   "CONNECTION_OPENED", "CONNECTION_CLOSED"}
  BY <1>1, EventMeans
<1> HIDE DEF ev, Timer
<1>3. \/ pendingNodes' \subseteq pendingNodes /\ pendingEdges' \subseteq pendingEdges
         /\ timers' = timers
      \/ pendingNodes' \subseteq pendingNodes \union {ev.node} /\ pendingEdges' = pendingEdges
         /\ timers' = Append(timers, [node |-> ev.node])
      \/ pendingEdges' \subseteq pendingEdges \union {ev.edge} /\ pendingNodes' = pendingNodes
         /\ timers' = Append(timers, [edge |-> ev.edge])
  <2>1. CASE ev.type = "PROCESS_STARTED"
    BY <1>1, <2>1 DEF ApplyEvent, UpsertNode
  <2>2. CASE ev.type = "PROCESS_STOPPED"
    BY <1>1, <2>2 DEF ApplyEvent, FadeRemoveNode
  <2>3. CASE ev.type = "CONNECTION_OPENED"
    BY <1>1, <2>3 DEF ApplyEvent, OpenEdge
  <2>4. CASE ev.type = "CONNECTION_CLOSED"
    BY <1>1, <2>4 DEF ApplyEvent, ReplacePorts, FadeRemoveEdge
  <2> QED BY <1>2, <2>1, <2>2, <2>3, <2>4
<1>4. ASSUME NEW x, timers' = Append(timers, x)
      PROVE  /\ \A i \in 1..Len(timers) : i \in 1..Len(timers') /\ timers'[i] = timers[i]
             /\ \E i \in 1..Len(timers') : timers'[i] = x
  <2>1. Len(timers) \in Nat /\ Len(timers') = Len(timers) + 1
    BY <1>1, <1>4
  <2>2. Len(timers') \in 1..Len(timers') /\ timers'[Len(timers')] = x
    BY <1>1, <1>4, <2>1
  <2>3. \A i \in 1..Len(timers) : i \in 1..Len(timers') /\ timers'[i] = timers[i]
    BY <1>1, <1>4, <2>1
  <2> QED BY <2>2, <2>3
<1>5. CASE pendingNodes' \subseteq pendingNodes /\ pendingEdges' \subseteq pendingEdges
           /\ timers' = timers
  BY <1>5 DEF Timed
<1>6. CASE pendingNodes' \subseteq pendingNodes \union {ev.node} /\ pendingEdges' = pendingEdges
           /\ timers' = Append(timers, [node |-> ev.node])
  BY <1>4, <1>6 DEF Timed
<1>7. CASE pendingEdges' \subseteq pendingEdges \union {ev.edge} /\ pendingNodes' = pendingNodes
           /\ timers' = Append(timers, [edge |-> ev.edge])
  BY <1>4, <1>7 DEF Timed
<1> QED BY <1>3, <1>5, <1>6, <1>7

LEMMA ApplyCalm ==
  ASSUME Types, Calm, Apply
  PROVE  Calm'
<1> DEFINE ev == Head(inbox)
<1>1. SUFFICES ASSUME ~behind' PROVE Calm'
  BY DEF Calm
<1>2. ~behind
  BY <1>1 DEF Apply
<1>3. /\ inbox \in Seq(Event) /\ inbox # <<>> /\ ev = inbox[1] /\ ev \in Event
      /\ Len(inbox) \in Nat /\ 1 \in 1..Len(inbox)
      /\ \A i \in 1..Len(inbox') : inbox'[i] = inbox[i + 1] /\ i + 1 \in 1..Len(inbox) /\ i \in Nat
  BY DEF Types, Apply
<1>4. /\ odd.doomed = {} /\ odd.spared = {} /\ odd.reopened = {}
      /\ \A i, j \in 1..Len(inbox) :
           /\ inbox[j].type = "CONNECTION_OPENED" =>
                pendingEdges = {} /\ (inbox[i].type = "CONNECTION_CLOSED" => j < i)
           /\ \A p \in Proc : inbox[j] \in Starts(p) =>
                p \notin pendingNodes /\ (inbox[i] \in Stops(p) => j < i)
  BY <1>2 DEF Calm
<1>5. /\ ev.type = "CONNECTION_OPENED" => pendingEdges = {}
      /\ \A p \in Proc : ev \in Starts(p) => p \notin pendingNodes
  BY <1>3, <1>4
<1>6. /\ \A p \in pendingNodes' : p \in pendingNodes \/ ev \in Stops(p)
      /\ \A p \in pendingNodes : p \in pendingNodes' \/ ev \in Starts(p)
      /\ ev.type # "CONNECTION_CLOSED" => pendingEdges' \subseteq pendingEdges
  BY ApplyPending
<1>7. pendingNodes \subseteq Proc
  BY DEF Types
<1>8. pendingNodes \subseteq pendingNodes'
  BY <1>5, <1>6, <1>7
<1>9. \A e \in edges \ StandingEdges : e \notin pendingEdges => e.ends \intersect pendingNodes # {}
  BY DEF StandingEdges
<1>10. odd'.spared = {}
  <2>1. \A e \in edges \ StandingEdges : e \notin pendingEdges => e.ends \intersect pendingNodes' # {}
    BY <1>8, <1>9
  <2> QED BY <1>4, <2>1, ApplyOdd
<1>11. odd'.doomed = {} /\ odd'.reopened = {}
  <2>1. CASE ev.type = "CONNECTION_OPENED"
    <3>1. \A p \in ev.edge.ends : ev \in Starts(p)
      BY <1>3, <2>1, EventMeans
    <3>2. ev.edge.ends \intersect pendingNodes = {}
      BY <1>5, <1>7, <3>1
    <3>3. ev.edge \notin edges \ StandingEdges /\ pendingEdges = {}
      BY <1>5, <1>9, <2>1, <3>2
    <3> QED BY <1>4, <2>1, <3>3, ApplyOdd
  <2>2. CASE ev.type # "CONNECTION_OPENED"
    BY <1>4, <2>2, ApplyOdd
  <2> QED BY <2>1, <2>2
<1> HIDE DEF ev
<1>12. ASSUME NEW i \in 1..Len(inbox'), NEW j \in 1..Len(inbox'),
              inbox'[j].type = "CONNECTION_OPENED"
       PROVE  pendingEdges' = {} /\ (inbox'[i].type = "CONNECTION_CLOSED" => j < i)
  <2>1. /\ i + 1 \in 1..Len(inbox) /\ j + 1 \in 1..Len(inbox) /\ i \in Nat /\ j \in Nat
        /\ inbox[j + 1].type = "CONNECTION_OPENED" /\ inbox'[i] = inbox[i + 1]
    BY <1>3, <1>12
  <2>2. pendingEdges = {} /\ (inbox[i + 1].type = "CONNECTION_CLOSED" => j + 1 < i + 1)
    BY <1>4, <2>1
  <2>3. inbox[1].type = "CONNECTION_CLOSED" => j + 1 < 1
    BY <1>3, <1>4, <2>1
  <2>4. ev.type # "CONNECTION_CLOSED"
    BY <1>3, <2>1, <2>3
  <2>5. pendingEdges' = {}
    BY <1>6, <2>2, <2>4
  <2> QED BY <2>1, <2>2, <2>5
<1>13. ASSUME NEW i \in 1..Len(inbox'), NEW j \in 1..Len(inbox'), NEW p \in Proc,
              inbox'[j] \in Starts(p)
       PROVE  p \notin pendingNodes' /\ (inbox'[i] \in Stops(p) => j < i)
  <2>1. /\ i + 1 \in 1..Len(inbox) /\ j + 1 \in 1..Len(inbox) /\ i \in Nat /\ j \in Nat
        /\ inbox[j + 1] \in Starts(p) /\ inbox'[i] = inbox[i + 1]
    BY <1>3, <1>13
  <2>2. p \notin pendingNodes /\ (inbox[i + 1] \in Stops(p) => j + 1 < i + 1)
    BY <1>4, <2>1
  <2>3. inbox[1] \in Stops(p) => j + 1 < 1
    BY <1>3, <1>4, <2>1
  <2>4. ev \notin Stops(p)
    BY <1>3, <2>1, <2>3
  <2> QED BY <1>6, <2>1, <2>2, <2>4
<1> QED BY <1>10, <1>11, <1>12, <1>13 DEF Calm

-----------------------------------------------------------------------------
(* A fade timer fires: what stands stays, whatever goes was pending.       *)
LEMMA FireShows ==
  ASSUME Types, Fire
  PROVE  /\ StandingNodes' = StandingNodes /\ StandingEdges' = StandingEdges /\ ports' = ports
         /\ pendingNodes' \subseteq pendingNodes /\ pendingEdges' \subseteq pendingEdges
         /\ edges' \subseteq edges /\ pendingNodes' \subseteq nodes'
         /\ \A e \in edges' : e.ends \subseteq nodes'
         /\ timers # <<>> /\ timers' = Tail(timers)
         /\ \A n \in pendingNodes' : Head(timers) # [node |-> n]
         /\ \A e \in pendingEdges' : Head(timers) # [edge |-> e]
<1> DEFINE h == Head(timers)
<1>1. /\ \A e \in edges : e.ends \subseteq nodes
      /\ pendingNodes \subseteq nodes /\ timers # <<>> /\ timers' = Tail(timers)
      /\ h \in [node : Proc] \union [edge : AllEdges]
  BY DEF Types, TypeOK, Fire, FireTimer, NodeTimer, EdgeTimer
<1>2. /\ StandingNodes = nodes \ pendingNodes /\ StandingNodes' = nodes' \ pendingNodes'
      /\ StandingEdges = {e \in edges \ pendingEdges : e.ends \intersect pendingNodes = {}}
      /\ StandingEdges' = {e \in edges' \ pendingEdges' : e.ends \intersect pendingNodes' = {}}
  BY DEF StandingNodes, StandingEdges
<1>3. IF "node" \in DOMAIN h THEN NodeTimer(h.node) ELSE EdgeTimer(h.edge)
  BY DEF Fire, FireTimer
<1> HIDE DEF h
<1>4. CASE h \in [node : Proc]
  <2>1. NodeTimer(h.node) /\ (\A n : h = [node |-> n] => n = h.node) /\ \A e : h # [edge |-> e]
    <3>1. "node" \in DOMAIN h
      BY <1>4
    <3>2. \A e : "node" \notin DOMAIN [edge |-> e]
      OBVIOUS
    <3>3. \A n : [node |-> n].node = n
      OBVIOUS
    <3> QED BY <1>3, <3>1, <3>2, <3>3
  <2>2. /\ edges' = IF h.node \in pendingNodes THEN {e \in edges : h.node \notin e.ends} ELSE edges
        /\ nodes' = IF h.node \in pendingNodes THEN nodes \ {h.node} ELSE nodes
        /\ pendingNodes' = pendingNodes \ {h.node} /\ pendingEdges' = pendingEdges /\ ports' = ports
    BY <2>1 DEF NodeTimer, Incident
  <2>3. StandingNodes' = StandingNodes
    BY <1>2, <2>2
  <2>4. StandingEdges' = StandingEdges
    <3>1. CASE h.node \in pendingNodes
      <4>1. \A e \in edges : h.node \notin e.ends =>
              (e.ends \intersect pendingNodes' = {} <=> e.ends \intersect pendingNodes = {})
        BY <2>2
      <4>2. \A e : e.ends \intersect pendingNodes = {} => h.node \notin e.ends
        BY <3>1
      <4> QED BY <1>2, <2>2, <3>1, <4>1, <4>2
    <3>2. CASE h.node \notin pendingNodes
      <4>1. pendingNodes' = pendingNodes /\ edges' = edges
        BY <2>2, <3>2
      <4> QED BY <1>2, <2>2, <4>1
    <3> QED BY <3>1, <3>2
  <2>5. /\ edges' \subseteq edges /\ pendingNodes' \subseteq nodes'
        /\ \A e \in edges' : e.ends \subseteq nodes'
    BY <1>1, <2>2
  <2>6. \A n \in pendingNodes' : h # [node |-> n]
    BY <2>1, <2>2
  <2> QED BY <1>1, <2>1, <2>2, <2>3, <2>4, <2>5, <2>6 DEF h
<1>5. CASE h \in [edge : AllEdges]
  <2>1. EdgeTimer(h.edge) /\ (\A e : h = [edge |-> e] => e = h.edge) /\ \A n : h # [node |-> n]
    <3>1. "node" \notin DOMAIN h
      BY <1>5
    <3>2. \A n : "node" \in DOMAIN [node |-> n]
      OBVIOUS
    <3>3. \A e : [edge |-> e].edge = e
      OBVIOUS
    <3> QED BY <1>3, <3>1, <3>2, <3>3
  <2>2. /\ pendingEdges' = pendingEdges \ {h.edge} /\ nodes' = nodes
        /\ edges' = IF h.edge \in pendingEdges THEN edges \ {h.edge} ELSE edges
        /\ pendingNodes' = pendingNodes /\ ports' = ports
    BY <2>1 DEF EdgeTimer
  <2>3. edges' \ pendingEdges' = edges \ pendingEdges
    BY <2>2
  <2>4. \A e \in pendingEdges' : h # [edge |-> e]
    BY <2>1, <2>2
  <2> QED BY <1>1, <1>2, <2>1, <2>2, <2>3, <2>4 DEF h
<1> QED BY <1>1, <1>4, <1>5

LEMMA FireStep ==
  ASSUME IInv, Fire
  PROVE  IInv'
<1> DEFINE Timer == [node : Proc] \union [edge : AllEdges]
<1>0. Types /\ timers \in Seq(Timer)
  BY DEF IInv, Types
<1>1. /\ StandingNodes' = StandingNodes /\ StandingEdges' = StandingEdges /\ ports' = ports
      /\ pendingNodes' \subseteq pendingNodes /\ pendingEdges' \subseteq pendingEdges
      /\ edges' \subseteq edges /\ pendingNodes' \subseteq nodes'
      /\ \A e \in edges' : e.ends \subseteq nodes'
  BY <1>0, FireShows
<1>2. /\ timers # <<>> /\ timers' = Tail(timers)
      /\ \A n \in pendingNodes' : Head(timers) # [node |-> n]
      /\ \A e \in pendingEdges' : Head(timers) # [edge |-> e]
  BY <1>0, FireShows
<1>3. snap' = snap /\ inbox' = inbox /\ odd' = odd /\ behind' = behind /\ ticks' = ticks
  BY DEF Fire
<1>4. Types'
  <2>1. timers' \in Seq(Timer)
    <3> HIDE DEF Timer
    <3> QED BY <1>0, <1>2
  <2> QED BY <1>0, <1>1, <1>3, <2>1 DEF Types, TypeOK
<1>5. Timed'
  <2> HIDE DEF Timer
  <2>1. ASSUME NEW i \in 1..Len(timers), timers[i] # Head(timers)
        PROVE  i - 1 \in 1..Len(timers') /\ timers'[i - 1] = timers[i]
    <3>1. i # 1 /\ Len(timers') = Len(timers) - 1 /\ Len(timers) \in Nat
      BY <1>0, <1>2, <2>1
    <3> QED BY <1>0, <1>2, <3>1
  <2>2. ASSUME NEW n \in pendingNodes' PROVE \E i \in 1..Len(timers') : timers'[i] = [node |-> n]
    <3>1. PICK i \in 1..Len(timers) : timers[i] = [node |-> n]
      BY <1>1 DEF IInv, Timed
    <3> QED BY <1>2, <2>1, <3>1
  <2>3. ASSUME NEW e \in pendingEdges' PROVE \E i \in 1..Len(timers') : timers'[i] = [edge |-> e]
    <3>1. PICK i \in 1..Len(timers) : timers[i] = [edge |-> e]
      BY <1>1 DEF IInv, Timed
    <3> QED BY <1>2, <2>1, <3>1
  <2> QED BY <2>2, <2>3 DEF Timed
<1>6. Calm'
  BY <1>1, <1>3 DEF IInv, Calm
<1>7. \A e : Shown(e)' = Shown(e)
  BY <1>1 DEF Shown
<1>8. RunsForetold' /\ EdgesForetold' /\ ListsMeet'
  BY <1>1, <1>3 DEF IInv, RunsForetold, WillRun, EdgesForetold, ListsMeet, WillStand
<1>9. PortsForetold'
  BY <1>3, <1>7 DEF IInv, PortsForetold, WillList, Doubtful
<1> QED BY <1>4, <1>5, <1>6, <1>8, <1>9 DEF IInv

-----------------------------------------------------------------------------
(* A client with a snapshot and nothing on its way.                        *)
Fresh ==
  /\ snap \in Snapshots
  /\ nodes = Nodes(snap) /\ edges = Edges(snap)
  /\ ports = [e \in AllEdges |-> PortsOf(snap, e)]
  /\ pendingNodes = {} /\ pendingEdges = {}
  /\ inbox = <<>> /\ odd = Nothing
  /\ timers \in Seq([node : Proc] \union [edge : AllEdges])
  /\ behind \in BOOLEAN /\ ticks \in 0..MaxTicks

(* Nothing on its way: what is shown stays.                                *)
LEMMA HoldsNothing ==
  ASSUME NEW s, NEW on, NEW off, NEW x, NEW now
  PROVE  Holds(s, 0, on, off, x, now) <=> x \in now
<1>1. ~ \E i \in 1..0 : TRUE
  OBVIOUS
<1> QED BY <1>1 DEF Holds

LEMMA FreshSound == Fresh => IInv
<1> SUFFICES ASSUME Fresh PROVE IInv
  OBVIOUS
<1>1. /\ snap \in Snapshots /\ nodes = Nodes(snap) /\ edges = Edges(snap)
      /\ ports = [e \in AllEdges |-> PortsOf(snap, e)]
      /\ pendingNodes = {} /\ pendingEdges = {} /\ inbox = <<>>
      /\ odd.moved = {} /\ odd.doomed = {} /\ odd.spared = {} /\ odd.reopened = {}
  BY DEF Fresh, Nothing
<1>2. Len(inbox) = 0 /\ ~ \E i \in 1..Len(inbox) : TRUE
  BY <1>1
<1>3. StandingNodes = Nodes(snap) /\ StandingEdges = Edges(snap)
  BY <1>1 DEF StandingNodes, StandingEdges
<1>4. \A e \in AllEdges : Shown(e) = PortsOf(snap, e)
  BY <1>1, <1>3, PortsKnown DEF Shown
<1>5. Types
  <2>1. ports \in [AllEdges -> SUBSET {k.port : k \in Conn}]
    BY <1>1, PortsKnown DEF Port
  <2>2. edges \subseteq AllEdges /\ \A e \in edges : e.ends \subseteq nodes
    BY <1>1, EdgesKnown
  <2>3. odd \in [DOMAIN Nothing -> SUBSET AllEdges]
    BY DEF Fresh, Nothing
  <2>4. inbox \in Seq(Event)
    BY <1>1
  <2> QED BY <1>1, <2>1, <2>2, <2>3, <2>4 DEF Fresh, Types, TypeOK
<1>6. Timed /\ Calm
  BY <1>1, <1>2 DEF Timed, Calm
<1>7. RunsForetold
  BY <1>1, <1>2, <1>3, HoldsNothing, EdgesKnown DEF RunsForetold, WillRun
<1>8. EdgesForetold
  BY <1>1, <1>2, <1>3, HoldsNothing DEF EdgesForetold, WillStand
<1>9. ListsMeet
  BY <1>2 DEF ListsMeet
<1>10. PortsForetold
  BY <1>2, <1>4, HoldsNothing DEF PortsForetold, WillList
<1> QED BY <1>5, <1>6, <1>7, <1>8, <1>9, <1>10 DEF IInv

LEMMA InitFresh == Init => Fresh
<1> SUFFICES ASSUME Init PROVE Fresh
  OBVIOUS
<1>1. timers \in Seq([node : Proc] \union [edge : AllEdges])
  <2>1. timers = <<>>
    BY DEF Init
  <2> QED BY <2>1
<1>2. behind \in BOOLEAN /\ ticks \in 0..MaxTicks
  <2>1. behind \in BOOLEAN
    BY DEF Init
  <2>2. ticks \in 0..MaxTicks
    BY BoundsAssumption DEF Init
  <2> QED BY <2>1, <2>2
<1>3. snap \in Snapshots
  BY DEF Init
<1>4. /\ nodes = Nodes(snap) /\ edges = Edges(snap)
      /\ ports = [e \in AllEdges |-> PortsOf(snap, e)]
      /\ pendingNodes = {} /\ pendingEdges = {} /\ inbox = <<>> /\ odd = Nothing
  BY DEF Init
<1> QED BY <1>1, <1>2, <1>3, <1>4 DEF Fresh

LEMMA ReconnectFresh == Types /\ Reconnect => Fresh'
BY DEF Types, TypeOK, Reconnect, ReplaceGraph, Fresh

LEMMA StepIInv == IInv /\ [Next]_vars => IInv'
<1> SUFFICES ASSUME IInv, [Next]_vars PROVE IInv'
  OBVIOUS
<1>0. Types
  BY DEF IInv
<1>1. ASSUME NEW new \in Snapshots, Tick(new) PROVE IInv'
  <2>1. Types'
    BY <1>0, <1>1, TickTypes
  <2>2. Timed' /\ Calm'
    BY <1>1, TickCalm
  <2>3. RunsForetold' /\ EdgesForetold' /\ ListsMeet' /\ PortsForetold'
    BY <1>1, TickForetold
  <2> QED BY <2>1, <2>2, <2>3 DEF IInv
<1>2. CASE Apply
  <2>1. Types'
    BY <1>0, <1>2, ApplyTypes
  <2>2. Timed' /\ Calm'
    BY <1>2, ApplyTimed, ApplyCalm DEF IInv
  <2>3. RunsForetold' /\ EdgesForetold' /\ ListsMeet' /\ PortsForetold'
    BY <1>2, ApplyForetold
  <2> QED BY <2>1, <2>2, <2>3 DEF IInv
<1>3. CASE Fire
  BY <1>3, FireStep
<1>4. CASE Reconnect
  <2>1. Fresh'
    BY <1>0, <1>4, ReconnectFresh
  <2>2. Fresh' => IInv'
    BY FreshSound, PTL
  <2> QED BY <2>1, <2>2
<1>5. CASE UNCHANGED vars
  <2>1. /\ snap' = snap /\ inbox' = inbox /\ odd' = odd /\ behind' = behind /\ ticks' = ticks
        /\ nodes' = nodes /\ edges' = edges /\ ports' = ports /\ pendingNodes' = pendingNodes
        /\ pendingEdges' = pendingEdges /\ timers' = timers
    BY <1>5 DEF vars, graph
  <2>2. StandingNodes' = StandingNodes /\ StandingEdges' = StandingEdges
    BY <2>1 DEF StandingNodes, StandingEdges
  <2>3. \A e : Shown(e)' = Shown(e)
    BY <2>1, <2>2 DEF Shown
  <2>4. Types' /\ Timed' /\ Calm'
    BY <2>1 DEF IInv, Types, TypeOK, Timed, Calm
  <2>5. RunsForetold' /\ EdgesForetold' /\ ListsMeet'
    BY <2>1, <2>2 DEF IInv, RunsForetold, WillRun, EdgesForetold, ListsMeet, WillStand
  <2>6. PortsForetold'
    BY <2>1, <2>3 DEF IInv, PortsForetold, WillList, Doubtful
  <2> QED BY <2>4, <2>5, <2>6 DEF IInv
<1> QED BY <1>1, <1>2, <1>3, <1>4, <1>5 DEF Next

LEMMA Invariance == Spec => []IInv
<1>1. Init => IInv
  BY InitFresh, FreshSound
<1> QED BY <1>1, StepIInv, PTL DEF Spec

-----------------------------------------------------------------------------
(* Types; and both ends of every edge on the screen are drawn, whatever    *)
(* order stops, opens, closes, fade timers and reconnections come in.      *)
THEOREM TypeCorrect == Spec => []TypeOK
<1>1. IInv => TypeOK
  BY DEF IInv, Types
<1> QED BY <1>1, Invariance, PTL

(* A client that has applied everything shows the processes of the         *)
(* server's snapshot: no stop is undone by a late timer or event.          *)
THEOREM ProcessesShown == Spec => []ProcessesInSync
<1>1. IInv => ProcessesInSync
  <2> SUFFICES ASSUME IInv, inbox = <<>> PROVE StandingNodes \intersect Proc = snap.procs
    BY DEF ProcessesInSync
  <2>1. \A p \in Proc : p \in StandingNodes <=> p \in snap.procs
    BY HoldsNothing DEF IInv, RunsForetold, WillRun
  <2>2. snap.procs \subseteq Proc
    BY SnapshotType DEF IInv, Types, TypeOK
  <2> QED BY <2>1, <2>2
<1> QED BY <1>1, Invariance, PTL

(* ... every edge of it, but those a socket silently moved from or to, and *)
(* for a client that lags those that an older timer takes away.            *)
THEOREM EdgesShown == Spec => []EdgesInSync
<1>1. IInv => EdgesInSync
  <2> SUFFICES ASSUME IInv, inbox = <<>>,
                      NEW e \in Edges(snap) \ Unusual(odd.doomed)
               PROVE  e \in StandingEdges
    BY DEF EdgesInSync
  <2>1. e \notin odd.moved \union odd.doomed
    BY DEF Unusual, IInv, Calm
  <2> QED BY <2>1, HoldsNothing DEF IInv, EdgesForetold, WillStand
<1> QED BY <1>1, Invariance, PTL

(* ... no edge besides, although the closes of a stopped process are never *)
(* sent, but moved ones and those on a node wanted again while it faded.   *)
THEOREM NoGhosts == Spec => []NoGhostEdge
<1>1. IInv => NoGhostEdge
  <2> SUFFICES ASSUME IInv, inbox = <<>>,
                      NEW e \in StandingEdges, e \notin Unusual(odd.spared)
               PROVE  e \in Edges(snap)
    BY DEF NoGhostEdge
  <2>1. e \notin odd.moved \union odd.spared
    BY DEF Unusual, IInv, Calm
  <2>2. e \in AllEdges
    BY DEF StandingEdges, IInv, Types, TypeOK
  <2> QED BY <2>1, <2>2, HoldsNothing DEF IInv, EdgesForetold, WillStand
<1> QED BY <1>1, Invariance, PTL

(* ... and an edge with the ports of its sockets, unless one of these      *)
(* happened to it or it was reopened while it faded.                       *)
THEOREM PortsShown == Spec => []PortsInSync
<1>1. IInv => PortsInSync
  <2> SUFFICES ASSUME IInv, inbox = <<>>, NEW e \in StandingEdges,
                      e \notin Unusual(odd.doomed \union odd.spared \union odd.reopened)
               PROVE  ports[e] = PortsOf(snap, e)
    BY DEF PortsInSync
  <2>1. e \notin Doubtful
    BY DEF Unusual, Doubtful, IInv, Calm
  <2>2. /\ e \in AllEdges /\ snap \in Snapshots
        /\ ports \in [AllEdges -> SUBSET Port]
    BY DEF StandingEdges, IInv, Types, TypeOK, Port
  <2>3. ports[e] \subseteq Port /\ PortsOf(snap, e) \subseteq Port
    BY <2>2, PortsKnown
  <2>4. \A q \in Port : q \in Shown(e) <=> q \in PortsOf(snap, e)
    BY <2>1, <2>2, HoldsNothing DEF IInv, PortsForetold, WillList
  <2> QED BY <2>3, <2>4 DEF Shown
<1> QED BY <1>1, Invariance, PTL
=============================================================================
