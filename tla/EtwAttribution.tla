---------------------------- MODULE EtwAttribution ----------------------------
(***************************************************************************)
(* Whose bytes are these?  telemetry/windows_network.py (EtwTcpipProvider) *)
(* learns from ETW which connection a TCB handle stands for, because the   *)
(* transfer events only carry the handle; telemetry/activity_aggregator.py *)
(* charges each transfer to an edge of the topology, or else to a process; *)
(* and the collector tells the provider which connections are gone, since  *)
(* ETW's removal events come late and the kernel reuses handles.           *)
(*                                                                         *)
(* Three threads: the kernel (outside, told from what the code says of     *)
(* it), the ETW consumer thread that runs _on_event, and the asyncio loop  *)
(* that runs the collector and telemetry loops.  The handlers and drain()  *)
(* hold the provider's lock, so each is a step.                            *)
(***************************************************************************)
EXTENDS Integers, FiniteSets, SequencesExt, Listing

CONSTANTS
  Tcb,        \* TCB handles
  Sock,       \* TCP connections, told apart by pid and 4-tuple
  Pid,        \* process ids
  PidOf,      \* PidOf[k]: the process of k
  NoSock,     \* None
  PeerOf,     \* PeerOf[k]: the other end of k if both are on this host
  QueueMax,   \* 20000, the bound of the provider's _queue
  MapMax,     \* TCB_MAP_MAX_ENTRIES
  MaxLag,     \* bound: ETW events on their way
  MaxOpens,   \* bound: connections opened in a behaviour
  MaxSends    \* bound: transfers in a behaviour

(* A connection is its (pid, local port, remote address) projection, which *)
(* drop_tcb_tuples calls unique; hence the exact lookup of flush() and its *)
(* wildcard fallback agree, and no candidates are ambiguous.               *)
ASSUME AttributionAssumption ==
  /\ PidOf \in [Sock -> Pid] /\ PeerOf \in [Sock -> Sock \union {NoSock}]
  /\ {QueueMax, MapMax} \subseteq Nat \ {0}
  /\ {MaxLag, MaxOpens, MaxSends} \subseteq Nat

VARIABLES
  conn,    \* the kernel: conn[h] is the connection handle h serves now
  etw,     \* events on their way to the consumer thread, in order
  late,    \* identity and removal events that take seconds, in any order
  map,     \* _tcb_map, oldest last_seen first: entries [tcb, sock]
  queue,   \* _queue: events [pid, sock], with the handle's true connection
  scan,    \* the connections of the collector's unfinished tick, or NoSock
  known,   \* _tuple_map: the connections of the last topology
  pids,    \* _pid_map
  absent,  \* _absent_tuples[k]: -1 when k is not in it
  closing, \* the tuples set_topology is about to hand to drop_tcb_tuples
  tally,   \* what became of the transfers
  missed,  \* history: handles an identity event of which was lost or late
  unseen,  \* history: unseen[k], topologies in a row without k, up to 2
  gone,    \* history: those that left the topology: once in it, then missing
           \* from two in a row, with no identity event since
  opens, sends  \* counters for the bounds

kernel     == <<conn, late, opens, sends, missed>>
provider   == <<map, queue>>
aggregator == <<scan, known, pids, absent, closing, unseen, gone>>
vars       == <<kernel, etw, provider, aggregator, tally>>

Fates == {"unresolved", "overflowed", "edge", "node", "nowhere", "uncounted", "wrong"}

Init ==
  /\ conn = [h \in Tcb |-> NoSock] /\ etw = <<>> /\ late = {}
  /\ map = <<>> /\ queue = <<>>
  /\ scan = NoSock /\ known = {} /\ pids = {}
  /\ absent = [k \in Sock |-> -1] /\ closing = {}
  /\ tally = [f \in Fates |-> 0]
  /\ missed = {} /\ unseen = [k \in Sock |-> 2] /\ gone = {}
  /\ opens = 0 /\ sends = 0

-----------------------------------------------------------------------------
(* The kernel: what the docstrings say Windows does.                       *)
IsOpen(k) == \E h \in Tcb : conn[h] = k

Emit(ev) == Len(etw) < MaxLag /\ etw' = Append(etw, ev)

Open(h, k) ==
  /\ opens < MaxOpens
  /\ conn[h] = NoSock /\ ~IsOpen(k)
  /\ conn' = [conn EXCEPT ![h] = k]
  /\ opens' = opens + 1
  /\ LET identity == [type |-> "create", tcb |-> h, sock |-> k] IN
     \/ Emit(identity) /\ UNCHANGED <<late, missed>>
     \/ missed' = missed \union {h} /\ late' = late \union {identity} /\ UNCHANGED etw
     \/ missed' = missed \union {h} /\ UNCHANGED <<late, etw>>
  /\ UNCHANGED <<sends, provider, aggregator, tally>>

(* Closing frees the handle at once; the removal event, by handle or (a    *)
(* reset) by the two addresses, comes late.                                *)
Close(h) ==
  /\ conn[h] # NoSock
  /\ conn' = [conn EXCEPT ![h] = NoSock]
  /\ \E n \in
               {[type |-> "remove", tcb |-> h],
                [type |-> "reset", sock |-> conn[h]]} : late' = late \union {n}
  /\ UNCHANGED <<opens, sends, missed, etw, provider, aggregator, tally>>

(* A TCP transfer carries the handle; UDP and legacy events carry the pid. *)
Transfer ==
  /\ sends < MaxSends
  /\ sends' = sends + 1
  /\ \/ \E h \in Tcb : /\ conn[h] # NoSock
                       /\ Emit([type |-> "bytes", tcb |-> h, true |-> conn[h]])
     \/ \E p \in Pid : Emit([type |-> "datagram", pid |-> p])
  /\ UNCHANGED <<conn, late, opens, missed, provider, aggregator, tally>>

-----------------------------------------------------------------------------
(* The ETW consumer thread.                                                *)
Without(s, dropped) == Sublist(s, {i \in DOMAIN s : s[i] \notin dropped})
Youngest(s, n) == SubSeq(s, Len(s) - n + 1, Len(s))

EntryOf(h)     == {e \in Range(map) : e.tcb = h}
EntriesFor(ks) == {e \in Range(map) : e.sock \in ks}

HandleTcbCreateUnbounded(h, k) ==
  /\ map' = Append(Without(map, EntryOf(h)), [tcb |-> h, sock |-> k])
  /\ UNCHANGED <<queue, tally>>

HandleTcbCreateKeepsFirst(h, k) ==
  /\ map' = IF EntryOf(h) # {} \/ Len(map) >= MapMax THEN map
            ELSE Append(map, [tcb |-> h, sock |-> k])
  /\ UNCHANGED <<queue, tally>>

(* _handle_tcb_create: the newest entry of the handle, then _evict_oldest. *)
HandleTcbCreate(h, k) ==
  LET learned == Append(Without(map, EntryOf(h)), [tcb |-> h, sock |-> k])
  IN  /\ map' = IF Len(learned) > MapMax THEN Youngest(learned, MapMax) ELSE learned
      /\ UNCHANGED <<queue, tally>>

BufferDropsSilently(ev) ==
  /\ queue' = IF Len(queue) = QueueMax THEN Append(Tail(queue), ev) ELSE Append(queue, ev)
  /\ UNCHANGED tally

(* Append to the bounded _queue; the oldest event makes room.              *)
Buffer(ev) ==
  LET q == Append(queue, ev)
      full == Len(q) > QueueMax
  IN  /\ queue' = IF full THEN Tail(q) ELSE q
      /\ tally' = IF full THEN [tally EXCEPT !["overflowed"] = @ + 1] ELSE tally

(* _handle_tcp_transfer: whatever the handle stands for in the map, and    *)
(* its last_seen is now.                                                   *)
HandleTcpTransfer(h, true) ==
  IF EntryOf(h) = {}
  THEN tally' = [tally EXCEPT !["unresolved"] = @ + 1] /\ UNCHANGED provider
  ELSE \E e \in EntryOf(h) :
         /\ Buffer([pid |-> PidOf[e.sock], sock |-> e.sock, true |-> true, tcb |-> h])
         /\ map' = Append(Without(map, {e}), e)

(* _handle_udp and _handle_legacy.                                         *)
HandleDatagram(p) ==
  Buffer([pid |-> p, sock |-> NoSock, true |-> NoSock, tcb |-> NoSock]) /\ UNCHANGED map

(* _handle_tcb_remove, _handle_state_change (CLOSED), and                  *)
(* _handle_tcb_remove_by_tuple, which takes the addresses either way round *)
(* and so forgets both ends of a connection within the host.               *)
HandleRemoval(ev) ==
  /\ map' = Without(map, IF ev.type = "remove" THEN EntryOf(ev.tcb)
                         ELSE EntriesFor({ev.sock, PeerOf[ev.sock]}))
  /\ UNCHANGED <<queue, tally>>

Handle(ev) ==
  /\ CASE ev.type = "create"   -> HandleTcbCreate(ev.tcb, ev.sock)
       [] ev.type = "bytes"    -> HandleTcpTransfer(ev.tcb, ev.true)
       [] ev.type = "datagram" -> HandleDatagram(ev.pid)
       [] ev.type \in {"remove", "reset"} -> HandleRemoval(ev)
  /\ gone' = IF ev.type = "create" THEN gone \ {ev.sock} ELSE gone
  /\ UNCHANGED <<conn, opens, sends, missed, scan, known, pids, absent, closing, unseen>>

OnEvent == etw # <<>> /\ etw' = Tail(etw) /\ UNCHANGED late /\ Handle(Head(etw))

OnLateEvent == \E ev \in late : late' = late \ {ev} /\ UNCHANGED etw /\ Handle(ev)

-----------------------------------------------------------------------------
(* The asyncio loop.  The collector lists the connections in a worker      *)
(* thread; psutil may miss one.                                            *)
Scan ==
  /\ scan = NoSock /\ closing = {}
  /\ scan' \in SUBSET {k \in Sock : IsOpen(k)}
  /\ UNCHANGED <<kernel, etw, provider, tally, known, pids, absent, closing,
                 unseen, gone>>

AbsenceStaysAtOne(k, current) ==
  IF k \in current THEN 0 ELSE IF absent[k] = -1 THEN -1 ELSE 1

AbsenceNotReset(k, current) ==
  IF absent[k] = -1 THEN (IF k \in current THEN 0 ELSE -1)
  ELSE IF k \in current THEN absent[k] ELSE absent[k] + 1

(* set_topology: the evidence maps, then the count of each tuple's         *)
(* consecutive absences, which at two reports the tuple closed.            *)
Absence(k, current) == IF k \in current THEN 0
                       ELSE IF absent[k] = -1 THEN -1 ELSE absent[k] + 1

SetTopology ==
  /\ scan # NoSock
  /\ known' = scan
  /\ pids' \in SUBSET Pid
  /\ LET count == [k \in Sock |-> Absence(k, scan)] IN
     /\ closing' = {k \in Sock : count[k] >= 2}
     /\ absent' = [k \in Sock |-> IF count[k] >= 2 THEN -1 ELSE count[k]]
  /\ unseen' = [k \in Sock |-> IF k \in scan THEN 0
                               ELSE IF unseen[k] = 2 THEN 2 ELSE unseen[k] + 1]
  /\ gone' = (gone \ scan) \union {k \in Sock : unseen'[k] = 2 /\ unseen[k] = 1}
  /\ scan' = NoSock
  /\ UNCHANGED <<kernel, etw, provider, tally>>

(* The tuples-closed callback, in the same stretch of the loop; the ETW    *)
(* thread may take the lock first.                                         *)
DropTcbTuples ==
  /\ closing # {}
  /\ closing' = {}
  /\ map' = Without(map, EntriesFor(closing))
  /\ UNCHANGED <<kernel, etw, queue, tally, scan, known, pids, absent,
                 unseen, gone>>

(* flush(): an edge when the connection is in the topology, else the       *)
(* process when the scan has its pid, else nothing.                        *)
Charged(ev) ==
  IF ev.sock \in known
  THEN IF ev.sock = ev.true THEN "edge" ELSE "wrong"
  ELSE IF ev.pid \in pids THEN "node" ELSE "nowhere"

(* What nothing is charged for enters events_unattributed only in a window *)
(* that has an item.                                                       *)
Fate(q, i) ==
  IF \A j \in DOMAIN q : Charged(q[j]) = "nowhere" THEN "uncounted" ELSE Charged(q[i])

(* _telemetry_tick: drain(), which first sweeps the entries idle for the   *)
(* TTL (time is not modelled: any of the oldest), record_many(), flush().  *)
TelemetryTick ==
  /\ closing = {}
  /\ \E n \in 0..Len(map) : map' = Youngest(map, n)
  /\ tally' = [f \in Fates |->
       tally[f] + Cardinality({i \in DOMAIN queue : Fate(queue, i) = f})]
  /\ queue' = <<>>
  /\ UNCHANGED <<kernel, etw, aggregator>>

Next ==
  \/ \E h \in Tcb : Close(h) \/ \E k \in Sock : Open(h, k)
  \/ Transfer
  \/ OnEvent \/ OnLateEvent
  \/ Scan \/ SetTopology \/ DropTcbTuples \/ TelemetryTick

Spec == Init /\ [][Next]_vars
-----------------------------------------------------------------------------
Entry == [tcb : Tcb, sock : Sock]

TypeOK ==
  /\ conn \in [Tcb -> Sock \union {NoSock}]
  /\ map \in Seq(Entry) /\ Len(map) <= MapMax
  /\ \A i, j \in DOMAIN map : map[i].tcb = map[j].tcb => i = j
  /\ Len(queue) <= QueueMax
  /\ known \subseteq Sock /\ pids \subseteq Pid /\ closing \subseteq Sock
  /\ absent \in [Sock -> -1..1]
  /\ tally \in [Fates -> 0..MaxSends]
  /\ missed \subseteq Tcb /\ gone \subseteq Sock

InFlight(s) == Cardinality({i \in DOMAIN s : s[i].type # "create"})
Total(t)    == t["unresolved"] + t["overflowed"] + t["edge"] + t["node"] + t["nowhere"]
                 + t["uncounted"] + t["wrong"]

(* No transfer is lost or counted twice on its way through the two         *)
(* threads: each is on its way, buffered, or has met exactly one fate.     *)
EveryTransferAccounted == sends = InFlight(etw) + Len(queue) + Total(tally)

(* Bytes are credited to another connection only on a handle for which an  *)
(* identity event was lost or late: reuse of the handle by itself, and     *)
(* removal events however late, never mislead the map.                     *)
MisattributionNeedsLoss ==
  \A i \in DOMAIN queue :
    queue[i].sock # queue[i].true => queue[i].tcb \in missed

(* drop_tcb_tuples closes the reuse race for what left the topology: no    *)
(* handle stands any more for a connection that was in a topology and that *)
(* two in a row have been without since, unless an identity event for it   *)
(* came after that.  One that opens and closes between two scans is in no  *)
(* topology, is never counted as absent, and is not meant here: its entry  *)
(* waits for a removal event or the TTL.                                   *)
GoneIsForgotten == closing = {} => \A e \in Range(map) : e.sock \notin gone

(* _absent_tuples is de-bounced "so a single flaky psutil tick never kills *)
(* the identity of a still-open connection".                               *)
SingleMissHarmless ==
  [][closing # {} /\ closing' = {} =>
       \A e \in Range(map) \ Range(map') : unseen[e.sock] = 2]_vars
=============================================================================
