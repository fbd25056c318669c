------------------------------ MODULE InfraFeed ------------------------------
(***************************************************************************)
(* Infrastructure observation, one platform at a time: main.py's           *)
(* _infra_loop with its last-good holders, the diffs of                    *)
(* services/infra.py, and what a client makes of the snapshot and of the   *)
(* change-only events.                                                     *)
(*                                                                         *)
(* The four platforms share the loop and differ in which failures are      *)
(* adopted and which changes are announced, so `plat` is picked once.  An  *)
(* item (service, distribution, container, machine) is its status; "idle"  *)
(* is a present, not running status other than "stopped" (a paused         *)
(* service, a created container).  Benchmark suppression, lost queue items *)
(* and fading are LiveFeed's and ClientGraph's.  The edges of an item (to  *)
(* its network, its image, its process, its engine) are not drawn here;    *)
(* what one does to the frame it is in when its far end is missing, is.    *)
(***************************************************************************)
EXTENDS Naturals, FiniteSets, Sequences, Functions, Listing

CONSTANTS
  Item,        \* items of the platform; numbers, since cur.items() has an order
  MaxChanges,  \* bound: real changes in a behaviour
  MaxFaults    \* bound: failed or partial collections in a behaviour

ASSUME InfraAssumption == Item \subseteq Nat /\ IsFiniteSet(Item)

VARIABLES
  plat,     \* the platform
  real,     \* what the host really has
  up,       \* _state["snapshot"] and _state["topology"] are there
  pc,       \* the loop: "sleep", or "await" a collector in its thread
  gate,     \* the pass's own snap and topo are not None
  got,      \* the pass's collected state
  last,     \* last_services, last_wsl, last_docker or last_vm
  base,     \* the engine has its baseline (its dict is not None)
  seen,     \* the engine's current dict
  client,   \* the client is connected
  channel,  \* events sent to it and not applied yet
  shown,    \* its nodes
  known,    \* history: each item as last truly observed
  untold,   \* history: items the client was not told about, by design
  changes, faults  \* counters for the bounds

host    == <<plat, real, up>>
loop    == <<pc, gate, got, last>>
engine  == <<base, seen>>
view    == <<client, channel, shown>>
vars    == <<host, loop, engine, view, known, untold, changes, faults>>

Platform == {"services", "wsl", "docker", "vm"}
Status   == {"none", "running", "stopped", "idle"}
RealStatus(p) == IF p \in {"services", "docker"} THEN Status ELSE Status \ {"idle"}
Nothing  == [i \in Item |-> "none"]
Skipped  == [kind |-> "skipped"]

Init ==
  /\ plat \in Platform
  /\ real \in [Item -> RealStatus(plat)]
  /\ up = FALSE /\ pc = "sleep" /\ gate = FALSE
  /\ got = Skipped /\ last = Nothing
  /\ base = FALSE /\ seen = Nothing
  /\ client = FALSE /\ channel = <<>> /\ shown = Nothing
  /\ known = [i \in Item |-> "never"] /\ untold = {}
  /\ changes = 0 /\ faults = 0

-----------------------------------------------------------------------------
(* The host and the collector loop of the processes.                       *)
Change ==
  /\ changes < MaxChanges
  /\ changes' = changes + 1
  /\ \E i \in Item : \E s \in RealStatus(plat) \ {real[i]} :
       real' = [real EXCEPT ![i] = s]
  /\ UNCHANGED <<plat, up, loop, engine, view, known, untold, faults>>

FirstTick ==
  /\ ~up /\ up' = TRUE
  /\ UNCHANGED <<plat, real, loop, engine, view, known, untold, changes, faults>>

-----------------------------------------------------------------------------
(* The top of a pass in which the collector is due: snap and topo are      *)
(* read, then it is awaited.  Services are due only with snap and topo.    *)
Begin(outcome) ==
  /\ pc = "sleep" /\ pc' = "await"
  /\ gate' = up
  /\ got' = outcome
  /\ UNCHANGED <<host, last, engine, view, known, untold, changes>>

MayCollect == plat # "services" \/ up

(* Every item as it is.                                                    *)
Collect ==
  /\ MayCollect
  /\ Begin([kind |-> "ok", val |-> real])
  /\ UNCHANGED faults

Fault ==
  /\ MayCollect
  /\ faults < MaxFaults /\ faults' = faults + 1

(* A service whose status cannot be read is reported "unknown"; so is      *)
(* every distribution when only the plain `wsl --list` answers.            *)
CollectVeiled ==
  /\ plat \in {"services", "wsl"}
  /\ Fault
  /\ \E S \in IF plat = "wsl" THEN {Item} ELSE {{i} : i \in Item} :
       Begin([kind |-> "ok",
              val  |-> [i \in Item |-> IF i \in S /\ real[i] # "none" THEN "unknown"
                                                                     ELSE real[i]]])

(* The collector raises.                                                   *)
CollectRaises == Fault /\ Begin([kind |-> "raised"])

(* The collector returns its failure state: no services; error and not     *)
(* installed; the docker CLI timed out, on `version` or on `ps`; no answer *)
(* from PowerShell.                                                        *)
CollectNothing == Fault /\ Begin([kind |-> "empty", val |-> Nothing])

-----------------------------------------------------------------------------
(* Mutant: any returned state is adopted.                                  *)
AdoptedAsReturned(o) ==
  IF o.kind \in {"ok", "empty"} THEN o.val ELSE last

(* Which state the rest of the pass works on.  Of the states that report a *)
(* failure, services and WSL recognise theirs; docker and vm do not.       *)
Adopted(o) ==
  IF o.kind = "ok" \/ (o.kind = "empty" /\ plat \in {"docker", "vm"})
  THEN o.val
  ELSE last

(* Mutants: an unreadable status is a transition; it is one only on the    *)
(* way back.                                                               *)
ServiceAnnouncedUnveiled(old, new) ==
  \/ old = "none" /\ new = "running"
  \/ "none" \notin {old, new} /\ old # new

ServiceAnnouncedBack(old, new) ==
  \/ old = "none" /\ new = "running"
  \/ old # "none" /\ new \notin {"none", "unknown"} /\ old # new

(* _diff_services, _diff_wsl, _diff_docker, _diff_vms: does the change of  *)
(* one item yield an event?                                                *)
ServiceAnnounced(old, new) ==
  \/ old = "none" /\ new = "running"
  \/ {"none", "unknown"} \intersect {old, new} = {} /\ old # new

WslAnnounced(old, new) == "none" \notin {old, new} /\ old # new

(* Mutant: a container that is gone is not announced.                      *)
ContainerAnnouncedUnlessGone(old, new) ==
  old # new /\ new # "none" /\ {"none", "running"} \intersect {old, new} # {}

ContainerAnnounced(old, new) ==
  old # new /\ {"none", "running"} \intersect {old, new} # {}

VmAnnounced(old, new) == old # new

Announced(old, new) ==
  CASE plat = "services" -> ServiceAnnounced(old, new)
    [] plat = "wsl"      -> WslAnnounced(old, new)
    [] plat = "docker"   -> ContainerAnnounced(old, new)
    [] plat = "vm"       -> VmAnnounced(old, new)

(* The events of an update: those of current items, then the removals.     *)
Events(new) ==
  LET told  == {i \in Item : Announced(seen[i], new[i])}
      here  == {i \in told : new[i] # "none"}
      items == Sorted(here) \o Sorted(told \ here)
  IN  [k \in DOMAIN items |-> [item |-> items[k], val |-> new[items[k]]]]

(* Changes no client hears of: a service that is installed stopped, is     *)
(* uninstalled or becomes unreadable; a distribution that comes or goes; a *)
(* container between two statuses that are not running.                    *)
Unheard(old, new) ==
  CASE plat = "services" -> "unknown" \in {old, new} \/ new = "none"
                              \/ (old = "none" /\ new # "running")
    [] plat = "wsl"      -> "none" \in {old, new}
    [] plat = "docker"   -> {old, new} = {"stopped", "idle"}
    [] plat = "vm"       -> FALSE

(* Mutant: the good state is adopted but not held.                         *)
FinishForgets(o, ready) ==
  LET new == Adopted(o) IN
  /\ pc' = "sleep" /\ gate' = FALSE /\ got' = Skipped
  /\ UNCHANGED last
  /\ IF ready
     THEN base' = TRUE /\ seen' = new
     ELSE UNCHANGED engine
  /\ UNCHANGED <<host, view, known, untold, changes, faults>>

(* The rest of the pass: hold the good state, let the engine adopt it and  *)
(* publish the events; without snap and topo the engine is not updated.    *)
Finish(o, ready) ==
  LET new == Adopted(o) IN
  /\ pc' = "sleep" /\ gate' = FALSE /\ got' = Skipped
  /\ last' = Adopted(o)
  /\ known' = IF ready /\ o.kind = "ok"
              THEN [i \in Item |-> IF new[i] = "unknown" THEN known[i] ELSE new[i]]
              ELSE known
  /\ IF ready
     THEN /\ base' = TRUE /\ seen' = new
          /\ channel' = IF base /\ client THEN channel \o Events(new) ELSE channel
          /\ untold' = {i \in Item : IF base /\ seen[i] # new[i]
                                     THEN Unheard(seen[i], new[i])
                                     ELSE ~base \/ i \in untold}
     ELSE UNCHANGED <<engine, channel, untold>>
  /\ UNCHANGED <<host, client, shown, changes, faults>>

Update == pc = "await" /\ Finish(got, gate)

(* A pass in which the collector is not due awaits nothing.                *)
IdlePass == pc = "sleep" /\ Finish(Skipped, up)

-----------------------------------------------------------------------------
(* A connection, the first or a new one: subscribe, then the snapshot with *)
(* the engine's nodes; the nodes come before every edge that can throw.    *)
Connect ==
  /\ up
  /\ client' = TRUE
  /\ channel' = <<>>
  /\ shown' = seen
  /\ untold' = {}
  /\ UNCHANGED <<host, loop, engine, known, changes, faults>>

LastOf(frame, i) ==
  LET at == {k \in DOMAIN frame : frame[k].item = i}
  IN  frame[CHOOSE k \in at : \A j \in at : j <= k].val

ItemsOf(frame) == {e.item : e \in Range(frame)}

(* The next n events reach the client as one frame, which ends at the      *)
(* first row that throws: one that adds an edge without one of its ends.   *)
(* Each event carries its item's node and then its edges, to nodes no      *)
(* event announces (a container's network, its image, the docker engine)   *)
(* or to a process the client may not have drawn; the frame may also hold  *)
(* rows of the other loops.  So m of the events, any number, are applied.  *)
Deliver(n) ==
  /\ client
  /\ \E m \in 0..n :
       LET frame   == SubSeq(channel, 1, n)
           applied == SubSeq(frame, 1, m)
           dropped == SubSeq(frame, m + 1, n)
           rest    == SubSeq(channel, n + 1, Len(channel))
       IN  /\ shown' = [i \in Item |-> IF i \in ItemsOf(applied) THEN LastOf(applied, i)
                                                                 ELSE shown[i]]
           /\ untold' = untold \union (ItemsOf(dropped) \ ItemsOf(rest))
           /\ channel' = rest
  /\ UNCHANGED <<host, loop, engine, client, known, changes, faults>>

Due == Collect \/ CollectVeiled \/ CollectRaises \/ CollectNothing

Next ==
  \/ Change \/ FirstTick
  \/ Due \/ Update \/ IdlePass
  \/ Connect \/ \E n \in 1..Len(channel) : Deliver(n)

Spec == Init /\ [][Next]_vars

(* What FirstTick, Update and Collect do to up, pc and got.                *)
Starts  == ~up /\ up' = TRUE
Resumes == pc = "await" /\ pc' = "sleep"
Answers == MayCollect /\ pc = "sleep" /\ pc' = "await" /\ got' = [kind |-> "ok", val |-> real]

(* The first collector tick comes, the loop resumes after an await, and it *)
(* finds the collector due, and answering, again and again.                *)
FairSpec == Spec /\ WF_up(Starts) /\ WF_pc(Resumes) /\ SF_pc(Answers)
-----------------------------------------------------------------------------
TypeOK ==
  /\ plat \in Platform /\ real \in [Item -> RealStatus(plat)] /\ up \in BOOLEAN
  /\ pc \in {"sleep", "await"} /\ gate \in BOOLEAN
  /\ got.kind \in {"skipped", "ok", "empty", "raised"}
  /\ last \in [Item -> Status \union {"unknown"}]
  /\ base \in BOOLEAN /\ seen \in [Item -> Status \union {"unknown"}]
  /\ client \in BOOLEAN
  /\ \A e \in Range(channel) : e.item \in Item /\ e.val \in RealStatus(plat)
                                   \union (IF plat = "wsl" THEN {"unknown"} ELSE {})
  /\ shown \in [Item -> Status \union {"unknown"}]
  /\ known \in [Item -> Status \union {"never"}] /\ untold \subseteq Item

Adopting == pc = "await" /\ pc' = "sleep"

(* A collection that fails changes nothing the engine believes, for every  *)
(* platform if it raises or is skipped, and for services and WSL also if   *)
(* the collector returns its failure state.                                *)
LastGoodKept ==
  [][(Adopting /\ gate /\ base /\ got.kind # "ok"
        /\ (got.kind = "empty" => plat \in {"services", "wsl"})) => seen' = seen]_vars

(* main.py:556: no failed collection ever empties the graph.               *)
FailureWipesNothing ==
  [][(Adopting /\ gate /\ base /\ got.kind # "ok") => seen' = seen]_vars

(* Change-only: an event reports an item that is not as it was last truly  *)
(* observed, unless what the engine believed of it came from a failure; an *)
(* unreadable service status is not a failure in that sense, the missing   *)
(* status of a distribution is.                                            *)
NoFakeEvent ==
  [][(Adopting /\ gate /\ base) =>
       \A e \in Range(Events(seen')) :
         \/ e.val # known[e.item]
         \/ seen[e.item] # known[e.item] /\ (plat = "services" => seen[e.item] # "unknown")]_vars

(* A client that has applied everything sent to it shows what the engine   *)
(* believes, but for the items whose last change no client hears of, those *)
(* whose last event stood behind a row of its frame that threw, and, for a *)
(* client that connected before the baseline, those not changed since.     *)
ClientAgrees ==
  (client /\ channel = <<>>) => \A i \in Item \ untold : shown[i] = seen[i]

(* Once the host stops changing and the collectors stop failing, the       *)
(* engine believes the truth for good, whatever failed before.             *)
EngineConverges == <>[](seen = real)
=============================================================================
