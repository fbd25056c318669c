----------------------------- MODULE WatchProofs -----------------------------
(***************************************************************************)
(* What the backend claims to be watching: the health verdict and the tier *)
(* of TelemetryWatch, for every sample interval and freeze threshold, and  *)
(* what SemanticFeed detects, for any processes.  A client agrees with the *)
(* server because what is on its way says last of each node what is so,    *)
(* and what a tick has yet to publish makes one topology into the next.    *)
(***************************************************************************)
EXTENDS TelemetryWatch, SemanticFeed, ListingLemmas, TLAPS

-----------------------------------------------------------------------------
(* How the ages relate.  The loop has just aged them when it stands at     *)
(* "tick", and has sampled when it was time to when it stands at "probe".  *)
Cadence ==
  /\ pc = "start" => session \in {"off", "unstarted"} /\ ~any /\ busy = 0 /\ frozen = -1
  /\ pc = "probe" => age < Interval
  /\ pc \in {"start", "report", "tick"} => age > 0
  /\ buffered => any
  /\ moved => any
  /\ moved /\ (session = "alive" \/ frozen >= 0) => unmapped < age
  /\ fresh => any

(* The count of a freeze: begun at a sample, kept while nothing is mapped, *)
(* and at the threshold exactly when the state says so.                    *)
Count ==
  /\ frozen >= 0 => /\ busy >= frozen
                    /\ unmapped >= frozen \/ moved
  /\ state = "DEGRADED" => frozen = Threshold

(* Windows since the last sample that stood against a freeze.              *)
Since(n) == busy <= n \/ unmapped <= n

(* While no freeze is counted there is a reason not older than the sample  *)
(* before the last; while one is watched, not older than that and the      *)
(* count (which stands still at the threshold until the next sample).      *)
Promptness ==
  session = "alive" =>
    /\ ~based => busy <= age
    /\ frozen = -1 => Since(Interval + age)
    /\ state = "WATCHING" /\ frozen < Threshold => Since(2 * Interval + frozen)
    /\ state = "WATCHING" /\ frozen = Threshold =>
         Since(2 * Interval + Threshold + age - 1)

(* The capability the provider keeps is not above the one shown.           *)
TierKept ==
  pc \notin {"start", "report"} /\ shown.level = "TIER0" => cap.level = "TIER0"

IInv == TypeOK /\ Cadence /\ Count /\ Promptness /\ AlarmIsTold /\ TierKept

LEMMA InitIInv == Init => IInv
<1> SUFFICES ASSUME Init
             PROVE  IInv
  OBVIOUS
<1>0. Interval \in Nat /\ Threshold \in Nat /\ Interval > 0 /\ Horizon \in Nat
  BY WatchAssumption DEF Horizon
<1>1. TypeOK
  <2>1. cap \in Capability /\ shown \in Capability
    BY DEF Init, Tier0, Capability, Readiness
  <2>2. age \in 0..Interval /\ unmapped \in 0..Horizon /\ busy \in 0..Horizon
    BY <1>0 DEF Init
  <2>3. frozen \in -1..Threshold /\ ~(frozen >= 0)
    BY <1>0 DEF Init
  <2>4. state = "N/A" /\ told = "N/A"
    BY DEF Init
  <2>5. /\ edges \in BOOLEAN /\ buffered \in BOOLEAN /\ any \in BOOLEAN
        /\ fresh \in BOOLEAN /\ moved \in BOOLEAN /\ based \in BOOLEAN
    BY Zenon DEF Init
  <2>6. pc = "start" /\ session \in {"off", "unstarted"}
    BY DEF Init
  <2> QED
    BY <2>1, <2>2, <2>3, <2>4, <2>5, <2>6 DEF TypeOK
<1>2. Cadence /\ Count /\ Promptness /\ TierKept
  BY <1>0 DEF Init, Cadence, Count, Promptness, TierKept
<1>3. AlarmIsTold
  BY DEF Init, AlarmIsTold
<1> QED
  BY <1>1, <1>2, <1>3 DEF IInv

(* What a sample that is due leaves behind: a count that has begun, goes   *)
(* on or is given up, and nothing new since.                               *)
LEMMA JudgeProperties ==
  ASSUME TypeOK, Judge
  PROVE  /\ state' \in {"N/A", "OK"} \union Alarms
         /\ frozen' >= 0 <=> state' \in {"WATCHING", "DEGRADED"}
         /\ frozen' \in -1..Threshold
         /\ state' = "DEGRADED" => frozen' = Threshold
         /\ state' = "WATCHING" => frozen' < Threshold
<1>0. /\ Threshold \in Nat /\ Threshold > 0 /\ frozen \in -1..Threshold
  BY WatchAssumption DEF TypeOK
<1>1. ASSUME NEW s \in {"N/A", "OK", "PROVIDER_DEAD"}, SetState(s, -1)
      PROVE  state' = s /\ frozen' = -1
  BY <1>1 DEF SetState
<1>2. CASE \E s \in {"N/A", "OK", "PROVIDER_DEAD"} : SetState(s, -1)
  BY <1>0, <1>1, <1>2 DEF Alarms
<1> DEFINE frozenFor == IF frozen = -1 THEN 0 ELSE frozen
<1>3. CASE SetState(IF frozenFor >= Threshold THEN "DEGRADED" ELSE "WATCHING", frozenFor)
  <2>1. frozenFor \in 0..Threshold
    BY <1>0
  <2> HIDE DEF frozenFor
  <2>2. CASE frozenFor >= Threshold
    <3>1. state' = "DEGRADED" /\ frozen' = frozenFor
      BY <1>3, <2>2 DEF SetState
    <3> QED
      BY <1>0, <2>1, <2>2, <3>1 DEF Alarms
  <2>3. CASE ~(frozenFor >= Threshold)
    <3>1. state' = "WATCHING" /\ frozen' = frozenFor
      BY <1>3, <2>3 DEF SetState
    <3> QED
      BY <1>0, <2>1, <2>3, <3>1 DEF Alarms
  <2> QED
    BY <2>2, <2>3
<1> QED
  BY <1>2, <1>3 DEF Judge

(* The branches of a sample, with what they leave of the count.            *)
LEMMA JudgeCases ==
  ASSUME TypeOK, Judge
  PROVE  \/ session # "alive" /\ frozen' = -1 /\ UNCHANGED counters
         \/ session = "alive" /\ ~any /\ frozen' = -1 /\ UNCHANGED counters
         \/ /\ session = "alive" /\ any /\ (~based \/ moved) /\ frozen' = -1
            /\ based' = TRUE /\ fresh' = FALSE /\ moved' = FALSE /\ any' = any
         \/ /\ session = "alive" /\ any /\ based /\ ~moved /\ fresh
            /\ frozen' = IF frozen = -1 THEN 0 ELSE frozen
            /\ fresh' = FALSE /\ any' = any /\ moved' = moved /\ based' = based
         \/ /\ session = "alive" /\ any /\ based /\ ~moved /\ ~fresh
            /\ frozen' = -1 /\ UNCHANGED counters
<1>1. ASSUME NEW s \in {"N/A", "OK", "PROVIDER_DEAD"}, SetState(s, -1)
      PROVE  frozen' = -1
  BY <1>1 DEF SetState
<1> DEFINE frozenFor == IF frozen = -1 THEN 0 ELSE frozen
<1>2. ASSUME SetState(IF frozenFor >= Threshold THEN "DEGRADED" ELSE "WATCHING", frozenFor)
      PROVE  frozen' = frozenFor
  BY <1>2 DEF SetState
<1> QED
  BY <1>1, <1>2, Zenon DEF Judge

LEMMA StepIInv == IInv /\ [Next]_vars => IInv'
<1> SUFFICES ASSUME IInv, [Next]_vars
             PROVE  IInv'
  OBVIOUS
<1>0. /\ Interval \in Nat /\ Threshold \in Nat /\ Interval > 0 /\ Threshold > 0
      /\ Horizon = Threshold + 3 * Interval
  BY WatchAssumption DEF Horizon
<1> USE DEF IInv
<1>1. CASE Start
  <2> USE <1>1 DEF Start
  <2>1. TypeOK'
    BY DEF TypeOK, counters, health
  <2>2. Cadence'
    BY DEF TypeOK, Cadence, counters, health
  <2>3. Count' /\ AlarmIsTold' /\ TierKept'
    BY DEF Count, AlarmIsTold, TierKept, counters, health
  <2>4. Promptness'
    BY <1>0 DEF TypeOK, Cadence, Promptness, Since, counters, health
  <2> QED
    BY <2>1, <2>2, <2>3, <2>4
<1>2. CASE Report
  <2> USE <1>2 DEF Report
  <2>1. TypeOK'
    BY DEF TypeOK, Tier0, Tier2, Capability, Readiness, counters, health
  <2>2. Cadence' /\ Count' /\ AlarmIsTold' /\ Promptness' /\ TierKept'
    BY DEF Cadence, Count, AlarmIsTold, Promptness, Since, TierKept, counters, health
  <2> QED
    BY <2>1, <2>2
<1>3. CASE Receive
  <2> USE <1>3 DEF Receive
  <2>1. TypeOK'
    <3>1. cap' \in Capability
      BY DEF TypeOK, Capability, Readiness
    <3>2. any' \in BOOLEAN /\ fresh' \in BOOLEAN /\ buffered' \in BOOLEAN
      BY Zenon DEF TypeOK
    <3> QED
      BY <3>1, <3>2 DEF TypeOK, health
  <2>2. Cadence'
    BY DEF TypeOK, Cadence, health
  <2>3. Count' /\ AlarmIsTold'
    BY DEF Count, AlarmIsTold, health
  <2>4. Promptness'
    BY DEF Promptness, Since, health
  <2>5. TierKept'
    BY DEF TypeOK, Capability, TierKept
  <2> QED
    BY <2>1, <2>2, <2>3, <2>4, <2>5
<1>4. CASE Die
  <2> USE <1>4 DEF Die
  <2>1. TypeOK'
    BY DEF TypeOK, counters, health
  <2>2. Cadence' /\ Count' /\ AlarmIsTold' /\ Promptness' /\ TierKept'
    BY DEF Cadence, Count, AlarmIsTold, Promptness, TierKept, counters, health
  <2> QED
    BY <2>1, <2>2
<1>5. CASE SwitchEdges
  <2> USE <1>5 DEF SwitchEdges
  <2>1. TypeOK'
    BY DEF TypeOK, counters, health, tier
  <2>2. Cadence' /\ Count' /\ AlarmIsTold' /\ Promptness' /\ TierKept'
    BY DEF Cadence, Count, AlarmIsTold, Promptness, Since, TierKept, counters, health, tier
  <2> QED
    BY <2>1, <2>2
<1>6. CASE TelemetryTick
  <2> USE <1>6 DEF TelemetryTick
  <2> DEFINE mapped == buffered /\ edges
  <2>0. /\ moved' = (moved \/ mapped)
        /\ unmapped' = IF mapped THEN 0 ELSE unmapped
    OBVIOUS
  <2>1. TypeOK'
    <3>1. moved' \in BOOLEAN /\ buffered' \in BOOLEAN /\ edges' \in BOOLEAN
      BY Zenon DEF TypeOK
    <3>2. unmapped' \in 0..Horizon /\ shown' \in Capability
      BY <1>0 DEF TypeOK
    <3> QED
      BY <3>1, <3>2 DEF TypeOK, health
  <2>2. Cadence'
    BY <1>0, <2>0 DEF TypeOK, Cadence, health
  <2>3. Count'
    BY <1>0, <2>0 DEF TypeOK, Count, health
  <2>4. AlarmIsTold' /\ TierKept'
    BY DEF AlarmIsTold, TierKept, health
  <2>5. Promptness'
    BY <1>0, <2>0 DEF TypeOK, Promptness, Since, health
  <2> QED
    BY <2>1, <2>2, <2>3, <2>4, <2>5
<1>7. CASE HealthStage
  <2>0. /\ pc = "health" /\ pc' = "probe" /\ Sample /\ Consume
        /\ UNCHANGED <<tier, edges, buffered, unmapped>>
    BY <1>7 DEF HealthStage
  <2>1. AlarmIsTold'
    BY <2>0, Zenon DEF Consume, AlarmIsTold
  <2>2. TierKept'
    BY <2>0 DEF TierKept, tier
  <2>3. CASE age < Interval
    <3>1. UNCHANGED <<health, counters, busy>>
      BY <2>0, <2>3 DEF Sample
    <3>2. TypeOK'
      BY <2>0, <3>1 DEF TypeOK, Consume, tier, health, counters
    <3>3. Cadence' /\ Count' /\ Promptness'
      BY <2>0, <2>3, <3>1 DEF Cadence, Count, Promptness, Since, tier, health, counters
    <3> QED
      BY <2>1, <2>2, <3>2, <3>3
  <2>4. CASE ~(age < Interval)
    <3>1. Judge /\ age' = 0 /\ age = Interval
          /\ busy' = IF fresh THEN busy ELSE 0
      BY <1>0, <2>0, <2>4 DEF Sample, TypeOK
    <3>2. /\ state' \in {"N/A", "OK"} \union Alarms
          /\ frozen' >= 0 <=> state' \in {"WATCHING", "DEGRADED"}
          /\ frozen' \in -1..Threshold
          /\ state' = "DEGRADED" => frozen' = Threshold
          /\ state' = "WATCHING" => frozen' < Threshold
      BY <3>1, JudgeProperties
    <3>3. TypeOK'
      <4>1. /\ any' \in BOOLEAN /\ fresh' \in BOOLEAN
            /\ moved' \in BOOLEAN /\ based' \in BOOLEAN
        BY <3>1, JudgeCases, Zenon DEF TypeOK, counters
      <4>2. told' \in {"N/A", "OK"} \union Alarms
        BY <2>0, <3>2 DEF TypeOK, Consume
      <4> QED
        BY <1>0, <2>0, <3>1, <3>2, <4>1, <4>2 DEF TypeOK, tier
    <3>4. Cadence' /\ Count' /\ Promptness'
      <4> USE <1>0, <2>0, <3>1, <3>2
      <4> USE DEF TypeOK, Cadence, Count, Promptness, Since, tier, counters
      <4>1. CASE session # "alive" /\ frozen' = -1 /\ UNCHANGED counters
        BY <4>1
      <4>2. CASE session = "alive" /\ ~any /\ frozen' = -1 /\ UNCHANGED counters
        BY <4>2
      <4>3. CASE /\ session = "alive" /\ any /\ (~based \/ moved) /\ frozen' = -1
                 /\ based' = TRUE /\ fresh' = FALSE /\ moved' = FALSE /\ any' = any
        BY <4>3
      <4>4. CASE /\ session = "alive" /\ any /\ based /\ ~moved /\ fresh
                 /\ frozen' = IF frozen = -1 THEN 0 ELSE frozen
                 /\ fresh' = FALSE /\ any' = any /\ moved' = moved /\ based' = based
        BY <4>4
      <4>5. CASE /\ session = "alive" /\ any /\ based /\ ~moved /\ ~fresh
                 /\ frozen' = -1 /\ UNCHANGED counters
        BY <4>5
      <4> QED
        BY <4>1, <4>2, <4>3, <4>4, <4>5, JudgeCases
    <3> QED
      BY <2>1, <2>2, <3>3, <3>4
  <2> QED
    BY <2>3, <2>4
<1>8. CASE Probe
  <2> USE <1>8 DEF Probe
  <2>0. /\ age' = Older(age, Interval) /\ frozen' = Older(frozen, Threshold)
        /\ unmapped' = Older(unmapped, Horizon) /\ busy' = Older(busy, Horizon)
        /\ age < Interval /\ pc' = "tick"
    BY DEF Cadence
  <2>1. TypeOK'
    BY <1>0, <2>0 DEF TypeOK, Demote, Tier0, Capability, Readiness, Older, counters
  <2>2. Cadence'
    BY <1>0, <2>0 DEF TypeOK, Cadence, Older, counters
  <2>3. Count'
    BY <1>0, <2>0 DEF TypeOK, Count, Older, counters
  <2>4. Promptness'
    BY <1>0, <2>0 DEF TypeOK, Promptness, Since, Older, counters
  <2>5. AlarmIsTold'
    BY DEF AlarmIsTold
  <2>6. TierKept'
    BY DEF TierKept, Demote
  <2> QED
    BY <2>1, <2>2, <2>3, <2>4, <2>5, <2>6
<1>9. CASE UNCHANGED vars
  BY <1>9 DEF vars, tier, counters, health, TypeOK, Cadence, Count, Promptness,
              Since, AlarmIsTold, TierKept
<1> QED
  BY <1>1, <1>2, <1>3, <1>4, <1>5, <1>6, <1>7, <1>8, <1>9 DEF Next

(* Every reachable state of the telemetry loop is well formed, whatever    *)
(* the ETW thread does and whenever it dies.                               *)
THEOREM TypeCorrect == Spec => []TypeOK
<1>1. IInv => TypeOK
  BY DEF IInv
<1> QED
  BY <1>1, InitIInv, StepIInv, PTL DEF Spec

(* etw_health.py cries DEGRADED only after a whole threshold of new events *)
(* without one attributed to an edge.                                      *)
THEOREM DegradedTheorem == Spec => []DegradedIsEarned
<1>1. IInv => DegradedIsEarned
  BY WatchAssumption DEF IInv, TypeOK, Cadence, Count, DegradedIsEarned
<1> QED
  BY <1>1, InitIInv, StepIInv, PTL DEF Spec

(* And with an edge to attribute to, no freeze escapes it for longer than  *)
(* the threshold and three sample intervals.                               *)
THEOREM FreezeTheorem == Spec => []FreezeIsReported
<1>1. IInv => FreezeIsReported
  BY WatchAssumption
  DEF IInv, TypeOK, Cadence, Promptness, Since, FreezeIsReported, Horizon, Alarms
<1> QED
  BY <1>1, InitIInv, StepIInv, PTL DEF Spec

(* The ETW_HEALTH events a client gets always tell it which alarm is on.   *)
THEOREM AlarmTheorem == Spec => []AlarmIsTold
<1>1. IInv => AlarmIsTold
  BY DEF IInv
<1> QED
  BY <1>1, InitIInv, StepIInv, PTL DEF Spec

(* Once main.py has taken TIER2 away, no stage of the loop and no event of *)
(* the dying ETW thread gives it back.                                     *)
THEOREM DemotionTheorem == Spec => DemotionSticks
<1>1. IInv /\ [Next]_vars =>
        [pc # "report" /\ shown.level = "TIER0" => shown'.level = "TIER0"]_vars
  <2> SUFFICES ASSUME IInv, Next, pc # "report", shown.level = "TIER0"
               PROVE  shown'.level = "TIER0"
    OBVIOUS
  <2>1. CASE Start \/ Receive \/ Die \/ SwitchEdges \/ HealthStage
    BY <2>1 DEF Start, Receive, Die, SwitchEdges, HealthStage, tier
  <2>2. CASE Report
    BY <2>2 DEF Report
  <2>3. CASE TelemetryTick
    BY <2>3 DEF IInv, TierKept, TelemetryTick
  <2>4. CASE Probe
    BY <2>4 DEF Probe, Demote, Tier0
  <2> QED
    BY <2>1, <2>2, <2>3, <2>4 DEF Next
<1> QED
  BY <1>1, InitIInv, StepIInv, PTL DEF Spec, DemotionSticks

-----------------------------------------------------------------------------
(* The ids, what can be drawn, what a scan can be, and what LM Studio can  *)
(* have answered.                                                          *)
Node     == Proc \union Semantic
Canvas   == Proc \union {Socket(p) : p \in Listener} \union Semantic
Snapshot == {s \in [procs : SUBSET Proc, open : SUBSET Listener] : s.open \subseteq s.procs}
Answer   == [at : Proc \union {NoProc}, models : BOOLEAN]

(* What can be sent; a new detection with the edges a pass can find.       *)
RawNotice == [type : {"STARTED", "STOPPED"}, node : Proc] \union [type : {"OPENED"}, node : Listener]
Wirings   == {Related(s, api, failed) : s \in Snapshot, api \in Answer,
                                        failed \in SUBSET {"hermes", "lm_studio", "mcp"}}
Notice    == RawNotice \union [type : {"LOST"}, node : Semantic]
               \union {Announce(d, links) : d \in Semantic, links \in Wirings}

SemTypes ==
  /\ host \in Snapshot /\ scan \in Snapshot
  /\ stage \in {"sleep", "detect"}
  /\ prev \in Snapshot \union {Unknown} /\ topo \in Snapshot \union {Unknown}
  /\ dets \subseteq Semantic /\ lastOk \in Answer
  /\ client \in BOOLEAN /\ (client \/ queue = <<>>)
  /\ news \in Seq(RawNotice) /\ queue \in Seq(Notice)
  /\ graph \subseteq Canvas
  /\ missed \subseteq Node

(* What a list of events says of a node: whether any is about it, and      *)
(* whether the last of them agrees with what is there.  The events of a    *)
(* tick are all true of what is there after it, and complete, if they name *)
(* every node that is there now and was not before, or the other way       *)
(* round.                                                                  *)
Names(s, x) == \E k \in 1..Len(s) : s[k].node = x
LastSays(s, x, here) ==
  \A k \in 1..Len(s) :
    s[k].node = x /\ (\A j \in 1..Len(s) : j > k => s[j].node # x)
      => (Erased(s[k]) = {} <=> x \in here)
Truthful(s, among, here) ==
  \A k \in 1..Len(s) : s[k].node \in among /\ (Erased(s[k]) = {} <=> s[k].node \in here)
Complete(s, among, before, here) ==
  \A x \in among : Names(s, x) \/ (x \in before <=> x \in here)

(* The loop: asleep, its topology is what the diff engine saw; while the   *)
(* detectors run, the news are what makes the one into the other.          *)
Abreast ==
  /\ stage = "sleep" => prev = topo
  /\ stage = "detect" => /\ prev = scan
                         /\ Truthful(news, Proc, scan.procs)
                         /\ topo # Unknown => Complete(news, Proc, topo.procs, scan.procs)

(* The client: what is on its way says last of each node what is so, and   *)
(* where it says nothing what is drawn is so, unless its event was lost.   *)
There == topo.procs \union dets

Told ==
  client => /\ topo # Unknown
            /\ \A x \in Node : /\ LastSays(queue, x, There)
                               /\ ~Names(queue, x) /\ x \notin missed
                                    => (x \in graph <=> x \in There)

SemInv == SemTypes /\ Abreast /\ Told
-----------------------------------------------------------------------------
(* The ids of different things are different.                              *)
LEMMA Apart ==
  /\ \A x \in Proc : x \notin Semantic
  /\ \A x \in Node, p \in Proc : x # Socket(p)
<1>1. \A p \in Proc : Socket(p) \notin Semantic
  BY DEF Socket, Semantic, Hermes, LmStudio, Server
<1>2. \A x \in Proc : x \notin Semantic /\ \A p \in Proc : x # Socket(p)
  BY SemanticAssumption
<1> QED BY <1>1, <1>2 DEF Node

LEMMA SnapshotType ==
  /\ Nothing \in Snapshot
  /\ Unknown \notin Snapshot
  /\ Unknown.procs = {} /\ Unknown.open = {}
  /\ \A s \in Snapshot : s.procs \subseteq Proc /\ s.open \subseteq Listener
                         /\ s.open \subseteq s.procs
<1>1. Nothing \in Snapshot
  BY DEF Nothing, Snapshot
<1>2. Unknown \notin Snapshot
  <2>1. DOMAIN Unknown = {"procs", "open", "none"}
    BY DEF Unknown
  <2>2. \A s \in Snapshot : DOMAIN s = {"procs", "open"}
    BY DEF Snapshot
  <2>3. "none" \notin {"procs", "open"}
    OBVIOUS
  <2> QED BY <2>1, <2>2, <2>3
<1> QED BY <1>1, <1>2 DEF Unknown, Snapshot

LEMMA RawIsNotice == ASSUME NEW s \in Seq(RawNotice) PROVE s \in Seq(Notice)
<1>1. RawNotice \subseteq Notice
  BY DEF Notice
<1> QED BY <1>1

(* An event draws its node or erases it.                                   *)
LEMMA NoticeType ==
  ASSUME NEW e \in Notice
  PROVE  /\ e.node \in Node
         /\ Erased(e) \in {{}, {e.node}}
         /\ \A x \in Node : x \in Drawn(e) <=> x = e.node /\ Erased(e) = {}
         /\ Drawn(e) \subseteq Canvas
<1>1. Listener \subseteq Proc
  BY SemanticAssumption
<1>2. CASE e \in [type : {"STARTED", "STOPPED"}, node : Proc]
  BY <1>2 DEF Node, Canvas, Drawn, Erased
<1>3. CASE e \in [type : {"OPENED"}, node : Listener]
  <2>1. e.type = "OPENED" /\ e.node \in Listener
    BY <1>3
  <2>2. Drawn(e) = {e.node, Socket(e.node)} /\ Erased(e) = {}
    BY <2>1 DEF Drawn, Erased
  <2> QED BY <1>1, <2>1, <2>2, Apart DEF Node, Canvas
<1>4. CASE e \in [type : {"LOST"}, node : Semantic]
  BY <1>4 DEF Node, Canvas, Drawn, Erased
<1>5. CASE e \in {Announce(d, links) : d \in Semantic, links \in Wirings}
  BY <1>5 DEF Node, Canvas, Drawn, Erased, Announce
<1> QED BY <1>2, <1>3, <1>4, <1>5 DEF Notice, RawNotice
-----------------------------------------------------------------------------
(* What two lists say, one after the other.                                *)
LEMMA NamesJoin ==
  ASSUME NEW S, NEW s \in Seq(S), NEW t \in Seq(S), NEW x
  PROVE  Names(s \o t, x) <=> Names(s, x) \/ Names(t, x)
<1>1. /\ \A k \in 1..Len(s) : (s \o t)[k] = s[k] /\ k \in 1..Len(s \o t)
      /\ \A k \in 1..Len(t) : (s \o t)[Len(s) + k] = t[k] /\ Len(s) + k \in 1..Len(s \o t)
  BY TwoLists
<1>2. \A k \in 1..Len(s \o t) : \/ k \in 1..Len(s)
                                \/ k - Len(s) \in 1..Len(t) /\ Len(s) + (k - Len(s)) = k
  OBVIOUS
<1>3. PICK u : u = s \o t
  OBVIOUS
<1>4. \A k \in 1..Len(u) : u[k].node = x => Names(s, x) \/ Names(t, x)
  BY <1>1, <1>2, <1>3 DEF Names
<1> QED BY <1>1, <1>3, <1>4 DEF Names

LEMMA TruthfulJoin ==
  ASSUME NEW S, NEW s \in Seq(S), NEW t \in Seq(S), NEW among, NEW here,
         Truthful(s, among, here), Truthful(t, among, here)
  PROVE  Truthful(s \o t, among, here)
<1>1. /\ \A k \in 1..Len(s) : (s \o t)[k] = s[k]
      /\ \A k \in 1..Len(t) : (s \o t)[Len(s) + k] = t[k]
  BY TwoLists
<1>2. \A k \in 1..Len(s \o t) : \/ k \in 1..Len(s)
                                \/ k - Len(s) \in 1..Len(t) /\ Len(s) + (k - Len(s)) = k
  OBVIOUS
<1> QED BY <1>1, <1>2 DEF Truthful

(* Truthful news behind what is on its way are said last.                  *)
LEMMA LastSaysJoin ==
  ASSUME NEW S, NEW s \in Seq(S), NEW t \in Seq(S), NEW among, NEW x \in among,
         NEW before, NEW here,
         LastSays(s, x, before), Truthful(t, among, here), Complete(t, among, before, here)
  PROVE  LastSays(s \o t, x, here)
<1> DEFINE u == s \o t
           m == Len(s)
           n == Len(t)
<1>1. /\ m \in Nat /\ n \in Nat /\ Len(u) = m + n
      /\ \A k \in 1..m : u[k] = s[k] /\ k \in 1..(m + n)
      /\ \A k \in 1..n : u[m + k] = t[k] /\ m + k \in 1..(m + n)
      /\ \A k \in 1..(m + n) : k \in 1..m \/ (k - m \in 1..n /\ m + (k - m) = k)
  BY TwoLists
<1> HIDE DEF u, m, n
<1> SUFFICES ASSUME NEW k \in 1..(m + n), u[k].node = x,
                    \A j \in 1..(m + n) : j > k => u[j].node # x
             PROVE  Erased(u[k]) = {} <=> x \in here
  BY <1>1 DEF LastSays, u
<1>2. CASE k \in 1..m
  <2>1. ~Names(t, x)
    <3> SUFFICES ASSUME NEW j \in 1..n PROVE t[j].node # x
      BY DEF Names, n
    <3>1. m + j \in 1..(m + n) /\ m + j > k /\ u[m + j] = t[j]
      BY <1>1, <1>2
    <3> QED BY <3>1
  <2>2. \A j \in 1..m : j > k => s[j].node # x
    BY <1>1
  <2>3. Erased(s[k]) = {} <=> x \in before
    BY <1>1, <1>2, <2>2 DEF LastSays, m
  <2> QED BY <1>1, <1>2, <2>1, <2>3 DEF Complete
<1>3. CASE k - m \in 1..n /\ m + (k - m) = k
  <2>1. u[k] = t[k - m]
    BY <1>1, <1>3
  <2> QED BY <1>3, <2>1 DEF Truthful, n
<1> QED BY <1>1, <1>2, <1>3

(* A list of a finite set, each element turned into its event.             *)
Listed(S, f) == [k \in DOMAIN SetToSeq(S) |-> f[SetToSeq(S)[k]]]

LEMMA ListTells ==
  ASSUME NEW S, IsFiniteSet(S), NEW T, NEW f \in [S -> T], \A x \in S : f[x].node = x
  PROVE  /\ Listed(S, f) \in Seq(T)
         /\ \A k \in 1..Len(Listed(S, f)) :
              Listed(S, f)[k].node \in S /\ Listed(S, f)[k] = f[Listed(S, f)[k].node]
         /\ \A x \in S : Names(Listed(S, f), x)
<1> DEFINE q == SetToSeq(S)
           s == Listed(S, f)
<1>1. /\ q \in Seq(S) /\ DOMAIN q = 1..Len(q) /\ Len(q) \in Nat
      /\ \A k \in 1..Len(q) : q[k] \in S
      /\ \A x \in S : \E k \in 1..Len(q) : q[k] = x
  <2>1. /\ q \in Seq(S) /\ DOMAIN q = 1..Len(q)
        /\ \A k \in 1..Len(q) : q[k] \in S
        /\ \A x \in S : \E k \in 1..Len(q) : q[k] = x
    BY SetToSeqLists
  <2> HIDE DEF q
  <2>2. Len(q) \in Nat
    BY <2>1
  <2> QED BY <2>1, <2>2
<1> HIDE DEF q
<1>2. s = [k \in 1..Len(q) |-> f[q[k]]]
  BY <1>1 DEF q, Listed
<1> HIDE DEF s
<1>3. s \in [1..Len(q) -> T]
  BY <1>1, <1>2
<1>4. s \in Seq(T) /\ Len(s) = Len(q)
  BY <1>1, <1>3, FunctionIsSeq
<1>5. \A k \in 1..Len(s) : s[k] = f[q[k]] /\ q[k] \in S /\ s[k].node = q[k]
  BY <1>1, <1>2, <1>4
<1>6. ASSUME NEW x \in S PROVE Names(s, x)
  <2>1. PICK k \in 1..Len(q) : q[k] = x
    BY <1>1
  <2>2. k \in 1..Len(s) /\ s[k].node = x
    BY <1>4, <1>5, <2>1
  <2> QED BY <2>2 DEF Names
<1>7. \A k \in 1..Len(s) : s[k].node \in S /\ s[k] = f[s[k].node]
  BY <1>5
<1> QED BY <1>4, <1>6, <1>7 DEF s
-----------------------------------------------------------------------------
(* DiffEngine.diff: its events are true, and it has one for every process  *)
(* that is there now and was not, or the other way round.                  *)
LEMMA RawTells ==
  ASSUME NEW s \in Snapshot, prev \in Snapshot \union {Unknown}
  PROVE  /\ RawEvents(s) \in Seq(RawNotice)
         /\ Truthful(RawEvents(s), Proc, s.procs)
         /\ prev # Unknown => Complete(RawEvents(s), Proc, prev.procs, s.procs)
<1>1. CASE prev = Unknown
  BY <1>1 DEF RawEvents, Truthful
<1>2. CASE prev # Unknown
  <2> DEFINE ev(type, set) ==
               [k \in DOMAIN SetToSeq(set) |-> [type |-> type, node |-> SetToSeq(set)[k]]]
             a == ev("STARTED", s.procs \ prev.procs)
             b == ev("STOPPED", prev.procs \ s.procs)
             c == ev("OPENED", s.open \ prev.open)
  <2>1. RawEvents(s) = (a \o b) \o c
    BY <1>2 DEF RawEvents
  <2>2. /\ s.procs \subseteq Proc /\ s.open \subseteq Listener /\ s.open \subseteq s.procs
        /\ prev.procs \subseteq Proc /\ prev.open \subseteq Listener /\ Listener \subseteq Proc
        /\ IsFiniteSet(Proc)
    BY <1>2, SnapshotType, SemanticAssumption
  <2>3. ASSUME NEW type \in {"STARTED", "STOPPED", "OPENED"}, NEW set \in SUBSET Proc,
               type = "OPENED" => set \subseteq Listener
        PROVE  /\ ev(type, set) \in Seq(RawNotice)
               /\ \A k \in 1..Len(ev(type, set)) : ev(type, set)[k].node \in set
                                                   /\ ev(type, set)[k].type = type
               /\ \A x \in set : Names(ev(type, set), x)
    <3> DEFINE f == [x \in set |-> [type |-> type, node |-> x]]
    <3>1. IsFiniteSet(set)
      BY <2>2, FS_Subset
    <3>2. f \in [set -> RawNotice] /\ \A x \in set : f[x].node = x /\ f[x].type = type
      BY <2>3 DEF RawNotice
    <3>3. ev(type, set) = Listed(set, f)
      <4>1. \A k \in DOMAIN SetToSeq(set) : SetToSeq(set)[k] \in set
        BY <3>1, SetToSeqLists
      <4> QED BY <4>1 DEF Listed
    <3> HIDE DEF f, ev
    <3> QED BY <3>1, <3>2, <3>3, ListTells
  <2>4. /\ a \in Seq(RawNotice) /\ b \in Seq(RawNotice) /\ c \in Seq(RawNotice)
        /\ \A k \in 1..Len(a) : a[k].node \in s.procs \ prev.procs /\ a[k].type = "STARTED"
        /\ \A k \in 1..Len(b) : b[k].node \in prev.procs \ s.procs /\ b[k].type = "STOPPED"
        /\ \A k \in 1..Len(c) : c[k].node \in s.open \ prev.open /\ c[k].type = "OPENED"
        /\ \A x \in s.procs \ prev.procs : Names(a, x)
        /\ \A x \in prev.procs \ s.procs : Names(b, x)
    <3> HIDE DEF ev
    <3>1. s.procs \ prev.procs \in SUBSET Proc /\ prev.procs \ s.procs \in SUBSET Proc
          /\ s.open \ prev.open \in SUBSET Proc /\ s.open \ prev.open \subseteq Listener
      BY <2>2
    <3>2. /\ a \in Seq(RawNotice)
          /\ \A k \in 1..Len(a) : a[k].node \in s.procs \ prev.procs /\ a[k].type = "STARTED"
          /\ \A x \in s.procs \ prev.procs : Names(a, x)
      BY <2>3, <3>1
    <3>3. /\ b \in Seq(RawNotice)
          /\ \A k \in 1..Len(b) : b[k].node \in prev.procs \ s.procs /\ b[k].type = "STOPPED"
          /\ \A x \in prev.procs \ s.procs : Names(b, x)
      BY <2>3, <3>1
    <3>4. /\ c \in Seq(RawNotice)
          /\ \A k \in 1..Len(c) : c[k].node \in s.open \ prev.open /\ c[k].type = "OPENED"
      BY <2>3, <3>1
    <3> QED BY <3>2, <3>3, <3>4
  <2> HIDE DEF a, b, c
  <2>5. Truthful(a, Proc, s.procs) /\ Truthful(b, Proc, s.procs) /\ Truthful(c, Proc, s.procs)
    BY <2>2, <2>4 DEF Truthful, Erased
  <2>6. a \o b \in Seq(RawNotice) /\ (a \o b) \o c \in Seq(RawNotice)
    <3>1. a \o b \in Seq(RawNotice)
      BY <2>4, TwoLists
    <3> QED BY <2>4, <3>1, TwoLists
  <2>7. Truthful((a \o b) \o c, Proc, s.procs)
    BY <2>4, <2>5, <2>6, TruthfulJoin
  <2>8. \A x : Names(a, x) \/ Names(b, x) => Names((a \o b) \o c, x)
    BY <2>4, <2>6, NamesJoin
  <2> QED BY <2>1, <2>4, <2>6, <2>7, <2>8 DEF Complete
<1> QED BY <1>1, <1>2

(* SemanticEngine.update: likewise, for what is detected.                  *)
LEMMA SemanticTells ==
  ASSUME NEW found \in SUBSET Semantic, NEW links \in Wirings, dets \subseteq Semantic
  PROVE  /\ SemanticEvents(found, links) \in Seq(Notice)
         /\ Truthful(SemanticEvents(found, links), Semantic, found)
         /\ Complete(SemanticEvents(found, links), Semantic, dets, found)
<1> DEFINE new == found \ dets
           old == dets \ found
           a == Announced(new, links)
           b == Withdrawn(old)
<1>1. IsFiniteSet(new) /\ IsFiniteSet(old) /\ new \subseteq Semantic /\ old \subseteq Semantic
  <2>1. IsFiniteSet({Server(p) : p \in Proc})
    <3> DEFINE f == [p \in Proc |-> Server(p)]
    <3>1. f \in Surjection(Proc, {Server(p) : p \in Proc})
      BY DEF Surjection
    <3> QED BY <3>1, SemanticAssumption, FS_Surjection
  <2>2. IsFiniteSet({Hermes, LmStudio})
    <3>1. {Hermes, LmStudio} = {Hermes} \union {LmStudio}
      OBVIOUS
    <3>2. IsFiniteSet({Hermes}) /\ IsFiniteSet({LmStudio})
      BY FS_Singleton
    <3>3. IsFiniteSet({Hermes} \union {LmStudio})
      BY <3>2, FS_Union
    <3> QED BY <3>1, <3>3
  <2>3. IsFiniteSet(Semantic)
    BY <2>1, <2>2, FS_Union DEF Semantic
  <2> QED BY <2>3, FS_Subset
<1>2. SemanticEvents(found, links) = a \o b
  BY DEF SemanticEvents
<1>3. /\ a \in Seq(Notice) /\ Truthful(a, Semantic, found) /\ \A x \in new : Names(a, x)
  <2> DEFINE f == [x \in new |-> Announce(x, links)]
  <2>1. f \in [new -> Notice]
    BY <1>1 DEF Notice
  <2>2. \A x \in new : f[x].node = x /\ Erased(f[x]) = {}
    BY DEF Announce, Erased
  <2>3. a = Listed(new, f)
    <3>1. \A k \in DOMAIN SetToSeq(new) : SetToSeq(new)[k] \in new
      BY <1>1, SetToSeqLists
    <3>2. a = [k \in DOMAIN SetToSeq(new) |-> Announce(SetToSeq(new)[k], links)]
      BY DEF Announced
    <3> HIDE DEF a, new
    <3> QED BY <3>1, <3>2 DEF Listed
  <2>4. \A x \in new : x \in Semantic /\ x \in found
    BY <1>1
  <2> HIDE DEF a, f, new
  <2>5. IsFiniteSet(new) /\ \A x \in new : f[x].node = x
    BY <1>1, <2>2
  <2>6. /\ Listed(new, f) \in Seq(Notice)
        /\ \A k \in 1..Len(Listed(new, f)) :
             Listed(new, f)[k].node \in new /\ Listed(new, f)[k] = f[Listed(new, f)[k].node]
        /\ \A x \in new : Names(Listed(new, f), x)
    BY <2>1, <2>5, ListTells
  <2> QED BY <2>2, <2>3, <2>4, <2>6 DEF Truthful
<1>4. /\ b \in Seq(Notice) /\ Truthful(b, Semantic, found) /\ \A x \in old : Names(b, x)
  <2> DEFINE f == [x \in old |-> Withdraw(x)]
  <2>1. f \in [old -> Notice]
    BY <1>1 DEF Notice, Withdraw
  <2>2. \A x \in old : f[x].node = x /\ Erased(f[x]) # {}
    BY DEF Withdraw, Erased
  <2>3. b = Listed(old, f)
    <3>1. \A k \in DOMAIN SetToSeq(old) : SetToSeq(old)[k] \in old
      BY <1>1, SetToSeqLists
    <3>2. b = [k \in DOMAIN SetToSeq(old) |-> Withdraw(SetToSeq(old)[k])]
      BY DEF Withdrawn
    <3> HIDE DEF b, old
    <3> QED BY <3>1, <3>2 DEF Listed
  <2>4. \A x \in old : x \in Semantic /\ x \notin found
    BY <1>1
  <2> HIDE DEF b, f, old
  <2>5. IsFiniteSet(old) /\ \A x \in old : f[x].node = x
    BY <1>1, <2>2
  <2>6. /\ Listed(old, f) \in Seq(Notice)
        /\ \A k \in 1..Len(Listed(old, f)) :
             Listed(old, f)[k].node \in old /\ Listed(old, f)[k] = f[Listed(old, f)[k].node]
        /\ \A x \in old : Names(Listed(old, f), x)
    BY <2>1, <2>5, ListTells
  <2> QED BY <2>2, <2>3, <2>4, <2>6 DEF Truthful
<1>5. a \o b \in Seq(Notice)
  BY <1>3, <1>4, TwoLists
<1>6. Complete(a \o b, Semantic, dets, found)
  <2>1. \A x : Names(a, x) \/ Names(b, x) => Names(a \o b, x)
    BY <1>3, <1>4, NamesJoin
  <2> QED BY <1>3, <1>4, <2>1 DEF Complete
<1>7. Truthful(a \o b, Semantic, found)
  BY <1>3, <1>4, TruthfulJoin
<1> QED BY <1>2, <1>5, <1>6, <1>7
-----------------------------------------------------------------------------
(* What a tick publishes: the detections' events and those of the diff     *)
(* engine are about different nodes, and together about all.               *)
LEMMA BothTell ==
  ASSUME NEW a \in Seq(Notice), NEW b \in Seq(Notice),
         NEW p \in SUBSET Proc, NEW q \in SUBSET Proc,
         NEW d \in SUBSET Semantic, NEW e \in SUBSET Semantic,
         Truthful(a, Semantic, e), Truthful(b, Proc, q)
  PROVE  /\ Truthful(a \o b, Node, q \union e)
         /\ Complete(a, Semantic, d, e) /\ Complete(b, Proc, p, q)
              => Complete(a \o b, Node, p \union d, q \union e)
<1>1. Truthful(a, Node, q \union e)
  BY Apart DEF Truthful, Node
<1>2. Truthful(b, Node, q \union e)
  BY Apart DEF Truthful, Node
<1>3. \A x : Names(a, x) \/ Names(b, x) => Names(a \o b, x)
  BY NamesJoin
<1>4. Complete(a, Semantic, d, e) /\ Complete(b, Proc, p, q)
        => Complete(a \o b, Node, p \union d, q \union e)
  BY <1>3, Apart DEF Complete, Node
<1> QED BY <1>1, <1>2, <1>4, TruthfulJoin

(* What a full queue drops is a first part of it, and what it keeps says   *)
(* last of a node what the whole did.                                      *)
LEMMA DropTells ==
  ASSUME NEW S, NEW s \in Seq(S), NEW n \in Nat
  PROVE  /\ Latest(s, n) \in Seq(S)
         /\ \A e \in Range(Overflow(s, n)) : e \in S
         /\ \A x : Names(s, x) => \/ Names(Latest(s, n), x)
                                  \/ x \in {e.node : e \in Range(Overflow(s, n))}
         /\ \A x, here : LastSays(s, x, here) => LastSays(Latest(s, n), x, here)
<1> DEFINE L == Len(s)
           d == L - Least(n, L)
           kept == SubSeq(s, d + 1, L)
           gone == SubSeq(s, 1, d)
<1>1. L \in Nat /\ d \in 0..L /\ DOMAIN s = 1..L
  BY DEF Least
<1>2. Latest(s, n) = kept /\ Overflow(s, n) = gone
  BY DEF Latest, Overflow
<1> HIDE DEF L, d
<1>3. kept \in Seq(S) /\ Len(kept) = L - d /\ \A k \in 1..(L - d) : kept[k] = s[d + k]
  <2>1. PICK a : a = d
    OBVIOUS
  <2>2. PICK b : b = Len(s)
    OBVIOUS
  <2>3. PICK c : c = SubSeq(s, a + 1, b)
    OBVIOUS
  <2>4. b \in Nat /\ a \in 0..b
    BY <1>1, <2>1, <2>2 DEF L
  <2>5. c \in Seq(S) /\ Len(c) = b - a /\ \A k \in 1..(b - a) : c[k] = s[a + k]
    BY <2>2, <2>3, <2>4
  <2> QED BY <2>1, <2>2, <2>3, <2>5 DEF L
<1>4. gone \in Seq(S) /\ DOMAIN gone = 1..d /\ \A k \in 1..d : gone[k] = s[k]
  BY <1>1 DEF L
<1> HIDE DEF kept, gone
<1>5. ASSUME NEW x, Names(s, x)
      PROVE  Names(kept, x) \/ x \in {e.node : e \in Range(gone)}
  <2>1. PICK k \in 1..L : s[k].node = x
    BY <1>5 DEF Names, L
  <2>2. CASE k \in 1..d
    <3>1. gone[k] \in Range(gone) /\ gone[k].node = x
      BY <1>4, <2>1, <2>2 DEF Range
    <3> QED BY <3>1
  <2>3. CASE k \notin 1..d
    <3>1. k - d \in 1..(L - d) /\ d + (k - d) = k
      BY <1>1, <2>3
    <3>2. kept[k - d].node = x
      BY <1>3, <2>1, <3>1
    <3> QED BY <1>3, <3>1, <3>2 DEF Names
  <2> QED BY <2>2, <2>3
<1>6. ASSUME NEW x, NEW here, LastSays(s, x, here) PROVE LastSays(kept, x, here)
  <2> SUFFICES ASSUME NEW k \in 1..(L - d), kept[k].node = x,
                      \A j \in 1..(L - d) : j > k => kept[j].node # x
               PROVE  Erased(kept[k]) = {} <=> x \in here
    BY <1>3 DEF LastSays
  <2>1. d + k \in 1..L /\ s[d + k] = kept[k]
    BY <1>1, <1>3
  <2>2. ASSUME NEW j \in 1..L, j > d + k PROVE s[j].node # x
    <3>1. j - d \in 1..(L - d) /\ j - d > k /\ d + (j - d) = j
      BY <1>1, <2>2
    <3> QED BY <1>3, <3>1
  <2> QED BY <1>6, <2>1, <2>2 DEF LastSays, L
<1>7. \A e \in Range(gone) : e \in S
  <2>1. \A k \in 1..d : k \in 1..Len(s) /\ gone[k] = s[k]
    BY <1>1, <1>4 DEF L
  <2>2. \A k \in 1..Len(s) : s[k] \in S
    OBVIOUS
  <2> QED BY <1>4, <2>1, <2>2 DEF Range
<1> QED BY <1>2, <1>3, <1>5, <1>6, <1>7

LEMMA PublishTypes ==
  ASSUME queue \in Seq(Notice), missed \subseteq Node, NEW ev \in Seq(Notice), Publish(ev)
  PROVE  queue' \in Seq(Notice) /\ missed' \subseteq Node /\ (client \/ queue' = <<>>)
<1> DEFINE all == queue \o ev
<1>1. all \in Seq(Notice) /\ QueueSize \in Nat
  BY TwoLists, SemanticAssumption
<1> HIDE DEF all
<1>2. Latest(all, QueueSize) \in Seq(Notice)
  BY <1>1, DropTells
<1>3. \A e \in Range(Overflow(all, QueueSize)) : e \in Notice
  BY <1>1, DropTells
<1>4. \A e \in Range(Overflow(all, QueueSize)) : e.node \in Node
  BY <1>3, NoticeType
<1>5. CASE client
  BY <1>2, <1>4, <1>5 DEF Publish, all
<1>6. CASE ~client
  BY <1>6 DEF Publish
<1> QED BY <1>5, <1>6

LEMMA PublishTells ==
  ASSUME Told, queue \in Seq(Notice), NEW ev \in Seq(Notice),
         Truthful(ev, Node, There'), topo # Unknown => Complete(ev, Node, There, There'),
         Publish(ev), client' = client, graph' = graph,
         topo' # Unknown
  PROVE  Told'
<1> SUFFICES ASSUME client, NEW x \in Node
             PROVE  /\ LastSays(queue', x, There')
                    /\ ~Names(queue', x) /\ x \notin missed' => (x \in graph <=> x \in There')
  BY DEF Told, Node
<1> DEFINE all == queue \o ev
<1>1. /\ queue' = Latest(all, QueueSize)
      /\ missed' = missed \union {e.node : e \in Range(Overflow(all, QueueSize))}
  BY DEF Publish
<1>2. /\ Complete(ev, Node, There, There') /\ LastSays(queue, x, There)
      /\ ~Names(queue, x) /\ x \notin missed => (x \in graph <=> x \in There)
  BY DEF Told
<1>3. LastSays(all, x, There')
  BY <1>2, LastSaysJoin
<1>4. Names(all, x) <=> Names(queue, x) \/ Names(ev, x)
  BY NamesJoin
<1>5. Names(ev, x) \/ (x \in There <=> x \in There')
  BY <1>2 DEF Complete
<1>6. all \in Seq(Notice) /\ QueueSize \in Nat
  BY TwoLists, SemanticAssumption
<1> HIDE DEF all
<1>7. LastSays(Latest(all, QueueSize), x, There')
  BY <1>3, <1>6, DropTells
<1>8. Names(all, x) => \/ Names(Latest(all, QueueSize), x)
                       \/ x \in {e.node : e \in Range(Overflow(all, QueueSize))}
  BY <1>6, DropTells
<1>9. LastSays(queue', x, There')
  BY <1>1, <1>7
<1>10. ~Names(queue', x) /\ x \notin missed' => ~Names(all, x) /\ x \notin missed
  BY <1>1, <1>8
<1> QED BY <1>2, <1>4, <1>5, <1>9, <1>10
-----------------------------------------------------------------------------
(* A frame is applied up to one of its events.                             *)
LEMMA AppliedLengthType ==
  ASSUME NEW S, NEW frame \in Seq(S)
  PROVE  AppliedLength(frame) \in 0..Len(frame)
<1> DEFINE throws == {k \in DOMAIN frame :
                        /\ frame[k].type = "DETECTED"
                        /\ \E edge \in frame[k].edges : ~({edge[1], edge[2]} \subseteq After(frame, k))}
<1>1. PICK L : L = Len(frame)
  OBVIOUS
<1>2. L \in Nat /\ throws \in SUBSET Nat /\ throws \subseteq 1..L
  BY <1>1
<1>3. AppliedLength(frame) = IF throws = {} THEN L
                             ELSE CHOOSE k \in throws : \A j \in throws : k <= j
  BY <1>1 DEF AppliedLength
<1> HIDE DEF throws
<1>4. AppliedLength(frame) \in 0..L
  <2>1. CASE throws = {}
    BY <1>2, <1>3, <2>1
  <2>2. CASE throws # {}
    <3>1. \E k \in throws : \A j \in throws : k <= j
      BY <1>2, <2>2, LeastExists
    <3>2. AppliedLength(frame) \in throws
      BY <1>3, <2>2, <3>1
    <3>3. AppliedLength(frame) \in 1..L
      BY <1>2, <3>2
    <3> QED BY <1>2, <3>3
  <2> QED BY <2>1, <2>2
<1> QED BY <1>1, <1>4

(* After some events a node is there if the last of them about it draws    *)
(* it, and if none is, as before.                                          *)
LEMMA AfterTells ==
  ASSUME NEW frame \in Seq(Notice), NEW m \in 0..Len(frame),
         graph \subseteq Canvas
  PROVE  /\ After(frame, m) \subseteq Canvas
         /\ \A x \in Node :
              (\A k \in 1..m : frame[k].node # x) => (x \in After(frame, m) <=> x \in graph)
         /\ \A x \in Node, k \in 1..m :
              frame[k].node = x /\ (\A j \in 1..m : j > k => frame[j].node # x)
                => (x \in After(frame, m) <=> Erased(frame[k]) = {})
<1> DEFINE layer(i) == IF i = 0 THEN graph ELSE Drawn(frame[i])
<1>1. \A x : x \in After(frame, m) <=>
              \E i \in 0..m : x \in layer(i) /\ \A j \in (i + 1)..m : x \notin Erased(frame[j])
  BY DEF After
<1>2. m \in Nat /\ \A k \in 1..m : frame[k] \in Notice
  OBVIOUS
<1>3. \A k \in 1..m : /\ frame[k].node \in Node
                       /\ Erased(frame[k]) \in {{}, {frame[k].node}}
                       /\ \A x \in Node : x \in Drawn(frame[k]) <=> x = frame[k].node /\ Erased(frame[k]) = {}
                       /\ Drawn(frame[k]) \subseteq Canvas
  BY <1>2, NoticeType
<1>4. layer(0) = graph /\ \A i \in 0..m : i # 0 => i \in 1..m /\ layer(i) = Drawn(frame[i])
  BY <1>2
<1> HIDE DEF layer
<1>5. After(frame, m) \subseteq Canvas
  <2> SUFFICES ASSUME NEW x \in After(frame, m)
               PROVE  x \in Canvas
    OBVIOUS
  <2>1. PICK i \in 0..m : x \in layer(i)
    BY <1>1
  <2>2. CASE i = 0
    BY <1>4, <2>1, <2>2
  <2>3. CASE i # 0
    <3>1. i \in 1..m /\ x \in Drawn(frame[i])
      BY <1>4, <2>1, <2>3
    <3>2. Drawn(frame[i]) \subseteq Canvas
      BY <1>2, <3>1, NoticeType
    <3> QED BY <3>1, <3>2
  <2> QED BY <2>2, <2>3
<1>6. ASSUME NEW x \in Node, \A k \in 1..m : frame[k].node # x
      PROVE  x \in After(frame, m) <=> x \in graph
  <2>1. \A i \in 0..m : x \in layer(i) => i = 0
    BY <1>3, <1>4, <1>6
  <2>2. \A j \in (0 + 1)..m : x \notin Erased(frame[j])
    <3>1. \A j \in (0 + 1)..m : j \in 1..m
      BY <1>2
    <3> QED BY <1>3, <1>6, <3>1
  <2>3. 0 \in 0..m
    BY <1>2
  <2> QED BY <1>1, <1>4, <2>1, <2>2, <2>3
<1>7. ASSUME NEW x \in Node, NEW k \in 1..m, frame[k].node = x,
             \A j \in 1..m : j > k => frame[j].node # x
      PROVE  x \in After(frame, m) <=> Erased(frame[k]) = {}
  <2>1. CASE Erased(frame[k]) = {}
    <3>1. k \in 0..m /\ x \in layer(k)
      <4>1. k \in 0..m /\ k # 0
        BY <1>2
      <4>2. layer(k) = Drawn(frame[k])
        BY <1>4, <4>1
      <4>3. x \in Drawn(frame[k])
        <5>1. frame[k] \in Notice
          BY <1>2
        <5> QED BY <1>7, <2>1, <5>1, NoticeType
      <4> QED BY <4>1, <4>2, <4>3
    <3>2. \A j \in (k + 1)..m : x \notin Erased(frame[j])
      <4> SUFFICES ASSUME NEW j \in (k + 1)..m PROVE x \notin Erased(frame[j])
        OBVIOUS
      <4>1. j \in 1..m /\ j > k
        BY <1>2
      <4> QED BY <1>3, <1>7, <4>1
    <3> QED BY <1>1, <2>1, <3>1, <3>2
  <2>2. CASE Erased(frame[k]) # {}
    <3>1. x \in Erased(frame[k])
      BY <1>3, <1>7, <2>2
    <3>2. ASSUME NEW i \in 0..m, x \in layer(i) PROVE i < k
      <4>1. i # k
        BY <1>2, <1>3, <1>4, <2>2, <3>2
      <4>2. ~(i > k)
        BY <1>2, <1>3, <1>4, <1>7, <3>2
      <4> QED BY <1>2, <4>1, <4>2
    <3>3. \A i \in 0..m : i < k => k \in (i + 1)..m
      BY <1>2
    <3> QED BY <1>1, <2>2, <3>1, <3>2, <3>3
  <2> QED BY <2>1, <2>2
<1> QED BY <1>5, <1>6, <1>7

LEMMA DeliverKeeps ==
  ASSUME SemTypes, Told, Deliver
  PROVE  SemTypes' /\ Told'
<1>1. PICK N : N = Len(queue)
  OBVIOUS
<1>2. PICK n : n = Least(MaxBatch, N)
  OBVIOUS
<1>3. PICK frame : frame = SubSeq(queue, 1, n)
  OBVIOUS
<1>4. PICK m : m = AppliedLength(frame)
  OBVIOUS
<1>5. PICK rest : rest = SubSeq(queue, n + 1, N)
  OBVIOUS
<1>6. /\ client /\ queue # <<>>
      /\ graph' = After(frame, m)
      /\ missed' = (missed \ {frame[k].node : k \in 1..m}) \union {frame[k].node : k \in (m + 1)..n}
      /\ queue' = rest
      /\ UNCHANGED <<host, stage, scan, news, prev, topo, dets, lastOk, client>>
  BY <1>1, <1>2, <1>3, <1>4, <1>5 DEF Deliver, loop, engine
<1>7. queue \in Seq(Notice) /\ N \in Nat /\ n \in 1..N
  <2>1. queue \in Seq(Notice) /\ N \in Nat \ {0}
    BY <1>1, <1>6 DEF SemTypes
  <2> QED BY <1>2, <2>1, SemanticAssumption DEF Least
<1>8. frame \in Seq(Notice) /\ Len(frame) = n /\ \A k \in 1..n : frame[k] = queue[k]
  BY <1>1, <1>3, <1>7
<1>9. m \in 0..n
  BY <1>4, <1>8, AppliedLengthType
<1>10. /\ rest \in Seq(Notice) /\ Len(rest) = N - n
       /\ \A k \in 1..(N - n) : rest[k] = queue[n + k] /\ n + k \in 1..N
  BY <1>1, <1>5, <1>7
<1>11. \A k \in 1..N : k \in 1..m \/ k \in (m + 1)..n \/ (k - n \in 1..(N - n) /\ n + (k - n) = k)
  BY <1>7, <1>9
<1>12. SemTypes'
  <2>1. graph' \subseteq Canvas
    BY <1>6, <1>8, <1>9, AfterTells DEF SemTypes
  <2>2. missed' \subseteq Node
    <3>1. \A k \in (m + 1)..n : frame[k].node \in Node
      <4> SUFFICES ASSUME NEW k \in (m + 1)..n PROVE frame[k].node \in Node
        OBVIOUS
      <4>1. k \in 1..n
        BY <1>7, <1>9
      <4>2. frame[k] \in Notice
        BY <1>8, <4>1
      <4> QED BY <4>2, NoticeType
    <3> QED BY <1>6, <3>1 DEF SemTypes
  <2>3. queue' \in Seq(Notice)
    BY <1>6, <1>10
  <2> QED BY <1>6, <2>1, <2>2, <2>3 DEF SemTypes
<1>13. Told'
  <2>1. There' = There
    BY <1>6 DEF There
  <2> SUFFICES ASSUME NEW x \in Node
               PROVE  /\ LastSays(rest, x, There)
                      /\ ~Names(rest, x) /\ x \notin missed' => (x \in graph' <=> x \in There)
    BY <1>6, <2>1 DEF Told
  <2>2. /\ LastSays(queue, x, There)
        /\ ~Names(queue, x) /\ x \notin missed => (x \in graph <=> x \in There)
    BY <1>6 DEF Told
  <2>3. LastSays(rest, x, There)
    <3> SUFFICES ASSUME NEW k \in 1..(N - n), rest[k].node = x,
                        \A j \in 1..(N - n) : j > k => rest[j].node # x
                 PROVE  Erased(rest[k]) = {} <=> x \in There
      BY <1>10 DEF LastSays
    <3>1. n + k \in 1..N /\ queue[n + k] = rest[k]
      BY <1>10
    <3>2. ASSUME NEW j \in 1..N, j > n + k PROVE queue[j].node # x
      <4>1. j - n \in 1..(N - n) /\ j - n > k /\ n + (j - n) = j
        BY <1>7, <3>2
      <4> QED BY <1>10, <4>1
    <3> QED BY <1>1, <2>2, <3>1, <3>2 DEF LastSays
  <2>4. ASSUME ~Names(rest, x), x \notin missed' PROVE x \in graph' <=> x \in There
    <3>1. \A k \in 1..N : queue[k].node = x => k \in 1..m
      <4> SUFFICES ASSUME NEW k \in 1..N, queue[k].node = x PROVE k \in 1..m
        OBVIOUS
      <4>1. k \notin (m + 1)..n
        <5> SUFFICES ASSUME k \in (m + 1)..n PROVE FALSE
          OBVIOUS
        <5>1. k \in 1..n
          BY <1>7, <1>9
        <5> QED BY <1>6, <1>8, <2>4, <5>1
      <4>2. ~(k - n \in 1..(N - n) /\ n + (k - n) = k)
        BY <1>10, <2>4 DEF Names
      <4> QED BY <1>11, <4>1, <4>2
    <3>2. \A k \in 1..m : k \in 1..N /\ frame[k] = queue[k]
      BY <1>7, <1>8, <1>9
    <3>3. CASE \A k \in 1..m : frame[k].node # x
      <4>1. x \in graph' <=> x \in graph
        BY <1>6, <1>8, <1>9, <3>3, AfterTells DEF SemTypes
      <4>2. x \notin missed
        BY <1>6, <2>4, <3>3
      <4>3. ~Names(queue, x)
        BY <1>1, <3>1, <3>2, <3>3 DEF Names
      <4> QED BY <2>2, <4>1, <4>2, <4>3
    <3>4. CASE \E k \in 1..m : frame[k].node = x
      <4>1. PICK k \in 1..m : frame[k].node = x /\ \A j \in 1..m : j > k => frame[j].node # x
        <5> DEFINE at == {k \in 1..m : frame[k].node = x}
        <5>1. at \in SUBSET (1..m) /\ at # {} /\ m \in Nat
          BY <1>7, <1>9, <3>4
        <5>2. PICK k \in at : \A j \in at : j <= k
          BY <5>1, GreatestExists
        <5>3. ASSUME NEW j \in 1..m, j > k PROVE frame[j].node # x
          <6>1. j \notin at
            BY <5>1, <5>2, <5>3
          <6> QED BY <6>1
        <5> QED BY <5>2, <5>3
      <4>2. x \in graph' <=> Erased(frame[k]) = {}
        <5>1. \A l \in 1..m : frame[l].node = x /\ (\A j \in 1..m : j > l => frame[j].node # x)
                                 => (x \in After(frame, m) <=> Erased(frame[l]) = {})
          BY <1>8, <1>9, AfterTells DEF SemTypes
        <5> QED BY <1>6, <4>1, <5>1
      <4>3. k \in 1..N /\ queue[k] = frame[k] /\ \A j \in 1..N : j > k => queue[j].node # x
        BY <3>1, <3>2, <4>1
      <4>4. Erased(queue[k]) = {} <=> x \in There
        BY <1>1, <2>2, <4>1, <4>3 DEF LastSays
      <4> QED BY <4>2, <4>3, <4>4
    <3> QED BY <3>3, <3>4
  <2> QED BY <2>3, <2>4
<1> QED BY <1>12, <1>13
-----------------------------------------------------------------------------
LEMMA SemInitInv == SemInit => SemInv
<1> SUFFICES ASSUME SemInit PROVE SemInv
  OBVIOUS
<1>1. host \in Snapshot /\ Nothing \in Snapshot
  BY SemanticAssumption, SnapshotType DEF SemInit, Snapshot
<1>2. SemTypes
  <2>1. NoAnswer \in Answer
    BY DEF NoAnswer, Answer
  <2>2. <<>> \in Seq(RawNotice) /\ <<>> \in Seq(Notice)
    OBVIOUS
  <2> QED BY <1>1, <2>1, <2>2 DEF SemInit, SemTypes
<1> QED BY <1>2 DEF SemInit, SemInv, Abreast, Told

LEMMA ChangeKeeps == SemInv /\ Change => SemInv'
<1> SUFFICES ASSUME SemInv, Change PROVE SemInv'
  OBVIOUS
<1>1. host' \in Snapshot
  <2>1. host \in [procs : SUBSET Proc, open : SUBSET Listener] /\ host.open \subseteq host.procs
    BY DEF SemInv, SemTypes, Snapshot
  <2>2. Listener \subseteq Proc
    BY SemanticAssumption
  <2>3. /\ host'.procs \subseteq Proc /\ host'.open \subseteq Listener
        /\ host'.open \subseteq host'.procs /\ host' = [procs |-> host'.procs, open |-> host'.open]
    <3>1. CASE \E p \in Proc \ host.procs : host' = [host EXCEPT !.procs = @ \union {p}]
      BY <2>1, <2>2, <3>1
    <3>2. CASE \E p \in host.procs : host' = [procs |-> host.procs \ {p}, open |-> host.open \ {p}]
      BY <2>1, <2>2, <3>2
    <3>3. CASE \E p \in (Listener \intersect host.procs) \ host.open :
                 host' = [host EXCEPT !.open = @ \union {p}]
      BY <2>1, <2>2, <3>3
    <3>4. CASE \E p \in host.open : host' = [host EXCEPT !.open = @ \ {p}]
      BY <2>1, <2>2, <3>4
    <3> QED BY <3>1, <3>2, <3>3, <3>4 DEF Change
  <2> QED BY <2>3 DEF Snapshot
<1> QED BY <1>1 DEF Change, SemInv, SemTypes, Abreast, Told, There, loop, engine, page

LEMMA ScanOnlyKeeps == SemInv /\ ScanOnly => SemInv'
<1> SUFFICES ASSUME SemInv, ScanOnly PROVE SemInv'
  OBVIOUS
<1> DEFINE ev == RawEvents(host)
<1>1. /\ stage = "sleep" /\ topo # Unknown /\ prev = topo /\ topo \in Snapshot
      /\ host \in Snapshot /\ dets \subseteq Semantic /\ queue \in Seq(Notice)
      /\ prev' = host /\ topo' = host /\ Publish(ev)
      /\ UNCHANGED <<host, stage, scan, news, dets, lastOk, client, graph>>
      /\ missed \subseteq Node
  BY DEF ScanOnly, SemInv, SemTypes, Abreast, engine
<1>2. ev \in Seq(RawNotice) /\ Truthful(ev, Proc, host.procs) /\ Complete(ev, Proc, topo.procs, host.procs)
  BY <1>1, RawTells
<1> HIDE DEF ev
<1>3. ev \in Seq(Notice)
  BY <1>2, RawIsNotice
<1>4. /\ host.procs \in SUBSET Proc /\ topo.procs \in SUBSET Proc /\ host # Unknown
  BY <1>1, SnapshotType
<1>5. /\ Truthful(ev, Node, There') /\ Complete(ev, Node, There, There')
  <2>1. PICK p, q, d, none : p = topo.procs /\ q = host.procs /\ d = dets /\ none = <<>>
    OBVIOUS
  <2>2. Truthful(none, Semantic, d) /\ Complete(none, Semantic, d, d) /\ none \in Seq(Notice)
    BY <2>1 DEF Truthful, Complete
  <2>3. none \o ev = ev
    BY <1>3, <2>1
  <2>4. /\ p \in SUBSET Proc /\ q \in SUBSET Proc /\ d \in SUBSET Semantic
        /\ Truthful(ev, Proc, q) /\ Complete(ev, Proc, p, q)
    BY <1>1, <1>2, <1>4, <2>1
  <2>5. Truthful(none \o ev, Node, q \union d) /\ Complete(none \o ev, Node, p \union d, q \union d)
    BY <1>3, <2>2, <2>4, BothTell
  <2>6. There = p \union d /\ There' = q \union d
    BY <1>1, <2>1 DEF There
  <2> QED BY <2>3, <2>5, <2>6
<1>6. Told'
  BY <1>1, <1>3, <1>4, <1>5, PublishTells DEF SemInv
<1>7. queue' \in Seq(Notice) /\ (client' \/ queue' = <<>>) /\ missed' \subseteq Node
  BY <1>1, <1>3, PublishTypes
<1>8. SemTypes'
  BY <1>1, <1>7 DEF SemInv, SemTypes
<1> QED BY <1>1, <1>6, <1>8 DEF SemInv, Abreast

LEMMA ScanDueKeeps == SemInv /\ ScanDue => SemInv'
<1> SUFFICES ASSUME SemInv, ScanDue PROVE SemInv'
  OBVIOUS
<1>1. /\ stage = "sleep" /\ prev = topo /\ host \in Snapshot /\ prev \in Snapshot \union {Unknown}
      /\ stage' = "detect" /\ scan' = host /\ prev' = host /\ news' = RawEvents(host)
      /\ UNCHANGED <<host, topo, dets, lastOk, client, queue, graph, missed>>
  BY DEF ScanDue, SemInv, SemTypes, Abreast, engine, page
<1>2. /\ RawEvents(host) \in Seq(RawNotice) /\ Truthful(RawEvents(host), Proc, host.procs)
      /\ topo # Unknown => Complete(RawEvents(host), Proc, topo.procs, host.procs)
  BY <1>1, RawTells
<1>3. SemTypes'
  BY <1>1, <1>2 DEF SemInv, SemTypes
<1>4. Abreast'
  BY <1>1, <1>2 DEF Abreast
<1>5. Told'
  BY <1>1 DEF SemInv, Told, There
<1> QED BY <1>3, <1>4, <1>5 DEF SemInv

LEMMA DetectKeeps ==
  ASSUME SemInv, NEW failed \in SUBSET {"hermes", "lm_studio", "mcp"}, Detect(failed)
  PROVE  SemInv'
<1>1. PICK probe \in Probes(scan) :
        /\ lastOk' = IF Studio(scan) # {} THEN probe[2] ELSE lastOk
        /\ dets' = Adopted(Found(scan, failed))
        /\ Publish(SemanticEvents(Found(scan, failed), Related(scan, probe[1], failed)) \o news)
  BY DEF Detect
<1>2. PICK found, links : found = Found(scan, failed) /\ links = Related(scan, probe[1], failed)
  OBVIOUS
<1> DEFINE ev == SemanticEvents(found, links)
<1>3. /\ stage = "detect" /\ prev = scan /\ scan \in Snapshot /\ topo \in Snapshot \union {Unknown}
      /\ lastOk \in Answer /\ dets \subseteq Semantic
      /\ news \in Seq(RawNotice) /\ queue \in Seq(Notice)
      /\ Truthful(news, Proc, scan.procs)
      /\ topo # Unknown => Complete(news, Proc, topo.procs, scan.procs)
      /\ stage' = "sleep" /\ topo' = scan /\ scan' = Nothing /\ news' = <<>>
      /\ UNCHANGED <<host, prev, client, graph>> /\ missed \subseteq Node
  BY DEF Detect, SemInv, SemTypes, Abreast
<1>4. probe[1] \in Answer /\ probe[2] \in Answer
  <2>1. Listener \subseteq Proc /\ Studio(scan) \intersect scan.open \subseteq Proc
    BY <1>3, SnapshotType, SemanticAssumption
  <2>2. NoAnswer \in Answer
    BY DEF NoAnswer, Answer
  <2>3. PICK asked \in SUBSET Proc :
          Probes(scan) = {<<lastOk, lastOk>>, <<NoAnswer, lastOk>>}
                           \union {<<a, a>> : a \in [at : asked, models : BOOLEAN]}
    BY <2>1 DEF Probes
  <2>4. [at : asked, models : BOOLEAN] \subseteq Answer
    BY DEF Answer
  <2> QED BY <1>3, <2>2, <2>3, <2>4
<1>5. found \in SUBSET Semantic
  <2>1. Servers(scan) \subseteq Proc
    BY <1>3, SnapshotType DEF Servers
  <2> QED BY <1>2, <2>1 DEF Found, Semantic
<1>6. links \in Wirings
  BY <1>2, <1>3, <1>4 DEF Wirings
<1>7. ev \in Seq(Notice) /\ Truthful(ev, Semantic, found) /\ Complete(ev, Semantic, dets, found)
  BY <1>3, <1>5, <1>6, SemanticTells
<1>8. Publish(ev \o news) /\ dets' = found
  BY <1>1, <1>2 DEF Adopted
<1> HIDE DEF ev
<1>9. news \in Seq(Notice)
  BY <1>3, RawIsNotice
<1>10. ev \o news \in Seq(Notice)
  BY <1>7, <1>9, TwoLists
<1>11. scan.procs \in SUBSET Proc /\ topo.procs \in SUBSET Proc /\ scan # Unknown
  BY <1>3, SnapshotType
<1>12. There = topo.procs \union dets /\ There' = scan.procs \union found
  BY <1>3, <1>8 DEF There
<1>13. /\ Truthful(ev \o news, Node, There')
       /\ topo # Unknown => Complete(ev \o news, Node, There, There')
  <2>1. PICK p, q, d : p = topo.procs /\ q = scan.procs /\ d = dets
    OBVIOUS
  <2>2. /\ p \in SUBSET Proc /\ q \in SUBSET Proc /\ d \in SUBSET Semantic
        /\ Truthful(ev, Semantic, found) /\ Complete(ev, Semantic, d, found)
        /\ Truthful(news, Proc, q)
        /\ topo # Unknown => Complete(news, Proc, p, q)
    BY <1>3, <1>7, <1>11, <2>1
  <2>3. /\ Truthful(ev \o news, Node, q \union found)
        /\ Complete(ev, Semantic, d, found) /\ Complete(news, Proc, p, q)
             => Complete(ev \o news, Node, p \union d, q \union found)
    <3>1. ev \in Seq(Notice) /\ news \in Seq(Notice) /\ found \in SUBSET Semantic
      BY <1>5, <1>7, <1>9
    <3>2. p \in SUBSET Proc /\ q \in SUBSET Proc /\ d \in SUBSET Semantic
      BY <2>2
    <3>3. Truthful(ev, Semantic, found) /\ Truthful(news, Proc, q)
      BY <2>2
    <3> QED BY <3>1, <3>2, <3>3, BothTell
  <2> QED BY <1>12, <2>1, <2>2, <2>3
<1>14. Told'
  BY <1>3, <1>8, <1>10, <1>11, <1>13, PublishTells DEF SemInv
<1>15. queue' \in Seq(Notice) /\ (client' \/ queue' = <<>>) /\ missed' \subseteq Node
  BY <1>3, <1>8, <1>10, PublishTypes
<1>16. lastOk' \in Answer
  BY <1>1, <1>3, <1>4
<1>17. Nothing \in Snapshot
  BY SnapshotType
<1>18. SemTypes'
  BY <1>3, <1>5, <1>8, <1>15, <1>16, <1>17 DEF SemInv, SemTypes
<1> QED BY <1>3, <1>14, <1>18 DEF SemInv, Abreast

LEMMA ConnectKeeps == SemInv /\ Connect => SemInv'
<1> SUFFICES ASSUME SemInv, Connect PROVE SemInv'
  OBVIOUS
<1>1. /\ topo # Unknown /\ client' = TRUE /\ queue' = <<>> /\ missed' = {}
      /\ graph' = topo.procs \union {Socket(p) : p \in topo.open} \union dets
      /\ UNCHANGED <<host, stage, scan, news, prev, topo, dets, lastOk>>
      /\ topo \in Snapshot /\ dets \subseteq Semantic
  BY DEF Connect, SemInv, SemTypes, loop, engine
<1>2. topo.procs \subseteq Proc /\ topo.open \subseteq Listener /\ Listener \subseteq Proc
  BY <1>1, SnapshotType, SemanticAssumption
<1>3. graph' \subseteq Canvas
  BY <1>1, <1>2 DEF Canvas
<1>4. \A x \in Node : x \in graph' <=> x \in There
  BY <1>1, <1>2, Apart DEF There
<1>5. There' = There
  BY <1>1 DEF There
<1>6. SemTypes'
  BY <1>1, <1>3 DEF SemInv, SemTypes
<1>7. Told'
  BY <1>1, <1>4, <1>5 DEF Told, LastSays
<1> QED BY <1>1, <1>6, <1>7 DEF SemInv, Abreast

LEMMA SemStep == SemInv /\ [SemNext]_semVars => SemInv'
<1> SUFFICES ASSUME SemInv, [SemNext]_semVars PROVE SemInv'
  OBVIOUS
<1>1. CASE DetectAll
  BY <1>1, DetectKeeps DEF DetectAll
<1>2. CASE DetectSome
  BY <1>2, DetectKeeps DEF DetectSome
<1>3. CASE Deliver
  <2>1. Abreast'
    BY <1>3 DEF Deliver, SemInv, Abreast, loop, engine
  <2> QED BY <1>3, <2>1, DeliverKeeps DEF SemInv
<1>4. CASE UNCHANGED semVars
  BY <1>4 DEF semVars, loop, engine, page, SemInv, SemTypes, Abreast, Told, There
<1> QED BY <1>1, <1>2, <1>3, <1>4, ChangeKeeps, ScanOnlyKeeps, ScanDueKeeps, ConnectKeeps DEF SemNext

LEMMA SemAlways == SemSpec => []SemInv
BY SemInitInv, SemStep, PTL DEF SemSpec

(* semantic.py and the graph of the client, for any processes, marks and   *)
(* listeners: only what can run, listen or be detected is drawn or missed, *)
(* and nothing waits for a client that is not there.                       *)
THEOREM SemanticTypes == SemSpec => []SemTypeOK
<1>1. SemInv => SemTypeOK
  <2> SUFFICES ASSUME SemInv PROVE SemTypeOK
    OBVIOUS
  <2>1. host.open \subseteq host.procs \intersect Listener
    BY SnapshotType DEF SemInv, SemTypes
  <2> QED BY <2>1 DEF SemInv, SemTypes, SemTypeOK, Canvas, Node
<1> QED BY <1>1, SemAlways, PTL

(* For any processes, whatever starts, stops, listens or is probed,        *)
(* whichever detectors raise, and whenever a client connects: one that has *)
(* received everything shows the processes of the topology and what is     *)
(* detected, but for nodes whose last event its full queue dropped or      *)
(* stood behind an edge that it could not add.                             *)
THEOREM SemanticAgrees == SemSpec => []ClientAgrees
<1>1. SemInv => ClientAgrees
  BY DEF SemInv, Told, There, Names, Node, ClientAgrees
<1> QED BY <1>1, SemAlways, PTL
=============================================================================
