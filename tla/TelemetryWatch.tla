---------------------------- MODULE TelemetryWatch ----------------------------
(***************************************************************************)
(* What the operator is told about the telemetry's own health:             *)
(* services/etw_health.py (EtwAttributionHealth) and the tier of the       *)
(* telemetry capability, both kept by main.py's _telemetry_loop while the  *)
(* ETW consumer thread counts events, and may die, between any two steps.  *)
(*                                                                         *)
(* Counters enter only by comparison with the last sample, so each is a    *)
(* flag: something came since, or not.  Timestamps enter only by age, in   *)
(* windows of the loop, and no older than the age that decides.            *)
(***************************************************************************)
EXTENDS Integers

CONSTANTS
  Interval,   \* sample_interval_s in windows of the telemetry loop
  Threshold   \* freeze_threshold_s in windows

ASSUME WatchAssumption == Interval \in Nat \ {0} /\ Threshold \in Nat \ {0}

VARIABLES
  pc,       \* the next stage of the loop, or of _init_telemetry before it
  session,  \* "off" (no provider), "unstarted", "failed", "alive" or "dead"
  cap,      \* the provider's _capability: [level, readiness]
  shown,    \* _state["telemetry"], the capability clients see
  edges,    \* the topology has an edge, that the traffic belongs to
  buffered, \* the provider buffers an event of a connection
  any,      \* events_received > 0
  fresh,    \* events_received > _events_last
  moved,    \* events_mapped_to_edges > _mapped_last
  based,    \* _mapped_last is not None
  age,      \* windows since _last_sample, up to Interval
  state,    \* _state
  frozen,   \* windows since _frozen_since, up to Threshold; -1 for None
  told,     \* the state the last ETW_HEALTH event carried
  unmapped, busy  \* history, up to Horizon: windows since an event mapped to
                  \* an edge; and since a sample that found nothing new

counters == <<any, fresh, moved, based>>
health   == <<age, state, frozen>>
tier     == <<session, cap, shown>>
vars     == <<pc, tier, edges, buffered, counters, health, told, unmapped, busy>>

Tier0(r) == [level |-> "TIER0", readiness |-> r]
Tier2(r) == [level |-> "TIER2", readiness |-> r]
Alarms   == {"WATCHING", "DEGRADED", "PROVIDER_DEAD"}
Horizon  == Threshold + 3 * Interval

Init ==
  /\ pc = "start" /\ session \in {"off", "unstarted"}
  /\ cap = Tier0("NONE") /\ shown = Tier0("NONE")
  /\ edges \in BOOLEAN /\ buffered = FALSE
  /\ any = FALSE /\ fresh = FALSE /\ moved = FALSE /\ based = FALSE
  /\ age = Interval /\ state = "N/A" /\ frozen = -1 /\ told = "N/A"
  /\ unmapped = 0 /\ busy = 0

(* provider.start(): the session runs before its capability is set.        *)
Start ==
  /\ pc = "start"
  /\ session' \in IF session = "off" THEN {"off"} ELSE {"alive", "failed"}
  /\ pc' = "report"
  /\ UNCHANGED <<cap, shown, edges, buffered, counters, health, told,
                 unmapped, busy>>

(* The end of start(), and the rest of _init_telemetry.                    *)
Report ==
  /\ pc = "report"
  /\ cap' = IF session \in {"alive", "dead"} THEN Tier2("INITIALIZING") ELSE Tier0("NONE")
  /\ shown' = cap'
  /\ pc' = "tick"
  /\ UNCHANGED <<session, edges, buffered, counters, health, told, unmapped, busy>>

-----------------------------------------------------------------------------
(* The ETW consumer thread: an event, that carries data or only identity.  *)
Receive ==
  /\ session = "alive"
  /\ any' = TRUE /\ fresh' = TRUE
  /\ \/ UNCHANGED <<buffered, cap>>
     \/ /\ buffered' \in {buffered, TRUE}
        /\ cap' = [cap EXCEPT !.readiness = "ACTIVE"]
  /\ UNCHANGED <<pc, session, shown, edges, moved, based, health, told, unmapped, busy>>

(* The ETW session ends and the thread with it.                            *)
Die ==
  /\ session = "alive"
  /\ session' = "dead"
  /\ UNCHANGED <<pc, cap, shown, edges, buffered, counters, health, told,
                 unmapped, busy>>

(* The collector's topologies.                                             *)
SwitchEdges ==
  /\ edges' = ~edges
  /\ UNCHANGED <<pc, tier, buffered, counters, health, told, unmapped, busy>>

-----------------------------------------------------------------------------
(* _telemetry_tick: drain, refresh the capability shown, flush.            *)
TelemetryTick ==
  /\ pc = "tick"
  /\ pc' = "health"
  /\ buffered' = FALSE
  /\ shown' = IF session = "off" THEN shown ELSE cap
  /\ LET mapped == buffered /\ edges
     IN  /\ moved' = (moved \/ mapped)
         /\ unmapped' = IF mapped THEN 0 ELSE unmapped
  /\ UNCHANGED <<session, cap, edges, any, fresh, based, health, told, busy>>

SetStateRestartsCount(s, frozenFor) ==
  /\ state' = s
  /\ frozen' = IF s = "DEGRADED" THEN frozenFor ELSE IF s = "WATCHING" THEN 0 ELSE -1

(* _set_state: "not frozen" clears _frozen_since.                          *)
SetState(s, frozenFor) ==
  /\ state' = s
  /\ frozen' = IF s \in {"WATCHING", "DEGRADED"} THEN frozenFor ELSE -1

JudgeFreshFirst ==
  LET frozenFor == IF frozen = -1 THEN 0 ELSE frozen
      same == UNCHANGED counters
  IN
  \/ session = "off" /\ SetState("N/A", -1) /\ same
  \/ session \in {"failed", "dead"} /\ SetState("PROVIDER_DEAD", -1) /\ same
  \/ session = "alive" /\ ~any /\ SetState("OK", -1) /\ same
  \/ /\ session = "alive" /\ any /\ (~based \/ (moved /\ ~fresh))
     /\ SetState("OK", -1)
     /\ based' = TRUE /\ fresh' = FALSE /\ moved' = FALSE /\ UNCHANGED any
  \/ /\ session = "alive" /\ any /\ based /\ fresh
     /\ SetState(IF frozenFor >= Threshold THEN "DEGRADED" ELSE "WATCHING", frozenFor)
     /\ fresh' = FALSE /\ UNCHANGED <<any, moved, based>>
  \/ /\ session = "alive" /\ any /\ based /\ ~moved /\ ~fresh
     /\ SetState("OK", -1) /\ same

(* sample() when it is not throttled, with the branches in their order.    *)
Judge ==
  LET frozenFor == IF frozen = -1 THEN 0 ELSE frozen
      same == UNCHANGED counters
  IN
  \/ session = "off" /\ SetState("N/A", -1) /\ same
  \/ session \in {"failed", "dead"} /\ SetState("PROVIDER_DEAD", -1) /\ same
  \/ session = "alive" /\ ~any /\ SetState("OK", -1) /\ same
  \/ /\ session = "alive" /\ any /\ (~based \/ moved)
     /\ SetState("OK", -1)
     /\ based' = TRUE /\ fresh' = FALSE /\ moved' = FALSE /\ UNCHANGED any
  \/ /\ session = "alive" /\ any /\ based /\ ~moved /\ fresh
     /\ SetState(IF frozenFor >= Threshold THEN "DEGRADED" ELSE "WATCHING", frozenFor)
     /\ fresh' = FALSE /\ UNCHANGED <<any, moved, based>>
  \/ /\ session = "alive" /\ any /\ based /\ ~moved /\ ~fresh
     /\ SetState("OK", -1) /\ same

Sample ==
  IF age < Interval
  THEN UNCHANGED <<health, counters, busy>>
  ELSE Judge /\ age' = 0 /\ busy' = IF fresh THEN busy ELSE 0

ConsumeAlarms ==
  told' = IF state' # state /\ state' \in Alarms THEN state' ELSE told

(* consume_transition: an ETW_HEALTH event for a transition to or from an  *)
(* alarm.                                                                  *)
Consume ==
  told' = IF state' # state /\ {state, state'} \intersect Alarms # {} THEN state' ELSE told

HealthStage ==
  /\ pc = "health"
  /\ pc' = "probe"
  /\ Sample /\ Consume
  /\ UNCHANGED <<tier, edges, buffered, unmapped>>

DemoteShown == shown' = Tier0("DEGRADED") /\ UNCHANGED cap

(* mark_degraded: the provider's own capability, and then the one shown.   *)
Demote == cap' = Tier0("DEGRADED") /\ shown' = cap'

(* The health probe, then the sleep to the next window.                    *)
Older(n, limit) == IF n = -1 \/ n = limit THEN n ELSE n + 1

ProbeActive ==
  /\ pc = "probe"
  /\ pc' = "tick"
  /\ IF shown = Tier2("ACTIVE") /\ session = "dead" THEN Demote ELSE UNCHANGED <<cap, shown>>
  /\ age' = Older(age, Interval)
  /\ frozen' = Older(frozen, Threshold)
  /\ unmapped' = Older(unmapped, Horizon)
  /\ busy' = Older(busy, Horizon)
  /\ UNCHANGED <<session, edges, buffered, counters, state, told>>

Probe ==
  /\ pc = "probe"
  /\ pc' = "tick"
  /\ IF shown.level = "TIER2" /\ session = "dead" THEN Demote ELSE UNCHANGED <<cap, shown>>
  /\ age' = Older(age, Interval)
  /\ frozen' = Older(frozen, Threshold)
  /\ unmapped' = Older(unmapped, Horizon)
  /\ busy' = Older(busy, Horizon)
  /\ UNCHANGED <<session, edges, buffered, counters, state, told>>

Next == Start \/ Report \/ Receive \/ Die \/ SwitchEdges \/ TelemetryTick \/ HealthStage \/ Probe

(* The loop swallows every exception and always sleeps a bounded time, so  *)
(* it always goes on; nothing is assumed of the ETW thread.                *)
Loop == Start \/ Report \/ TelemetryTick \/ HealthStage \/ Probe
Spec == Init /\ [][Next]_vars /\ WF_vars(Loop)
-----------------------------------------------------------------------------
Readiness == {"NONE", "INITIALIZING", "ACTIVE", "DEGRADED"}
Capability == [level : {"TIER0", "TIER2"}, readiness : Readiness]

TypeOK ==
  /\ pc \in {"start", "report", "tick", "health", "probe"}
  /\ session \in {"off", "unstarted", "failed", "alive", "dead"}
  /\ cap \in Capability /\ shown \in Capability
  /\ edges \in BOOLEAN /\ buffered \in BOOLEAN /\ any \in BOOLEAN
  /\ fresh \in BOOLEAN /\ moved \in BOOLEAN /\ based \in BOOLEAN
  /\ age \in 0..Interval
  /\ state \in {"N/A", "OK"} \union Alarms /\ told \in {"N/A", "OK"} \union Alarms
  /\ frozen \in -1..Threshold
  /\ frozen >= 0 <=> state \in {"WATCHING", "DEGRADED"}
  /\ unmapped \in 0..Horizon /\ busy \in 0..Horizon

(* DEGRADED is earned: for the whole threshold every sample found new      *)
(* events and no traffic was attributed to an edge, except since the last  *)
(* sample, which the next one will see.                                    *)
DegradedIsEarned ==
  state = "DEGRADED" => busy >= Threshold /\ (unmapped >= Threshold \/ unmapped < age)

(* And nothing that deserves it escapes: with an edge to attribute to, new *)
(* events at every sample and no attribution for the threshold and three   *)
(* samples (the one that last saw progress, the one that starts the count  *)
(* and the one that ends it), the state is DEGRADED.  What is reported of  *)
(* a freeze without edges is left open: etw_health.py:19-20 excludes it,   *)
(* test_etw_health.py:81-88 expects it, and the code reports it.           *)
FreezeIsReported ==
  pc = "probe" /\ session = "alive" /\ edges /\ busy = Horizon /\ unmapped = Horizon
    => state = "DEGRADED"

(* The events alone tell a client which alarm is on, and that it is off.   *)
AlarmIsTold == told = state \/ {told, state} \intersect Alarms = {}

(* The tier never comes back once it was taken away: not by a capability   *)
(* read before the session died, nor by an event handled after.            *)
DemotionSticks ==
  [][pc # "report" /\ shown.level = "TIER0" => shown'.level = "TIER0"]_vars

(* When the ETW session dies, the tier is taken away and the operator told.*)
DeathIsTold ==
  session = "dead" ~> /\ shown = Tier0("DEGRADED")
                      /\ told = "PROVIDER_DEAD"
=============================================================================
