------------------------------ MODULE HermesRuns ------------------------------
(***************************************************************************)
(* ai_telemetry/hermes_provider.py: the agent runs of Hermes gateways,     *)
(* told from the counts their status API gives.  A gateway is a pid with   *)
(* its port; the provider keeps an endpoint for each one it found in the   *)
(* last poll and forgets the others.  With ESW_HERMES_API_URL set there is *)
(* one endpoint, never forgotten, whoever answers there.                   *)
(*                                                                         *)
(* Sessions, platforms and components only feed texts and AI_ERROR rows    *)
(* and are left out; a run is the number in its name.  Init, Next and the  *)
(* like have the module's name here, so that AiProofs can extend it beside *)
(* GpuFeed.                                                                *)
(***************************************************************************)
EXTENDS Integers, Sequences, SequencesExt, FiniteSets, BoundedQueue

CONSTANTS
  Gateway,     \* pid:port of gateways that run at some time
  Explicit,    \* the one ESW_HERMES_API_URL may name
  QueueCap,    \* maxlen of run_queue (64)
  MaxAgents,   \* bound: agents active at once in a gateway
  MaxTurns,    \* bound: gateways started or stopped, changes of their counts
  MaxGaps      \* bound: polls that miss a gateway or get no proper answer

ASSUME HermesAssumption ==
  QueueCap \in Nat \ {0} /\ Explicit \in Gateway /\ MaxAgents \in Nat

VARIABLES
  override,  \* ESW_HERMES_API_URL is set
  alive,     \* gateways that run
  ended,     \* gateways that ran once
  agents,    \* their active agents
  known,     \* self._endpoints, the keys
  endpoint,  \* self._endpoints, the values
  state,     \* self._state
  base,      \* history: the count of an endpoint's first answer
  told,      \* history: the runs its events started and finished, in order
  approx,    \* history: endpoints whose run names are guesses
  turns, gaps  \* counters for the bounds

host       == <<override, alive, ended, agents>>
provider   == <<known, endpoint, state>>
history    == <<base, told, approx>>
hermesVars == <<host, provider, history, turns, gaps>>

None  == -1
Fresh == [prev |-> None, queue |-> <<>>, seq |-> 0, healthy |-> TRUE]
Silence == [started |-> <<>>, finished |-> <<>>]

HermesInit ==
  /\ override \in BOOLEAN
  /\ alive = {} /\ ended = {} /\ agents = [g \in Gateway |-> 0]
  /\ known = {} /\ endpoint = [g \in Gateway |-> Fresh] /\ state = "UNAVAILABLE"
  /\ base = [g \in Gateway |-> None] /\ told = [g \in Gateway |-> Silence] /\ approx = {}
  /\ turns = 0 /\ gaps = 0

-----------------------------------------------------------------------------
(* The gateways.  One that starts again has another pid, but answers at    *)
(* the same URL.                                                           *)
Bounded == turns < MaxTurns /\ turns' = turns + 1

GatewayStarts(g) ==
  /\ Bounded
  /\ g \notin alive /\ (override \/ g \notin ended)
  /\ override => g = Explicit
  /\ alive' = alive \union {g}
  /\ \E n \in 0..MaxAgents : agents' = [agents EXCEPT ![g] = n]
  /\ UNCHANGED <<override, ended, provider, history, gaps>>

GatewayStops(g) ==
  /\ Bounded
  /\ g \in alive
  /\ alive' = alive \ {g} /\ ended' = ended \union {g}
  /\ agents' = [agents EXCEPT ![g] = 0]
  /\ UNCHANGED <<override, provider, history, gaps>>

AgentsChange(g) ==
  /\ Bounded
  /\ g \in alive
  /\ \E n \in (0..MaxAgents) \ {agents[g]} : agents' = [agents EXCEPT ![g] = n]
  /\ UNCHANGED <<override, alive, ended, provider, history, gaps>>

-----------------------------------------------------------------------------
(* Mutant: the newest first.                                               *)
NamesFinishedNewest(e, d) ==
  [k \in 1..d |-> IF k <= Len(e.queue) THEN e.queue[Len(e.queue) + 1 - k]
                                       ELSE e.seq - d - 1]

(* The names of d runs that finish at once: the oldest that were started,  *)
(* and one made-up name for all that are left.                             *)
NamesFinished(e, d) ==
  [k \in 1..d |-> IF k <= Len(e.queue) THEN e.queue[k] ELSE e.seq - d - 1]

NamesStarted(e, d) == [k \in 1..d |-> e.seq + k]

Started(e, n)  == IF e.prev = None THEN 0 ELSE Greatest(0, n - e.prev)
Finished(e, n) == IF e.prev = None THEN 0 ELSE Greatest(0, e.prev - n)

(* What has been told after an answer with count n: AGENT_RUN_STARTED for  *)
(* each run more, or AGENT_RUN_FINISHED for each one less.                 *)
Told(t, e, n) ==
  [started  |-> t.started \o NamesStarted(e, Started(e, n)),
   finished |-> t.finished \o NamesFinished(e, Finished(e, n))]

Popped(queue, d) == SubSeq(queue, 1 + Least(d, Len(queue)), Len(queue))

(* Mutant: the queue has no bound.                                         *)
CountedUnbounded(e, n) ==
  [prev |-> n, seq |-> e.seq + Started(e, n), healthy |-> TRUE,
   queue |-> Popped(e.queue \o NamesStarted(e, Started(e, n)), Finished(e, n))]

(* What the endpoint keeps of it: run_queue is a deque of bounded length.  *)
Counted(e, n) ==
  [prev |-> n, seq |-> e.seq + Started(e, n), healthy |-> TRUE,
   queue |-> Popped(Latest(e.queue \o NamesStarted(e, Started(e, n)), QueueCap), Finished(e, n))]

(* _poll_endpoint: both requests answered; one of them not; answered with  *)
(* a count that is no number, which raises after `healthy` was set.        *)
Polled(e, reply, n) ==
  CASE reply = "count"   -> Counted(e, n)
    [] reply = "silent"  -> [e EXCEPT !.healthy = FALSE]
    [] reply = "garbled" -> [e EXCEPT !.healthy = TRUE]

StateOf(found, eps) ==
  IF found = {} THEN "UNAVAILABLE"
  ELSE IF \E g \in found : ~eps[g].healthy THEN "DEGRADED"
  ELSE IF \A g \in found : eps[g].prev \in {None, 0} THEN "AVAILABLE_NO_DATA"
  ELSE "ACTIVE"

(* One poll: `found` are the gateways with a command line and a localhost  *)
(* listener psutil shows, with what each of them replies.                  *)
Poll(found, reply) ==
  LET before == [g \in Gateway |-> IF g \in known THEN endpoint[g] ELSE Fresh]
      after  == [g \in Gateway |-> IF g \in found THEN Polled(before[g], reply[g], agents[g])
                                                  ELSE Fresh]
      first  == {g \in found : before[g].prev = None /\ after[g].prev # None}
  IN  /\ known' = found
      /\ endpoint' = after
      /\ state' = StateOf(found, after)
      /\ base' = [g \in Gateway |-> IF g \notin found THEN None
                                    ELSE IF g \in first THEN agents[g] ELSE base[g]]
      /\ told' = [g \in Gateway |->
                   IF g \notin found THEN Silence
                   ELSE IF reply[g] = "count" THEN Told(told[g], before[g], agents[g])
                                              ELSE told[g]]
      /\ approx' = {g \in found : \/ g \in approx
                                  \/ g \in first /\ agents[g] > 0
                                  \/ Len(before[g].queue) + after[g].seq - before[g].seq > QueueCap}

(* Mutant: a gateway that has gone is not looked for again.                *)
VisibleOnce == IF override THEN {Explicit} \ ended ELSE alive

(* _discover: ESW_HERMES_API_URL, or what the process table shows.         *)
Visible == IF override THEN {Explicit} ELSE alive

(* Everything is found, and what runs answers.                             *)
PollAll ==
  /\ Poll(Visible, [g \in Gateway |-> IF g \in alive THEN "count" ELSE "silent"])
  /\ UNCHANGED <<host, turns, gaps>>

(* psutil shows no connections, or a gateway not yet or not completely; an *)
(* answer times out or is garbled.                                         *)
PollSome ==
  /\ gaps < MaxGaps /\ gaps' = gaps + 1
  /\ \E found \in IF override THEN {Visible} ELSE SUBSET Visible :
     \E reply \in [found -> {"count", "silent", "garbled"}] :
       /\ \A g \in found \ alive : reply[g] = "silent"
       /\ Poll(found, reply)
  /\ UNCHANGED <<host, turns>>

HermesNext ==
  \/ \E g \in Gateway : GatewayStarts(g) \/ GatewayStops(g) \/ AgentsChange(g)
  \/ PollAll \/ PollSome

HermesSpec == HermesInit /\ [][HermesNext]_hermesVars

(* run_loop polls for ever, and answers are usually proper.                *)
HermesFairSpec == HermesSpec /\ WF_hermesVars(PollAll)
-----------------------------------------------------------------------------
HermesTypeOK ==
  /\ override \in BOOLEAN /\ alive \subseteq Gateway /\ ended \subseteq Gateway
  /\ agents \in [Gateway -> 0..MaxAgents]
  /\ known \subseteq Gateway
  /\ \A g \in Gateway :
       /\ endpoint[g].prev \in {None} \union 0..MaxAgents
       /\ Len(endpoint[g].queue) <= Least(QueueCap, endpoint[g].seq)
       /\ endpoint[g].healthy \in BOOLEAN
  /\ state \in {"UNAVAILABLE", "DEGRADED", "AVAILABLE_NO_DATA", "ACTIVE"}

(* Silence, missed answers and garbled ones lose no run: what an endpoint  *)
(* was told of adds up to its count, and unless it had agents when it was  *)
(* found, or more than the queue holds, the runs finish in the order they  *)
(* started, each once, and those that have not are in the queue.           *)
RunsMatched ==
  \A g \in known : base[g] # None =>
    /\ endpoint[g].prev = base[g] + Len(told[g].started) - Len(told[g].finished)
    /\ g \notin approx => told[g].started = told[g].finished \o endpoint[g].queue

(* Whatever failed, a gateway that stays is found again, and in the end    *)
(* what has been told of it since is the change of its count since: a run  *)
(* for each agent more than at the first answer, none for those that were  *)
(* there.  Runs told before an endpoint was forgotten are not meant: no    *)
(* event ever finishes them.                                               *)
CountsSettle == \A g \in Gateway :
  <>[](g \in alive /\ (override => g = Explicit) =>
         /\ g \in known /\ base[g] # None
         /\ Len(told[g].started) - Len(told[g].finished) = agents[g] - base[g])
=============================================================================
