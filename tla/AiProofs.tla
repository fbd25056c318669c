------------------------------ MODULE AiProofs ------------------------------
(***************************************************************************)
(* The two loops of the AI workload: who uses a GPU (GpuFeed), and which   *)
(* runs the agents of Hermes gateways have (HermesRuns).  Both parts are   *)
(* about what can be told of a state that is only seen as lists and counts *)
(* from time to time.                                                      *)
(*                                                                         *)
(* Every use of a GPU is drawn or excused, and while samples succeed no    *)
(* event is made up, for any number of GPUs and processes.  The first is   *)
(* inductive with the types: whatever enters the lists either is the only  *)
(* use of its process, and then it is the edge of its batch, or has an     *)
(* excuse.  The second needs that the lists a tick carries over are those  *)
(* that were compared last.                                                *)
(*                                                                         *)
(* The runs told of a gateway match its counts for any number of gateways  *)
(* and any length of the queue.  That needs two facts more: nothing is     *)
(* kept of a gateway that was not found, and one whose names are no        *)
(* guesses had no agents at first, so that its queue has all that is open. *)
(***************************************************************************)
EXTENDS GpuFeed, HermesRuns, ListingLemmas, SequenceTheorems, TLAPS

Lists == {NoGpus} \union [Gpu -> SUBSET Proc]

(* The strengthening for EventsTrue: unless a sample has failed, a tick    *)
(* that asks for metrics only compares the last lists with themselves.     *)
CarriedIsPrev == clean /\ sampled => Carried(lists) = prev

-----------------------------------------------------------------------------
(* What is listed is a list of processes by GPU, from either source.       *)
LEMMA ListingType == TypeOK => Listing \in [Gpu -> SUBSET Proc]
BY DEF TypeOK, Listing

LEMMA CarriedType == TypeOK => Carried(lists) \in [Gpu -> SUBSET Proc]
BY DEF TypeOK, Carried, NoUsers

(* A use is a pair of a process and a GPU whose list has it.               *)
LEMMA UsesMembers ==
  ASSUME NEW l \in [Gpu -> SUBSET Proc]
  PROVE  \A u : u \in Uses(l) <=> \E g \in Gpu : \E p \in l[g] : u = <<p, g>>
BY DEF Uses

LEMMA UsesOfLists ==
  ASSUME NEW l \in Lists
  PROVE  Uses(l) \subseteq Proc \X Gpu
<1>1. CASE l = NoGpus
  BY <1>1 DEF Uses, NoGpus
<1>2. CASE l \in [Gpu -> SUBSET Proc]
  BY <1>2 DEF Uses
<1> QED BY <1>1, <1>2 DEF Lists

(* A batch adds edges only between processes the topology has and GPUs.    *)
LEMMA BatchType == \A new : Batch(new) \subseteq procs \X Gpu
BY DEF Batch

-----------------------------------------------------------------------------
LEMMA GpuInitType == Init => TypeOK
<1> SUFFICES ASSUME Init PROVE TypeOK
  OBVIOUS
<1>1. prev \in [Gpu -> SUBSET Proc]
  BY DEF Init, NoUsers
<1> QED BY <1>1 DEF Init, TypeOK

(* A tick keeps the types, whatever its sample gave.                       *)
LEMMA AdoptKeepsType ==
  ASSUME TypeOK, NEW new \in Lists, Adopt(new)
  PROVE  TypeOK'
<1>1. /\ source' = source /\ users' = users /\ procs' = procs /\ engine' = engine
      /\ lists' = new
  BY DEF Adopt
<1>2. prev' \in [Gpu -> SUBSET Proc]
  BY DEF Adopt, TypeOK, Lists
<1>3. client' \in {"off", "bare", "nodes"}
  BY DEF Adopt, TypeOK, page
<1>4. drawn' \subseteq procs \X Gpu
  BY BatchType DEF Adopt, TypeOK, page
<1> QED BY <1>1, <1>2, <1>3, <1>4 DEF TypeOK, Lists

(* The four kinds of tick adopt lists of processes.                        *)
LEMMA TickAdopts ==
  ASSUME TypeOK, SampleAll \/ SampleMetrics \/ SampleFails \/ ListsFail
  PROVE  \E new \in Lists : Adopt(new)
<1>1. CASE SampleAll
  BY <1>1, ListingType DEF SampleAll, Lists
<1>2. CASE SampleMetrics
  BY <1>2, CarriedType DEF SampleMetrics, Lists
<1>3. CASE SampleFails
  BY <1>3 DEF SampleFails, Lists
<1>4. CASE ListsFail
  <2>1. PICK part \in [Gpu -> SUBSET Proc] : Adopt(part)
    BY <1>4 DEF ListsFail
  <2> QED BY <2>1 DEF Lists
<1> QED BY <1>1, <1>2, <1>3, <1>4

LEMMA GpuStepType == TypeOK /\ [Next]_vars => TypeOK'
<1> SUFFICES ASSUME TypeOK, [Next]_vars PROVE TypeOK'
  OBVIOUS
<1>1. CASE SampleAll \/ SampleMetrics \/ SampleFails \/ ListsFail
  BY <1>1, TickAdopts, AdoptKeepsType
<1>2. CASE DetectorPass
  BY <1>2 DEF DetectorPass, TypeOK, loop, page
<1>3. CASE Connect
  <2>1. drawn' \subseteq {u \in Uses(engine.lists) : u[1] \in procs}
    BY <1>3 DEF Connect
  <2>2. drawn' \subseteq procs \X Gpu
    BY <2>1, UsesOfLists DEF TypeOK, Lists
  <2>3. client' \in {"off", "bare", "nodes"}
    BY <1>3 DEF Connect
  <2> QED BY <1>3, <2>2, <2>3 DEF Connect, TypeOK, loop
<1>4. CASE Change
  <2>1. /\ source' = source /\ lists' = lists /\ prev' = prev
        /\ engine' = engine /\ client' = client
    BY <1>4 DEF Change, loop
  <2>2. users' \in [Gpu -> SUBSET Proc] /\ procs' \subseteq Proc
    BY <1>4 DEF Change, TypeOK
  <2>3. drawn' \subseteq procs' \X Gpu
    BY <1>4 DEF Change, TypeOK
  <2> QED BY <2>1, <2>2, <2>3 DEF TypeOK
<1>5. CASE UNCHANGED vars
  BY <1>5 DEF vars, loop, page, TypeOK
<1> QED BY <1>1, <1>2, <1>3, <1>4, <1>5 DEF Next

(* The edges a client draws go from a process of the topology to a GPU.    *)
THEOREM GpuTypes == Spec => []TypeOK
BY GpuInitType, GpuStepType, PTL DEF Spec

-----------------------------------------------------------------------------
(* A use that is new and has no excuse is the edge its batch adds: its     *)
(* process is on one GPU only, which thus is the last that lists it.       *)
LEMMA NewUseIsInBatch ==
  ASSUME TypeOK, NEW new \in [Gpu -> SUBSET Proc], seen,
         NEW u \in Uses(new) \ Uses(prev), u[1] \in procs,
         ~ \E g \in Gpu \ {u[2]} : u[1] \in new[g]
  PROVE  u \in Batch(new)
<1>1. PICK g \in Gpu : \E p \in new[g] : u = <<p, g>>
  BY UsesMembers
<1>2. u = <<u[1], u[2]>> /\ u[2] \in Gpu /\ u[1] \in new[u[2]]
  BY <1>1
<1>3. Device(u[1], u[2], new)
  <2>1. u[2] <= u[2]
    BY <1>2, GpuAssumption
  <2> QED BY <1>2, <2>1 DEF Device
<1>4. u[1] \in Attached(new)
  BY DEF Attached
<1> QED BY <1>2, <1>3, <1>4 DEF Batch

LEMMA AdoptShowsUses ==
  ASSUME TypeOK, UsesShown, NEW new \in Lists, Adopt(new)
  PROVE  UsesShown'
<1>1. CASE new = NoGpus
  BY <1>1 DEF Adopt, UsesShown, page
<1>2. CASE new # NoGpus
  <2> SUFFICES ASSUME client' # "off", NEW u \in Uses(prev') PROVE u \in drawn' \union excused'
    BY DEF UsesShown
  <2>0. PICK cut \in BOOLEAN, added \in SUBSET Batch(new) :
          /\ ~cut => added = Batch(new)
          /\ prev' = new
          /\ drawn' = IF client = "nodes" THEN drawn \union added ELSE drawn
          /\ client' = IF client = "bare" THEN "nodes" ELSE client
          /\ excused' = (excused \intersect Uses(new))
               \union {w \in Uses(new) \ Uses(prev) :
                         \/ cut \/ ~seen \/ client # "nodes" \/ w[1] \notin procs
                         \/ \E g \in Gpu \ {w[2]} : w[1] \in new[g]}
    BY <1>2 DEF Adopt
  <2>1. new \in [Gpu -> SUBSET Proc] /\ prev' = new /\ client # "off"
    BY <1>2, <2>0 DEF Lists
  <2>2. drawn \subseteq drawn' /\ excused \intersect Uses(new) \subseteq excused'
    BY <2>0
  <2>3. CASE u \in Uses(prev)
    BY <2>1, <2>2, <2>3 DEF UsesShown
  <2>4. CASE u \notin Uses(prev) /\ u \notin excused'
    <3>1. /\ ~cut /\ seen /\ client = "nodes" /\ u[1] \in procs
          /\ ~ \E g \in Gpu \ {u[2]} : u[1] \in new[g]
      BY <2>0, <2>1, <2>4
    <3>2. u \in Batch(new)
      BY <2>1, <2>4, <3>1, NewUseIsInBatch
    <3> QED BY <2>0, <3>1, <3>2
  <2> QED BY <2>3, <2>4
<1> QED BY <1>1, <1>2

LEMMA StepShowsUses == TypeOK /\ UsesShown /\ [Next]_vars => UsesShown'
<1> SUFFICES ASSUME TypeOK, UsesShown, [Next]_vars PROVE UsesShown'
  OBVIOUS
<1>1. CASE SampleAll \/ SampleMetrics \/ SampleFails \/ ListsFail
  BY <1>1, TickAdopts, AdoptShowsUses
<1>2. CASE DetectorPass
  BY <1>2 DEF DetectorPass, UsesShown, loop, page
<1>3. CASE Connect
  BY <1>3 DEF Connect, UsesShown, loop
<1>4. CASE Change
  <2>1. prev' = prev /\ client' = client
    BY <1>4 DEF Change, loop
  <2>2. drawn \union excused \subseteq drawn' \union excused' \/ UsesShown'
    BY <1>4, <2>1 DEF Change, UsesShown
  <2> QED BY <2>1, <2>2 DEF UsesShown
<1>5. CASE UNCHANGED vars
  BY <1>5 DEF vars, loop, page, UsesShown
<1> QED BY <1>1, <1>2, <1>3, <1>4, <1>5 DEF Next

(* Every use of a GPU the loop knows of is drawn or excused.               *)
THEOREM UsesTheorem == Spec => []UsesShown
<1>1. Init => UsesShown
  BY DEF Init, UsesShown
<1> QED BY <1>1, StepShowsUses, GpuTypes, PTL DEF Spec

-----------------------------------------------------------------------------
(* With no GPU at all there is nothing to compare.                         *)
LEMMA NoGpuNoUsers == TypeOK /\ Gpu = {} => prev = NoUsers /\ NoUsers = NoGpus
BY DEF TypeOK, NoUsers, NoGpus

LEMMA CarriedIsPrevStep == TypeOK /\ CarriedIsPrev /\ [Next]_vars => CarriedIsPrev'
<1> SUFFICES ASSUME TypeOK, CarriedIsPrev, [Next]_vars, clean', sampled'
             PROVE  Carried(lists') = prev'
  BY DEF CarriedIsPrev, Carried
<1>1. CASE SampleAll
  <2>1. lists' = Listing /\ Adopt(Listing)
    BY <1>1 DEF SampleAll, Adopt
  <2>2. CASE Listing = NoGpus
    <3>1. Gpu = {}
      BY <2>2, ListingType DEF NoGpus
    <3> QED BY <2>1, <2>2, <3>1, NoGpuNoUsers DEF Adopt, Carried
  <2>3. CASE Listing # NoGpus
    BY <2>1, <2>3 DEF Adopt, Carried
  <2> QED BY <2>2, <2>3
<1>2. CASE SampleMetrics
  <2>1. Carried(lists) = prev /\ Adopt(prev)
    BY <1>2 DEF SampleMetrics, CarriedIsPrev
  <2>2. prev' = prev /\ lists' = prev
    BY <2>1 DEF Adopt
  <2>3. CASE prev = NoGpus
    <3>1. Gpu = {}
      BY <2>3 DEF NoGpus, TypeOK
    <3> QED BY <2>2, <2>3, <3>1, NoGpuNoUsers DEF Carried
  <2> QED BY <2>2, <2>3 DEF Carried
<1>3. CASE SampleFails \/ ListsFail
  BY <1>3 DEF SampleFails, ListsFail, Fault
<1>4. CASE DetectorPass \/ Connect \/ Change \/ UNCHANGED vars
  BY <1>4 DEF DetectorPass, Connect, Change, vars, loop, CarriedIsPrev
<1> QED BY <1>1, <1>2, <1>3, <1>4 DEF Next

(* As long as samples succeed, only a full sample changes the lists that   *)
(* are compared, and they are then what the host has.                      *)
LEMMA EventsAreTrue ==
  ASSUME TypeOK, CarriedIsPrev, [Next]_vars, clean, clean', prev' # prev, seen
  PROVE  /\ Attached(prev') \subseteq {u[1] : u \in Uses(users)}
         /\ \A p \in Detached(prev') : \E g \in Gpu : p \notin users[g] /\ p \in prev[g]
<1>1. ~SampleMetrics
  <2> SUFFICES ASSUME SampleMetrics PROVE FALSE
    OBVIOUS
  <2> QED BY DEF SampleMetrics, CarriedIsPrev, Adopt
<1>2. SampleAll
  BY <1>1 DEF Next, SampleFails, ListsFail, Fault, DetectorPass, Connect, Change, vars, loop
<1>3. prev' = Listing
  BY <1>2 DEF SampleAll, Adopt
<1>4. \A g \in Gpu : users[g] \subseteq Listing[g]
  BY DEF Listing, TypeOK
<1>5. ASSUME NEW p \in Attached(Listing)
      PROVE  \E u \in Uses(users) : p = u[1]
  <2>1. PICK g \in Gpu : p \in Listing[g]
    BY <1>5, ListingType, UsesMembers DEF Attached
  <2>2. PICK h \in Gpu : p \in users[h]
    BY <2>1 DEF Listing
  <2>3. <<p, h>> \in Uses(users)
    BY <2>2, UsesMembers DEF TypeOK
  <2> QED BY <2>3
<1>6. ASSUME NEW p \in Detached(Listing)
      PROVE  \E g \in Gpu : p \notin users[g] /\ p \in prev[g]
  <2>1. PICK u \in Uses(prev) \ Uses(Listing) : p = u[1]
    BY <1>6 DEF Detached
  <2>2. PICK g \in Gpu : p \in prev[g] /\ u = <<p, g>>
    BY <2>1, UsesMembers DEF TypeOK
  <2>3. p \notin Listing[g]
    BY <2>1, <2>2, ListingType, UsesMembers
  <2> QED BY <2>2, <2>3, <1>4
<1> QED BY <1>3, <1>5, <1>6

(* As long as samples succeed, only a process that has come or gone on a   *)
(* GPU is announced, whatever ticks ask for metrics only.                  *)
THEOREM EventsTheorem == Spec => EventsTrue
<1>1. Init => CarriedIsPrev
  BY DEF Init, CarriedIsPrev
<1>2. TypeOK /\ CarriedIsPrev /\ [Next]_vars =>
        [(clean /\ clean' /\ prev' # prev /\ seen) =>
           /\ Attached(prev') \subseteq {u[1] : u \in Uses(users)}
           /\ \A p \in Detached(prev') : \E g \in Gpu : p \notin users[g] /\ p \in prev[g]]_vars
  BY EventsAreTrue
<1> QED BY <1>1, <1>2, CarriedIsPrevStep, GpuTypes, PTL DEF Spec, EventsTrue

-----------------------------------------------------------------------------
(* What a bounded queue keeps.                                             *)
LEMMA LatestKeeps ==
  ASSUME NEW S, NEW q \in Seq(S), NEW n \in Nat
  PROVE  /\ Latest(q, n) \in Seq(S)
         /\ Len(Latest(q, n)) <= n /\ Len(Latest(q, n)) <= Len(q)
         /\ Len(q) <= n => Latest(q, n) = q
<1>1. Len(q) \in Nat
  OBVIOUS
<1>2. CASE n < Len(q)
  <2>1. Latest(q, n) = SubSeq(q, Len(q) - n + 1, Len(q))
    BY <1>2 DEF Latest, Least
  <2>2. Len(q) - n + 1 \in 1..(Len(q) + 1)
    BY <1>1, <1>2
  <2>3. Latest(q, n) \in Seq(S) /\ Len(Latest(q, n)) = n
    BY <1>1, <2>1, <2>2
  <2> QED BY <1>1, <1>2, <2>3
<1>3. CASE ~(n < Len(q))
  <2>1. Latest(q, n) = SubSeq(q, 1, Len(q))
    BY <1>1, <1>3 DEF Latest, Least
  <2>2. Latest(q, n) = q
    BY <1>1, <2>1
  <2> QED BY <1>1, <1>3, <2>2
<1> QED BY <1>2, <1>3

(* What is left of it when d items are taken from its front.               *)
LEMMA PoppedKeeps ==
  ASSUME NEW S, NEW q \in Seq(S), NEW d \in Nat
  PROVE  /\ Popped(q, d) \in Seq(S) /\ Len(Popped(q, d)) <= Len(q)
         /\ d = 0 => Popped(q, d) = q
         /\ d <= Len(q) => /\ Len(Popped(q, d)) = Len(q) - d
                           /\ \A k \in 1..(Len(q) - d) : Popped(q, d)[k] = q[d + k]
<1>1. Len(q) \in Nat
  OBVIOUS
<1>2. CASE d < Len(q)
  <2>1. Popped(q, d) = SubSeq(q, 1 + d, Len(q))
    BY <1>2 DEF Popped, Least
  <2>2. /\ Popped(q, d) \in Seq(S) /\ Len(Popped(q, d)) = Len(q) - d
        /\ \A k \in 1..(Len(q) - d) : Popped(q, d)[k] = q[d + k]
    BY <1>1, <1>2, <2>1
  <2>3. d = 0 => Popped(q, d) = q
    BY <1>1, <2>1
  <2> QED BY <1>1, <1>2, <2>2, <2>3
<1>3. CASE ~(d < Len(q))
  <2>1. Popped(q, d) = SubSeq(q, 1 + Len(q), Len(q))
    BY <1>1, <1>3 DEF Popped, Least
  <2>2. Popped(q, d) = <<>>
    BY <1>1, <2>1
  <2>3. d = 0 => q = <<>>
    BY <1>1, <1>3
  <2>4. d <= Len(q) => Len(q) - d = 0
    BY <1>1, <1>3
  <2> QED BY <1>1, <2>2, <2>3, <2>4
<1> QED BY <1>2, <1>3

RunName == Int
Names == Seq(RunName)
Endpoint == [prev : {None} \union 0..MaxAgents, queue : Names, seq : Nat, healthy : BOOLEAN]
Record   == [started : Names, finished : Names]

(* Nothing is kept of a gateway that is not known.  Of one that is, what   *)
(* was told adds up to its count from the first answer on; and unless its  *)
(* names are guesses, it had no agents at the first answer, so those that  *)
(* have not finished are all in the queue.                                 *)
Forgotten(g) ==
  g \notin known => endpoint[g] = Fresh /\ told[g] = Silence /\ base[g] = None
Answered(g) ==
  /\ base[g] = None <=> endpoint[g].prev = None
  /\ base[g] = None => endpoint[g].queue = <<>> /\ told[g] = Silence
  /\ base[g] # None =>
       endpoint[g].prev = base[g] + Len(told[g].started) - Len(told[g].finished)
InOrder(g) ==
  base[g] # None /\ g \notin approx =>
    base[g] = 0 /\ told[g].started = told[g].finished \o endpoint[g].queue

Types ==
  /\ override \in BOOLEAN /\ alive \subseteq Gateway /\ ended \subseteq Gateway
  /\ agents \in [Gateway -> 0..MaxAgents]
  /\ known \subseteq Gateway
  /\ endpoint \in [Gateway -> Endpoint]
  /\ told \in [Gateway -> Record]
  /\ base \in [Gateway -> {None} \union 0..MaxAgents]
  /\ \A g \in Gateway : Len(endpoint[g].queue) <= QueueCap
                        /\ Len(endpoint[g].queue) <= endpoint[g].seq
  /\ state \in {"UNAVAILABLE", "DEGRADED", "AVAILABLE_NO_DATA", "ACTIVE"}

RunInv == Types /\ \A g \in Gateway : Forgotten(g) /\ Answered(g) /\ InOrder(g)

LEMMA NamesType ==
  ASSUME NEW e \in Endpoint, NEW d \in Nat
  PROVE  /\ NamesStarted(e, d) \in Names /\ Len(NamesStarted(e, d)) = d
         /\ NamesFinished(e, d) \in Names /\ Len(NamesFinished(e, d)) = d
<1>1. e.queue \in Seq(Int) /\ e.seq \in Nat
  BY DEF Endpoint, Names, RunName
<1>2. NamesStarted(e, d) \in [1..d -> Int]
  BY <1>1 DEF NamesStarted
<1>3. \A k \in 1..d : k <= Len(e.queue) => e.queue[k] \in Int
  BY <1>1
<1>4. NamesFinished(e, d) \in [1..d -> Int]
  BY <1>1, <1>3 DEF NamesFinished
<1> QED BY <1>2, <1>4, FunctionIsSeq DEF Names, RunName

LEMMA CountsType ==
  ASSUME NEW e \in Endpoint, NEW n \in 0..MaxAgents
  PROVE  /\ Started(e, n) \in Nat /\ Finished(e, n) \in Nat
         /\ e.prev = None => Started(e, n) = 0 /\ Finished(e, n) = 0
         /\ e.prev # None => n = e.prev + Started(e, n) - Finished(e, n)
         /\ Started(e, n) = 0 \/ Finished(e, n) = 0
         /\ e.prev # None => Finished(e, n) <= e.prev
<1>1. e.prev \in {None} \union 0..MaxAgents /\ n \in Nat /\ MaxAgents \in Nat
  BY HermesAssumption DEF Endpoint
<1> QED BY <1>1 DEF Started, Finished, Greatest, None

(* What an answer leaves of an endpoint.                                   *)
LEMMA CountedKeeps ==
  ASSUME NEW e \in Endpoint, NEW n \in 0..MaxAgents,
         Len(e.queue) <= QueueCap, Len(e.queue) <= e.seq
  PROVE  /\ Counted(e, n) \in Endpoint
         /\ Len(Counted(e, n).queue) <= QueueCap
         /\ Len(Counted(e, n).queue) <= Counted(e, n).seq
<1> DEFINE s == Started(e, n)
           f == Finished(e, n)
           longer == e.queue \o NamesStarted(e, s)
           kept == Latest(longer, QueueCap)
           left == Popped(kept, f)
<1>1. s \in Nat /\ f \in Nat /\ e.seq \in Nat /\ e.queue \in Names
      /\ QueueCap \in Nat /\ n \in {None} \union 0..MaxAgents
  BY CountsType, HermesAssumption DEF Endpoint
<1>2. NamesStarted(e, s) \in Names /\ Len(NamesStarted(e, s)) = s
  BY <1>1, NamesType
<1>3. Counted(e, n) = [prev |-> n, seq |-> e.seq + s, healthy |-> TRUE, queue |-> left]
  BY DEF Counted
<1> HIDE DEF s, f
<1>4. longer \in Names /\ Len(longer) = Len(e.queue) + s
  <2>1. e.queue \in Seq(RunName)
    BY <1>1 DEF Names
  <2>2. NamesStarted(e, s) \in Seq(RunName)
    BY <1>2 DEF Names
  <2>3. longer \in Seq(RunName) /\ Len(longer) = Len(e.queue) + Len(NamesStarted(e, s))
    BY <2>1, <2>2, TwoLists
  <2> HIDE DEF longer
  <2> QED BY <1>2, <2>3 DEF Names
<1> HIDE DEF longer
<1>5. kept \in Names /\ Len(kept) <= QueueCap /\ Len(kept) <= Len(longer)
  BY <1>1, <1>4, LatestKeeps DEF Names
<1> HIDE DEF kept
<1>6. left \in Names /\ Len(left) <= Len(kept)
  BY <1>1, <1>5, PoppedKeeps DEF Names
<1> HIDE DEF left
<1>7. /\ Len(left) \in Nat /\ Len(kept) \in Nat /\ Len(longer) \in Nat /\ Len(e.queue) \in Nat
  BY <1>1, <1>4, <1>5, <1>6 DEF Names
<1>8. Len(left) <= QueueCap /\ Len(left) <= e.seq + s
  BY <1>1, <1>4, <1>5, <1>6, <1>7
<1>9. Counted(e, n) \in Endpoint
  BY <1>1, <1>3, <1>6 DEF Endpoint
<1> QED BY <1>3, <1>8, <1>9

(* ... and of the order of its runs.                                       *)
LEMMA ToldInOrder ==
  ASSUME NEW e \in Endpoint, NEW n \in 0..MaxAgents, NEW t \in Record,
         e.prev = Len(e.queue), t.started = t.finished \o e.queue,
         Len(e.queue) + Started(e, n) <= QueueCap
  PROVE  Told(t, e, n).started = Told(t, e, n).finished \o Counted(e, n).queue
<1> DEFINE s == Started(e, n)
           f == Finished(e, n)
           new == NamesStarted(e, s)
           done == NamesFinished(e, f)
           longer == e.queue \o new
           q == e.queue
           b == t.finished
<1>1. s \in Nat /\ f \in Nat /\ q \in Seq(RunName) /\ QueueCap \in Nat /\ b \in Seq(RunName)
      /\ (s = 0 \/ f = 0) /\ Len(q) \in Nat
  BY CountsType, HermesAssumption DEF Endpoint, Names, Record
<1>2. f <= Len(q)
  <2>1. e.prev # None
    BY <1>1 DEF None
  <2> QED BY <2>1, CountsType
<1>3. /\ new \in Seq(RunName) /\ Len(new) = s /\ done \in Seq(RunName) /\ Len(done) = f
  BY <1>1, NamesType DEF Names
<1>4. Told(t, e, n).started = (b \o q) \o new /\ Told(t, e, n).finished = b \o done
  BY DEF Told
<1>5. Counted(e, n).queue = Popped(Latest(longer, QueueCap), f)
  BY DEF Counted
<1>6. \A k \in 1..f : done[k] = q[k]
  BY <1>1, <1>2 DEF NamesFinished
<1> HIDE DEF s, f, new, done, q, b
<1>11. q \in Seq(RunName)
  BY <1>1
<1>12. b \in Seq(RunName)
  BY <1>1
<1>13. new \in Seq(RunName)
  BY <1>3
<1>14. done \in Seq(RunName)
  BY <1>3
<1>7. longer \in Seq(RunName) /\ Len(longer) = Len(q) + s
  <2>1. q \o new \in Seq(RunName) /\ Len(q \o new) = Len(q) + Len(new)
    BY <1>11, <1>13, TwoLists
  <2>2. longer = q \o new
    BY DEF q
  <2> HIDE DEF longer
  <2> QED BY <1>3, <2>1, <2>2
<1>8. Latest(longer, QueueCap) = longer
  <2> HIDE DEF longer
  <2>1. Len(longer) <= QueueCap
    BY <1>7 DEF s, q
  <2> QED BY <1>1, <1>7, <2>1, LatestKeeps
<1>9. CASE f = 0
  <2>1. Counted(e, n).queue = longer
    <3> HIDE DEF longer
    <3> QED BY <1>1, <1>5, <1>7, <1>8, <1>9, PoppedKeeps
  <2>2. done = <<>>
    BY <1>3, <1>9
  <2>3. b \o done = b
    BY <1>1, <2>2
  <2>4. (b \o q) \o new = b \o (q \o new)
    BY <1>11, <1>12, <1>13, ThreeLists
  <2> QED BY <1>4, <2>1, <2>3, <2>4 DEF q
<1>10. CASE s = 0
  <2>1. new = <<>>
    BY <1>3, <1>10
  <2>2. longer = q /\ (b \o q) \o new = b \o q
    BY <1>1, <2>1 DEF q
  <2> DEFINE left == Popped(q, f)
  <2>3. /\ left \in Seq(RunName) /\ Len(left) = Len(q) - f
        /\ \A k \in 1..(Len(q) - f) : left[k] = q[f + k]
    BY <1>1, <1>2, PoppedKeeps
  <2>4. Counted(e, n).queue = left
    BY <1>5, <1>8, <2>2
  <2> HIDE DEF left
  <2>5. q = done \o left
    <3>1. left \in Seq(RunName)
      BY <2>3
    <3>2. Len(q) = Len(done) + Len(left)
      BY <1>1, <1>3, <2>3
    <3>3. \A i \in 1..Len(done) : q[i] = done[i]
      BY <1>3, <1>6
    <3>4. \A i \in 1..Len(left) : q[Len(done) + i] = left[i]
      BY <1>3, <2>3
    <3> QED BY <1>11, <1>14, <3>1, <3>2, <3>3, <3>4, ListInTwo
  <2>6. b \o q = (b \o done) \o left
    <3>1. left \in Seq(RunName)
      BY <2>3
    <3>2. (b \o done) \o left = b \o (done \o left)
      BY <1>12, <1>14, <3>1, ThreeLists
    <3> QED BY <2>5, <3>2
  <2> QED BY <1>4, <2>2, <2>4, <2>6
<1> QED BY <1>1, <1>9, <1>10


-----------------------------------------------------------------------------
(* What a poll does to one gateway, in the variables of that gateway.      *)
PollOf(g, found, how) ==
  /\ known' = found
  /\ endpoint'[g] = IF g \in found THEN Polled(endpoint[g], how, agents[g]) ELSE Fresh
  /\ base'[g] = IF g \notin found THEN None
                ELSE IF endpoint[g].prev = None /\ endpoint'[g].prev # None THEN agents[g]
                ELSE base[g]
  /\ told'[g] = IF g \notin found THEN Silence
                ELSE IF how = "count" THEN Told(told[g], endpoint[g], agents[g]) ELSE told[g]
  /\ g \in approx' <=>
       /\ g \in found
       /\ \/ g \in approx
          \/ endpoint[g].prev = None /\ endpoint'[g].prev # None /\ agents[g] > 0
          \/ Len(endpoint[g].queue) + endpoint'[g].seq - endpoint[g].seq > QueueCap

Replies == {"count", "silent", "garbled"}

LEMMA PollsOfAll ==
  ASSUME RunInv, NEW found \in SUBSET Gateway, NEW reply, Poll(found, reply)
  PROVE  /\ DOMAIN endpoint' = Gateway /\ DOMAIN told' = Gateway /\ DOMAIN base' = Gateway
         /\ endpoint' = [g \in Gateway |-> endpoint'[g]]
         /\ told' = [g \in Gateway |-> told'[g]]
         /\ base' = [g \in Gateway |-> base'[g]]
         /\ known' \subseteq Gateway
         /\ state' \in {"UNAVAILABLE", "DEGRADED", "AVAILABLE_NO_DATA", "ACTIVE"}
         /\ \A g \in Gateway : PollOf(g, found, reply[g])
<1> DEFINE before == [g \in Gateway |-> IF g \in known THEN endpoint[g] ELSE Fresh]
           after  == [g \in Gateway |-> IF g \in found
                                        THEN Polled(before[g], reply[g], agents[g]) ELSE Fresh]
           first  == {g \in found : before[g].prev = None /\ after[g].prev # None}
<1>1. /\ known' = found /\ endpoint' = after /\ state' = StateOf(found, after)
      /\ base' = [g \in Gateway |-> IF g \notin found THEN None
                                    ELSE IF g \in first THEN agents[g] ELSE base[g]]
      /\ told' = [g \in Gateway |->
                   IF g \notin found THEN Silence
                   ELSE IF reply[g] = "count" THEN Told(told[g], before[g], agents[g])
                                              ELSE told[g]]
      /\ approx' = {g \in found : \/ g \in approx
                                  \/ g \in first /\ agents[g] > 0
                                  \/ Len(before[g].queue) + after[g].seq - before[g].seq > QueueCap}
  BY DEF Poll
<1>2. \A g \in Gateway : before[g] = endpoint[g]
  BY DEF RunInv, Forgotten
<1>3. \A g \in Gateway :
        after[g] = IF g \in found THEN Polled(endpoint[g], reply[g], agents[g]) ELSE Fresh
  BY <1>2
<1>4. state' \in {"UNAVAILABLE", "DEGRADED", "AVAILABLE_NO_DATA", "ACTIVE"}
  BY <1>1 DEF StateOf
<1>5. DOMAIN after = Gateway /\ after = [g \in Gateway |-> after[g]]
  OBVIOUS
<1> HIDE DEF before, after
<1>6. \A g \in Gateway : PollOf(g, found, reply[g])
  <2> TAKE g \in Gateway
  <2>1. g \in first <=> /\ g \in found
                        /\ endpoint[g].prev = None /\ after[g].prev # None
    BY <1>2
  <2> HIDE DEF first
  <2>2. base'[g] = IF g \notin found THEN None ELSE IF g \in first THEN agents[g] ELSE base[g]
    BY <1>1
  <2>3. told'[g] = IF g \notin found THEN Silence
                   ELSE IF reply[g] = "count" THEN Told(told[g], endpoint[g], agents[g])
                   ELSE told[g]
    BY <1>1, <1>2
  <2>4. g \in approx' <=>
          /\ g \in found
          /\ \/ g \in approx
             \/ g \in first /\ agents[g] > 0
             \/ Len(endpoint[g].queue) + after[g].seq - endpoint[g].seq > QueueCap
    BY <1>1, <1>2
  <2>5. known' = found /\ endpoint' = after
    BY <1>1
  <2> QED BY <1>3, <2>1, <2>2, <2>3, <2>4, <2>5 DEF PollOf
<1> QED BY <1>1, <1>4, <1>5, <1>6

(* One gateway's part of the invariant.                                    *)
Typed(g) ==
  /\ endpoint[g] \in Endpoint /\ told[g] \in Record /\ base[g] \in {None} \union 0..MaxAgents
  /\ Len(endpoint[g].queue) <= QueueCap /\ Len(endpoint[g].queue) <= endpoint[g].seq
Sound(g) == Typed(g) /\ Forgotten(g) /\ Answered(g) /\ InOrder(g)

LEMMA FreshIsSound ==
  /\ Fresh \in Endpoint /\ Silence \in Record /\ Fresh.queue = <<>> /\ Fresh.prev = None
  /\ Len(Fresh.queue) = 0 /\ Fresh.seq = 0
<1>1. <<>> \in Seq(RunName) /\ Len(<<>>) = 0
  OBVIOUS
<1> QED BY <1>1 DEF Fresh, Silence, Endpoint, Record, Names

LEMMA StepKeepsSound ==
  ASSUME RunInv, NEW g \in Gateway, NEW found \in SUBSET Gateway, NEW how \in Replies,
         PollOf(g, found, how)
  PROVE  Sound(g)'
<1> DEFINE e == endpoint[g]
           n == agents[g]
           t == told[g]
<1>1. /\ e \in Endpoint /\ n \in 0..MaxAgents /\ t \in Record
      /\ base[g] \in {None} \union 0..MaxAgents
      /\ Len(e.queue) <= QueueCap /\ Len(e.queue) <= e.seq
  BY DEF RunInv, Types
<1>2. Answered(g) /\ InOrder(g)
  BY DEF RunInv
<1>3. QueueCap \in Nat /\ QueueCap > 0 /\ MaxAgents \in Nat
  BY HermesAssumption
<1>4. n # None /\ 0 # None
  BY <1>1, <1>3 DEF None
<1>5. CASE g \notin found
  <2>1. endpoint'[g] = Fresh /\ told'[g] = Silence /\ base'[g] = None
    BY <1>5 DEF PollOf
  <2>2. Typed(g)'
    BY <1>3, <2>1, FreshIsSound DEF Typed
  <2>3. Forgotten(g)' /\ Answered(g)' /\ InOrder(g)'
    BY <2>1, FreshIsSound DEF Forgotten, Answered, InOrder
  <2> QED BY <2>2, <2>3 DEF Sound
<1>6. CASE g \in found /\ how # "count"
  <2>1. /\ endpoint'[g] \in Endpoint
        /\ endpoint'[g].prev = e.prev /\ endpoint'[g].queue = e.queue /\ endpoint'[g].seq = e.seq
    BY <1>1, <1>6 DEF PollOf, Polled, Replies, Endpoint
  <2>2. told'[g] = t /\ base'[g] = base[g] /\ (g \notin approx' => g \notin approx)
    BY <1>6, <2>1 DEF PollOf
  <2>3. g \in known'
    BY <1>6 DEF PollOf
  <2>4. Typed(g)'
    BY <1>1, <2>1, <2>2 DEF Typed
  <2>5. Forgotten(g)' /\ Answered(g)' /\ InOrder(g)'
    BY <1>2, <2>1, <2>2, <2>3 DEF Forgotten, Answered, InOrder
  <2> QED BY <2>4, <2>5 DEF Sound
<1>7. CASE g \in found /\ how = "count"
  <2> DEFINE a == Counted(e, n)
             s == Started(e, n)
             f == Finished(e, n)
  <2>1. /\ endpoint'[g] = a /\ a.prev = n /\ a.seq = e.seq + s
        /\ told'[g] = Told(t, e, n) /\ g \in known'
    BY <1>7 DEF PollOf, Polled, Counted
  <2>2. /\ base'[g] = IF e.prev = None THEN n ELSE base[g]
        /\ g \notin approx' => /\ g \notin approx
                               /\ e.prev = None => ~(n > 0)
                               /\ ~(Len(e.queue) + a.seq - e.seq > QueueCap)
    BY <1>4, <1>7, <2>1 DEF PollOf
  <2>3. /\ s \in Nat /\ f \in Nat /\ e.seq \in Nat /\ e.queue \in Seq(RunName)
        /\ Len(e.queue) \in Nat
        /\ t.started \in Seq(RunName) /\ t.finished \in Seq(RunName)
    <3>1. s \in Nat /\ f \in Nat
      BY <1>1, CountsType
    <3>2. e.seq \in Nat /\ e.queue \in Seq(RunName)
      BY <1>1 DEF Endpoint, Names
    <3>3. t.started \in Seq(RunName) /\ t.finished \in Seq(RunName)
      BY <1>1 DEF Record, Names
    <3>4. Len(e.queue) \in Nat
      BY <3>2
    <3> QED BY <3>1, <3>2, <3>3, <3>4
  <2>4. /\ NamesStarted(e, s) \in Seq(RunName) /\ Len(NamesStarted(e, s)) = s
        /\ NamesFinished(e, f) \in Seq(RunName) /\ Len(NamesFinished(e, f)) = f
    BY <1>1, <2>3, NamesType DEF Names
  <2>5. /\ a \in Endpoint /\ Len(a.queue) <= QueueCap /\ Len(a.queue) <= a.seq
    BY <1>1, CountedKeeps
  <2>6. /\ Told(t, e, n).started = t.started \o NamesStarted(e, s)
        /\ Told(t, e, n).finished = t.finished \o NamesFinished(e, f)
    BY DEF Told
  <2> HIDE DEF a, s, f
  <2>7. /\ Told(t, e, n).started \in Seq(RunName)
        /\ Len(Told(t, e, n).started) = Len(t.started) + s
    <3>1. t.started \in Seq(RunName)
      BY <2>3
    <3>2. NamesStarted(e, s) \in Seq(RunName)
      BY <2>4
    <3>3. /\ t.started \o NamesStarted(e, s) \in Seq(RunName)
          /\ Len(t.started \o NamesStarted(e, s)) = Len(t.started) + Len(NamesStarted(e, s))
      BY <3>1, <3>2, TwoLists
    <3> QED BY <2>4, <2>6, <3>3
  <2>8. /\ Told(t, e, n).finished \in Seq(RunName)
        /\ Len(Told(t, e, n).finished) = Len(t.finished) + f
    <3>1. t.finished \in Seq(RunName)
      BY <2>3
    <3>2. NamesFinished(e, f) \in Seq(RunName)
      BY <2>4
    <3>3. /\ t.finished \o NamesFinished(e, f) \in Seq(RunName)
          /\ Len(t.finished \o NamesFinished(e, f)) = Len(t.finished) + Len(NamesFinished(e, f))
      BY <3>1, <3>2, TwoLists
    <3> QED BY <2>4, <2>6, <3>3
  <2>9. Typed(g)'
    <3>1. Told(t, e, n) \in Record
      BY <2>7, <2>8 DEF Told, Record, Names
    <3>2. base'[g] \in {None} \union 0..MaxAgents
      BY <1>1, <2>2
    <3> QED BY <2>1, <2>5, <3>1, <3>2 DEF Typed
  <2>10. Forgotten(g)'
    BY <2>1 DEF Forgotten
  <2>11. CASE e.prev = None
    <3>1. e.queue = <<>> /\ t = Silence /\ s = 0 /\ f = 0 /\ base'[g] = n
      BY <1>1, <1>2, <2>2, <2>11, CountsType DEF Answered, s, f
    <3>2. /\ Len(t.started) = 0 /\ Len(t.finished) = 0
      BY <3>1 DEF Silence
    <3>3. Len(Told(t, e, n).started) = 0 /\ Len(Told(t, e, n).finished) = 0
      BY <2>7, <2>8, <3>1, <3>2
    <3>4. Answered(g)'
      <4>1. n = n + 0 - 0
        BY <1>1, <1>3
      <4> QED BY <1>4, <2>1, <3>1, <3>3, <4>1 DEF Answered
    <3>5. InOrder(g)'
      <4> SUFFICES ASSUME g \notin approx' PROVE InOrder(g)'
        BY DEF InOrder
      <4>1. n = 0
        BY <1>1, <1>3, <2>2, <2>11
      <4>2. a.queue = <<>>
        <5>1. NamesStarted(e, s) = <<>>
          BY <2>4, <3>1
        <5>2. e.queue \o NamesStarted(e, s) = <<>>
          BY <3>1, <5>1
        <5>3. Latest(<<>>, QueueCap) = <<>>
          <6>1. <<>> \in Seq(RunName) /\ Len(<<>>) <= QueueCap
            BY <1>3
          <6> QED BY <1>3, <6>1, LatestKeeps
        <5>4. Popped(<<>>, 0) = <<>>
          <6>1. <<>> \in Seq(RunName)
            OBVIOUS
          <6> QED BY <6>1, PoppedKeeps
        <5> QED BY <3>1, <5>2, <5>3, <5>4 DEF Counted, a, s, f
      <4>3. Told(t, e, n).started = <<>> /\ Told(t, e, n).finished = <<>>
        BY <2>7, <2>8, <3>3
      <4>4. <<>> = <<>> \o a.queue
        BY <4>2
      <4> QED BY <2>1, <3>1, <4>1, <4>3, <4>4 DEF InOrder
    <3> QED BY <2>9, <2>10, <3>4, <3>5 DEF Sound
  <2>12. CASE e.prev # None
    <3>1. /\ base[g] # None /\ base'[g] = base[g]
          /\ e.prev = base[g] + Len(t.started) - Len(t.finished)
          /\ n = e.prev + s - f
      BY <1>1, <1>2, <2>2, <2>12, CountsType DEF Answered, s, f
    <3>2. Answered(g)'
      <4>1. base[g] \in Int /\ Len(t.started) \in Nat /\ Len(t.finished) \in Nat
        BY <1>1, <1>3, <2>3 DEF None
      <4>2. n = base[g] + (Len(t.started) + s) - (Len(t.finished) + f)
        <5>1. s \in Nat /\ f \in Nat
          BY <2>3
        <5>2. n = e.prev + s - f /\ e.prev = base[g] + Len(t.started) - Len(t.finished)
          BY <3>1
        <5>3. PICK b \in Int, x \in Nat, y \in Nat :
                b = base[g] /\ x = Len(t.started) /\ y = Len(t.finished)
          BY <4>1
        <5>4. n = (b + x - y) + s - f
          BY <5>2, <5>3
        <5>5. n = b + (x + s) - (y + f)
          BY <5>1, <5>4
        <5> QED BY <5>3, <5>5
      <4> QED BY <1>4, <2>1, <2>7, <2>8, <3>1, <4>2 DEF Answered
    <3>3. InOrder(g)'
      <4> SUFFICES ASSUME g \notin approx' PROVE InOrder(g)'
        BY DEF InOrder
      <4>1. /\ base[g] = 0 /\ t.started = t.finished \o e.queue
        BY <1>2, <2>2, <3>1 DEF InOrder
      <4>2. Len(e.queue) + s <= QueueCap
        BY <1>3, <2>1, <2>2, <2>3
      <4>3. e.prev = Len(e.queue)
        <5>1. e.queue \in Seq(RunName)
          BY <2>3
        <5>2. t.finished \in Seq(RunName)
          BY <2>3
        <5>3. Len(t.started) = Len(t.finished) + Len(e.queue)
          BY <4>1, <5>1, <5>2, TwoLists
        <5>4. Len(t.finished) \in Nat
          BY <2>3
        <5> QED BY <2>3, <3>1, <4>1, <5>3, <5>4
      <4>4. Told(t, e, n).started = Told(t, e, n).finished \o a.queue
        BY <1>1, <4>1, <4>2, <4>3, ToldInOrder DEF s, a
      <4> QED BY <2>1, <3>1, <4>1, <4>4 DEF InOrder
    <3> QED BY <2>9, <2>10, <3>2, <3>3 DEF Sound
  <2> QED BY <2>11, <2>12
<1> QED BY <1>5, <1>6, <1>7 DEF Replies


-----------------------------------------------------------------------------
LEMMA InitRunInv ==
  ASSUME HermesInit
  PROVE  RunInv
<1>1. MaxAgents \in Nat /\ QueueCap \in Nat
  BY HermesAssumption
<1>2. agents \in [Gateway -> 0..MaxAgents] /\ base \in [Gateway -> {None} \union 0..MaxAgents]
  BY <1>1 DEF HermesInit
<1>3. endpoint \in [Gateway -> Endpoint] /\ told \in [Gateway -> Record]
  BY FreshIsSound DEF HermesInit
<1>4. \A g \in Gateway : endpoint[g] = Fresh /\ told[g] = Silence /\ base[g] = None
  BY DEF HermesInit
<1>5. \A g \in Gateway : Len(endpoint[g].queue) <= QueueCap
                         /\ Len(endpoint[g].queue) <= endpoint[g].seq
  BY <1>1, <1>4, FreshIsSound
<1>6. Types
  BY <1>2, <1>3, <1>5 DEF Types, HermesInit
<1>7. \A g \in Gateway : Forgotten(g) /\ Answered(g) /\ InOrder(g)
  BY <1>4, FreshIsSound DEF Forgotten, Answered, InOrder
<1> QED BY <1>6, <1>7 DEF RunInv

(* What happens on the host leaves the provider alone.                     *)
LEMMA HostKeepsSound ==
  ASSUME RunInv, UNCHANGED <<provider, history>>,
         override' \in BOOLEAN, alive' \subseteq Gateway, ended' \subseteq Gateway,
         agents' \in [Gateway -> 0..MaxAgents]
  PROVE  RunInv'
<1>1. /\ known' = known /\ endpoint' = endpoint /\ state' = state
      /\ base' = base /\ told' = told /\ approx' = approx
  BY DEF provider, history
<1>2. Types'
  BY <1>1 DEF RunInv, Types
<1>3. \A g \in Gateway : Forgotten(g)' /\ Answered(g)' /\ InOrder(g)'
  BY <1>1 DEF RunInv, Forgotten, Answered, InOrder
<1> QED BY <1>2, <1>3 DEF RunInv

LEMMA PollKeepsSound ==
  ASSUME RunInv, NEW found \in SUBSET Gateway, NEW reply,
         \A g \in found : reply[g] \in Replies,
         Poll(found, reply), UNCHANGED host
  PROVE  RunInv'
<1>1. /\ endpoint' = [g \in Gateway |-> endpoint'[g]]
      /\ told' = [g \in Gateway |-> told'[g]]
      /\ base' = [g \in Gateway |-> base'[g]]
      /\ known' \subseteq Gateway
      /\ state' \in {"UNAVAILABLE", "DEGRADED", "AVAILABLE_NO_DATA", "ACTIVE"}
      /\ \A g \in Gateway : PollOf(g, found, reply[g])
  BY PollsOfAll
<1>2. \A g \in Gateway : Sound(g)'
  <2> TAKE g \in Gateway
  <2>1. CASE g \in found
    BY <1>1, <2>1, StepKeepsSound
  <2>2. CASE g \notin found
    <3>1. PollOf(g, found, "silent")
      BY <1>1, <2>2 DEF PollOf
    <3> QED BY <3>1, StepKeepsSound DEF Replies
  <2> QED BY <2>1, <2>2
<1>3. /\ override' \in BOOLEAN /\ alive' \subseteq Gateway /\ ended' \subseteq Gateway
      /\ agents' \in [Gateway -> 0..MaxAgents]
  BY DEF RunInv, Types, host
<1>4. /\ endpoint' \in [Gateway -> Endpoint] /\ told' \in [Gateway -> Record]
      /\ base' \in [Gateway -> {None} \union 0..MaxAgents]
  BY <1>1, <1>2 DEF Sound, Typed
<1>5. Types'
  BY <1>1, <1>2, <1>3, <1>4 DEF Types, Sound, Typed
<1> QED BY <1>2, <1>5 DEF RunInv, Sound

LEMMA StepRunInv ==
  ASSUME RunInv, [HermesNext]_hermesVars
  PROVE  RunInv'
<1>1. /\ override \in BOOLEAN /\ alive \subseteq Gateway /\ ended \subseteq Gateway
      /\ agents \in [Gateway -> 0..MaxAgents]
  BY DEF RunInv, Types
<1>2. ASSUME NEW g \in Gateway, GatewayStarts(g)
      PROVE  RunInv'
  <2>1. UNCHANGED <<provider, history>>
    BY <1>2 DEF GatewayStarts
  <2>2. /\ override' \in BOOLEAN /\ alive' \subseteq Gateway /\ ended' \subseteq Gateway
        /\ agents' \in [Gateway -> 0..MaxAgents]
    BY <1>1, <1>2 DEF GatewayStarts
  <2> QED BY <2>1, <2>2, HostKeepsSound
<1>3. ASSUME NEW g \in Gateway, GatewayStops(g)
      PROVE  RunInv'
  <2>1. UNCHANGED <<provider, history>>
    BY <1>3 DEF GatewayStops
  <2>2. 0 \in 0..MaxAgents
    BY HermesAssumption
  <2>3. /\ override' \in BOOLEAN /\ alive' \subseteq Gateway /\ ended' \subseteq Gateway
        /\ agents' \in [Gateway -> 0..MaxAgents]
    BY <1>1, <1>3, <2>2 DEF GatewayStops
  <2> QED BY <2>1, <2>3, HostKeepsSound
<1>4. ASSUME NEW g \in Gateway, AgentsChange(g)
      PROVE  RunInv'
  <2>1. UNCHANGED <<provider, history>>
    BY <1>4 DEF AgentsChange
  <2>2. /\ override' \in BOOLEAN /\ alive' \subseteq Gateway /\ ended' \subseteq Gateway
        /\ agents' \in [Gateway -> 0..MaxAgents]
    BY <1>1, <1>4 DEF AgentsChange
  <2> QED BY <2>1, <2>2, HostKeepsSound
<1>5. Visible \in SUBSET Gateway
  BY <1>1, HermesAssumption DEF Visible
<1>6. CASE PollAll
  <2> DEFINE reply == [g \in Gateway |-> IF g \in alive THEN "count" ELSE "silent"]
  <2>1. Poll(Visible, reply) /\ UNCHANGED host
    BY <1>6 DEF PollAll
  <2>2. \A g \in Visible : reply[g] \in Replies
    BY <1>5 DEF Replies
  <2> QED BY <1>5, <2>1, <2>2, PollKeepsSound
<1>7. CASE PollSome
  <2>1. PICK found \in IF override THEN {Visible} ELSE SUBSET Visible :
          \E reply \in [found -> {"count", "silent", "garbled"}] :
            /\ \A g \in found \ alive : reply[g] = "silent"
            /\ Poll(found, reply)
    BY <1>7 DEF PollSome
  <2>2. PICK reply \in [found -> {"count", "silent", "garbled"}] : Poll(found, reply)
    BY <2>1
  <2>3. found \in SUBSET Gateway
    BY <1>5, <2>1
  <2>4. \A g \in found : reply[g] \in Replies
    BY <2>2 DEF Replies
  <2>5. UNCHANGED host
    BY <1>7 DEF PollSome
  <2> QED BY <2>2, <2>3, <2>4, <2>5, PollKeepsSound
<1>8. CASE UNCHANGED hermesVars
  <2>1. UNCHANGED <<provider, history>> /\ UNCHANGED host
    BY <1>8 DEF hermesVars
  <2> QED BY <1>1, <2>1, HostKeepsSound DEF host
<1> QED BY <1>2, <1>3, <1>4, <1>6, <1>7, <1>8 DEF HermesNext

LEMMA RunInvImplies == RunInv => HermesTypeOK /\ RunsMatched
<1> SUFFICES ASSUME RunInv PROVE HermesTypeOK /\ RunsMatched
  OBVIOUS
<1>1. ASSUME NEW g \in Gateway
      PROVE  /\ endpoint[g].prev \in {None} \union 0..MaxAgents
             /\ Len(endpoint[g].queue) <= Least(QueueCap, endpoint[g].seq)
             /\ endpoint[g].healthy \in BOOLEAN
  BY <1>1 DEF RunInv, Types, Endpoint, Least
<1>2. HermesTypeOK
  BY <1>1 DEF HermesTypeOK, RunInv, Types
<1>3. RunsMatched
  BY DEF RunsMatched, RunInv, Types, Answered, InOrder
<1> QED BY <1>2, <1>3

LEMMA RunInvHolds == HermesSpec => []RunInv
<1>1. HermesInit => RunInv
  BY InitRunInv
<1>2. RunInv /\ [HermesNext]_hermesVars => RunInv'
  BY StepRunInv
<1> QED BY <1>1, <1>2, PTL DEF HermesSpec

(* The queue of a gateway holds no more runs than its length allows and    *)
(* than were named, and its count is one it gave or none.                  *)
THEOREM RunTypes == HermesSpec => []HermesTypeOK
BY RunInvHolds, RunInvImplies, PTL

(* What was told of an endpoint adds up to its count, and unless its names *)
(* are guesses its runs finish in the order they started, each once.       *)
THEOREM RunsTheorem == HermesSpec => []RunsMatched
BY RunInvHolds, RunInvImplies, PTL
=============================================================================
