------------------------- MODULE EtwAttributionProofs -------------------------
(***************************************************************************)
(* Whose bytes these are, for any handles, connections and bounds.  The    *)
(* identity events of a handle that has missed none reach the consumer in  *)
(* order with its transfers.  So what the map will say of the handle once  *)
(* the events in front of a transfer are handled is the connection the     *)
(* transfer was made on, or nothing: the invariant InOrder.  Closed        *)
(* connections are forgotten because the aggregator's count of absences is *)
(* the count of topologies without the connection, and because no topology *)
(* comes between the count and the callback.                               *)
(***************************************************************************)
EXTENDS EtwAttribution, ListingLemmas, FiniteSetTheorems, SequenceTheorems, TLAPS

Identity == [type : {"create"}, tcb : Tcb, sock : Sock]
Transfers == [type : {"bytes"}, tcb : Tcb, true : Sock]
               \union [type : {"datagram"}, pid : Pid]
Removals == [type : {"remove"}, tcb : Tcb] \union [type : {"reset"}, sock : Sock]
Event    == Identity \union Transfers
Charge   == [pid : Pid, sock : Sock \union {NoSock}, true : Sock \union {NoSock},
             tcb : Tcb \union {NoSock}]

OneEntryPerHandle(m) == \A i, j \in DOMAIN m : m[i].tcb = m[j].tcb => i = j

Types ==
  /\ conn \in [Tcb -> Sock \union {NoSock}]
  /\ etw \in Seq(Event) /\ late \subseteq Identity \union Removals
  /\ map \in Seq(Entry) /\ Len(map) <= MapMax /\ OneEntryPerHandle(map)
  /\ queue \in Seq(Charge) /\ Len(queue) <= QueueMax
  /\ scan \in {NoSock} \union SUBSET Sock
  /\ known \subseteq Sock /\ pids \subseteq Pid /\ closing \subseteq Sock
  /\ absent \in [Sock -> -1..1] /\ unseen \in [Sock -> 0..2]
  /\ tally \in [Fates -> Nat]
  /\ missed \subseteq Tcb /\ gone \subseteq Sock
  /\ sends \in 0..MaxSends

(* What map m says of handle h once the first n events of s are handled is *)
(* k, or nothing.                                                          *)
Names(ev, h) == ev.type = "create" /\ ev.tcb = h
Stands(s, m, h, n, k) ==
  /\ \A j \in 1..n : Names(s[j], h) /\ (\A l \in (j + 1)..n : ~Names(s[l], h)) => s[j].sock = k
  /\ (\A j \in 1..n : ~Names(s[j], h)) => \A e \in Range(m) : e.tcb = h => e.sock = k

InOrder ==
  /\ \A i \in 1..Len(etw) : etw[i].type = "bytes" /\ etw[i].tcb \notin missed
       => Stands(etw, map, etw[i].tcb, i - 1, etw[i].true)
  /\ \A h \in Tcb \ missed : conn[h] # NoSock => Stands(etw, map, h, Len(etw), conn[h])
  /\ \A ev \in late : ev.type = "create" => ev.tcb \in missed

Counted ==
  /\ \A k \in Sock : absent[k] = IF unseen[k] = 2 THEN -1 ELSE unseen[k]
  /\ \A k \in closing : unseen[k] = 2
  /\ closing # {} => scan = NoSock
  /\ \A e \in Range(map) : e.sock \in gone => e.sock \in closing

IInv ==
  /\ Types /\ InOrder /\ Counted
  /\ MisattributionNeedsLoss /\ EveryTransferAccounted

-----------------------------------------------------------------------------
(* What the operations on the map keep of it.                              *)
LEMMA WithoutKeeps ==
  ASSUME NEW s \in Seq(Entry), NEW dropped
  PROVE  /\ Without(s, dropped) \in Seq(Entry) /\ Len(Without(s, dropped)) <= Len(s)
         /\ Range(Without(s, dropped)) = Range(s) \ dropped
         /\ OneEntryPerHandle(s) => OneEntryPerHandle(Without(s, dropped))
<1> DEFINE at == {i \in DOMAIN s : s[i] \notin dropped}
           w == Sublist(s, at)
<1>1. Without(s, dropped) = w
  BY DEF Without
<1>2. at \in SUBSET DOMAIN s /\ \A i \in DOMAIN s : i \in at <=> s[i] \notin dropped
  OBVIOUS
<1> HIDE DEF at
<1>3. /\ w \in Seq(Entry) /\ Len(w) <= Len(s)
      /\ \A k \in DOMAIN w : Sorted(at)[k] \in at /\ w[k] = s[Sorted(at)[k]]
      /\ \A i \in at : \E k \in DOMAIN w : w[k] = s[i]
      /\ \A k, l \in DOMAIN w : Sorted(at)[k] = Sorted(at)[l] => k = l
  BY <1>2, SublistKeeps
<1> HIDE DEF w
<1>4. Range(w) = Range(s) \ dropped
  <2>1. ASSUME NEW e \in Range(w) PROVE e \in Range(s) /\ e \notin dropped
    <3>1. PICK k \in DOMAIN w : w[k] = e
      BY DEF Range
    <3>2. Sorted(at)[k] \in DOMAIN s /\ s[Sorted(at)[k]] = e /\ e \notin dropped
      BY <1>2, <1>3, <3>1
    <3> QED BY <3>2 DEF Range
  <2>2. ASSUME NEW e \in Range(s), e \notin dropped PROVE e \in Range(w)
    <3>1. PICK i \in DOMAIN s : s[i] = e
      BY DEF Range
    <3>2. i \in at
      BY <1>2, <2>2, <3>1
    <3> QED BY <1>3, <3>1, <3>2 DEF Range
  <2> QED BY <2>1, <2>2
<1>5. ASSUME OneEntryPerHandle(s) PROVE OneEntryPerHandle(w)
  <2> SUFFICES ASSUME NEW k \in DOMAIN w, NEW l \in DOMAIN w, w[k].tcb = w[l].tcb
               PROVE  k = l
    BY DEF OneEntryPerHandle
  <2>1. /\ Sorted(at)[k] \in DOMAIN s /\ Sorted(at)[l] \in DOMAIN s
        /\ s[Sorted(at)[k]].tcb = s[Sorted(at)[l]].tcb
    BY <1>2, <1>3
  <2>2. Sorted(at)[k] = Sorted(at)[l]
    BY <1>5, <2>1 DEF OneEntryPerHandle
  <2> QED BY <1>3, <2>2
<1> QED BY <1>1, <1>3, <1>4, <1>5

(* It gets shorter by what it drops.                                       *)
LEMMA WithoutShortens ==
  ASSUME NEW s \in Seq(Entry), NEW e \in Range(s)
  PROVE  Len(Without(s, {e})) < Len(s)
<1> DEFINE at == {i \in DOMAIN s : s[i] \notin {e}}
<1>1. PICK i \in DOMAIN s : s[i] = e
  BY DEF Range
<1>2. /\ at \in SUBSET DOMAIN s /\ i \notin at
      /\ DOMAIN s = 1..Len(s) /\ Len(s) \in Nat
  BY <1>1
<1>3. Without(s, {e}) = Sublist(s, at)
  BY DEF Without
<1> HIDE DEF at
<1>4. IsFiniteSet(DOMAIN s) /\ Cardinality(DOMAIN s) = Len(s)
  <2>1. \A m \in Nat : IsFiniteSet(1..m) /\ Cardinality(1..m) = m
    BY FS_Interval
  <2> QED BY <1>2, <2>1
<1>5. /\ IsFiniteSet(at) /\ Cardinality(at) <= Len(s)
      /\ (Cardinality(at) = Len(s) => at = DOMAIN s)
  BY <1>2, <1>4, FS_Subset
<1>6. Cardinality(at) \in Nat /\ Cardinality(at) < Len(s)
  BY <1>1, <1>2, <1>5, FS_CardinalityType
<1>7. Len(Sublist(s, at)) = Cardinality(at)
  BY <1>2, SublistKeeps
<1> QED BY <1>3, <1>6, <1>7

LEMMA YoungestKeeps ==
  ASSUME NEW s \in Seq(Entry), NEW n \in 0..Len(s)
  PROVE  /\ Youngest(s, n) \in Seq(Entry) /\ Len(Youngest(s, n)) = n
         /\ Range(Youngest(s, n)) \subseteq Range(s)
         /\ OneEntryPerHandle(s) => OneEntryPerHandle(Youngest(s, n))
<1> DEFINE y == Youngest(s, n)
           m == Len(s) - n
<1>1. Len(s) \in Nat /\ m \in Nat /\ Len(s) - m = n
  OBVIOUS
<1>2. y = SubSeq(s, m + 1, Len(s))
  BY DEF Youngest
<1>3. /\ y \in Seq(Entry) /\ Len(y) = n
      /\ \A i \in 1..n : m + i \in DOMAIN s /\ y[i] = s[m + i]
  BY <1>1, <1>2
<1> HIDE DEF y, m
<1>4. DOMAIN y = 1..n
  BY <1>3
<1>5. Range(y) \subseteq Range(s)
  BY <1>3, <1>4 DEF Range
<1>6. ASSUME OneEntryPerHandle(s) PROVE OneEntryPerHandle(y)
  <2> SUFFICES ASSUME NEW i \in 1..n, NEW j \in 1..n, y[i].tcb = y[j].tcb PROVE i = j
    BY <1>4 DEF OneEntryPerHandle
  <2>1. m + i \in DOMAIN s /\ m + j \in DOMAIN s /\ s[m + i].tcb = s[m + j].tcb
    BY <1>3
  <2>2. m + i = m + j
    BY <1>6, <2>1 DEF OneEntryPerHandle
  <2> QED BY <1>1, <2>2
<1> QED BY <1>3, <1>5, <1>6 DEF y

(* An entry put last, behind those of the other handles.                   *)
LEMMA AppendKeeps ==
  ASSUME NEW s \in Seq(Entry), NEW e \in Entry
  PROVE  /\ Append(s, e) \in Seq(Entry) /\ Len(Append(s, e)) = Len(s) + 1
         /\ Range(Append(s, e)) = Range(s) \union {e}
         /\ OneEntryPerHandle(s) /\ (\A o \in Range(s) : o.tcb # e.tcb)
              => OneEntryPerHandle(Append(s, e))
<1> DEFINE a == Append(s, e)
<1>1. /\ a \in Seq(Entry) /\ Len(a) = Len(s) + 1 /\ Len(s) \in Nat
      /\ DOMAIN a = 1..(Len(s) + 1) /\ DOMAIN s = 1..Len(s)
      /\ a[Len(s) + 1] = e /\ \A i \in 1..Len(s) : a[i] = s[i]
  OBVIOUS
<1> HIDE DEF a
<1>2. Range(a) = Range(s) \union {e}
  <2>1. ASSUME NEW o \in Range(a) PROVE o \in Range(s) \union {e}
    <3>1. PICK i \in 1..(Len(s) + 1) : a[i] = o
      BY <1>1 DEF Range
    <3>2. CASE i = Len(s) + 1
      BY <1>1, <3>1, <3>2
    <3>3. CASE i \in 1..Len(s)
      BY <1>1, <3>1, <3>3 DEF Range
    <3> QED BY <1>1, <3>2, <3>3
  <2>2. ASSUME NEW o \in Range(s) PROVE o \in Range(a)
    <3>1. PICK i \in 1..Len(s) : s[i] = o
      BY <1>1 DEF Range
    <3>2. i \in DOMAIN a /\ a[i] = o
      BY <1>1, <3>1
    <3> QED BY <3>2 DEF Range
  <2>3. e \in Range(a)
    <3>1. Len(s) + 1 \in DOMAIN a
      BY <1>1
    <3> QED BY <1>1, <3>1 DEF Range
  <2> QED BY <2>1, <2>2, <2>3
<1>3. ASSUME OneEntryPerHandle(s), \A o \in Range(s) : o.tcb # e.tcb
      PROVE  OneEntryPerHandle(a)
  <2> SUFFICES ASSUME NEW i \in DOMAIN a, NEW j \in DOMAIN a, a[i].tcb = a[j].tcb
               PROVE  i = j
    BY DEF OneEntryPerHandle
  <2>0. \A k \in 1..Len(s) : s[k] \in Range(s)
    BY <1>1 DEF Range
  <2>1. CASE i \in 1..Len(s) /\ j \in 1..Len(s)
    BY <1>1, <1>3, <2>1 DEF OneEntryPerHandle
  <2>2. CASE i = Len(s) + 1 /\ j \in 1..Len(s)
    BY <1>1, <1>3, <2>0, <2>2
  <2>3. CASE i \in 1..Len(s) /\ j = Len(s) + 1
    BY <1>1, <1>3, <2>0, <2>3
  <2>4. CASE i = Len(s) + 1 /\ j = Len(s) + 1
    BY <2>4
  <2> QED BY <1>1, <2>1, <2>2, <2>3, <2>4
<1> QED BY <1>1, <1>2, <1>3 DEF a

LEMMA Bounds ==
  /\ QueueMax \in Nat /\ QueueMax > 0 /\ MapMax \in Nat /\ MapMax > 0
  /\ MaxSends \in Nat /\ PidOf \in [Sock -> Pid]
BY AttributionAssumption

(* An identity event: of its handle the map has the new entry, if any.     *)
LEMMA LearnedKeeps ==
  ASSUME Types, NEW h \in Tcb, NEW k \in Sock, HandleTcbCreate(h, k)
  PROVE  /\ map' \in Seq(Entry) /\ Len(map') <= MapMax /\ OneEntryPerHandle(map')
         /\ Range(map') \subseteq (Range(map) \ EntryOf(h)) \union {[tcb |-> h, sock |-> k]}
<1> DEFINE new == [tcb |-> h, sock |-> k]
           w == Without(map, EntryOf(h))
           learned == Append(w, new)
<1>1. new \in Entry /\ new.tcb = h /\ MapMax \in Nat
  BY Bounds DEF Entry
<1>2. w \in Seq(Entry) /\ Range(w) = Range(map) \ EntryOf(h) /\ OneEntryPerHandle(w)
  BY WithoutKeeps DEF Types
<1>3. \A o \in Range(w) : o.tcb # new.tcb
  BY <1>1, <1>2 DEF EntryOf
<1>4. map' = IF Len(learned) > MapMax THEN Youngest(learned, MapMax) ELSE learned
  BY DEF HandleTcbCreate
<1> HIDE DEF w, new
<1>5. /\ learned \in Seq(Entry) /\ Len(learned) \in Nat /\ OneEntryPerHandle(learned)
      /\ Range(learned) = Range(w) \union {new}
  BY <1>1, <1>2, <1>3, AppendKeeps
<1> HIDE DEF learned
<1>6. CASE Len(learned) > MapMax
  <2>1. MapMax \in 0..Len(learned)
    BY <1>1, <1>5, <1>6
  <2> QED BY <1>1, <1>2, <1>4, <1>5, <1>6, <2>1, YoungestKeeps DEF new
<1>7. CASE ~(Len(learned) > MapMax)
  BY <1>1, <1>2, <1>4, <1>5, <1>7 DEF new
<1> QED BY <1>6, <1>7

-----------------------------------------------------------------------------
(* What is said of a handle, as events are sent and handled.               *)
LEMMA StandsPrefix ==
  ASSUME NEW s \in Seq(Event), NEW ev \in Event, NEW m, NEW h, NEW n \in 0..Len(s), NEW k
  PROVE  Stands(Append(s, ev), m, h, n, k) <=> Stands(s, m, h, n, k)
<1>1. \A j \in 1..n : Append(s, ev)[j] = s[j]
  OBVIOUS
<1>2. \A j \in 1..n : \A l \in (j + 1)..n : l \in 1..n
  OBVIOUS
<1> QED BY <1>1, <1>2 DEF Stands

LEMMA StandsAfter ==
  ASSUME NEW s \in Seq(Event), NEW ev \in Event, NEW m, NEW h, NEW k,
         ~Names(ev, h), Stands(s, m, h, Len(s), k)
  PROVE  Stands(Append(s, ev), m, h, Len(s) + 1, k)
<1> DEFINE a == Append(s, ev)
           n == Len(s)
<1>1. n \in Nat /\ a[n + 1] = ev /\ \A j \in 1..n : a[j] = s[j]
  OBVIOUS
<1> HIDE DEF a, n
<1>2. Stands(s, m, h, n, k)
  BY DEF n
<1>3. ASSUME NEW j \in 1..(n + 1), Names(a[j], h), \A l \in (j + 1)..(n + 1) : ~Names(a[l], h)
      PROVE  a[j].sock = k
  <2>1. j \in 1..n
    BY <1>1, <1>3
  <2>2. \A l \in (j + 1)..n : ~Names(s[l], h)
    BY <1>1, <1>3, <2>1
  <2> QED BY <1>1, <1>2, <1>3, <2>1, <2>2 DEF Stands
<1>4. ASSUME \A j \in 1..(n + 1) : ~Names(a[j], h)
      PROVE  \A e \in Range(m) : e.tcb = h => e.sock = k
  <2>1. \A j \in 1..n : ~Names(s[j], h)
    BY <1>1, <1>4
  <2> QED BY <1>2, <2>1 DEF Stands
<1>5. Stands(a, m, h, n + 1, k)
  BY <1>3, <1>4 DEF Stands
<1> QED BY <1>5 DEF a, n

LEMMA StandsNew ==
  ASSUME NEW s \in Seq(Event), NEW ev \in Event, NEW m, NEW h, Names(ev, h)
  PROVE  Stands(Append(s, ev), m, h, Len(s) + 1, ev.sock)
<1> DEFINE a == Append(s, ev)
           n == Len(s)
<1>1. n \in Nat /\ a[n + 1] = ev
  OBVIOUS
<1> HIDE DEF a, n
<1>2. ASSUME NEW j \in 1..(n + 1), \A l \in (j + 1)..(n + 1) : ~Names(a[l], h)
      PROVE  j = n + 1
  BY <1>1, <1>2
<1>3. Stands(a, m, h, n + 1, ev.sock)
  BY <1>1, <1>2 DEF Stands
<1> QED BY <1>3 DEF a, n

LEMMA StandsShrink ==
  ASSUME NEW s, NEW m, NEW r, NEW h, NEW n, NEW k, Stands(s, m, h, n, k),
         \A e \in Range(r) : e.tcb = h => e \in Range(m)
  PROVE  Stands(s, r, h, n, k)
BY DEF Stands

(* The first event is handled: an identity event of h has put its entry    *)
(* into the map r, any other has at most taken entries of h from it.       *)
LEMMA StandsTail ==
  ASSUME NEW s \in Seq(Event), s # <<>>, NEW m, NEW r, NEW h, NEW n \in 1..Len(s), NEW k,
         Stands(s, m, h, n, k),
         \A e \in Range(r) : e.tcb = h =>
           IF Names(Head(s), h) THEN e.sock = Head(s).sock ELSE e \in Range(m)
  PROVE  Stands(Tail(s), r, h, n - 1, k)
<1> DEFINE t == Tail(s)
<1>1. /\ Len(s) \in Nat /\ Len(t) = Len(s) - 1 /\ Head(s) = s[1]
      /\ n \in Nat /\ n - 1 \in Nat /\ 1 \in 1..n
      /\ \A j \in 1..(n - 1) : t[j] = s[j + 1] /\ j + 1 \in 1..n
  OBVIOUS
<1> HIDE DEF t
<1>2. ASSUME NEW j \in 1..(n - 1), Names(t[j], h),
             \A l \in (j + 1)..(n - 1) : ~Names(t[l], h)
      PROVE  t[j].sock = k
  <2>1. ASSUME NEW l \in (j + 2)..n PROVE ~Names(s[l], h)
    <3>1. l - 1 \in (j + 1)..(n - 1) /\ l - 1 \in 1..(n - 1) /\ (l - 1) + 1 = l
      BY <1>1
    <3>2. t[l - 1] = s[l]
      BY <1>1, <3>1
    <3> QED BY <1>2, <3>1, <3>2
  <2>2. j + 1 \in 1..n /\ t[j] = s[j + 1] /\ (j + 1) + 1 = j + 2
    BY <1>1
  <2> QED BY <1>2, <2>1, <2>2 DEF Stands
<1>3. ASSUME \A j \in 1..(n - 1) : ~Names(t[j], h), NEW e \in Range(r), e.tcb = h
      PROVE  e.sock = k
  <2>1. ASSUME NEW l \in 2..n PROVE ~Names(s[l], h)
    <3>1. l - 1 \in 1..(n - 1) /\ (l - 1) + 1 = l
      BY <1>1
    <3>2. t[l - 1] = s[l]
      BY <1>1, <3>1
    <3> QED BY <1>3, <3>1, <3>2
  <2>2. CASE Names(s[1], h)
    <3>1. s[1].sock = k
      BY <1>1, <2>1, <2>2 DEF Stands
    <3> QED BY <1>1, <1>3, <2>2, <3>1
  <2>3. CASE ~Names(s[1], h)
    <3>1. \A j \in 1..n : ~Names(s[j], h)
      BY <1>1, <2>1, <2>3
    <3> QED BY <1>1, <1>3, <2>3, <3>1 DEF Stands
  <2> QED BY <2>2, <2>3
<1>4. Stands(t, r, h, n - 1, k)
  BY <1>2, <1>3 DEF Stands
<1> QED BY <1>4 DEF t

-----------------------------------------------------------------------------
(* One more of one fate is one more in all.                                *)
LEMMA TotalCounts ==
  ASSUME NEW t \in [Fates -> Nat], NEW f \in Fates
  PROVE  /\ Total(t) \in Nat
         /\ [t EXCEPT ![f] = t[f] + 1] \in [Fates -> Nat]
         /\ Total([t EXCEPT ![f] = t[f] + 1]) = Total(t) + 1
<1> DEFINE u == [t EXCEPT ![f] = t[f] + 1]
<1>1. \A g \in Fates : t[g] \in Nat /\ u[g] = IF g = f THEN t[g] + 1 ELSE t[g]
  OBVIOUS
<1>2. u \in [Fates -> Nat]
  OBVIOUS
<1> HIDE DEF u
<1>3. {"unresolved", "overflowed", "edge", "node", "nowhere", "uncounted", "wrong"} = Fates
  BY DEF Fates
<1>4. Total(t) \in Nat
  BY <1>1, <1>3 DEF Total
<1>5. Total(u) = Total(t) + 1
  <2>1. CASE f = "unresolved"
    BY <1>1, <1>3, <2>1 DEF Total
  <2>2. CASE f = "overflowed"
    BY <1>1, <1>3, <2>2 DEF Total
  <2>3. CASE f = "edge"
    BY <1>1, <1>3, <2>3 DEF Total
  <2>4. CASE f = "node"
    BY <1>1, <1>3, <2>4 DEF Total
  <2>5. CASE f = "nowhere"
    BY <1>1, <1>3, <2>5 DEF Total
  <2>6. CASE f = "wrong"
    BY <1>1, <1>3, <2>6 DEF Total
  <2>7. CASE f = "uncounted"
    BY <1>1, <1>3, <2>7 DEF Total
  <2> QED BY <1>3, <2>1, <2>2, <2>3, <2>4, <2>5, <2>6, <2>7
<1> QED BY <1>2, <1>4, <1>5 DEF u

(* The buffer: a charge enters it, or pushes the oldest out and is counted *)
(* as an overflow.                                                         *)
LEMMA BufferKeeps ==
  ASSUME Types, NEW c \in Charge, Buffer(c)
  PROVE  /\ queue' \in Seq(Charge) /\ Len(queue') <= QueueMax
         /\ \A i \in DOMAIN queue' : queue'[i] = c \/ \E j \in DOMAIN queue : queue'[i] = queue[j]
         /\ tally' \in [Fates -> Nat]
         /\ Len(queue') + Total(tally') = Len(queue) + Total(tally) + 1
<1> DEFINE q == Append(queue, c)
<1>1. /\ queue \in Seq(Charge) /\ Len(queue) \in Nat /\ Len(queue) <= QueueMax
      /\ tally \in [Fates -> Nat] /\ QueueMax \in Nat /\ QueueMax > 0
  BY Bounds DEF Types
<1>2. /\ q \in Seq(Charge) /\ Len(q) = Len(queue) + 1 /\ q # <<>>
      /\ DOMAIN q = 1..(Len(queue) + 1) /\ DOMAIN queue = 1..Len(queue)
      /\ q[Len(queue) + 1] = c /\ \A i \in 1..Len(queue) : q[i] = queue[i]
  BY <1>1
<1>3. /\ queue' = IF Len(q) > QueueMax THEN Tail(q) ELSE q
      /\ tally' = IF Len(q) > QueueMax THEN [tally EXCEPT !["overflowed"] = tally["overflowed"] + 1]
                                       ELSE tally
  BY DEF Buffer
<1> HIDE DEF q
<1>4. \A i \in DOMAIN q : q[i] = c \/ \E j \in DOMAIN queue : q[i] = queue[j]
  BY <1>1, <1>2
<1>5. Total(tally) \in Nat
  BY <1>1, TotalCounts DEF Fates
<1>6. CASE Len(q) > QueueMax
  <2>1. /\ queue' \in Seq(Charge) /\ Len(queue') = Len(queue) /\ DOMAIN queue' = 1..Len(queue)
        /\ \A i \in DOMAIN queue' : i + 1 \in DOMAIN q /\ queue'[i] = q[i + 1]
    BY <1>1, <1>2, <1>3, <1>6
  <2>2. tally' = [tally EXCEPT !["overflowed"] = tally["overflowed"] + 1]
    BY <1>3, <1>6
  <2>3. "overflowed" \in Fates
    BY DEF Fates
  <2>4. tally' \in [Fates -> Nat] /\ Total(tally') = Total(tally) + 1
    BY <1>1, <2>2, <2>3, TotalCounts
  <2>5. \A i \in DOMAIN queue' : queue'[i] = c \/ \E j \in DOMAIN queue : queue'[i] = queue[j]
    BY <1>4, <2>1
  <2>6. Len(queue') + Total(tally') = Len(queue) + Total(tally) + 1
    BY <1>1, <1>5, <2>1, <2>4
  <2> QED BY <1>1, <2>1, <2>4, <2>5, <2>6
<1>7. CASE ~(Len(q) > QueueMax)
  <2>1. queue' = q /\ tally' = tally
    BY <1>3, <1>7
  <2>2. Len(queue') + Total(tally') = Len(queue) + Total(tally) + 1
    BY <1>1, <1>2, <1>5, <2>1
  <2>3. Len(queue') <= QueueMax
    BY <1>1, <1>2, <1>7, <2>1
  <2> QED BY <1>1, <1>2, <1>4, <2>1, <2>2, <2>3
<1> QED BY <1>6, <1>7

-----------------------------------------------------------------------------
(* What handling an event does: to the map, to the buffer and the tally.   *)
MapAfter(ev) ==
  /\ map' \in Seq(Entry) /\ Len(map') <= MapMax /\ OneEntryPerHandle(map')
  /\ \A e \in Range(map') : IF Names(ev, e.tcb) THEN e.sock = ev.sock ELSE e \in Range(map)

Charges(ev, c) ==
  \/ c.sock = c.true
  \/ /\ ev.type = "bytes" /\ c.tcb = ev.tcb /\ c.true = ev.true
     /\ \E e \in EntryOf(ev.tcb) : c.sock = e.sock

BufferAfter(ev) ==
  /\ queue' \in Seq(Charge) /\ Len(queue') <= QueueMax
  /\ tally' \in [Fates -> Nat]
  /\ Len(queue') + Total(tally') =
       Len(queue) + Total(tally) + (IF ev.type \in {"bytes", "datagram"} THEN 1 ELSE 0)
  /\ \A i \in DOMAIN queue' :
       Charges(ev, queue'[i]) \/ \E j \in DOMAIN queue : queue'[i] = queue[j]

(* A map that only lost entries.                                           *)
LEMMA ShrunkMap ==
  ASSUME NEW ev, ev.type # "create", map' \in Seq(Entry), Len(map') <= MapMax,
         OneEntryPerHandle(map'), Range(map') \subseteq Range(map)
  PROVE  MapAfter(ev)
BY DEF MapAfter, Names

LEMMA BufferUntouched ==
  ASSUME Types, NEW ev, ev.type \notin {"bytes", "datagram"}, UNCHANGED <<queue, tally>>
  PROVE  BufferAfter(ev)
<1>1. queue \in Seq(Charge) /\ Len(queue) \in Nat /\ tally \in [Fates -> Nat]
  BY DEF Types
<1>2. Total(tally) \in Nat
  BY <1>1, TotalCounts DEF Fates
<1>3. Len(queue') + Total(tally') = Len(queue) + Total(tally) + 0
  BY <1>1, <1>2
<1> QED BY <1>1, <1>3 DEF BufferAfter, Types

LEMMA RemovalEffect ==
  ASSUME Types, NEW ev \in Removals, HandleRemoval(ev)
  PROVE  MapAfter(ev) /\ BufferAfter(ev)
<1>1. ev.type \in {"remove", "reset"}
  BY DEF Removals
<1>2. PICK dropped : map' = Without(map, dropped)
  BY DEF HandleRemoval
<1>3. map \in Seq(Entry) /\ OneEntryPerHandle(map) /\ Len(map) <= MapMax
      /\ MapMax \in Nat /\ Len(map) \in Nat
  BY Bounds DEF Types
<1>4. /\ map' \in Seq(Entry) /\ Len(map') <= Len(map) /\ OneEntryPerHandle(map')
      /\ Range(map') \subseteq Range(map)
  BY <1>2, <1>3, WithoutKeeps
<1>5. Len(map') <= MapMax
  BY <1>3, <1>4
<1>6. UNCHANGED <<queue, tally>>
  BY DEF HandleRemoval
<1> QED BY <1>1, <1>4, <1>5, <1>6, ShrunkMap, BufferUntouched

LEMMA CreateEffect ==
  ASSUME Types, NEW ev \in Identity, HandleTcbCreate(ev.tcb, ev.sock)
  PROVE  MapAfter(ev) /\ BufferAfter(ev)
<1>1. ev.type = "create" /\ ev.tcb \in Tcb /\ ev.sock \in Sock
  BY DEF Identity
<1>2. /\ map' \in Seq(Entry) /\ Len(map') <= MapMax /\ OneEntryPerHandle(map')
      /\ Range(map') \subseteq (Range(map) \ EntryOf(ev.tcb))
                                  \union {[tcb |-> ev.tcb, sock |-> ev.sock]}
  BY <1>1, LearnedKeeps
<1>3. ASSUME NEW e \in Range(map')
      PROVE  IF Names(ev, e.tcb) THEN e.sock = ev.sock ELSE e \in Range(map)
  <2>1. CASE e = [tcb |-> ev.tcb, sock |-> ev.sock]
    BY <1>1, <2>1 DEF Names
  <2>2. CASE e \in Range(map) /\ e \notin EntryOf(ev.tcb)
    BY <1>1, <2>2 DEF Names, EntryOf
  <2> QED BY <1>2, <2>1, <2>2
<1>4. UNCHANGED <<queue, tally>>
  BY DEF HandleTcbCreate
<1> QED BY <1>1, <1>2, <1>3, <1>4, BufferUntouched DEF MapAfter

LEMMA DatagramEffect ==
  ASSUME Types, NEW ev \in Transfers, ev.type = "datagram", HandleDatagram(ev.pid)
  PROVE  MapAfter(ev) /\ BufferAfter(ev)
<1> DEFINE c == [pid |-> ev.pid, sock |-> NoSock, true |-> NoSock, tcb |-> NoSock]
<1>1. c \in Charge /\ c.sock = c.true
  BY DEF Transfers, Charge
<1>2. Buffer(c) /\ map' = map
  BY DEF HandleDatagram
<1> HIDE DEF c
<1>3. BufferAfter(ev)
  BY <1>1, <1>2, BufferKeeps DEF BufferAfter, Charges
<1>4. MapAfter(ev)
  BY <1>2, ShrunkMap DEF Types
<1> QED BY <1>3, <1>4

LEMMA TransferEffect ==
  ASSUME Types, NEW ev \in Transfers, ev.type = "bytes", HandleTcpTransfer(ev.tcb, ev.true)
  PROVE  MapAfter(ev) /\ BufferAfter(ev)
<1>1. ev.tcb \in Tcb /\ ev.true \in Sock
  BY DEF Transfers
<1>2. /\ map \in Seq(Entry) /\ OneEntryPerHandle(map) /\ Len(map) <= MapMax
      /\ queue \in Seq(Charge) /\ Len(queue) <= QueueMax /\ Len(queue) \in Nat
      /\ tally \in [Fates -> Nat]
  BY DEF Types
<1>3. CASE EntryOf(ev.tcb) = {}
  <2>1. /\ tally' = [tally EXCEPT !["unresolved"] = tally["unresolved"] + 1]
        /\ map' = map /\ queue' = queue
    BY <1>3 DEF HandleTcpTransfer, provider
  <2>2. /\ tally' \in [Fates -> Nat] /\ Total(tally) \in Nat
        /\ Total(tally') = Total(tally) + 1
    <3>1. "unresolved" \in Fates
      BY DEF Fates
    <3> QED BY <1>2, <2>1, <3>1, TotalCounts
  <2>3. Len(queue') + Total(tally') = Len(queue) + Total(tally) + 1
    BY <1>2, <2>1, <2>2
  <2> QED BY <1>2, <2>1, <2>2, <2>3, ShrunkMap DEF BufferAfter
<1>4. CASE EntryOf(ev.tcb) # {}
  <2>1. PICK e \in EntryOf(ev.tcb) :
              /\ Buffer([pid |-> PidOf[e.sock], sock |-> e.sock, true |-> ev.true, tcb |-> ev.tcb])
              /\ map' = Append(Without(map, {e}), e)
    BY <1>4 DEF HandleTcpTransfer
  <2> DEFINE c == [pid |-> PidOf[e.sock], sock |-> e.sock, true |-> ev.true, tcb |-> ev.tcb]
             w == Without(map, {e})
  <2>2. e \in Range(map) /\ e \in Entry /\ e.tcb = ev.tcb /\ e.sock \in Sock
    <3>1. e \in Range(map) /\ e.tcb = ev.tcb
      BY DEF EntryOf
    <3>2. e \in Entry
      BY <1>2, <3>1 DEF Range
    <3> QED BY <3>1, <3>2 DEF Entry
  <2>3. c \in Charge /\ Charges(ev, c)
    BY <1>1, <2>1, <2>2, Bounds DEF Charge, Charges
  <2>4. Buffer(c) /\ map' = Append(w, e)
    BY <2>1
  <2>5. BufferAfter(ev)
    <3> HIDE DEF c
    <3> QED BY <2>3, <2>4, BufferKeeps DEF BufferAfter
  <2>6. /\ w \in Seq(Entry) /\ Range(w) = Range(map) \ {e} /\ OneEntryPerHandle(w)
        /\ Len(w) < Len(map)
    <3>1. /\ w \in Seq(Entry) /\ Range(w) = Range(map) \ {e} /\ OneEntryPerHandle(w)
      BY <1>2, WithoutKeeps
    <3>2. Len(w) < Len(map)
      BY <1>2, <2>2, WithoutShortens
    <3> QED BY <3>1, <3>2
  <2>7. \A o \in Range(w) : o.tcb # e.tcb
    BY <1>2, <2>2, <2>6 DEF OneEntryPerHandle, Range
  <2> HIDE DEF w
  <2>8. /\ map' \in Seq(Entry) /\ Len(map') = Len(w) + 1 /\ OneEntryPerHandle(map')
        /\ Range(map') = Range(w) \union {e}
    BY <2>2, <2>4, <2>6, <2>7, AppendKeeps
  <2>9. Len(map') <= MapMax /\ Range(map') \subseteq Range(map)
    <3>1. Len(w) \in Nat /\ Len(map) \in Nat /\ MapMax \in Nat
      BY <1>2, <2>6, Bounds
    <3> QED BY <1>2, <2>2, <2>6, <2>8, <3>1
  <2> QED BY <2>5, <2>8, <2>9, ShrunkMap
<1> QED BY <1>3, <1>4

LEMMA HandleEffect ==
  ASSUME Types, NEW ev \in Event \union Removals, Handle(ev)
  PROVE  MapAfter(ev) /\ BufferAfter(ev)
<1>1. CASE ev \in Identity
  <2>1. ev.type = "create"
    BY <1>1 DEF Identity
  <2> QED BY <1>1, <2>1, CreateEffect DEF Handle
<1>2. CASE ev \in Transfers
  <2>1. ev.type \in {"bytes", "datagram"}
    BY <1>2 DEF Transfers
  <2>2. CASE ev.type = "bytes"
    BY <1>2, <2>2, TransferEffect DEF Handle
  <2>3. CASE ev.type = "datagram"
    BY <1>2, <2>3, DatagramEffect DEF Handle
  <2> QED BY <2>1, <2>2, <2>3
<1>3. CASE ev \in Removals
  <2>1. ev.type \in {"remove", "reset"}
    BY <1>3 DEF Removals
  <2> QED BY <1>3, <2>1, RemovalEffect DEF Handle
<1> QED BY <1>1, <1>2, <1>3 DEF Event

-----------------------------------------------------------------------------
(* Counting the transfers on their way, and those charged in a tick.       *)
LEMMA PositionsFinite ==
  ASSUME NEW n \in Nat, NEW T \in SUBSET (1..n)
  PROVE  IsFiniteSet(T) /\ Cardinality(T) \in Nat /\ Cardinality(1..n) = n
<1>1. IsFiniteSet(1..n) /\ Cardinality(1..n) = n
  BY FS_Interval
<1> QED BY <1>1, FS_Subset, FS_CardinalityType

LEMMA TotalNat ==
  ASSUME NEW t \in [Fates -> Nat]
  PROVE  Total(t) \in Nat
<1>1. "edge" \in Fates
  BY DEF Fates
<1> QED BY <1>1, TotalCounts

(* The numbers of transfers on their way and in the buffer.                *)
LEMMA Amounts ==
  ASSUME NEW s \in Seq(Event), NEW q \in Seq(Charge)
  PROVE  InFlight(s) \in Nat /\ Len(q) \in Nat
<1>1. {i \in DOMAIN s : s[i].type # "create"} \in SUBSET (1..Len(s)) /\ Len(s) \in Nat
  OBVIOUS
<1>2. InFlight(s) \in Nat
  BY <1>1, PositionsFinite DEF InFlight
<1> QED BY <1>2

LEMMA InFlightAppend ==
  ASSUME NEW s \in Seq(Event), NEW ev \in Event
  PROVE  /\ InFlight(s) \in Nat
         /\ InFlight(Append(s, ev)) = InFlight(s) + (IF ev.type # "create" THEN 1 ELSE 0)
<1> DEFINE n == Len(s)
           a == Append(s, ev)
           S == {i \in DOMAIN s : s[i].type # "create"}
           A == {i \in DOMAIN a : a[i].type # "create"}
<1>1. /\ n \in Nat /\ DOMAIN s = 1..n /\ DOMAIN a = 1..(n + 1)
      /\ a[n + 1] = ev /\ \A i \in 1..n : a[i] = s[i]
  OBVIOUS
<1>2. InFlight(s) = Cardinality(S) /\ InFlight(a) = Cardinality(A)
  BY DEF InFlight
<1>3. S \in SUBSET (1..n) /\ n + 1 \notin S
  BY <1>1
<1>4. A = IF ev.type # "create" THEN S \union {n + 1} ELSE S
  <2>1. \A i : i \in 1..(n + 1) <=> i \in 1..n \/ i = n + 1
    BY <1>1
  <2> QED BY <1>1, <2>1
<1> HIDE DEF S, A, a, n
<1>5. IsFiniteSet(S) /\ Cardinality(S) \in Nat
  BY <1>1, <1>3, PositionsFinite
<1>6. Cardinality(S \union {n + 1}) = Cardinality(S) + 1
  BY <1>3, <1>5, FS_AddElement
<1>7. InFlight(a) = InFlight(s) + (IF ev.type # "create" THEN 1 ELSE 0)
  BY <1>2, <1>4, <1>5, <1>6
<1> QED BY <1>2, <1>5, <1>7 DEF a

LEMMA InFlightTail ==
  ASSUME NEW s \in Seq(Event), s # <<>>
  PROVE  /\ InFlight(Tail(s)) \in Nat
         /\ InFlight(s) = InFlight(Tail(s)) + (IF Head(s).type # "create" THEN 1 ELSE 0)
<1> DEFINE n == Len(s)
           t == Tail(s)
           S == {i \in DOMAIN s : s[i].type # "create"}
           T == {i \in DOMAIN t : t[i].type # "create"}
           U == S \ {1}
           f == [i \in T |-> i + 1]
<1>1. /\ n \in Nat /\ n >= 1 /\ DOMAIN s = 1..n /\ DOMAIN t = 1..(n - 1) /\ n - 1 \in Nat
      /\ Head(s) = s[1] /\ \A i \in 1..(n - 1) : t[i] = s[i + 1]
  OBVIOUS
<1>2. InFlight(s) = Cardinality(S) /\ InFlight(t) = Cardinality(T)
  BY DEF InFlight
<1>3. /\ \A i : i \in S <=> i \in 1..n /\ s[i].type # "create"
      /\ \A i : i \in T <=> i \in 1..(n - 1) /\ s[i + 1].type # "create"
  BY <1>1
<1> HIDE DEF S, T, t, n
<1>4. /\ IsFiniteSet(S) /\ Cardinality(S) \in Nat
      /\ IsFiniteSet(T) /\ Cardinality(T) \in Nat
      /\ IsFiniteSet(U)
  <2>1. S \in SUBSET (1..n) /\ T \in SUBSET (1..(n - 1)) /\ U \in SUBSET (1..n)
    BY <1>3
  <2> QED BY <1>1, <2>1, PositionsFinite
<1>5. Cardinality(T) = Cardinality(U)
  <2>1. \A i \in T : i + 1 \in U
    BY <1>1, <1>3
  <2>2. \A u \in U : u - 1 \in T /\ f[u - 1] = u
    BY <1>1, <1>3
  <2>3. \A i, j \in T : f[i] = f[j] => i = j
    BY <1>1, <1>3
  <2>4. f \in [T -> U]
    BY <2>1
  <2>5. f \in Bijection(T, U)
    BY <2>2, <2>3, <2>4 DEF Bijection, Injection, Surjection, IsInjective
  <2>6. ExistsBijection(T, U)
    BY <2>5 DEF ExistsBijection
  <2> QED BY <1>4, <2>6, FS_Bijection
<1>6. CASE s[1].type # "create"
  <2>1. 1 \in S
    BY <1>1, <1>3, <1>6
  <2>2. Cardinality(U) = Cardinality(S) - 1
    BY <1>4, <2>1, FS_RemoveElement
  <2> QED BY <1>1, <1>2, <1>4, <1>5, <1>6, <2>2 DEF t
<1>7. CASE s[1].type = "create"
  <2>1. U = S
    BY <1>3, <1>7
  <2>2. Cardinality(U) = Cardinality(S)
    BY <2>1
  <2>3. InFlight(s) = InFlight(t) /\ InFlight(t) \in Nat
    BY <1>2, <1>4, <1>5, <2>2
  <2>4. (IF Head(s).type # "create" THEN 1 ELSE 0) = 0
    BY <1>1, <1>7
  <2>5. InFlight(s) = InFlight(t) + 0
    BY <2>3
  <2> QED BY <2>3, <2>4, <2>5 DEF t
<1> QED BY <1>6, <1>7

LEMMA DisjointUnion ==
  ASSUME NEW S, NEW T, IsFiniteSet(S), IsFiniteSet(T), S \intersect T = {}
  PROVE  /\ IsFiniteSet(S \union T)
         /\ Cardinality(S \union T) = Cardinality(S) + Cardinality(T)
<1>1. /\ IsFiniteSet(S \union T)
      /\ Cardinality(S \union T) = Cardinality(S) + Cardinality(T) - Cardinality(S \intersect T)
  BY FS_Union
<1>2. Cardinality(S \intersect T) = 0
  BY FS_EmptySet
<1>3. Cardinality(S) \in Nat /\ Cardinality(T) \in Nat
  BY FS_CardinalityType
<1> QED BY <1>1, <1>2, <1>3

LEMMA ChargedAll ==
  ASSUME NEW q \in Seq(Charge), NEW t \in [Fates -> Nat], NEW u,
         u = [f \in Fates |-> t[f] + Cardinality({i \in DOMAIN q : Fate(q, i) = f})]
  PROVE  u \in [Fates -> Nat] /\ Total(u) = Total(t) + Len(q)
<1> DEFINE n == Len(q)
           E == {i \in DOMAIN q : Fate(q, i) = "edge"}
           W == {i \in DOMAIN q : Fate(q, i) = "wrong"}
           N == {i \in DOMAIN q : Fate(q, i) = "node"}
           O == {i \in DOMAIN q : Fate(q, i) = "nowhere"}
           X == {i \in DOMAIN q : Fate(q, i) = "uncounted"}
<1>1. n \in Nat /\ DOMAIN q = 1..n
  OBVIOUS
<1>2. \A i \in 1..n : Fate(q, i) \in {"edge", "wrong", "node", "nowhere", "uncounted"}
  BY DEF Fate, Charged
<1>3. ASSUME NEW f \in Fates
      PROVE  t[f] + Cardinality({i \in DOMAIN q : Fate(q, i) = f}) \in Nat
  <2>1. {i \in DOMAIN q : Fate(q, i) = f} \in SUBSET (1..n)
    BY <1>1
  <2>2. Cardinality({i \in DOMAIN q : Fate(q, i) = f}) \in Nat
    BY <1>1, <2>1, PositionsFinite
  <2> QED BY <2>2
<1>4. u \in [Fates -> Nat]
  BY <1>3
<1>5. /\ {i \in DOMAIN q : Fate(q, i) = "unresolved"} = {}
      /\ {i \in DOMAIN q : Fate(q, i) = "overflowed"} = {}
  BY <1>1, <1>2
<1>6. /\ (((E \union W) \union N) \union O) \union X = 1..n
      /\ E \intersect W = {} /\ (E \union W) \intersect N = {}
      /\ ((E \union W) \union N) \intersect O = {}
      /\ (((E \union W) \union N) \union O) \intersect X = {}
  BY <1>1, <1>2
<1>7. /\ t["unresolved"] \in Nat /\ t["overflowed"] \in Nat /\ t["edge"] \in Nat
      /\ t["wrong"] \in Nat /\ t["node"] \in Nat /\ t["nowhere"] \in Nat
      /\ t["uncounted"] \in Nat
  BY DEF Fates
<1>8. /\ u["unresolved"] = t["unresolved"] + 0
      /\ u["overflowed"] = t["overflowed"] + 0
      /\ u["edge"] = t["edge"] + Cardinality(E)
      /\ u["wrong"] = t["wrong"] + Cardinality(W)
      /\ u["node"] = t["node"] + Cardinality(N)
      /\ u["nowhere"] = t["nowhere"] + Cardinality(O)
      /\ u["uncounted"] = t["uncounted"] + Cardinality(X)
  BY <1>5, FS_EmptySet DEF Fates
<1> HIDE DEF E, W, N, O, X, n
<1>9. /\ Cardinality(E) \in Nat /\ Cardinality(W) \in Nat
      /\ Cardinality(N) \in Nat /\ Cardinality(O) \in Nat /\ Cardinality(X) \in Nat
      /\ Cardinality(E) + Cardinality(W) + Cardinality(N) + Cardinality(O) + Cardinality(X) = n
  <2>1. E \in SUBSET (1..n) /\ W \in SUBSET (1..n) /\ N \in SUBSET (1..n) /\ O \in SUBSET (1..n)
        /\ X \in SUBSET (1..n)
    BY <1>6
  <2>2. /\ IsFiniteSet(E) /\ IsFiniteSet(W) /\ IsFiniteSet(N) /\ IsFiniteSet(O)
        /\ Cardinality(E) \in Nat /\ Cardinality(W) \in Nat
        /\ Cardinality(N) \in Nat /\ Cardinality(O) \in Nat
        /\ IsFiniteSet(X) /\ Cardinality(X) \in Nat
        /\ Cardinality(1..n) = n
    BY <1>1, <2>1, PositionsFinite
  <2>3. /\ IsFiniteSet(E \union W)
        /\ Cardinality(E \union W) = Cardinality(E) + Cardinality(W)
    BY <1>6, <2>2, DisjointUnion
  <2>4. /\ IsFiniteSet((E \union W) \union N)
        /\ Cardinality((E \union W) \union N) = Cardinality(E \union W) + Cardinality(N)
    BY <1>6, <2>2, <2>3, DisjointUnion
  <2>5. /\ IsFiniteSet(((E \union W) \union N) \union O)
        /\ Cardinality(((E \union W) \union N) \union O) =
             Cardinality((E \union W) \union N) + Cardinality(O)
    BY <1>6, <2>2, <2>4, DisjointUnion
  <2>6. Cardinality((((E \union W) \union N) \union O) \union X) =
          Cardinality(((E \union W) \union N) \union O) + Cardinality(X)
    BY <1>6, <2>2, <2>5, DisjointUnion
  <2> QED BY <1>6, <2>2, <2>3, <2>4, <2>5, <2>6
<1>10. Total(u) = Total(t) + n
  <2>1. PICK e \in Nat, w \in Nat, m \in Nat, o \in Nat, x \in Nat :
          /\ e = Cardinality(E) /\ w = Cardinality(W)
          /\ m = Cardinality(N) /\ o = Cardinality(O)
          /\ x = Cardinality(X)
    BY <1>9
  <2>2. (((e + w) + m) + o) + x = n
    BY <1>9, <2>1
  <2>3. /\ u["unresolved"] = t["unresolved"] /\ u["overflowed"] = t["overflowed"]
        /\ u["edge"] = t["edge"] + e /\ u["wrong"] = t["wrong"] + w
        /\ u["node"] = t["node"] + m /\ u["nowhere"] = t["nowhere"] + o
        /\ u["uncounted"] = t["uncounted"] + x
    BY <1>7, <1>8, <2>1
  <2>4. PICK a \in Nat, b \in Nat, c \in Nat, d \in Nat, g \in Nat, h \in Nat, y \in Nat :
          /\ a = t["unresolved"] /\ b = t["overflowed"] /\ c = t["edge"]
          /\ d = t["node"] /\ g = t["nowhere"] /\ h = t["wrong"]
          /\ y = t["uncounted"]
    BY <1>7
  <2>5. Total(t) = a + b + c + d + g + y + h
    BY <2>4 DEF Total
  <2>6. Total(u) = a + b + (c + e) + (d + m) + (g + o) + (y + x) + (h + w)
    BY <2>3, <2>4 DEF Total
  <2>7. a + b + (c + e) + (d + m) + (g + o) + (y + x) + (h + w)
          = (a + b + c + d + g + y + h) + ((((e + w) + m) + o) + x)
    OBVIOUS
  <2> QED BY <2>2, <2>5, <2>6, <2>7
<1> QED BY <1>4, <1>10 DEF n

-----------------------------------------------------------------------------
(* Each action keeps the invariant.                                        *)
LEMMA InitInv == Init => IInv
<1> SUFFICES ASSUME Init PROVE IInv
  OBVIOUS
<1> USE DEF Init
<1>1. Types
  BY Bounds DEF Types, OneEntryPerHandle
<1>2. InOrder
  BY DEF InOrder
<1>3. Counted
  BY DEF Counted, Range
<1>4. MisattributionNeedsLoss
  BY DEF MisattributionNeedsLoss
<1>5. EveryTransferAccounted
  <2>1. {i \in DOMAIN etw : etw[i].type # "create"} = {}
    OBVIOUS
  <2>2. InFlight(etw) = 0
    BY <2>1, FS_EmptySet DEF InFlight
  <2>3. Total(tally) = 0
    BY DEF Total, Fates
  <2>4. Len(queue) = 0
    OBVIOUS
  <2> QED BY <2>2, <2>3, <2>4 DEF EveryTransferAccounted
<1> QED BY <1>1, <1>2, <1>3, <1>4, <1>5 DEF IInv

(* An event sent: what is said up to the events before it stands.          *)
LEMMA EmitKeeps ==
  ASSUME Types, InOrder, NEW ev \in Event, Emit(ev), map' = map
  PROVE  /\ etw' \in Seq(Event) /\ Len(etw') = Len(etw) + 1 /\ Len(etw) \in Nat
         /\ etw'[Len(etw) + 1] = ev
         /\ \A i \in 1..Len(etw) : etw'[i] = etw[i]
         /\ \A i \in 1..Len(etw) : etw[i].type = "bytes" /\ etw[i].tcb \notin missed
              => Stands(etw', map', etw[i].tcb, i - 1, etw[i].true)
         /\ \A h, k : Stands(etw, map, h, Len(etw), k)
              => /\ Stands(etw', map', h, Len(etw), k)
                 /\ ~Names(ev, h) => Stands(etw', map', h, Len(etw) + 1, k)
<1>1. etw \in Seq(Event) /\ etw' = Append(etw, ev)
  BY DEF Types, Emit
<1>2. /\ etw' \in Seq(Event) /\ Len(etw') = Len(etw) + 1 /\ Len(etw) \in Nat
      /\ etw'[Len(etw) + 1] = ev
      /\ \A i \in 1..Len(etw) : etw'[i] = etw[i]
  BY <1>1
<1>3. ASSUME NEW i \in 1..Len(etw), etw[i].type = "bytes", etw[i].tcb \notin missed
      PROVE  Stands(etw', map', etw[i].tcb, i - 1, etw[i].true)
  <2>1. i - 1 \in 0..Len(etw)
    BY <1>2
  <2>2. Stands(etw, map, etw[i].tcb, i - 1, etw[i].true)
    BY <1>3 DEF InOrder
  <2> QED BY <1>1, <2>1, <2>2, StandsPrefix
<1>4. ASSUME NEW h, NEW k, Stands(etw, map, h, Len(etw), k)
      PROVE  /\ Stands(etw', map', h, Len(etw), k)
             /\ ~Names(ev, h) => Stands(etw', map', h, Len(etw) + 1, k)
  <2>1. Len(etw) \in 0..Len(etw)
    BY <1>2
  <2> QED BY <1>1, <1>4, <2>1, StandsPrefix, StandsAfter
<1> QED BY <1>2, <1>3, <1>4

LEMMA OpenInv ==
  ASSUME IInv, NEW h \in Tcb, NEW k \in Sock, Open(h, k)
  PROVE  IInv'
<1> DEFINE identity == [type |-> "create", tcb |-> h, sock |-> k]
<1>1. Types /\ InOrder /\ Counted /\ MisattributionNeedsLoss /\ EveryTransferAccounted
  BY DEF IInv
<1>2. /\ conn' = [conn EXCEPT ![h] = k] /\ conn' \in [Tcb -> Sock \union {NoSock}]
      /\ sends' = sends /\ UNCHANGED <<map, queue, scan, known, pids, absent, closing, unseen, gone, tally>>
  BY <1>1 DEF Open, provider, aggregator, Types
<1>3. \/ Emit(identity) /\ UNCHANGED <<late, missed>>
      \/ /\ missed' = missed \union {h} /\ etw' = etw
         /\ late' = late \union {identity} \/ late' = late
  BY DEF Open
<1>4. identity \in Identity /\ identity \in Event /\ identity.type = "create"
      /\ identity.tcb = h /\ identity.sock = k
  BY DEF Identity, Event
<1> HIDE DEF identity
<1>5. \A g \in Tcb : conn'[g] = IF g = h THEN k ELSE conn[g]
  BY <1>1, <1>2 DEF Types
<1>6. Counted'
  BY <1>1, <1>2 DEF Counted
<1>7. missed \subseteq missed' /\ missed' \subseteq Tcb
  BY <1>1, <1>3 DEF Types
<1>8. MisattributionNeedsLoss'
  BY <1>1, <1>2, <1>7 DEF MisattributionNeedsLoss
<1>9. CASE Emit(identity) /\ UNCHANGED <<late, missed>>
  <2>1. map' = map
    BY <1>2
  <2>2. /\ etw' \in Seq(Event) /\ Len(etw') = Len(etw) + 1 /\ Len(etw) \in Nat
        /\ etw'[Len(etw) + 1] = identity
        /\ \A i \in 1..Len(etw) : etw'[i] = etw[i]
        /\ \A i \in 1..Len(etw) : etw[i].type = "bytes" /\ etw[i].tcb \notin missed
             => Stands(etw', map', etw[i].tcb, i - 1, etw[i].true)
        /\ \A g, o : Stands(etw, map, g, Len(etw), o) /\ ~Names(identity, g)
             => Stands(etw', map', g, Len(etw) + 1, o)
    BY <1>1, <1>4, <1>9, <2>1, EmitKeeps
  <2>3. Types'
    BY <1>1, <1>2, <1>9, <2>2 DEF Types
  <2>4. InOrder'
    <3>1. ASSUME NEW i \in 1..Len(etw'), etw'[i].type = "bytes", etw'[i].tcb \notin missed'
          PROVE  Stands(etw', map', etw'[i].tcb, i - 1, etw'[i].true)
      <4>1. i \in 1..Len(etw) \/ i = Len(etw) + 1
        BY <2>2
      <4>2. i \in 1..Len(etw)
        BY <1>4, <2>2, <3>1, <4>1
      <4> QED BY <1>9, <2>2, <3>1, <4>2
    <3>2. ASSUME NEW g \in Tcb \ missed', conn'[g] # NoSock
          PROVE  Stands(etw', map', g, Len(etw'), conn'[g])
      <4>1. CASE g = h
        <5>1. Names(identity, g)
          BY <1>4, <4>1 DEF Names
        <5>2. Stands(Append(etw, identity), map, g, Len(etw) + 1, identity.sock)
          BY <1>1, <1>4, <5>1, StandsNew DEF Types
        <5>3. etw' = Append(etw, identity)
          BY <1>9 DEF Emit
        <5> QED BY <1>4, <1>5, <2>1, <2>2, <4>1, <5>2, <5>3
      <4>2. CASE g # h
        <5>1. ~Names(identity, g)
          BY <1>4, <4>2 DEF Names
        <5>2. conn'[g] = conn[g]
          BY <1>5, <4>2
        <5>3. Stands(etw, map, g, Len(etw), conn[g])
          BY <1>1, <1>9, <3>2, <5>2 DEF InOrder
        <5> QED BY <2>2, <5>1, <5>2, <5>3
      <4> QED BY <4>1, <4>2
    <3>3. \A ev \in late' : ev.type = "create" => ev.tcb \in missed'
      BY <1>1, <1>9 DEF InOrder
    <3> QED BY <3>1, <3>2, <3>3 DEF InOrder
  <2>5. EveryTransferAccounted'
    <3>1. InFlight(etw') = InFlight(etw) + 0 /\ InFlight(etw) \in Nat
      BY <1>1, <1>4, <1>9, InFlightAppend DEF Types, Emit
    <3> QED BY <1>1, <1>2, <3>1 DEF EveryTransferAccounted
  <2> QED BY <1>6, <1>8, <2>3, <2>4, <2>5 DEF IInv
<1>10. CASE /\ missed' = missed \union {h} /\ etw' = etw
            /\ late' = late \union {identity} \/ late' = late
  <2>1. late' \subseteq Identity \union Removals
    BY <1>1, <1>4, <1>10 DEF Types
  <2>2. Types'
    BY <1>1, <1>2, <1>7, <1>10, <2>1 DEF Types
  <2>3. InOrder'
    <3>1. ASSUME NEW g \in Tcb \ missed', conn'[g] # NoSock
          PROVE  Stands(etw', map', g, Len(etw'), conn'[g])
      <4>1. g # h /\ g \notin missed /\ conn'[g] = conn[g]
        BY <1>5, <1>10
      <4> QED BY <1>1, <1>2, <1>10, <3>1, <4>1 DEF InOrder
    <3>2. ASSUME NEW i \in 1..Len(etw'), etw'[i].type = "bytes", etw'[i].tcb \notin missed'
          PROVE  Stands(etw', map', etw'[i].tcb, i - 1, etw'[i].true)
      BY <1>1, <1>2, <1>7, <1>10, <3>2 DEF InOrder
    <3>3. \A ev \in late' : ev.type = "create" => ev.tcb \in missed'
      BY <1>1, <1>4, <1>10 DEF InOrder
    <3> QED BY <3>1, <3>2, <3>3 DEF InOrder
  <2>4. EveryTransferAccounted'
    BY <1>1, <1>2, <1>10 DEF EveryTransferAccounted
  <2> QED BY <1>6, <1>8, <2>2, <2>3, <2>4 DEF IInv
<1> QED BY <1>3, <1>9, <1>10

LEMMA CloseInv ==
  ASSUME IInv, NEW h \in Tcb, Close(h)
  PROVE  IInv'
<1>1. Types /\ InOrder /\ Counted /\ MisattributionNeedsLoss /\ EveryTransferAccounted
  BY DEF IInv
<1>2. /\ conn[h] # NoSock /\ conn' = [conn EXCEPT ![h] = NoSock]
      /\ UNCHANGED <<sends, missed, etw, map, queue, scan, known, pids, absent, closing,
                     unseen, gone, tally>>
  BY DEF Close, provider, aggregator
<1>3. PICK n \in {[type |-> "remove", tcb |-> h], [type |-> "reset", sock |-> conn[h]]} :
        late' = late \union {n}
  BY DEF Close
<1>4. n \in Removals /\ n.type # "create"
  <2>1. conn[h] \in Sock
    BY <1>1, <1>2 DEF Types
  <2> QED BY <2>1 DEF Removals
<1>5. Types'
  BY <1>1, <1>2, <1>3, <1>4 DEF Types
<1>6. InOrder'
  <2>1. ASSUME NEW g \in Tcb \ missed', conn'[g] # NoSock
        PROVE  Stands(etw', map', g, Len(etw'), conn'[g])
    <3>1. conn'[g] = conn[g]
      BY <1>1, <1>2, <2>1 DEF Types
    <3> QED BY <1>1, <1>2, <2>1, <3>1 DEF InOrder
  <2>2. \A ev \in late' : ev.type = "create" => ev.tcb \in missed'
    BY <1>1, <1>2, <1>3, <1>4 DEF InOrder
  <2> QED BY <1>1, <1>2, <2>1, <2>2 DEF InOrder
<1>7. Counted' /\ MisattributionNeedsLoss' /\ EveryTransferAccounted'
  BY <1>1, <1>2 DEF Counted, MisattributionNeedsLoss, EveryTransferAccounted
<1> QED BY <1>5, <1>6, <1>7 DEF IInv

LEMMA TransferInv ==
  ASSUME IInv, Transfer
  PROVE  IInv'
<1>1. Types /\ InOrder /\ Counted /\ MisattributionNeedsLoss /\ EveryTransferAccounted
  BY DEF IInv
<1>2. /\ sends \in 0..MaxSends /\ sends < MaxSends /\ sends' = sends + 1 /\ MaxSends \in Nat
      /\ UNCHANGED <<conn, late, missed, map, queue, scan, known, pids, absent, closing,
                     unseen, gone, tally>>
  BY <1>1, Bounds DEF Transfer, provider, aggregator, Types
<1>3. PICK ev \in Transfers :
        /\ Emit(ev)
        /\ ev.type = "bytes" => ev.tcb \in Tcb /\ conn[ev.tcb] # NoSock /\ ev.true = conn[ev.tcb]
  <2>1. CASE \E h \in Tcb : /\ conn[h] # NoSock
                            /\ Emit([type |-> "bytes", tcb |-> h, true |-> conn[h]])
    <3>1. PICK h \in Tcb : conn[h] # NoSock /\ Emit([type |-> "bytes", tcb |-> h, true |-> conn[h]])
      BY <2>1
    <3>2. conn[h] \in Sock
      BY <1>1, <3>1 DEF Types
    <3>3. [type |-> "bytes", tcb |-> h, true |-> conn[h]] \in Transfers
      BY <3>2 DEF Transfers
    <3> QED BY <3>1, <3>3
  <2>2. CASE \E p \in Pid : Emit([type |-> "datagram", pid |-> p])
    <3>1. PICK p \in Pid : Emit([type |-> "datagram", pid |-> p])
      BY <2>2
    <3>2. [type |-> "datagram", pid |-> p] \in Transfers
      BY DEF Transfers
    <3> QED BY <3>1, <3>2
  <2> QED BY <2>1, <2>2 DEF Transfer
<1>4. ev \in Event /\ ev.type # "create" /\ \A g : ~Names(ev, g)
  BY DEF Event, Transfers, Names
<1>5. map' = map
  BY <1>2
<1>6. /\ etw' \in Seq(Event) /\ Len(etw') = Len(etw) + 1 /\ Len(etw) \in Nat
      /\ etw'[Len(etw) + 1] = ev
      /\ \A i \in 1..Len(etw) : etw'[i] = etw[i]
      /\ \A i \in 1..Len(etw) : etw[i].type = "bytes" /\ etw[i].tcb \notin missed
           => Stands(etw', map', etw[i].tcb, i - 1, etw[i].true)
      /\ \A g, o : Stands(etw, map, g, Len(etw), o)
           => Stands(etw', map', g, Len(etw), o) /\ Stands(etw', map', g, Len(etw) + 1, o)
  BY <1>1, <1>3, <1>4, <1>5, EmitKeeps
<1>7. Types'
  <2>1. sends' \in 0..MaxSends
    BY <1>2
  <2> QED BY <1>1, <1>2, <1>6, <2>1 DEF Types
<1>8. InOrder'
  <2>1. ASSUME NEW i \in 1..Len(etw'), etw'[i].type = "bytes", etw'[i].tcb \notin missed'
        PROVE  Stands(etw', map', etw'[i].tcb, i - 1, etw'[i].true)
    <3>1. CASE i \in 1..Len(etw)
      BY <1>2, <1>6, <2>1, <3>1
    <3>2. CASE i = Len(etw) + 1
      <4>1. etw'[i] = ev
        BY <1>6, <3>2
      <4>2. ev.tcb \in Tcb \ missed /\ conn[ev.tcb] # NoSock /\ ev.true = conn[ev.tcb]
        BY <1>2, <1>3, <2>1, <4>1
      <4>3. Stands(etw, map, ev.tcb, Len(etw), ev.true)
        BY <1>1, <4>2 DEF InOrder
      <4>4. i - 1 = Len(etw)
        BY <1>6, <3>2
      <4> QED BY <1>6, <4>1, <4>3, <4>4
    <3> QED BY <1>6, <3>1, <3>2
  <2>2. ASSUME NEW g \in Tcb \ missed', conn'[g] # NoSock
        PROVE  Stands(etw', map', g, Len(etw'), conn'[g])
    <3>1. Stands(etw, map, g, Len(etw), conn[g])
      BY <1>1, <1>2, <2>2 DEF InOrder
    <3> QED BY <1>2, <1>6, <3>1
  <2>3. \A e \in late' : e.type = "create" => e.tcb \in missed'
    BY <1>1, <1>2 DEF InOrder
  <2> QED BY <2>1, <2>2, <2>3 DEF InOrder
<1>9. EveryTransferAccounted'
  <2>1. InFlight(etw') = InFlight(etw) + 1 /\ InFlight(etw) \in Nat
    BY <1>1, <1>3, <1>4, InFlightAppend DEF Types, Emit
  <2>2. Total(tally) \in Nat /\ Len(queue) \in Nat
    <3>1. tally \in [Fates -> Nat] /\ queue \in Seq(Charge)
      BY <1>1 DEF Types
    <3> QED BY <3>1, TotalNat
  <2>3. sends = InFlight(etw) + Len(queue) + Total(tally)
    BY <1>1 DEF EveryTransferAccounted
  <2>4. sends' = InFlight(etw') + Len(queue) + Total(tally)
    BY <1>2, <2>1, <2>2, <2>3
  <2> QED BY <1>2, <2>4 DEF EveryTransferAccounted
<1>10. Counted' /\ MisattributionNeedsLoss'
  BY <1>1, <1>2 DEF Counted, MisattributionNeedsLoss
<1> QED BY <1>7, <1>8, <1>9, <1>10 DEF IInv

(* An event handled, from the pipe or late: the connections forgotten.     *)
LEMMA HandledCounted ==
  ASSUME Counted, NEW ev, MapAfter(ev), Handle(ev)
  PROVE  Counted'
<1>1. /\ gone' = (IF ev.type = "create" THEN gone \ {ev.sock} ELSE gone)
      /\ UNCHANGED <<scan, absent, closing, unseen>>
  BY DEF Handle
<1>2. ASSUME NEW e \in Range(map'), e.sock \in gone'
      PROVE  e.sock \in closing'
  <2>1. CASE Names(ev, e.tcb)
    BY <1>1, <1>2, <2>1 DEF Names, MapAfter
  <2>2. CASE ~Names(ev, e.tcb)
    BY <1>1, <1>2, <2>2 DEF MapAfter, Counted
  <2> QED BY <2>1, <2>2
<1> QED BY <1>1, <1>2 DEF Counted

LEMMA HandledTypes ==
  ASSUME Types, NEW ev, MapAfter(ev), BufferAfter(ev), Handle(ev),
         etw' \in Seq(Event), late' \subseteq late
  PROVE  Types'
<1>1. /\ gone' = (IF ev.type = "create" THEN gone \ {ev.sock} ELSE gone)
      /\ UNCHANGED <<conn, opens, sends, missed, scan, known, pids, absent, closing, unseen>>
  BY DEF Handle
<1>2. gone' \subseteq Sock /\ late' \subseteq Identity \union Removals
  BY <1>1 DEF Types
<1> QED BY <1>1, <1>2 DEF Types, MapAfter, BufferAfter

LEMMA OnEventInv ==
  ASSUME IInv, OnEvent
  PROVE  IInv'
<1> DEFINE ev == Head(etw)
<1>1. Types /\ InOrder /\ Counted /\ MisattributionNeedsLoss /\ EveryTransferAccounted
  BY DEF IInv
<1>2. /\ etw \in Seq(Event) /\ etw # <<>> /\ etw' = Tail(etw) /\ late' = late /\ Handle(ev)
  BY <1>1 DEF OnEvent, Types
<1>3. /\ ev \in Event /\ ev = etw[1] /\ Len(etw) \in Nat /\ Len(etw) >= 1
      /\ etw' \in Seq(Event) /\ Len(etw') = Len(etw) - 1
      /\ \A i \in 1..Len(etw') : etw'[i] = etw[i + 1] /\ i + 1 \in 1..Len(etw)
                                 /\ i \in 1..Len(etw)
  BY <1>2
<1> HIDE DEF ev
<1>4. MapAfter(ev) /\ BufferAfter(ev)
  BY <1>1, <1>2, <1>3, HandleEffect
<1>5. missed' = missed /\ conn' = conn /\ sends' = sends
  BY <1>2 DEF Handle
<1>6. ASSUME NEW h, NEW k, NEW n \in 1..Len(etw), Stands(etw, map, h, n, k)
      PROVE  Stands(etw', map', h, n - 1, k)
  <2>1. \A e \in Range(map') : e.tcb = h =>
          IF Names(Head(etw), h) THEN e.sock = Head(etw).sock ELSE e \in Range(map)
    BY <1>4 DEF MapAfter, ev
  <2> QED BY <1>2, <1>6, <2>1, StandsTail
<1>7. InOrder'
  <2>1. ASSUME NEW i \in 1..Len(etw'), etw'[i].type = "bytes", etw'[i].tcb \notin missed'
        PROVE  Stands(etw', map', etw'[i].tcb, i - 1, etw'[i].true)
    <3>1. /\ etw'[i] = etw[i + 1] /\ i + 1 \in 1..Len(etw) /\ i \in 1..Len(etw)
          /\ (i + 1) - 1 = i
      BY <1>3
    <3>2. Stands(etw, map, etw[i + 1].tcb, i, etw[i + 1].true)
      <4>1. Stands(etw, map, etw[i + 1].tcb, (i + 1) - 1, etw[i + 1].true)
        BY <1>1, <1>5, <2>1, <3>1 DEF InOrder
      <4> QED BY <3>1, <4>1
    <3> QED BY <1>6, <3>1, <3>2
  <2>2. ASSUME NEW g \in Tcb \ missed', conn'[g] # NoSock
        PROVE  Stands(etw', map', g, Len(etw'), conn'[g])
    <3>1. Stands(etw, map, g, Len(etw), conn[g])
      BY <1>1, <1>5, <2>2 DEF InOrder
    <3>2. Len(etw) \in 1..Len(etw)
      BY <1>3
    <3> QED BY <1>3, <1>5, <1>6, <3>1, <3>2
  <2>3. \A e \in late' : e.type = "create" => e.tcb \in missed'
    BY <1>1, <1>2, <1>5 DEF InOrder
  <2> QED BY <2>1, <2>2, <2>3 DEF InOrder
<1>8. MisattributionNeedsLoss'
  <2> SUFFICES ASSUME NEW i \in DOMAIN queue', queue'[i].sock # queue'[i].true,
                      queue'[i].tcb \notin missed'
               PROVE  FALSE
    BY DEF MisattributionNeedsLoss
  <2>1. CASE Charges(ev, queue'[i])
    <3>1. /\ ev.type = "bytes" /\ queue'[i].tcb = ev.tcb /\ queue'[i].true = ev.true
          /\ \E e \in EntryOf(ev.tcb) : queue'[i].sock = e.sock
      BY <2>1 DEF Charges
    <3>2. Stands(etw, map, ev.tcb, 0, ev.true)
      <4>1. 1 \in 1..Len(etw) /\ etw[1].type = "bytes" /\ etw[1].tcb \notin missed
        BY <1>3, <1>5, <3>1
      <4>2. Stands(etw, map, etw[1].tcb, 1 - 1, etw[1].true)
        BY <1>1, <4>1 DEF InOrder
      <4>3. 1 - 1 = 0
        OBVIOUS
      <4> QED BY <1>3, <4>2, <4>3
    <3>3. \A j \in 1..0 : ~Names(etw[j], ev.tcb)
      OBVIOUS
    <3>4. \A e \in Range(map) : e.tcb = ev.tcb => e.sock = ev.true
      BY <3>2, <3>3 DEF Stands
    <3> QED BY <3>1, <3>4 DEF EntryOf
  <2>2. CASE \E j \in DOMAIN queue : queue'[i] = queue[j]
    BY <1>1, <1>5, <2>2 DEF MisattributionNeedsLoss
  <2> QED BY <1>4, <2>1, <2>2 DEF BufferAfter
<1>9. EveryTransferAccounted'
  <2>1. /\ InFlight(etw') \in Nat
        /\ InFlight(etw) = InFlight(etw') + (IF ev.type # "create" THEN 1 ELSE 0)
    BY <1>2, InFlightTail DEF ev
  <2>2. ev.type # "create" <=> ev.type \in {"bytes", "datagram"}
    BY <1>3 DEF Event, Identity, Transfers
  <2>3. /\ Total(tally) \in Nat /\ Len(queue) \in Nat
        /\ Total(tally') \in Nat /\ Len(queue') \in Nat
    <3>1. tally \in [Fates -> Nat] /\ queue \in Seq(Charge)
      BY <1>1 DEF Types
    <3>2. tally' \in [Fates -> Nat] /\ queue' \in Seq(Charge)
      BY <1>4 DEF BufferAfter
    <3> QED BY <3>1, <3>2, TotalNat
  <2>4. sends = InFlight(etw) + Len(queue) + Total(tally)
    BY <1>1 DEF EveryTransferAccounted
  <2>5. Len(queue') + Total(tally') =
          Len(queue) + Total(tally) + (IF ev.type \in {"bytes", "datagram"} THEN 1 ELSE 0)
    BY <1>4 DEF BufferAfter
  <2>6. sends = InFlight(etw') + Len(queue') + Total(tally')
    <3>1. PICK i \in Nat, q \in Nat, t \in Nat, r \in Nat, u \in Nat :
            /\ i = InFlight(etw') /\ q = Len(queue) /\ t = Total(tally)
            /\ r = Len(queue') /\ u = Total(tally')
      BY <2>1, <2>3
    <3>2. CASE ev.type \in {"bytes", "datagram"}
      <4>1. InFlight(etw) = i + 1 /\ r + u = q + t + 1
        BY <2>1, <2>2, <2>5, <3>1, <3>2
      <4>2. sends = i + 1 + q + t
        BY <2>4, <3>1, <4>1
      <4>3. sends = i + r + u
        BY <4>1, <4>2
      <4> QED BY <3>1, <4>3
    <3>3. CASE ev.type \notin {"bytes", "datagram"}
      <4>1. InFlight(etw) = i + 0 /\ r + u = q + t + 0
        BY <2>1, <2>2, <2>5, <3>1, <3>3
      <4>2. sends = i + q + t
        BY <2>4, <3>1, <4>1
      <4>3. sends = i + r + u
        BY <4>1, <4>2
      <4> QED BY <3>1, <4>3
    <3> QED BY <3>2, <3>3
  <2> QED BY <1>5, <2>6 DEF EveryTransferAccounted
<1>10. Types' /\ Counted'
  BY <1>1, <1>2, <1>3, <1>4, HandledTypes, HandledCounted
<1> QED BY <1>7, <1>8, <1>9, <1>10 DEF IInv

LEMMA OnLateEventInv ==
  ASSUME IInv, OnLateEvent
  PROVE  IInv'
<1>1. Types /\ InOrder /\ Counted /\ MisattributionNeedsLoss /\ EveryTransferAccounted
  BY DEF IInv
<1>2. PICK ev \in late : late' = late \ {ev} /\ etw' = etw /\ Handle(ev)
  BY DEF OnLateEvent
<1>3. ev \in Identity \union Removals /\ ev.type \notin {"bytes", "datagram"}
  BY <1>1 DEF Types, Identity, Removals
<1>4. MapAfter(ev) /\ BufferAfter(ev)
  BY <1>1, <1>2, <1>3, HandleEffect DEF Event
<1>5. missed' = missed /\ conn' = conn /\ sends' = sends
  BY <1>2 DEF Handle
<1>6. ASSUME NEW h, h \notin missed, NEW n, NEW k, Stands(etw, map, h, n, k)
      PROVE  Stands(etw', map', h, n, k)
  <2>1. ~Names(ev, h)
    BY <1>1, <1>6 DEF InOrder, Names
  <2>2. \A e \in Range(map') : e.tcb = h => e \in Range(map)
    BY <1>4, <2>1 DEF MapAfter
  <2> QED BY <1>2, <1>6, <2>2, StandsShrink
<1>7. InOrder'
  <2>1. ASSUME NEW i \in 1..Len(etw'), etw'[i].type = "bytes", etw'[i].tcb \notin missed'
        PROVE  Stands(etw', map', etw'[i].tcb, i - 1, etw'[i].true)
    BY <1>1, <1>2, <1>5, <1>6, <2>1 DEF InOrder
  <2>2. ASSUME NEW g \in Tcb \ missed', conn'[g] # NoSock
        PROVE  Stands(etw', map', g, Len(etw'), conn'[g])
    BY <1>1, <1>2, <1>5, <1>6, <2>2 DEF InOrder
  <2>3. \A e \in late' : e.type = "create" => e.tcb \in missed'
    BY <1>1, <1>2, <1>5 DEF InOrder
  <2> QED BY <2>1, <2>2, <2>3 DEF InOrder
<1>8. MisattributionNeedsLoss'
  BY <1>1, <1>3, <1>4, <1>5 DEF MisattributionNeedsLoss, BufferAfter, Charges
<1>9. EveryTransferAccounted'
  <2>1. /\ Total(tally) \in Nat /\ Len(queue) \in Nat /\ InFlight(etw) \in Nat
        /\ Total(tally') \in Nat /\ Len(queue') \in Nat
    <3>1. tally \in [Fates -> Nat] /\ queue \in Seq(Charge) /\ etw \in Seq(Event)
      BY <1>1 DEF Types
    <3>2. tally' \in [Fates -> Nat] /\ queue' \in Seq(Charge)
      BY <1>4 DEF BufferAfter
    <3> QED BY <3>1, <3>2, Amounts, TotalNat
  <2>2. sends = InFlight(etw) + Len(queue) + Total(tally)
    BY <1>1 DEF EveryTransferAccounted
  <2>3. Len(queue') + Total(tally') = Len(queue) + Total(tally) + 0
    BY <1>3, <1>4 DEF BufferAfter
  <2>4. sends = InFlight(etw) + Len(queue') + Total(tally')
    BY <2>1, <2>2, <2>3
  <2> QED BY <1>2, <1>5, <2>4 DEF EveryTransferAccounted
<1>10. Types' /\ Counted'
  BY <1>1, <1>2, <1>4, HandledTypes, HandledCounted DEF Types
<1> QED BY <1>7, <1>8, <1>9, <1>10 DEF IInv

LEMMA ScanInv ==
  ASSUME IInv, Scan
  PROVE  IInv'
<1>1. Types /\ InOrder /\ Counted /\ MisattributionNeedsLoss /\ EveryTransferAccounted
  BY DEF IInv
<1>2. /\ closing = {} /\ scan' \in SUBSET Sock
      /\ UNCHANGED <<conn, late, missed, sends, etw, map, queue, tally, known, pids, absent,
                     closing, unseen, gone>>
  BY DEF Scan, kernel, provider
<1>3. Types' /\ InOrder' /\ MisattributionNeedsLoss' /\ EveryTransferAccounted'
  BY <1>1, <1>2 DEF Types, InOrder, MisattributionNeedsLoss, EveryTransferAccounted
<1>4. Counted'
  BY <1>1, <1>2 DEF Counted
<1> QED BY <1>3, <1>4 DEF IInv

LEMMA SetTopologyInv ==
  ASSUME IInv, SetTopology
  PROVE  IInv'
<1> DEFINE count == [k \in Sock |-> Absence(k, scan)]
<1>1. Types /\ InOrder /\ Counted /\ MisattributionNeedsLoss /\ EveryTransferAccounted
  BY DEF IInv
<1>2. /\ scan # NoSock /\ scan \subseteq Sock /\ closing = {}
      /\ UNCHANGED <<conn, late, missed, sends, etw, map, queue, tally>>
  BY <1>1 DEF SetTopology, Types, Counted, kernel, provider
<1>3. /\ known' = scan /\ pids' \in SUBSET Pid /\ scan' = NoSock
      /\ closing' = {k \in Sock : count[k] >= 2}
      /\ absent' = [k \in Sock |-> IF count[k] >= 2 THEN -1 ELSE count[k]]
      /\ unseen' = [k \in Sock |-> IF k \in scan THEN 0
                                   ELSE IF unseen[k] = 2 THEN 2 ELSE unseen[k] + 1]
      /\ gone' = (gone \ scan) \union {k \in Sock : unseen'[k] = 2 /\ unseen[k] = 1}
  BY DEF SetTopology
<1>4. ASSUME NEW k \in Sock
      PROVE  /\ unseen'[k] \in 0..2 /\ absent'[k] \in -1..1
             /\ absent'[k] = IF unseen'[k] = 2 THEN -1 ELSE unseen'[k]
             /\ k \in closing' <=> unseen'[k] = 2 /\ unseen[k] = 1
  <2>1. /\ unseen[k] \in 0..2
        /\ absent[k] = IF unseen[k] = 2 THEN -1 ELSE unseen[k]
    BY <1>1 DEF Types, Counted
  <2>2. count[k] = IF k \in scan THEN 0 ELSE IF absent[k] = -1 THEN -1 ELSE absent[k] + 1
    BY DEF Absence
  <2> HIDE DEF count
  <2>3. /\ k \in closing' <=> count[k] >= 2
        /\ absent'[k] = IF count[k] >= 2 THEN -1 ELSE count[k]
        /\ unseen'[k] = IF k \in scan THEN 0 ELSE IF unseen[k] = 2 THEN 2 ELSE unseen[k] + 1
    BY <1>3
  <2>4. CASE k \in scan
    BY <2>2, <2>3, <2>4
  <2>5. CASE k \notin scan /\ unseen[k] = 0
    BY <2>1, <2>2, <2>3, <2>5
  <2>6. CASE k \notin scan /\ unseen[k] = 1
    BY <2>1, <2>2, <2>3, <2>6
  <2>7. CASE k \notin scan /\ unseen[k] = 2
    BY <2>1, <2>2, <2>3, <2>7
  <2> QED BY <2>1, <2>4, <2>5, <2>6, <2>7
<1>5. Types'
  <2>1. absent' \in [Sock -> -1..1] /\ unseen' \in [Sock -> 0..2]
    BY <1>3, <1>4
  <2>2. closing' \subseteq Sock /\ gone' \subseteq Sock /\ known' \subseteq Sock /\ pids' \subseteq Pid
    BY <1>1, <1>2, <1>3 DEF Types
  <2> QED BY <1>1, <1>2, <1>3, <2>1, <2>2 DEF Types
<1>6. Counted'
  <2>1. ASSUME NEW e \in Range(map'), e.sock \in gone' PROVE e.sock \in closing'
    <3>1. e.sock \notin gone
      BY <1>1, <1>2 DEF Counted
    <3>2. e.sock \in Sock /\ unseen'[e.sock] = 2 /\ unseen[e.sock] = 1
      BY <1>3, <2>1, <3>1
    <3> QED BY <1>4, <3>2
  <2>2. closing' \subseteq Sock
    BY <1>3
  <2> QED BY <1>3, <1>4, <2>1, <2>2 DEF Counted
<1>7. InOrder' /\ MisattributionNeedsLoss' /\ EveryTransferAccounted'
  BY <1>1, <1>2 DEF InOrder, MisattributionNeedsLoss, EveryTransferAccounted
<1> QED BY <1>5, <1>6, <1>7 DEF IInv

(* A map that only lost entries keeps what is said of every handle.        *)
LEMMA InOrderShrink ==
  ASSUME InOrder, UNCHANGED <<etw, late, conn, missed>>, Range(map') \subseteq Range(map)
  PROVE  InOrder'
<1>1. ASSUME NEW h, NEW n, NEW k, Stands(etw, map, h, n, k)
      PROVE  Stands(etw', map', h, n, k)
  BY <1>1, StandsShrink
<1> QED BY <1>1 DEF InOrder

LEMMA DropInv ==
  ASSUME IInv, DropTcbTuples
  PROVE  IInv'
<1>1. Types /\ InOrder /\ Counted /\ MisattributionNeedsLoss /\ EveryTransferAccounted
  BY DEF IInv
<1>2. /\ closing' = {} /\ map' = Without(map, EntriesFor(closing))
      /\ UNCHANGED <<conn, late, missed, sends, etw, queue, tally, scan, known, pids, absent,
                     unseen, gone>>
  BY DEF DropTcbTuples, kernel
<1>3. /\ map \in Seq(Entry) /\ OneEntryPerHandle(map) /\ Len(map) <= MapMax
      /\ MapMax \in Nat /\ Len(map) \in Nat
  BY <1>1, Bounds DEF Types
<1>4. /\ map' \in Seq(Entry) /\ Len(map') <= Len(map) /\ OneEntryPerHandle(map')
      /\ Range(map') = Range(map) \ EntriesFor(closing)
  BY <1>2, <1>3, WithoutKeeps
<1>5. Len(map') <= MapMax
  BY <1>3, <1>4
<1>6. Types'
  BY <1>1, <1>2, <1>4, <1>5 DEF Types
<1>7. InOrder'
  BY <1>1, <1>2, <1>4, InOrderShrink
<1>8. Counted'
  BY <1>1, <1>2, <1>4 DEF Counted, EntriesFor
<1>9. MisattributionNeedsLoss' /\ EveryTransferAccounted'
  BY <1>1, <1>2 DEF MisattributionNeedsLoss, EveryTransferAccounted
<1> QED BY <1>6, <1>7, <1>8, <1>9 DEF IInv

LEMMA TickInv ==
  ASSUME IInv, TelemetryTick
  PROVE  IInv'
<1>1. Types /\ InOrder /\ Counted /\ MisattributionNeedsLoss /\ EveryTransferAccounted
  BY DEF IInv
<1>2. /\ queue' = <<>>
      /\ tally' = [f \in Fates |->
           tally[f] + Cardinality({i \in DOMAIN queue : Fate(queue, i) = f})]
      /\ UNCHANGED <<conn, late, missed, sends, etw, scan, known, pids, absent, closing,
                     unseen, gone>>
  BY DEF TelemetryTick, kernel, aggregator
<1>3. PICK n \in 0..Len(map) : map' = Youngest(map, n)
  BY DEF TelemetryTick
<1>4. /\ map \in Seq(Entry) /\ OneEntryPerHandle(map) /\ Len(map) <= MapMax
      /\ MapMax \in Nat /\ Len(map) \in Nat
      /\ queue \in Seq(Charge) /\ tally \in [Fates -> Nat]
  BY <1>1, Bounds DEF Types
<1>5. /\ map' \in Seq(Entry) /\ Len(map') = n /\ OneEntryPerHandle(map')
      /\ Range(map') \subseteq Range(map)
  BY <1>3, <1>4, YoungestKeeps
<1>6. Len(map') <= MapMax
  BY <1>4, <1>5
<1>7. tally' \in [Fates -> Nat] /\ Total(tally') = Total(tally) + Len(queue)
  BY <1>2, <1>4, ChargedAll
<1>8. Types'
  <2>1. queue' \in Seq(Charge) /\ Len(queue') <= QueueMax
    BY <1>2, Bounds
  <2> QED BY <1>1, <1>2, <1>5, <1>6, <1>7, <2>1 DEF Types
<1>9. InOrder'
  BY <1>1, <1>2, <1>5, InOrderShrink
<1>10. Counted'
  BY <1>1, <1>2, <1>5 DEF Counted
<1>11. MisattributionNeedsLoss'
  BY <1>2 DEF MisattributionNeedsLoss
<1>12. EveryTransferAccounted'
  <2>1. Total(tally) \in Nat /\ Len(queue) \in Nat
    BY <1>4, TotalNat
  <2>2. InFlight(etw) \in Nat
    <3>1. etw \in Seq(Event)
      BY <1>1 DEF Types
    <3> QED BY <1>4, <3>1, Amounts
  <2>3. sends = InFlight(etw) + Len(queue) + Total(tally)
    BY <1>1 DEF EveryTransferAccounted
  <2>4. Len(queue') = 0
    BY <1>2
  <2>5. sends = InFlight(etw) + 0 + Total(tally')
    BY <1>7, <2>1, <2>2, <2>3
  <2> QED BY <1>2, <2>4, <2>5 DEF EveryTransferAccounted
<1> QED BY <1>8, <1>9, <1>10, <1>11, <1>12 DEF IInv

-----------------------------------------------------------------------------
LEMMA StutterInv ==
  ASSUME IInv, UNCHANGED vars
  PROVE  IInv'
<1>1. UNCHANGED <<conn, late, missed, sends, etw, map, queue, scan, known, pids, absent,
                  closing, unseen, gone, tally>>
  BY DEF vars, kernel, provider, aggregator
<1>2. Types' /\ InOrder'
  BY <1>1 DEF IInv, Types, InOrder
<1>3. Counted' /\ MisattributionNeedsLoss' /\ EveryTransferAccounted'
  BY <1>1 DEF IInv, Counted, MisattributionNeedsLoss, EveryTransferAccounted
<1> QED BY <1>2, <1>3 DEF IInv

LEMMA NextInv == IInv /\ [Next]_vars => IInv'
<1> SUFFICES ASSUME IInv, [Next]_vars PROVE IInv'
  OBVIOUS
<1>1. ASSUME NEW h \in Tcb, Close(h) PROVE IInv'
  BY <1>1, CloseInv
<1>2. ASSUME NEW h \in Tcb, NEW k \in Sock, Open(h, k) PROVE IInv'
  BY <1>2, OpenInv
<1>3. CASE Transfer
  BY <1>3, TransferInv
<1>4. CASE OnEvent
  BY <1>4, OnEventInv
<1>5. CASE OnLateEvent
  BY <1>5, OnLateEventInv
<1>6. CASE Scan
  BY <1>6, ScanInv
<1>7. CASE SetTopology
  BY <1>7, SetTopologyInv
<1>8. CASE DropTcbTuples
  BY <1>8, DropInv
<1>9. CASE TelemetryTick
  BY <1>9, TickInv
<1>10. CASE UNCHANGED vars
  BY <1>10, StutterInv
<1> QED BY <1>1, <1>2, <1>3, <1>4, <1>5, <1>6, <1>7, <1>8, <1>9, <1>10 DEF Next

LEMMA IInvTheorem == Spec => []IInv
BY InitInv, NextInv, PTL DEF Spec

(* Every variable keeps its type; in particular the map and the buffer     *)
(* stay within their bounds, with one entry for each handle.               *)
THEOREM TypeCorrect == Spec => []TypeOK
<1>1. IInv => TypeOK
  <2> SUFFICES ASSUME IInv PROVE TypeOK
    OBVIOUS
  <2>1. Types /\ EveryTransferAccounted
    BY DEF IInv
  <2>2. /\ sends \in 0..MaxSends /\ MaxSends \in Nat
        /\ tally \in [Fates -> Nat] /\ InFlight(etw) \in Nat /\ Len(queue) \in Nat
    BY <2>1, Amounts, Bounds DEF Types
  <2>3. /\ tally["unresolved"] \in Nat /\ tally["overflowed"] \in Nat
        /\ tally["edge"] \in Nat /\ tally["node"] \in Nat
        /\ tally["nowhere"] \in Nat /\ tally["wrong"] \in Nat
        /\ tally["uncounted"] \in Nat
    BY <2>2 DEF Fates
  <2>4. Total(tally) \in Nat /\ Total(tally) <= sends
    <3>1. Total(tally) \in Nat
      BY <2>2, TotalNat
    <3> QED BY <2>1, <2>2, <3>1 DEF EveryTransferAccounted
  <2>5. ASSUME NEW f \in Fates PROVE tally[f] <= Total(tally)
    BY <2>3 DEF Total, Fates
  <2>6. tally \in [Fates -> 0..MaxSends]
    <3>1. ASSUME NEW f \in Fates PROVE tally[f] \in 0..MaxSends
      <4>1. tally[f] \in Nat
        BY <2>2
      <4> QED BY <2>2, <2>4, <2>5, <4>1
    <3> QED BY <2>2, <3>1
  <2> QED BY <2>1, <2>6 DEF Types, TypeOK, OneEntryPerHandle
<1> QED BY <1>1, IInvTheorem, PTL

(* No transfer is lost between the threads or counted twice, whatever the  *)
(* order of events, sweeps, overflows and ticks.                           *)
THEOREM AccountedTheorem == Spec => []EveryTransferAccounted
<1>1. IInv => EveryTransferAccounted
  BY DEF IInv
<1> QED BY <1>1, IInvTheorem, PTL

(* Bytes are credited to another connection only on a handle for which an  *)
(* identity event was lost or late.                                        *)
THEOREM MisattributionTheorem == Spec => []MisattributionNeedsLoss
<1>1. IInv => MisattributionNeedsLoss
  BY DEF IInv
<1> QED BY <1>1, IInvTheorem, PTL

(* After drop_tcb_tuples no handle stands for a connection that was in a   *)
(* topology and that two topologies in a row have been without since,      *)
(* unless it was identified again after that.                              *)
THEOREM GoneTheorem == Spec => []GoneIsForgotten
<1>1. IInv => GoneIsForgotten
  BY DEF IInv, Counted, GoneIsForgotten
<1> QED BY <1>1, IInvTheorem, PTL

(* A connection psutil missed in a single scan keeps its entry in the map  *)
(* when the connections reported closed are dropped.                       *)
THEOREM SingleMissTheorem == Spec => SingleMissHarmless
<1> DEFINE Forgets == closing # {} /\ closing' = {} =>
             \A e \in Range(map) \ Range(map') : unseen[e.sock] = 2
<1>1. IInv /\ [Next]_vars => [Forgets]_vars
  <2> SUFFICES ASSUME IInv, Next, closing # {}, closing' = {},
                      NEW e \in Range(map) \ Range(map')
               PROVE  unseen[e.sock] = 2
    OBVIOUS
  <2>1. Types /\ Counted /\ scan = NoSock
    BY DEF IInv, Counted
  <2>2. DropTcbTuples
    <3>1. closing' # closing
      OBVIOUS
    <3>2. ~SetTopology
      BY <2>1 DEF SetTopology
    <3>3. ~Scan /\ ~TelemetryTick
      BY DEF Scan, TelemetryTick
    <3>4. ~Transfer /\ \A h \in Tcb : ~Close(h) /\ \A k \in Sock : ~Open(h, k)
      BY <3>1 DEF Transfer, Close, Open, aggregator
    <3>5. ~OnEvent /\ ~OnLateEvent
      BY <3>1 DEF OnEvent, OnLateEvent, Handle
    <3> QED BY <3>2, <3>3, <3>4, <3>5 DEF Next
  <2>3. Range(map') = Range(map) \ EntriesFor(closing)
    <3>1. map \in Seq(Entry) /\ map' = Without(map, EntriesFor(closing))
      BY <2>1, <2>2 DEF Types, DropTcbTuples
    <3> QED BY <3>1, WithoutKeeps
  <2>4. e.sock \in closing
    BY <2>3 DEF EntriesFor
  <2> QED BY <2>1, <2>4 DEF Counted
<1> QED BY <1>1, IInvTheorem, PTL DEF Spec, SingleMissHarmless
=============================================================================
