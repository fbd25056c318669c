--------------------------- MODULE InfraFeedProofs ---------------------------
(***************************************************************************)
(* That a failed collection leaves what the engine believes alone holds    *)
(* because the loop's last good state and the engine's dict are the same   *)
(* from the baseline on.  They could only part in a pass that keeps a      *)
(* state without giving it to the engine, one that began before the first  *)
(* collector tick: by the time there is a baseline no such pass is open.   *)
(* That a client agrees with the engine holds because at every moment what *)
(* the channel says last of an item is what is believed of it, and if it   *)
(* says nothing, so is what is shown.                                      *)
(***************************************************************************)
EXTENDS InfraFeed, ListingLemmas, TLAPS

(* The strengthening: what is believed is what was kept, and a pass that   *)
(* is open updates the engine, if there is a baseline.                     *)
Believed ==
  /\ base => up /\ seen = last
  /\ gate => up
  /\ pc = "await" /\ base => gate

(* The rest of a pass, after an await or at once, restores Believed: with  *)
(* snap and topo both sides become the adopted state, and without them     *)
(* there is no baseline to disagree with.                                  *)
LEMMA FinishKeepsBelieved ==
  ASSUME NEW o, NEW ready, Believed, Finish(o, ready), ready => up, base => ready
  PROVE  Believed'
<1>1. CASE ready
  BY <1>1 DEF Believed, Finish, host
<1>2. CASE ~ready
  BY <1>2 DEF Believed, Finish, host, engine
<1> QED BY <1>1, <1>2

(* The top of a pass opens it with the gate the process loop has set.      *)
LEMMA BeginKeepsBelieved ==
  ASSUME Believed, Due
  PROVE  Believed'
<1>1. PICK o : Begin(o)
  BY DEF Due, Collect, CollectVeiled, CollectRaises, CollectNothing
<1> QED BY <1>1 DEF Begin, Believed, host, engine

LEMMA BelievedInit == Init => Believed
BY DEF Init, Believed

LEMMA BelievedStep == Believed /\ [Next]_vars => Believed'
<1> SUFFICES ASSUME Believed, [Next]_vars PROVE Believed'
  OBVIOUS
<1>1. CASE Change
  BY <1>1 DEF Change, Believed, loop, engine
<1>2. CASE FirstTick
  BY <1>2 DEF FirstTick, Believed, loop, engine
<1>3. CASE Due
  BY <1>3, BeginKeepsBelieved
<1>4. CASE Update
  BY <1>4, FinishKeepsBelieved DEF Update, Believed
<1>5. CASE IdlePass
  BY <1>5, FinishKeepsBelieved DEF IdlePass, Believed
<1>6. CASE Connect
  BY <1>6 DEF Connect, Believed, host, loop, engine
<1>7. ASSUME NEW n \in 1..Len(channel), Deliver(n) PROVE Believed'
  BY <1>7 DEF Deliver, Believed, host, loop, engine
<1>8. CASE UNCHANGED vars
  BY <1>8 DEF Believed, vars, host, loop, engine
<1> QED BY <1>1, <1>2, <1>3, <1>4, <1>5, <1>6, <1>7, <1>8 DEF Next

(* In every reachable state the engine believes the last good state.       *)
THEOREM BelievedAlways == Spec => []Believed
<1> QED BY BelievedInit, BelievedStep, PTL DEF Spec

(* main.py:609-627, for any items and any number of changes and failures:  *)
(* a collection that raises, or one whose failure state the loop           *)
(* recognises, leaves the engine's dict as it is.                          *)
THEOREM LastGoodTheorem == Spec => LastGoodKept
<1>1. ASSUME Believed, [Next]_vars,
             Adopting, gate, base, got.kind # "ok",
             got.kind = "empty" => plat \in {"services", "wsl"}
      PROVE  seen' = seen
  <2>1. Update
    <3>1. pc = "await" /\ pc' = "sleep"
      BY <1>1 DEF Adopting
    <3>2. ~Change /\ ~FirstTick /\ ~Due /\ ~IdlePass /\ ~Connect
          /\ ~(\E n \in 1..Len(channel) : Deliver(n)) /\ ~UNCHANGED vars
      BY <3>1 DEF Change, FirstTick, Due, Collect, CollectVeiled, CollectRaises,
                  CollectNothing, Begin, IdlePass, Connect, Deliver, vars, loop
    <3> QED BY <1>1, <3>2 DEF Next
  <2>2. Adopted(got) = last
    BY <1>1 DEF Adopted
  <2>3. seen' = last
    BY <1>1, <2>1, <2>2 DEF Update, Finish
  <2> QED BY <1>1, <2>3 DEF Believed
<1>2. Believed /\ [Next]_vars =>
        [(Adopting /\ gate /\ base /\ got.kind # "ok"
           /\ (got.kind = "empty" => plat \in {"services", "wsl"})) => seen' = seen]_vars
  BY <1>1
<1> QED BY <1>2, BelievedAlways, PTL DEF Spec, LastGoodKept

-----------------------------------------------------------------------------
(* What can be believed of an item, and what an event can say of it.       *)
Reported(p) == RealStatus(p) \union (IF p \in {"services", "wsl"} THEN {"unknown"} ELSE {})
Told(p)     == RealStatus(p) \union (IF p = "wsl" THEN {"unknown"} ELSE {})
Held(p)     == [Item -> Reported(p)]
Outcome(p)  == {Skipped, [kind |-> "raised"]}
                 \union [kind : {"ok", "empty"}, val : [Item -> Reported(p)]]
Notice      == [item : Item, val : Told(plat)]

Types ==
  /\ plat \in Platform /\ real \in [Item -> RealStatus(plat)] /\ up \in BOOLEAN
  /\ pc \in {"sleep", "await"} /\ gate \in BOOLEAN
  /\ got \in Outcome(plat) /\ last \in Held(plat)
  /\ base \in BOOLEAN /\ seen \in [Item -> Reported(plat)]
  /\ client \in BOOLEAN
  /\ channel \in Seq(Notice)
  /\ shown \in [Item -> Reported(plat)]
  /\ known \in [Item -> Status \union {"never"}] /\ untold \subseteq Item

(* What a channel says of an item in the end: v, or nothing.               *)
Quiet(s, i) == \A k \in 1..Len(s) : s[k].item # i
LastSays(s, i, v) ==
  \A k \in 1..Len(s) :
    s[k].item = i /\ (\A j \in 1..Len(s) : j > k => s[j].item # i) => s[k].val = v

(* With all that is under way applied, a client shows what is believed.    *)
Agrees ==
  client => \A i \in Item \ untold :
              /\ LastSays(channel, i, seen[i])
              /\ Quiet(channel, i) => shown[i] = seen[i]

-----------------------------------------------------------------------------
(* The events of an update are those of the announced items, and each      *)
(* change is announced or no client hears of it.                           *)
LEMMA EventsTell ==
  ASSUME Types, NEW new \in [Item -> Reported(plat)]
  PROVE  /\ Events(new) \in Seq(Notice)
         /\ \A k \in 1..Len(Events(new)) :
              /\ Events(new)[k].item \in Item
              /\ Announced(seen[Events(new)[k].item], new[Events(new)[k].item])
              /\ Events(new)[k].val = new[Events(new)[k].item]
         /\ \A i \in Item : Announced(seen[i], new[i]) => ~Quiet(Events(new), i)
<1> DEFINE told  == {i \in Item : Announced(seen[i], new[i])}
           here  == {i \in told : new[i] # "none"}
           gone  == told \ here
           a     == Sorted(here)
           b     == Sorted(gone)
           items == a \o b
           ev    == [k \in DOMAIN items |-> [item |-> items[k], val |-> new[items[k]]]]
<1>1. Events(new) = ev
  BY DEF Events
<1>2. /\ told \subseteq Item /\ here \subseteq told /\ gone \subseteq told
      /\ \A i \in told : i \in here \/ i \in gone
      /\ \A i \in Item : i \in told <=> Announced(seen[i], new[i])
  OBVIOUS
<1> HIDE DEF told, here, gone
<1>3. /\ told \in SUBSET Nat /\ here \in SUBSET Nat /\ gone \in SUBSET Nat
      /\ IsFiniteSet(told) /\ IsFiniteSet(here) /\ IsFiniteSet(gone)
  BY <1>2, InfraAssumption, FS_Subset
<1>4. /\ a \in Seq(told) /\ \A i \in here : \E k \in 1..Len(a) : a[k] = i
      /\ b \in Seq(told) /\ \A i \in gone : \E k \in 1..Len(b) : b[k] = i
  <2>1. ASSUME NEW S \in SUBSET told, S \in SUBSET Nat, IsFiniteSet(S)
        PROVE  Sorted(S) \in Seq(told) /\ \A i \in S : \E k \in 1..Len(Sorted(S)) : Sorted(S)[k] = i
    <3>1. /\ Cardinality(S) \in Nat
          /\ \A k \in 1..Cardinality(S) : Sorted(S)[k] \in told
          /\ \A i \in S : \E k \in 1..Cardinality(S) : Sorted(S)[k] = i
      BY <2>1, SortedLists
    <3>2. Sorted(S) = [k \in 1..Cardinality(S) |-> Sorted(S)[k]]
      BY DEF Sorted
    <3>3. Sorted(S) \in [1..Cardinality(S) -> told]
      BY <3>1, <3>2
    <3>4. Sorted(S) \in Seq(told) /\ Len(Sorted(S)) = Cardinality(S)
      BY <3>1, <3>3, FunctionIsSeq
    <3> QED BY <3>1, <3>4
  <2> QED BY <1>2, <1>3, <2>1
<1> HIDE DEF a, b
<1>5. /\ items \in Seq(told) /\ Len(items) = Len(a) + Len(b) /\ Len(a) \in Nat /\ Len(b) \in Nat
      /\ DOMAIN items = 1..Len(items) /\ Len(items) \in Nat
      /\ \A k \in 1..Len(a) : items[k] = a[k]
      /\ \A k \in 1..Len(b) : items[Len(a) + k] = b[k]
  BY <1>4
<1>6. \A i \in told : \E k \in 1..Len(items) : items[k] = i
  <2>1. ASSUME NEW i \in here PROVE \E k \in 1..Len(items) : items[k] = i
    <3>1. PICK k \in 1..Len(a) : a[k] = i
      BY <1>4
    <3>2. k \in 1..Len(items) /\ items[k] = i
      BY <1>5, <3>1
    <3> QED BY <3>2
  <2>2. ASSUME NEW i \in gone PROVE \E k \in 1..Len(items) : items[k] = i
    <3>1. PICK k \in 1..Len(b) : b[k] = i
      BY <1>4
    <3>2. Len(a) + k \in 1..Len(items) /\ items[Len(a) + k] = i
      BY <1>5, <3>1
    <3> QED BY <3>2
  <2> QED BY <1>2, <2>1, <2>2
<1>7. \A k \in 1..Len(items) : items[k] \in told
  BY <1>5
<1> HIDE DEF items
<1>8. /\ DOMAIN ev = 1..Len(items)
      /\ \A k \in 1..Len(items) : ev[k].item = items[k] /\ ev[k].val = new[items[k]]
  BY <1>5
<1>9. \A k \in 1..Len(items) : ev[k] \in Notice
  <2>1. ASSUME NEW i \in told PROVE i \in Item /\ new[i] \in Told(plat)
    <3>1. i \in Item /\ Announced(seen[i], new[i]) /\ new[i] \in Reported(plat) /\ plat \in Platform
      BY <1>2 DEF Types
    <3>2. CASE plat = "services"
      BY <3>1, <3>2 DEF Announced, ServiceAnnounced, Reported, Told, RealStatus, Status
    <3>3. CASE plat # "services"
      BY <3>1, <3>3 DEF Reported, Told
    <3> QED BY <3>1, <3>2, <3>3
  <2> QED BY <1>5, <1>7, <2>1 DEF Notice
<1>10. ev \in [1..Len(items) -> Notice]
  BY <1>5, <1>9
<1>11. ev \in Seq(Notice) /\ Len(ev) = Len(items)
  BY <1>5, <1>10, FunctionIsSeq
<1> HIDE DEF ev
<1> QED BY <1>1, <1>2, <1>6, <1>7, <1>8, <1>11 DEF Quiet

LEMMA AnnouncedOrUnheard ==
  ASSUME plat \in Platform, NEW old \in Reported(plat), NEW new \in Reported(plat)
  PROVE  /\ Announced(old, new) => old # new
         /\ old # new => Announced(old, new) \/ Unheard(old, new)
<1>1. CASE plat = "services"
  BY <1>1 DEF Announced, ServiceAnnounced, Unheard, Reported, RealStatus, Status
<1>2. CASE plat = "wsl"
  BY <1>2 DEF Announced, WslAnnounced, Unheard
<1>3. CASE plat = "docker"
  BY <1>3 DEF Announced, ContainerAnnounced, Unheard, Reported, RealStatus, Status
<1>4. CASE plat = "vm"
  BY <1>4 DEF Announced, VmAnnounced
<1> QED BY <1>1, <1>2, <1>3, <1>4 DEF Platform

-----------------------------------------------------------------------------
(* What a channel says, as it gets longer and as a frame is taken from it. *)
LEMMA SaysMore ==
  ASSUME NEW S, NEW s \in Seq(S), NEW t \in Seq(S), NEW i
  PROVE  /\ Quiet(s \o t, i) => Quiet(s, i) /\ Quiet(t, i)
         /\ \A v : Quiet(t, i) /\ LastSays(s, i, v) => LastSays(s \o t, i, v)
         /\ \A v : ~Quiet(t, i) /\ LastSays(t, i, v) => LastSays(s \o t, i, v)
<1> DEFINE c == s \o t
           m == Len(s)
           n == Len(t)
<1>1. /\ m \in Nat /\ n \in Nat /\ Len(c) = m + n
      /\ \A k \in 1..m : c[k] = s[k] /\ k \in 1..(m + n)
      /\ \A k \in 1..n : c[m + k] = t[k] /\ m + k \in 1..(m + n)
      /\ \A k \in 1..(m + n) : k \in 1..m \/ (k - m \in 1..n /\ m + (k - m) = k)
  OBVIOUS
<1> HIDE DEF c, m, n
<1>2. Quiet(c, i) => Quiet(s, i) /\ Quiet(t, i)
  BY <1>1 DEF Quiet, m, n
<1>3. ASSUME NEW v, Quiet(t, i), LastSays(s, i, v) PROVE LastSays(c, i, v)
  <2> SUFFICES ASSUME NEW k \in 1..(m + n), c[k].item = i,
                      \A j \in 1..(m + n) : j > k => c[j].item # i
               PROVE  c[k].val = v
    BY <1>1 DEF LastSays
  <2>1. k \in 1..m
    BY <1>1, <1>3 DEF Quiet, n
  <2>2. \A j \in 1..m : j > k => s[j].item # i
    BY <1>1
  <2> QED BY <1>1, <1>3, <2>1, <2>2 DEF LastSays, m
<1>4. ASSUME NEW v, ~Quiet(t, i), LastSays(t, i, v) PROVE LastSays(c, i, v)
  <2> SUFFICES ASSUME NEW k \in 1..(m + n), c[k].item = i,
                      \A j \in 1..(m + n) : j > k => c[j].item # i
               PROVE  c[k].val = v
    BY <1>1 DEF LastSays
  <2>1. PICK l \in 1..n : t[l].item = i
    BY <1>4 DEF Quiet, n
  <2>2. k >= m + l
    BY <1>1, <2>1
  <2>3. k - m \in 1..n /\ m + (k - m) = k
    BY <1>1, <2>1, <2>2
  <2>4. c[k] = t[k - m]
    BY <1>1, <2>3
  <2>5. \A j \in 1..n : j > k - m => t[j].item # i
    BY <1>1, <2>3
  <2> QED BY <1>4, <2>3, <2>4, <2>5 DEF LastSays, n
<1> QED BY <1>1, <1>2, <1>3, <1>4 DEF c

(* The parts of a delivery: m events applied, n - m dropped, the rest.     *)
LEMMA Parts ==
  ASSUME NEW S, NEW c \in Seq(S), NEW n \in 1..Len(c), NEW m \in 0..n,
         NEW frame, frame = SubSeq(c, 1, n)
  PROVE  /\ frame \in Seq(S) /\ Len(frame) = n
         /\ SubSeq(frame, 1, m) \in Seq(S) /\ Len(SubSeq(frame, 1, m)) = m
         /\ \A k \in 1..m : SubSeq(frame, 1, m)[k] = c[k]
         /\ SubSeq(frame, m + 1, n) \in Seq(S) /\ Len(SubSeq(frame, m + 1, n)) = n - m
         /\ \A k \in 1..(n - m) : SubSeq(frame, m + 1, n)[k] = c[m + k]
         /\ SubSeq(c, n + 1, Len(c)) \in Seq(S) /\ Len(SubSeq(c, n + 1, Len(c))) = Len(c) - n
         /\ \A k \in 1..(Len(c) - n) : SubSeq(c, n + 1, Len(c))[k] = c[n + k]
<1>1. /\ Len(c) \in Nat /\ n \in Nat /\ m \in Nat /\ m <= n /\ n <= Len(c)
  OBVIOUS
<1>2. frame \in Seq(S) /\ Len(frame) = n /\ \A k \in 1..n : frame[k] = c[k]
  BY <1>1
<1>3. /\ SubSeq(frame, 1, m) \in Seq(S) /\ Len(SubSeq(frame, 1, m)) = m
      /\ \A k \in 1..m : SubSeq(frame, 1, m)[k] = c[k]
  BY <1>1, <1>2
<1>4. /\ SubSeq(frame, m + 1, n) \in Seq(S) /\ Len(SubSeq(frame, m + 1, n)) = n - m
      /\ \A k \in 1..(n - m) : SubSeq(frame, m + 1, n)[k] = frame[m + k] /\ m + k \in 1..n
  BY <1>1, <1>2
<1>5. /\ SubSeq(c, n + 1, Len(c)) \in Seq(S) /\ Len(SubSeq(c, n + 1, Len(c))) = Len(c) - n
      /\ \A k \in 1..(Len(c) - n) : SubSeq(c, n + 1, Len(c))[k] = c[n + k]
  BY <1>1
<1> QED BY <1>2, <1>3, <1>4, <1>5

(* LastOf finds the last event of an item that has one.                    *)
LEMMA LastOfFinds ==
  ASSUME NEW S, NEW frame \in Seq(S), NEW i \in ItemsOf(frame)
  PROVE  \E k \in 1..Len(frame) :
           /\ frame[k].item = i /\ LastOf(frame, i) = frame[k].val
           /\ \A j \in 1..Len(frame) : j > k => frame[j].item # i
<1> DEFINE at == {k \in DOMAIN frame : frame[k].item = i}
<1>1. Len(frame) \in Nat /\ DOMAIN frame = 1..Len(frame)
  OBVIOUS
<1>2. at \in SUBSET (1..Len(frame)) /\ at # {}
  BY <1>1 DEF ItemsOf, Range
<1>3. \E k \in at : \A j \in at : j <= k
  BY <1>1, <1>2, GreatestExists
<1>4. PICK k : k = CHOOSE l \in at : \A j \in at : j <= l
  OBVIOUS
<1>5. k \in at /\ \A j \in at : j <= k
  BY <1>3, <1>4
<1>6. LastOf(frame, i) = frame[k].val
  BY <1>4 DEF LastOf
<1>7. \A j \in 1..Len(frame) : j > k => frame[j].item # i
  BY <1>1, <1>5
<1> QED BY <1>2, <1>5, <1>6, <1>7

-----------------------------------------------------------------------------
LEMMA TypesInit == Init => Types /\ Agrees
<1> SUFFICES ASSUME Init PROVE Types /\ Agrees
  OBVIOUS
<1>1. plat \in Platform /\ "none" \in RealStatus(plat) /\ RealStatus(plat) \subseteq Reported(plat)
  BY DEF Init, RealStatus, Status, Reported
<1>2. Nothing \in [Item -> Reported(plat)] /\ known \in [Item -> Status \union {"never"}]
  BY <1>1 DEF Nothing, Init
<1>3. got \in Outcome(plat) /\ last \in Held(plat) /\ channel \in Seq(Notice)
  BY <1>2 DEF Init, Outcome, Held
<1>4. Types
  BY <1>2, <1>3 DEF Init, Types
<1> QED BY <1>4 DEF Init, Agrees

(* What a collection can bring.                                            *)
LEMMA DueTypes ==
  ASSUME Types, Due
  PROVE  Types'
<1>1. PICK o \in Outcome(plat) : Begin(o)
  <2>1. real \in [Item -> Reported(plat)] /\ Nothing \in [Item -> Reported(plat)]
    BY DEF Types, Nothing, Reported, RealStatus, Status
  <2>2. CASE Collect
    BY <2>1, <2>2 DEF Collect, Outcome
  <2>3. CASE CollectVeiled
    <3>1. PICK S : Begin([kind |-> "ok",
                          val |-> [i \in Item |-> IF i \in S /\ real[i] # "none" THEN "unknown"
                                                                                 ELSE real[i]]])
      BY <2>3 DEF CollectVeiled
    <3>2. "unknown" \in Reported(plat)
      BY <2>3 DEF CollectVeiled, Reported
    <3>3. [i \in Item |-> IF i \in S /\ real[i] # "none" THEN "unknown" ELSE real[i]]
            \in [Item -> Reported(plat)]
      BY <2>1, <3>2
    <3> QED BY <3>1, <3>3 DEF Outcome
  <2>4. CASE CollectRaises
    BY <2>4 DEF CollectRaises, Outcome
  <2>5. CASE CollectNothing
    BY <2>1, <2>5 DEF CollectNothing, Outcome
  <2> QED BY <2>2, <2>3, <2>4, <2>5 DEF Due
<1> QED BY <1>1 DEF Begin, Types, host, engine, view, Notice

LEMMA AdoptedType ==
  ASSUME Types, NEW o \in Outcome(plat)
  PROVE  Adopted(o) \in Held(plat)
BY DEF Types, Adopted, Outcome, Held, Skipped

LEMMA FinishTypes ==
  ASSUME Types, NEW o \in Outcome(plat), NEW ready \in BOOLEAN, Finish(o, ready)
  PROVE  Types'
<1> DEFINE new == Adopted(o)
<1>1. Adopted(o) \in Held(plat)
  BY AdoptedType
<1>2. new \in [Item -> Reported(plat)]
  BY <1>1 DEF Held
<1>3. /\ pc' = "sleep" /\ gate' = FALSE /\ got' = Skipped /\ last' = Adopted(o)
      /\ UNCHANGED <<host, client, shown>>
      /\ known' = IF ready /\ o.kind = "ok"
                  THEN [i \in Item |-> IF new[i] = "unknown" THEN known[i] ELSE new[i]]
                  ELSE known
      /\ ready => /\ base' = TRUE /\ seen' = new
                  /\ channel' = IF base /\ client THEN channel \o Events(new) ELSE channel
                  /\ untold' \subseteq Item
      /\ ~ready => UNCHANGED <<engine, channel, untold>>
  BY DEF Finish
<1> HIDE DEF new
<1>4. known' \in [Item -> Status \union {"never"}]
  <2>1. \A i \in Item : new[i] # "unknown" => new[i] \in Status
    BY <1>2 DEF Reported, RealStatus
  <2> QED BY <1>3, <2>1 DEF Types
<1>5. plat' = plat /\ channel' \in Seq(Notice)
  <2>1. Events(new) \in Seq(Notice)
    BY <1>2, EventsTell
  <2>2. channel \in Seq(Notice)
    BY DEF Types
  <2>3. channel \o Events(new) \in Seq(Notice)
    BY <2>1, <2>2
  <2>4. channel' = channel \o Events(new) \/ channel' = channel
    <3>1. CASE ready
      BY <1>3, <3>1
    <3>2. CASE ~ready
      BY <1>3, <3>2
    <3> QED BY <3>1, <3>2
  <2> QED BY <1>3, <2>2, <2>3, <2>4 DEF host
<1>6. channel' \in Seq(Notice)'
  BY <1>5 DEF Notice
<1>7. base' \in BOOLEAN /\ seen' \in [Item -> Reported(plat)]
      /\ untold' \subseteq Item
  BY <1>2, <1>3 DEF Types, engine
<1> QED BY <1>1, <1>3, <1>4, <1>5, <1>6, <1>7 DEF Types, host, Outcome

LEMMA FinishAgrees ==
  ASSUME Types, Agrees, NEW o \in Outcome(plat), NEW ready \in BOOLEAN, Finish(o, ready)
  PROVE  Agrees'
<1> DEFINE new == Adopted(o)
           ev  == Events(new)
<1>1. new \in [Item -> Reported(plat)]
  BY AdoptedType DEF Held
<1>2. /\ client' = client /\ shown' = shown
      /\ ready => /\ seen' = new
                  /\ channel' = IF base /\ client THEN channel \o ev ELSE channel
                  /\ untold' = {i \in Item : IF base /\ seen[i] # new[i]
                                             THEN Unheard(seen[i], new[i])
                                             ELSE ~base \/ i \in untold}
      /\ ~ready => UNCHANGED <<seen, channel, untold>>
  BY DEF Finish, engine
<1> HIDE DEF new
<1>3. CASE ~ready
  BY <1>2, <1>3 DEF Agrees
<1>4. CASE ready
  <2> SUFFICES ASSUME client, NEW i \in Item \ untold'
               PROVE  /\ LastSays(channel', i, seen'[i])
                      /\ Quiet(channel', i) => shown'[i] = seen'[i]
    BY <1>2 DEF Agrees
  <2>1. base /\ (seen[i] # new[i] => ~Unheard(seen[i], new[i])) /\ (seen[i] = new[i] => i \notin untold)
    BY <1>2, <1>4
  <2>2. /\ channel' = channel \o ev /\ seen' = new /\ channel \in Seq(Notice)
        /\ seen[i] \in Reported(plat) /\ new[i] \in Reported(plat) /\ plat \in Platform
    BY <1>1, <1>2, <1>4, <2>1 DEF Types
  <2>3. /\ ev \in Seq(Notice)
        /\ \A k \in 1..Len(ev) : /\ ev[k].item \in Item
                                 /\ Announced(seen[ev[k].item], new[ev[k].item])
                                 /\ ev[k].val = new[ev[k].item]
        /\ Announced(seen[i], new[i]) => ~Quiet(ev, i)
    BY <1>1, EventsTell
  <2> HIDE DEF ev
  <2>4. LastSays(ev, i, new[i])
    BY <2>3 DEF LastSays
  <2>5. CASE seen[i] # new[i]
    <3>1. ~Quiet(ev, i)
      BY <2>1, <2>2, <2>3, <2>5, AnnouncedOrUnheard
    <3> QED BY <2>2, <2>3, <2>4, <3>1, SaysMore
  <2>6. CASE seen[i] = new[i]
    <3>1. ~Announced(seen[i], new[i])
      BY <2>2, <2>6, AnnouncedOrUnheard
    <3>2. Quiet(ev, i)
      BY <2>3, <3>1 DEF Quiet
    <3>3. /\ LastSays(channel, i, seen[i])
          /\ Quiet(channel, i) => shown[i] = seen[i]
      BY <2>1, <2>6 DEF Agrees
    <3> QED BY <1>2, <2>2, <2>3, <2>6, <3>2, <3>3, SaysMore
  <2> QED BY <2>5, <2>6
<1> QED BY <1>3, <1>4

LEMMA DeliverKeeps ==
  ASSUME Types, Agrees, NEW n \in 1..Len(channel), Deliver(n)
  PROVE  Types' /\ Agrees'
<1> DEFINE frame   == SubSeq(channel, 1, n)
           rest    == SubSeq(channel, n + 1, Len(channel))
           N       == Len(channel)
<1>0. PICK m \in 0..n :
        LET applied == SubSeq(frame, 1, m)
            dropped == SubSeq(frame, m + 1, n)
        IN  /\ shown' = [i \in Item |-> IF i \in ItemsOf(applied) THEN LastOf(applied, i)
                                                                  ELSE shown[i]]
            /\ untold' = untold \union (ItemsOf(dropped) \ ItemsOf(rest))
            /\ channel' = rest
  BY DEF Deliver
<1> DEFINE applied == SubSeq(frame, 1, m)
           dropped == SubSeq(frame, m + 1, n)
<1>1. /\ client /\ client' = client /\ seen' = seen /\ channel' = rest
      /\ shown' = [i \in Item |-> IF i \in ItemsOf(applied) THEN LastOf(applied, i) ELSE shown[i]]
      /\ untold' = untold \union (ItemsOf(dropped) \ ItemsOf(rest))
      /\ UNCHANGED <<plat, real, up, pc, gate, got, last, base, known>>
  BY <1>0 DEF Deliver, host, loop, engine
<1>2. channel \in Seq(Notice) /\ N \in Nat /\ n \in 1..N
  BY DEF Types
<1>3. /\ applied \in Seq(Notice) /\ Len(applied) = m
      /\ \A k \in 1..m : applied[k] = channel[k]
      /\ dropped \in Seq(Notice) /\ Len(dropped) = n - m
      /\ \A k \in 1..(n - m) : dropped[k] = channel[m + k]
      /\ rest \in Seq(Notice) /\ Len(rest) = N - n
      /\ \A k \in 1..(N - n) : rest[k] = channel[n + k]
  BY <1>2, Parts
<1>4. DOMAIN dropped = 1..Len(dropped)
  BY <1>3
<1> HIDE DEF frame, applied, dropped, rest, N
<1>6. \A k \in 1..N : \/ k \in 1..m \/ (k - m \in 1..(n - m) /\ m + (k - m) = k)
                      \/ (k - n \in 1..(N - n) /\ n + (k - n) = k)
  BY <1>2
<1>7. ASSUME NEW i, NEW t \in Seq(Notice)
      PROVE  i \in ItemsOf(t) <=> ~Quiet(t, i)
  <2>1. Range(t) = {t[k] : k \in 1..Len(t)}
    BY <1>7 DEF Range
  <2> QED BY <2>1 DEF ItemsOf, Quiet
<1>8. Types'
  <2>1. ASSUME NEW i \in ItemsOf(applied) PROVE LastOf(applied, i) \in Reported(plat)
    <3>1. PICK k \in 1..Len(applied) : LastOf(applied, i) = applied[k].val
      BY <1>3, <2>1, LastOfFinds
    <3>2. applied[k] \in Notice
      BY <1>3, <3>1
    <3> QED BY <3>1, <3>2 DEF Notice, Told, Reported
  <2>2. shown' \in [Item -> Reported(plat)]
    BY <1>1, <2>1 DEF Types
  <2>3. untold' \subseteq Item
    <3>1. ASSUME NEW k \in 1..Len(dropped) PROVE dropped[k].item \in Item
      <4>1. dropped[k] \in Notice
        BY <1>3
      <4> QED BY <4>1 DEF Notice
    <3>2. Range(dropped) = {dropped[k] : k \in 1..Len(dropped)}
      BY <1>4 DEF Range
    <3> QED BY <1>1, <3>1, <3>2 DEF Types, ItemsOf
  <2>4. channel' \in Seq(Notice)'
    BY <1>1, <1>3 DEF Notice
  <2> QED BY <1>1, <2>2, <2>3, <2>4 DEF Types
<1>9. Agrees'
  <2> SUFFICES ASSUME NEW i \in Item \ untold'
               PROVE  /\ LastSays(rest, i, seen[i])
                      /\ Quiet(rest, i) => shown'[i] = seen[i]
    BY <1>1 DEF Agrees
  <2>1. /\ LastSays(channel, i, seen[i])
        /\ Quiet(channel, i) => shown[i] = seen[i]
    BY <1>1 DEF Agrees
  <2>2. LastSays(rest, i, seen[i])
    <3> SUFFICES ASSUME NEW k \in 1..(N - n), rest[k].item = i,
                        \A j \in 1..(N - n) : j > k => rest[j].item # i
                 PROVE  rest[k].val = seen[i]
      BY <1>3 DEF LastSays
    <3>1. n + k \in 1..N /\ channel[n + k] = rest[k]
      BY <1>2, <1>3
    <3>2. ASSUME NEW j \in 1..N, j > n + k PROVE channel[j].item # i
      <4>1. j - n \in 1..(N - n) /\ j - n > k /\ n + (j - n) = j
        BY <1>2, <3>2
      <4> QED BY <1>3, <4>1
    <3> QED BY <2>1, <3>1, <3>2 DEF LastSays, N
  <2>3. ASSUME Quiet(rest, i) PROVE shown'[i] = seen[i]
    <3>1. Quiet(dropped, i)
      BY <1>1, <1>3, <1>7, <2>3
    <3>2. ASSUME NEW k \in 1..N, channel[k].item = i PROVE k \in 1..m
      <4>1. CASE k - m \in 1..(n - m) /\ m + (k - m) = k
        <5>1. dropped[k - m] = channel[k]
          BY <1>3, <4>1
        <5> QED BY <1>3, <3>1, <3>2, <4>1, <5>1 DEF Quiet
      <4>2. CASE k - n \in 1..(N - n) /\ n + (k - n) = k
        <5>1. rest[k - n] = channel[k]
          BY <1>3, <4>2
        <5> QED BY <1>3, <2>3, <3>2, <4>2, <5>1 DEF Quiet
      <4> QED BY <1>6, <4>1, <4>2
    <3>3. CASE i \in ItemsOf(applied)
      <4>1. PICK k \in 1..m : /\ applied[k].item = i /\ LastOf(applied, i) = applied[k].val
                              /\ \A j \in 1..m : j > k => applied[j].item # i
        <5>1. applied \in Seq(Notice) /\ Len(applied) = m
          BY <1>3
        <5> QED BY <5>1, <3>3, LastOfFinds
      <4>2. k \in 1..N /\ channel[k] = applied[k]
        BY <1>2, <1>3, <4>1
      <4>3. \A j \in 1..N : j > k => channel[j].item # i
        BY <1>3, <3>2, <4>1
      <4>4. channel[k].val = seen[i]
        BY <2>1, <4>1, <4>2, <4>3 DEF LastSays, N
      <4> QED BY <1>1, <3>3, <4>1, <4>2, <4>4
    <3>4. CASE i \notin ItemsOf(applied)
      <4>1. Quiet(applied, i)
        BY <1>3, <1>7, <3>4
      <4>2. Quiet(channel, i)
        BY <1>3, <3>2, <4>1 DEF Quiet, N
      <4> QED BY <1>1, <2>1, <3>4, <4>2
    <3> QED BY <3>3, <3>4
  <2> QED BY <2>2, <2>3
<1> QED BY <1>8, <1>9

LEMMA ViewStep == Types /\ Agrees /\ [Next]_vars => (Types /\ Agrees)'
<1> SUFFICES ASSUME Types, Agrees, [Next]_vars PROVE (Types /\ Agrees)'
  OBVIOUS
<1>1. CASE Change
  <2>1. PICK i \in Item : \E v \in RealStatus(plat) \ {real[i]} : real' = [real EXCEPT ![i] = v]
    BY <1>1 DEF Change
  <2> QED BY <1>1, <2>1 DEF Change, Types, Agrees, loop, engine, view, Notice
<1>2. CASE FirstTick
  BY <1>2 DEF FirstTick, Types, Agrees, loop, engine, view, Notice
<1>3. CASE Due
  <2>1. PICK o : Begin(o)
    BY <1>3 DEF Due, Collect, CollectVeiled, CollectRaises, CollectNothing
  <2>2. Agrees'
    BY <2>1 DEF Begin, Agrees, engine, view
  <2> QED BY <1>3, <2>2, DueTypes
<1>4. CASE Update
  BY <1>4, FinishTypes, FinishAgrees DEF Update, Types
<1>5. CASE IdlePass
  <2>1. Skipped \in Outcome(plat)
    BY DEF Outcome
  <2> QED BY <1>5, <2>1, FinishTypes, FinishAgrees DEF IdlePass, Types
<1>6. CASE Connect
  <2>1. Types'
    BY <1>6 DEF Connect, Types, host, loop, engine, Notice
  <2>2. Agrees'
    BY <1>6 DEF Connect, Agrees, LastSays, engine
  <2> QED BY <2>1, <2>2
<1>7. ASSUME NEW n \in 1..Len(channel), Deliver(n) PROVE (Types /\ Agrees)'
  BY <1>7, DeliverKeeps
<1>8. CASE UNCHANGED vars
  BY <1>8 DEF Types, Agrees, vars, host, loop, engine, view, Notice
<1> QED BY <1>1, <1>2, <1>3, <1>4, <1>5, <1>6, <1>7, <1>8 DEF Next

LEMMA ViewAlways == Spec => [](Types /\ Agrees)
BY TypesInit, ViewStep, PTL DEF Spec

(* For any items and any number of changes and failures the loop, the      *)
(* engine and the client stay well formed; in particular no event tells a  *)
(* status its platform does not announce.                                  *)
THEOREM TypeCorrect == Spec => []TypeOK
<1>1. Types => TypeOK
  <2> SUFFICES ASSUME Types PROVE TypeOK
    OBVIOUS
  <2>1. Reported(plat) \subseteq Status \union {"unknown"}
    BY DEF Reported, RealStatus
  <2>2. got.kind \in {"skipped", "ok", "empty", "raised"}
    BY DEF Types, Outcome, Skipped
  <2>3. \A e \in Range(channel) : e.item \in Item /\ e.val \in Told(plat)
    <3>1. ASSUME NEW e \in Range(channel) PROVE e \in Notice
      <4>1. channel \in Seq(Notice) /\ Range(channel) = {channel[k] : k \in 1..Len(channel)}
        BY DEF Types, Range
      <4>2. PICK k \in 1..Len(channel) : channel[k] = e
        BY <4>1
      <4> QED BY <4>1, <4>2
    <3> QED BY <3>1 DEF Notice
  <2>4. /\ last \in [Item -> Status \union {"unknown"}]
        /\ seen \in [Item -> Status \union {"unknown"}]
        /\ shown \in [Item -> Status \union {"unknown"}]
    BY <2>1 DEF Types, Held
  <2> QED BY <2>2, <2>3, <2>4 DEF Types, TypeOK, Told
<1> QED BY <1>1, ViewAlways, PTL

(* For any items, frames of any length and a client that connects at any   *)
(* moment: with nothing under way it shows what the engine believes, but   *)
(* for the items whose last change it was by design not told of, or whose  *)
(* last event stood in its frame behind a row that threw.                  *)
THEOREM AgreesTheorem == Spec => []ClientAgrees
<1>1. Types /\ Agrees => ClientAgrees
  BY DEF Agrees, ClientAgrees, Quiet
<1> QED BY <1>1, ViewAlways, PTL

(* For any items and any number of changes and failures, an event of a     *)
(* pass is about an item that is not as it was last truly observed, unless *)
(* a failure had already changed what the engine believed of it.           *)
THEOREM NoFakeTheorem == Spec => NoFakeEvent
<1> DEFINE True == (Adopting /\ gate /\ base) =>
             \A e \in Range(Events(seen')) :
               \/ e.val # known[e.item]
               \/ seen[e.item] # known[e.item] /\ (plat = "services" => seen[e.item] # "unknown")
<1>1. Types /\ Types' /\ [Next]_vars => [True]_vars
  <2> SUFFICES ASSUME Types, Types', Next, Adopting, NEW e \in Range(Events(seen')),
                      e.val = known[e.item]
               PROVE  seen[e.item] # known[e.item]
                      /\ (plat = "services" => seen[e.item] # "unknown")
    OBVIOUS
  <2>1. plat' = plat
    BY DEF Next, Change, FirstTick, Due, Collect, CollectVeiled, CollectRaises, CollectNothing,
           Begin, Update, IdlePass, Finish, Connect, Deliver, host
  <2>2. seen' \in [Item -> Reported(plat)]
    BY <2>1 DEF Types
  <2>3. PICK k \in 1..Len(Events(seen')) : Events(seen')[k] = e
    <3>1. Events(seen') \in Seq(Notice)
      BY <2>2, EventsTell
    <3> QED BY <3>1 DEF Range
  <2>4. e.item \in Item /\ Announced(seen[e.item], seen'[e.item]) /\ e.val = seen'[e.item]
    BY <2>2, <2>3, EventsTell
  <2>5. seen[e.item] # seen'[e.item]
    BY <2>2, <2>4, AnnouncedOrUnheard DEF Types
  <2>6. plat = "services" => seen[e.item] # "unknown"
    BY <2>4 DEF Announced, ServiceAnnounced
  <2> QED BY <2>4, <2>5, <2>6
<1> QED BY <1>1, ViewAlways, PTL DEF Spec, NoFakeEvent
=============================================================================
