---------------------------- MODULE LiveFeedProofs ----------------------------
(***************************************************************************)
(* DamageConfined for any processes, clients, queue size and batch length. *)
(* It is not inductive: a snapshot serves `topology`, which lags behind    *)
(* `prev` by the running tick and by the ticks that failed, and events may *)
(* wait in the queue of a client when its snapshot is taken.  So three     *)
(* more things are kept of every process: what the running tick's events   *)
(* say of it is so in `prev`; `topology` and these events give `prev`, but *)
(* for processes of failed ticks; and what a queue says of a process that  *)
(* is not stale is so in `topology`.                                       *)
(***************************************************************************)
EXTENDS LiveFeed, ListingLemmas, FiniteSetTheorems, SequenceTheorems, TLAPS

(* What a sequence of items says about one process of the topology: the    *)
(* word of the last event on it, if there is one.  The operators LiveFeed  *)
(* is built from (Applied, ProcsOf, Latest, Overflow, Diff) in these       *)
(* terms, for sequences of any length.                                     *)
Item == Event \union Side

About(m, x) == m \in Event /\ m.proc = x

Silent(s, x) == \A i \in 1..Len(s) : ~About(s[i], x)

Word(m) == IF m.kind = "stopped" THEN "gone" ELSE "there"

Says(s, x, kind) ==
  \E i \in 1..Len(s) : /\ About(s[i], x) /\ Word(s[i]) = kind
                       /\ \A j \in 1..Len(s) : j > i => ~About(s[j], x)

-----------------------------------------------------------------------------
(* Of a process a sequence  either says nothing or one thing.              *)
LEMMA SaysSomething ==
  ASSUME NEW s \in Seq(Item), NEW x
  PROVE  Silent(s, x) \/ Says(s, x, "there") \/ Says(s, x, "gone")
<1> SUFFICES ASSUME ~Silent(s, x) PROVE Says(s, x, "there") \/ Says(s, x, "gone")
  OBVIOUS
<1> DEFINE T == {i \in 1..Len(s) : About(s[i], x)}
<1>1. T \in SUBSET (1..Len(s)) /\ T # {} /\ Len(s) \in Nat
  BY DEF Silent
<1>2. PICK i \in T : \A j \in T : j <= i
  BY <1>1, GreatestExists
<1>3. \A j \in 1..Len(s) : j > i => ~About(s[j], x)
  BY <1>1, <1>2
<1>4. Word(s[i]) \in {"there", "gone"}
  BY DEF Word
<1> QED BY <1>2, <1>3, <1>4 DEF Says

LEMMA SaysOneThing ==
  ASSUME NEW s \in Seq(Item), NEW x
  PROVE  /\ ~(Says(s, x, "there") /\ Says(s, x, "gone"))
         /\ \A kind : ~(Silent(s, x) /\ Says(s, x, kind))
<1>1. ASSUME Says(s, x, "there"), Says(s, x, "gone") PROVE FALSE
  <2>1. PICK i \in 1..Len(s) : /\ About(s[i], x) /\ Word(s[i]) = "there"
                               /\ \A j \in 1..Len(s) : j > i => ~About(s[j], x)
    BY <1>1 DEF Says
  <2>2. PICK k \in 1..Len(s) : /\ About(s[k], x) /\ Word(s[k]) = "gone"
                               /\ \A j \in 1..Len(s) : j > k => ~About(s[j], x)
    BY <1>1 DEF Says
  <2>3. i = k
    BY <2>1, <2>2
  <2> QED BY <2>1, <2>2, <2>3
<1>2. ASSUME NEW kind, Silent(s, x), Says(s, x, kind) PROVE FALSE
  BY <1>2 DEF Silent, Says
<1> QED BY <1>1, <1>2

(* Nothing is said by no items.                                            *)
LEMMA SilentEmpty ==
  ASSUME NEW x
  PROVE  Silent(<<>>, x) /\ \A kind : ~Says(<<>>, x, kind)
BY DEF Silent, Says

(* In a concatenation the second part has the last word.                   *)
LEMMA SilentConcat ==
  ASSUME NEW s \in Seq(Item), NEW t \in Seq(Item), NEW x
  PROVE  Silent(s \o t, x) <=> Silent(s, x) /\ Silent(t, x)
<1>1. /\ Len(s) \in Nat /\ Len(t) \in Nat /\ Len(s \o t) = Len(s) + Len(t)
      /\ \A i \in 1..Len(s) : (s \o t)[i] = s[i]
      /\ \A i \in 1..Len(t) : (s \o t)[Len(s) + i] = t[i]
  OBVIOUS
<1>2. ASSUME Silent(s \o t, x) PROVE Silent(s, x) /\ Silent(t, x)
  <2>1. ASSUME NEW i \in 1..Len(s) PROVE ~About(s[i], x)
    BY <1>1, <1>2 DEF Silent
  <2>2. ASSUME NEW i \in 1..Len(t) PROVE ~About(t[i], x)
    <3>1. Len(s) + i \in 1..Len(s \o t)
      BY <1>1
    <3> QED BY <1>1, <1>2, <3>1 DEF Silent
  <2> QED BY <2>1, <2>2 DEF Silent
<1>3. ASSUME Silent(s, x), Silent(t, x), NEW i \in 1..Len(s \o t)
      PROVE  ~About((s \o t)[i], x)
  <2>1. CASE i <= Len(s)
    BY <1>1, <1>3, <2>1 DEF Silent
  <2>2. CASE i > Len(s)
    <3>1. i - Len(s) \in 1..Len(t) /\ i = Len(s) + (i - Len(s))
      BY <1>1, <2>2
    <3>2. (s \o t)[i] = t[i - Len(s)]
      BY <1>1, <3>1
    <3> QED BY <1>3, <3>1, <3>2 DEF Silent
  <2> QED BY <1>1, <2>1, <2>2
<1> QED BY <1>2, <1>3 DEF Silent

LEMMA SaysConcat ==
  ASSUME NEW s \in Seq(Item), NEW t \in Seq(Item), NEW x, NEW kind
  PROVE  Says(s \o t, x, kind) <=>
           Says(t, x, kind) \/ (Silent(t, x) /\ Says(s, x, kind))
<1>1. /\ Len(s) \in Nat /\ Len(t) \in Nat /\ Len(s \o t) = Len(s) + Len(t)
      /\ \A i \in 1..Len(s) : (s \o t)[i] = s[i]
      /\ \A i \in 1..Len(t) : (s \o t)[Len(s) + i] = t[i]
  OBVIOUS
<1>2. ASSUME Says(t, x, kind) PROVE Says(s \o t, x, kind)
  <2>1. PICK i \in 1..Len(t) : /\ About(t[i], x) /\ Word(t[i]) = kind
                               /\ \A j \in 1..Len(t) : j > i => ~About(t[j], x)
    BY <1>2 DEF Says
  <2>2. Len(s) + i \in 1..Len(s \o t) /\ (s \o t)[Len(s) + i] = t[i]
    BY <1>1
  <2>3. ASSUME NEW j \in 1..Len(s \o t), j > Len(s) + i PROVE ~About((s \o t)[j], x)
    <3>1. j - Len(s) \in 1..Len(t) /\ j - Len(s) > i /\ j = Len(s) + (j - Len(s))
      BY <1>1, <2>3
    <3>2. (s \o t)[j] = t[j - Len(s)]
      BY <1>1, <3>1
    <3> QED BY <2>1, <3>1, <3>2
  <2> QED BY <2>1, <2>2, <2>3 DEF Says
<1>3. ASSUME Silent(t, x), Says(s, x, kind) PROVE Says(s \o t, x, kind)
  <2>1. PICK i \in 1..Len(s) : /\ About(s[i], x) /\ Word(s[i]) = kind
                               /\ \A j \in 1..Len(s) : j > i => ~About(s[j], x)
    BY <1>3 DEF Says
  <2>2. i \in 1..Len(s \o t) /\ (s \o t)[i] = s[i]
    BY <1>1
  <2>3. ASSUME NEW j \in 1..Len(s \o t), j > i PROVE ~About((s \o t)[j], x)
    <3>1. CASE j <= Len(s)
      BY <1>1, <2>1, <2>3, <3>1
    <3>2. CASE j > Len(s)
      <4>1. j - Len(s) \in 1..Len(t) /\ j = Len(s) + (j - Len(s))
        BY <1>1, <3>2
      <4>2. (s \o t)[j] = t[j - Len(s)]
        BY <1>1, <4>1
      <4> QED BY <1>3, <4>1, <4>2 DEF Silent
    <3> QED BY <1>1, <3>1, <3>2
  <2> QED BY <2>1, <2>2, <2>3 DEF Says
<1>4. ASSUME Says(s \o t, x, kind) PROVE Says(t, x, kind) \/ (Silent(t, x) /\ Says(s, x, kind))
  <2>1. PICK i \in 1..Len(s \o t) :
              /\ About((s \o t)[i], x) /\ Word((s \o t)[i]) = kind
              /\ \A j \in 1..Len(s \o t) : j > i => ~About((s \o t)[j], x)
    BY <1>4 DEF Says
  <2>2. CASE i <= Len(s)
    <3>1. i \in 1..Len(s) /\ (s \o t)[i] = s[i]
      BY <1>1, <2>2
    <3>2. ASSUME NEW j \in 1..Len(s), j > i PROVE ~About(s[j], x)
      BY <1>1, <2>1, <3>2
    <3>3. ASSUME NEW j \in 1..Len(t) PROVE ~About(t[j], x)
      <4>1. Len(s) + j \in 1..Len(s \o t) /\ Len(s) + j > i
        BY <1>1, <3>1
      <4> QED BY <1>1, <2>1, <4>1
    <3> QED BY <2>1, <3>1, <3>2, <3>3 DEF Says, Silent
  <2>3. CASE i > Len(s)
    <3>1. i - Len(s) \in 1..Len(t) /\ i = Len(s) + (i - Len(s))
      BY <1>1, <2>3
    <3>2. (s \o t)[i] = t[i - Len(s)]
      BY <1>1, <3>1
    <3>3. ASSUME NEW j \in 1..Len(t), j > i - Len(s) PROVE ~About(t[j], x)
      <4>1. Len(s) + j \in 1..Len(s \o t) /\ Len(s) + j > i
        BY <1>1, <3>3
      <4> QED BY <1>1, <2>1, <4>1
    <3> QED BY <2>1, <3>1, <3>2, <3>3 DEF Says
  <2> QED BY <1>1, <2>2, <2>3
<1> QED BY <1>2, <1>3, <1>4

-----------------------------------------------------------------------------
(* A sequence cut in two.                                                  *)
LEMMA SplitAt ==
  ASSUME NEW S, NEW s \in Seq(S), NEW m \in 0..Len(s)
  PROVE  /\ SubSeq(s, 1, m) \in Seq(S) /\ Len(SubSeq(s, 1, m)) = m
         /\ SubSeq(s, m + 1, Len(s)) \in Seq(S)
         /\ Len(SubSeq(s, m + 1, Len(s))) = Len(s) - m
         /\ \A i \in 1..(Len(s) - m) : SubSeq(s, m + 1, Len(s))[i] = s[m + i]
         /\ s = SubSeq(s, 1, m) \o SubSeq(s, m + 1, Len(s))
<1> DEFINE a == SubSeq(s, 1, m)
           b == SubSeq(s, m + 1, Len(s))
           k == Len(s) - m
<1>1. Len(s) \in Nat /\ m \in Nat /\ m <= Len(s) /\ k \in Nat
  OBVIOUS
<1>2. a \in Seq(S) /\ Len(a) = m /\ \A i \in 1..m : a[i] = s[i]
  BY <1>1
<1>3. b \in Seq(S) /\ Len(b) = k /\ \A i \in 1..k : b[i] = s[m + i]
  BY <1>1
<1> HIDE DEF a, b
<1>4. a \o b \in Seq(S) /\ Len(a \o b) = Len(s)
  BY <1>1, <1>2, <1>3
<1>5. ASSUME NEW i \in 1..Len(s) PROVE (a \o b)[i] = s[i]
  <2>1. CASE i <= m
    BY <1>1, <1>2, <1>3, <2>1
  <2>2. CASE i > m
    <3>1. i - m \in 1..k
      BY <1>1, <2>2
    <3>2. (a \o b)[i] = b[i - m]
      BY <1>1, <1>2, <1>3, <2>2, <3>1
    <3> QED BY <1>1, <1>3, <3>1, <3>2
  <2>3. i <= m \/ i > m
    BY <1>1
  <2> QED BY <2>1, <2>2, <2>3
<1>6. s = a \o b
  BY <1>4, <1>5, SeqEqual
<1> QED BY <1>2, <1>3, <1>6 DEF a, b

(* What a queue keeps and what it drops add up to what was put into it.    *)
LEMMA LatestSplits ==
  ASSUME NEW S, NEW s \in Seq(S), NEW n \in Nat
  PROVE  /\ Latest(s, n) \in Seq(S) /\ Overflow(s, n) \in Seq(S)
         /\ Len(Latest(s, n)) <= n
         /\ s = Overflow(s, n) \o Latest(s, n)
<1> DEFINE k == Least(n, Len(s))
           m == Len(s) - k
<1>1. Len(s) \in Nat /\ k \in Nat /\ k <= n /\ m \in 0..Len(s) /\ Len(s) - m = k
  BY DEF Least
<1>2. Latest(s, n) = SubSeq(s, m + 1, Len(s)) /\ Overflow(s, n) = SubSeq(s, 1, m)
  BY DEF Latest, Overflow
<1> HIDE DEF m, k
<1>3. /\ SubSeq(s, 1, m) \in Seq(S)
      /\ SubSeq(s, m + 1, Len(s)) \in Seq(S)
      /\ Len(SubSeq(s, m + 1, Len(s))) = Len(s) - m
      /\ s = SubSeq(s, 1, m) \o SubSeq(s, m + 1, Len(s))
  BY <1>1, SplitAt
<1>4. Len(SubSeq(s, m + 1, Len(s))) <= n
  BY <1>1, <1>3
<1> QED BY <1>2, <1>3, <1>4

(* The processes of a sequence are those it says something about.           *)
LEMMA ProcsSpoken ==
  ASSUME NEW s \in Seq(Item), NEW x
  PROVE  x \in ProcsOf(s) <=> ~Silent(s, x)
<1>1. ASSUME x \in ProcsOf(s) PROVE ~Silent(s, x)
  <2>1. PICK m \in Range(s) : IsEvent(m) /\ m.proc = x
    BY <1>1 DEF ProcsOf
  <2>2. PICK i \in 1..Len(s) : s[i] = m
    BY <2>1 DEF Range
  <2>3. m \in Event
    BY <2>1, <2>2 DEF Item, Side, Message, Row, Quiet, IsEvent, Event
  <2> QED BY <2>1, <2>2, <2>3 DEF Silent, About
<1>2. ASSUME ~Silent(s, x) PROVE x \in ProcsOf(s)
  <2>1. PICK i \in 1..Len(s) : s[i] \in Event /\ s[i].proc = x
    BY <1>2 DEF Silent, About
  <2>2. s[i] \in Range(s) /\ IsEvent(s[i])
    BY <2>1 DEF Range, Event, IsEvent
  <2> QED BY <2>1, <2>2 DEF ProcsOf
<1> QED BY <1>1, <1>2

(* Only processes of the machine are spoken of.                            *)
LEMMA SpokenIsProc ==
  ASSUME NEW s \in Seq(Item), NEW x, ~Silent(s, x)
  PROVE  x \in Proc
BY DEF Silent, About, Event

(* The graph after a sequence: the last word on a process counts.         *)
LEMMA AppliedIsLastWord ==
  ASSUME NEW s \in Seq(Item), NEW graph, NEW x
  PROVE  x \in Applied(graph, s) <=> Says(s, x, "there") \/ (Silent(s, x) /\ x \in graph)
<1> DEFINE drawn == {m.proc : m \in {n \in Range(s) : n.kind \in {"started", "opened"}}}
           at(y) == {i \in 1..Len(s) : s[i] \in Event /\ s[i].proc = y}
           final(y) == s[CHOOSE i \in at(y) : \A j \in at(y) : j <= i].kind
<1>1. Applied(graph, s) =
        {y \in graph \union drawn : y \in ProcsOf(s) => final(y) # "stopped"}
  BY DEF Applied
<1>2. CASE Silent(s, x)
  <2>1. x \notin ProcsOf(s)
    BY <1>2, ProcsSpoken
  <2>2. x \notin drawn
    <3>1. ASSUME NEW m \in Range(s), m.kind \in {"started", "opened"}, m.proc = x
          PROVE  FALSE
      BY <2>1, <3>1 DEF ProcsOf, IsEvent
    <3> QED BY <3>1
  <2>3. ~Says(s, x, "there")
    BY <1>2, SaysOneThing
  <2> QED BY <1>1, <1>2, <2>1, <2>2, <2>3
<1>3. CASE ~Silent(s, x)
  <2>1. x \in ProcsOf(s)
    BY <1>3, ProcsSpoken
  <2>2. PICK k \in {"there", "gone"} : Says(s, x, k)
    BY <1>3, SaysSomething
  <2>3. PICK i \in 1..Len(s) : /\ About(s[i], x) /\ Word(s[i]) = k
                               /\ \A j \in 1..Len(s) : j > i => ~About(s[j], x)
    BY <2>2 DEF Says
  <2>4. i \in at(x) /\ \A j \in at(x) : j <= i
    BY <2>3 DEF About
  <2>5. i = CHOOSE h \in at(x) : \A j \in at(x) : j <= h
    <3> DEFINE h == CHOOSE h \in at(x) : \A j \in at(x) : j <= h
    <3>1. h \in at(x) /\ \A j \in at(x) : j <= h
      BY <2>4
    <3>2. h <= i /\ i <= h /\ h \in Nat /\ i \in Nat
      BY <2>4, <3>1
    <3> QED BY <3>2
  <2>6. final(x) # "stopped" <=> k = "there"
    BY <2>3, <2>5 DEF Word
  <2> HIDE DEF final, at
  <2>7. k = "there" => x \in drawn
    BY <2>3 DEF About, Range, Event, Word
  <2>8. Says(s, x, "there") <=> k = "there"
    BY <2>2, SaysOneThing
  <2> QED BY <1>1, <1>3, <2>1, <2>6, <2>7, <2>8
<1> QED BY <1>2, <1>3

-----------------------------------------------------------------------------
(* What three sequences in a row say of a process, part by part.           *)
LEMMA ThreeSay ==
  ASSUME NEW b \in Seq(Item), NEW q \in Seq(Item), NEW e \in Seq(Item), NEW x
  PROVE  /\ Silent(b \o q \o e, x) <=> Silent(b, x) /\ Silent(q, x) /\ Silent(e, x)
         /\ \A kind : Says(b \o q \o e, x, kind) <=>
              \/ Says(e, x, kind)
              \/ Silent(e, x) /\ Says(q, x, kind)
              \/ Silent(e, x) /\ Silent(q, x) /\ Says(b, x, kind)
<1>1. b \o q \in Seq(Item)
  OBVIOUS
<1> QED BY <1>1, SilentConcat, SaysConcat

(* A list of events of one kind speaks of the processes of its set.        *)
LEMMA ListSpeaks ==
  ASSUME NEW S \in SUBSET Proc, NEW kind \in {"started", "stopped"}
  PROVE  /\ Listed(kind, S) \in Seq(Event)
         /\ \A x : ~Silent(Listed(kind, S), x) <=> x \in S
         /\ \A x, k : Says(Listed(kind, S), x, k)
                        => k = IF kind = "stopped" THEN "gone" ELSE "there"
<1> DEFINE s == [i \in 1..Cardinality(S) |-> [kind |-> kind, proc |-> Sorted(S)[i]]]
<1>1. IsFiniteSet(S) /\ S \in SUBSET Nat /\ Listed(kind, S) = s
  BY FeedAssumption, FS_Subset DEF Listed
<1>2. /\ Cardinality(S) \in Nat
      /\ \A i \in 1..Cardinality(S) : Sorted(S)[i] \in S
      /\ \A x \in S : \E i \in 1..Cardinality(S) : Sorted(S)[i] = x
  BY <1>1, SortedLists
<1>3. s \in Seq(Event) /\ Len(s) = Cardinality(S)
  <2>1. \A i \in 1..Cardinality(S) : [kind |-> kind, proc |-> Sorted(S)[i]] \in Event
    BY <1>2 DEF Event
  <2>2. s \in [1..Cardinality(S) -> Event]
    BY <2>1
  <2>3. Cardinality(S) \in Nat
    BY <1>2
  <2> QED BY <2>2, <2>3, FunctionIsSeq
<1>4. \A i \in 1..Len(s) : s[i] \in Event /\ s[i].proc = Sorted(S)[i] /\ s[i].kind = kind
  BY <1>2, <1>3 DEF Event
<1> HIDE DEF s
<1>5. ASSUME NEW x PROVE ~Silent(s, x) <=> x \in S
  BY <1>2, <1>3, <1>4 DEF Silent, About
<1>6. ASSUME NEW x, NEW k, Says(s, x, k)
      PROVE  k = IF kind = "stopped" THEN "gone" ELSE "there"
  BY <1>4, <1>6 DEF Says, Word
<1> QED BY <1>1, <1>3, <1>5, <1>6

(* So do the ends of the connections a tick opened.                        *)
LEMMA OpenedSpeaks ==
  ASSUME NEW opened \in Seq(Proc), NEW s,
         s = [i \in 1..Len(opened) |-> [kind |-> "opened", proc |-> opened[i]]]
  PROVE  /\ s \in Seq(Event)
         /\ \A x : ~Silent(s, x) => x \in Range(opened)
         /\ \A x, k : Says(s, x, k) => k = "there"
<1>1. s \in Seq(Event) /\ Len(s) = Len(opened)
  <2>1. \A i \in 1..Len(opened) : [kind |-> "opened", proc |-> opened[i]] \in Event
    BY DEF Event
  <2>2. s \in [1..Len(opened) -> Event] /\ Len(opened) \in Nat
    BY <2>1
  <2> QED BY <2>2, FunctionIsSeq
<1>2. \A i \in 1..Len(s) : s[i].proc = opened[i] /\ s[i].kind = "opened"
  BY <1>1
<1>3. \A x : ~Silent(s, x) => x \in Range(opened)
  BY <1>1, <1>2 DEF Silent, About, Range
<1>4. \A x, k : Says(s, x, k) => k = "there"
  BY <1>2 DEF Says, Word
<1> QED BY <1>1, <1>3, <1>4

(* The ends of the connections a tick opens are processes it found.        *)
LEMMA OpenedType ==
  ASSUME NEW new \in SUBSET Proc, NEW opened \in SeqOf(new, MaxOpened)
  PROVE  opened \in Seq(Proc) /\ Range(opened) \subseteq new
<1>1. PICK m \in 0..MaxOpened : opened \in [1..m -> new]
  BY DEF SeqOf
<1>2. m \in Nat
  BY FeedAssumption, <1>1
<1>3. opened \in Seq(new) /\ Len(opened) = m
  BY <1>1, <1>2, FunctionIsSeq
<1> QED BY <1>3 DEF Range

(* The events of a tick say what is there and what has gone.               *)
LEMMA DiffSpeaks ==
  ASSUME NEW old \in SUBSET Proc, NEW new \in SUBSET Proc,
         NEW opened \in SeqOf(new, MaxOpened)
  PROVE  /\ Diff(old, new, opened) \in Seq(Event)
         /\ \A x : Says(Diff(old, new, opened), x, "there") => x \in new
         /\ \A x : Says(Diff(old, new, opened), x, "gone") => x \notin new
         /\ \A x : Silent(Diff(old, new, opened), x) => (x \in new <=> x \in old)
<1> DEFINE a == Listed("started", new \ old)
           d == Listed("stopped", old \ new)
           o == [i \in 1..Len(opened) |-> [kind |-> "opened", proc |-> opened[i]]]
<1>1. Diff(old, new, opened) = a \o d \o o
  BY DEF Diff
<1>2. /\ a \in Seq(Event)
      /\ \A x : ~Silent(a, x) <=> x \in new \ old
      /\ \A x, k : Says(a, x, k) => k = "there"
  BY ListSpeaks
<1>3. /\ d \in Seq(Event)
      /\ \A x : ~Silent(d, x) <=> x \in old \ new
      /\ \A x, k : Says(d, x, k) => k = "gone"
  BY ListSpeaks
<1>4. /\ o \in Seq(Event)
      /\ \A x : ~Silent(o, x) => x \in new
      /\ \A x, k : Says(o, x, k) => k = "there"
  <2>1. opened \in Seq(Proc) /\ Range(opened) \subseteq new
    BY OpenedType
  <2>2. /\ o \in Seq(Event)
        /\ \A x : ~Silent(o, x) => x \in Range(opened)
        /\ \A x, k : Says(o, x, k) => k = "there"
    BY <2>1, OpenedSpeaks
  <2> QED BY <2>1, <2>2
<1> HIDE DEF a, d, o
<1>5. /\ a \in Seq(Item) /\ d \in Seq(Item) /\ o \in Seq(Item)
      /\ a \o d \in Seq(Item) /\ a \o d \o o \in Seq(Event)
  BY <1>2, <1>3, <1>4 DEF Item
<1>6. ASSUME NEW x
      PROVE  /\ Says(a \o d \o o, x, "there") => x \in new
             /\ Says(a \o d \o o, x, "gone") => x \notin new
             /\ Silent(a \o d \o o, x) => (x \in new <=> x \in old)
  <2>1. /\ Silent(a \o d \o o, x) <=> Silent(a, x) /\ Silent(d, x) /\ Silent(o, x)
        /\ \A k : Says(a \o d \o o, x, k) <=>
             \/ Says(o, x, k)
             \/ Silent(o, x) /\ Says(d, x, k)
             \/ Silent(o, x) /\ Silent(d, x) /\ Says(a, x, k)
    BY <1>5, ThreeSay
  <2>2. ~Silent(a, x) \/ ~Says(a, x, "there")
    BY <1>5, SaysOneThing
  <2>3. ~Silent(d, x) \/ ~Says(d, x, "gone")
    BY <1>5, SaysOneThing
  <2>4. ~Silent(o, x) \/ ~Says(o, x, "there")
    BY <1>5, SaysOneThing
  <2>5. ~Says(d, x, "there") /\ ~Says(o, x, "gone") /\ ~Says(a, x, "gone")
    BY <1>2, <1>3, <1>4
  <2> QED BY <2>1, <2>2, <2>3, <2>4, <2>5, <1>2, <1>3, <1>4
<1> QED BY <1>1, <1>5, <1>6

-----------------------------------------------------------------------------
(* The diff's events and the messages of the other loops are items.        *)
LEMMA EventsAreItems ==
  /\ Seq(Event) \subseteq Seq(Item) /\ Seq(Side) \subseteq Seq(Item)
  /\ Seq(Event \union Side) = Seq(Item)
BY DEF Item

(* Messages of the other loops say nothing of any process.                 *)
LEMMA SideIsSilent ==
  ASSUME NEW s \in Seq(Side), NEW x
  PROVE  Silent(s, x)
<1> SUFFICES ASSUME NEW i \in 1..Len(s) PROVE s[i] \notin Event
  BY DEF Silent, About
<1>1. s[i] \in Side
  OBVIOUS
<1>2. s[i].kind \notin {"started", "stopped", "opened"}
  BY <1>1 DEF Side, Message, Row, Quiet
<1> QED BY <1>2 DEF Event

(* Applying in two frames or in one is the same.                           *)
LEMMA AppliedTwice ==
  ASSUME NEW s \in Seq(Item), NEW t \in Seq(Item), NEW graph, NEW x
  PROVE  x \in Applied(Applied(graph, s), t) <=> x \in Applied(graph, s \o t)
<1>1. s \o t \in Seq(Item)
  OBVIOUS
<1>2. x \in Applied(graph, s \o t) <=>
        Says(s \o t, x, "there") \/ (Silent(s \o t, x) /\ x \in graph)
  BY <1>1, AppliedIsLastWord
<1>3. x \in Applied(graph, s) <=> Says(s, x, "there") \/ (Silent(s, x) /\ x \in graph)
  BY AppliedIsLastWord
<1>4. x \in Applied(Applied(graph, s), t) <=>
        Says(t, x, "there") \/ (Silent(t, x) /\ x \in Applied(graph, s))
  BY AppliedIsLastWord
<1> QED BY <1>2, <1>3, <1>4, SilentConcat, SaysConcat

(* What stands last in a sequence says the same of what it speaks of.      *)
LEMMA SuffixSays ==
  ASSUME NEW s \in Seq(Item), NEW r \in Seq(Item), NEW t \in Seq(Item), s = r \o t,
         NEW x, ~Silent(t, x)
  PROVE  ~Silent(s, x) /\ \A kind : Says(s, x, kind) <=> Says(t, x, kind)
BY SilentConcat, SaysConcat

(* Putting s into a queue with a process that is not stale  afterwards:    *)
(* what s says of it is said by the new queue, and if s says nothing of    *)
(* it the new queue says what the old one did.                             *)
LEMMA EnqueueSays ==
  ASSUME NEW q \in Seq(Item), NEW s \in Seq(Item), NEW n \in Nat, NEW old, NEW x,
         x \notin (old \ ProcsOf(Latest(s, n)))
                    \union (ProcsOf(Overflow(q \o s, n)) \ ProcsOf(Latest(q \o s, n)))
  PROVE  /\ Latest(q \o s, n) \in Seq(Item) /\ Len(Latest(q \o s, n)) <= n
         /\ Silent(Latest(q \o s, n), x) <=> Silent(q, x) /\ Silent(s, x)
         /\ ~Silent(s, x) => \A kind : Says(Latest(q \o s, n), x, kind) <=> Says(s, x, kind)
         /\ Silent(s, x) => /\ x \notin old
                            /\ \A kind : Says(Latest(q \o s, n), x, kind) <=> Says(q, x, kind)
<1> DEFINE new == Latest(q \o s, n)
           out == Overflow(q \o s, n)
<1>1. q \o s \in Seq(Item)
  OBVIOUS
<1>2. new \in Seq(Item) /\ out \in Seq(Item) /\ Len(new) <= n /\ q \o s = out \o new
  BY <1>1, LatestSplits
<1>3. ~Silent(out, x) => ~Silent(new, x)
  BY <1>2, ProcsSpoken
<1> HIDE DEF new, out
<1>4. Silent(new, x) <=> Silent(q \o s, x)
  BY <1>2, <1>3, SilentConcat
<1>5. Silent(q \o s, x) <=> Silent(q, x) /\ Silent(s, x)
  BY SilentConcat
<1>6. \A kind : Says(new, x, kind) <=> Says(q \o s, x, kind)
  <2>1. CASE Silent(new, x)
    BY <1>1, <1>2, <1>4, <2>1, SaysOneThing
  <2>2. CASE ~Silent(new, x)
    BY <1>1, <1>2, <2>2, SuffixSays
  <2> QED BY <2>1, <2>2
<1>7. \A kind : Says(q \o s, x, kind) <=>
                  Says(s, x, kind) \/ (Silent(s, x) /\ Says(q, x, kind))
  BY SaysConcat
<1>8. ASSUME ~Silent(s, x), NEW kind PROVE Says(new, x, kind) <=> Says(s, x, kind)
  BY <1>6, <1>7, <1>8
<1>9. ASSUME Silent(s, x) PROVE \A kind : Says(new, x, kind) <=> Says(q, x, kind)
  BY <1>6, <1>7, <1>9, SaysOneThing
<1>10. ASSUME Silent(s, x) PROVE x \notin old
  <2>1. Latest(s, n) \in Seq(Item) /\ Overflow(s, n) \in Seq(Item)
        /\ s = Overflow(s, n) \o Latest(s, n)
    BY LatestSplits
  <2>2. Silent(Latest(s, n), x)
    BY <1>10, <2>1, SilentConcat
  <2> QED BY <2>1, <2>2, ProcsSpoken
<1> QED BY <1>2, <1>4, <1>5, <1>8, <1>9, <1>10 DEF new

-----------------------------------------------------------------------------
(* The inductive invariant.                                                *)
Phases ==
  /\ prev = NoTopology => events = <<>> /\ topology = NoTopology
  /\ tick = "idle" => events = <<>>
  /\ tick = "detecting" => prev # NoTopology
  /\ \A c \in Client : /\ ~Subscribed(c) => queue[c] = <<>>
                       /\ ws[c] # "batching" => batch[c] = <<>>
                       /\ prev = NoTopology /\ Streaming(c) => Proc \subseteq stale[c]

EventsTell ==
  prev # NoTopology =>
    \A x \in Proc : /\ Says(events, x, "there") => x \in prev
                    /\ Says(events, x, "gone") => x \notin prev

TopologyLags ==
  topology # NoTopology =>
    \A x \in Proc \ unsent :
      x \in prev <=> Says(events, x, "there") \/ (Silent(events, x) /\ x \in topology)

QueueTells(c) ==
  \A x \in Proc \ stale[c] :
    ~Silent(queue[c], x) =>
      /\ topology # NoTopology /\ x \notin unsent
      /\ Says(queue[c], x, "there") <=> x \in topology

Pending(c) == batch[c] \o queue[c] \o events

Delivers(c) ==
  Streaming(c) /\ prev # NoTopology =>
    \A x \in Proc \ stale[c] :
      x \in prev <=> Says(Pending(c), x, "there") \/ (Silent(Pending(c), x) /\ x \in view[c])

IInv ==
  /\ TypeOK /\ Phases /\ EventsTell /\ TopologyLags
  /\ \A c \in Client : QueueTells(c) /\ Delivers(c)

-----------------------------------------------------------------------------
(* The bounds are numbers, and a queue and a batch hold something.         *)
LEMMA Sizes ==
  /\ QueueSize \in Nat /\ MaxEventBatch \in Nat /\ MaxEventBatch > 0 /\ QueueSize > 0
  /\ MaxTicks \in Nat /\ MaxSide \in Nat
BY FeedAssumption

(* NoTopology is not a topology.                                           *)
LEMMA TopologyIsNone ==
  ASSUME NEW t \in SUBSET Proc
  PROVE  t # NoTopology
BY FeedAssumption

(* What is pending for a client is a sequence of items.                    *)
LEMMA ItemTypes ==
  ASSUME TypeOK, NEW c \in Client
  PROVE  /\ events \in Seq(Item) /\ queue[c] \in Seq(Item) /\ batch[c] \in Seq(Item)
         /\ batch[c] \o queue[c] \in Seq(Item) /\ Pending(c) \in Seq(Item)
<1>1. events \in Seq(Item) /\ queue[c] \in Seq(Item) /\ batch[c] \in Seq(Item)
  BY EventsAreItems DEF TypeOK
<1> QED BY <1>1 DEF Pending

(* So are the events of the running tick.                                  *)
LEMMA EventItems == TypeOK => events \in Seq(Item)
BY EventsAreItems DEF TypeOK

(* Items are about processes, and so a graph stays one of processes.       *)
LEMMA ProcsType ==
  ASSUME NEW s \in Seq(Item)
  PROVE  ProcsOf(s) \subseteq Proc
BY ProcsSpoken, SpokenIsProc

LEMMA AppliedType ==
  ASSUME NEW s \in Seq(Item), NEW graph \in SUBSET Proc
  PROVE  Applied(graph, s) \subseteq Proc
<1> SUFFICES ASSUME NEW x \in Applied(graph, s) PROVE x \in Proc
  OBVIOUS
<1>1. Says(s, x, "there") \/ x \in graph
  BY AppliedIsLastWord
<1>2. Says(s, x, "there") => ~Silent(s, x)
  BY SaysOneThing
<1> QED BY <1>1, <1>2, SpokenIsProc

(* The invariant gives the property.                                       *)
LEMMA Confined == IInv => DamageConfined
<1> SUFFICES ASSUME IInv, NEW c \in Client, Streaming(c), prev # NoTopology
             PROVE  Applied(view[c], Pending(c)) \ stale[c] = prev \ stale[c]
  BY DEF DamageConfined, Pending
<1>1. Pending(c) \in Seq(Item) /\ view[c] \in SUBSET Proc /\ prev \in SUBSET Proc
  BY ItemTypes DEF IInv, TypeOK
<1>2. Applied(view[c], Pending(c)) \subseteq Proc
  BY <1>1, AppliedType
<1>3. \A x \in Proc \ stale[c] : x \in prev <=> x \in Applied(view[c], Pending(c))
  BY <1>1, AppliedIsLastWord DEF IInv, Delivers
<1> QED BY <1>1, <1>2, <1>3

(* Before the first tick and the first connection.                         *)
LEMMA InitInv == Init => IInv
<1> SUFFICES ASSUME Init PROVE IInv
  OBVIOUS
<1>1. TypeOK
  <2>1. /\ queue \in [Client -> Seq(Event \union Side)]
        /\ batch \in [Client -> Seq(Event \union Side)]
        /\ events \in Seq(Event)
    BY DEF Init
  <2>2. /\ \A c \in Client : Len(queue[c]) <= QueueSize
        /\ \A c \in Client : Len(batch[c]) < MaxEventBatch
    BY Sizes DEF Init
  <2>3. ticks \in 0..MaxTicks /\ side \in 0..MaxSide
    BY Sizes DEF Init
  <2> QED BY <2>1, <2>2, <2>3 DEF Init, TypeOK
<1>2. Phases
  BY DEF Init, Phases, Subscribed, Streaming
<1>3. EventsTell /\ TopologyLags
  BY DEF Init, EventsTell, TopologyLags
<1>4. ASSUME NEW c \in Client PROVE QueueTells(c) /\ Delivers(c)
  BY SilentEmpty DEF Init, QueueTells, Delivers
<1> QED BY <1>1, <1>2, <1>3, <1>4 DEF IInv

-----------------------------------------------------------------------------
(* Publishing, while some events are forgone.                              *)
LEMMA EnqueueType ==
  ASSUME TypeOK, NEW s \in Seq(Item), NEW lost \in Seq(Item), Enqueue(s, lost)
  PROVE  /\ queue' \in [Client -> Seq(Event \union Side)]
         /\ \A c \in Client : Len(queue'[c]) <= QueueSize
         /\ stale' \in [Client -> SUBSET Proc]
<1>1. ASSUME NEW c \in Client
      PROVE  /\ Latest(queue[c] \o s, QueueSize) \in Seq(Item)
             /\ Len(Latest(queue[c] \o s, QueueSize)) <= QueueSize
             /\ Overflow(queue[c] \o s, QueueSize) \in Seq(Item)
  <2>1. queue[c] \o s \in Seq(Item)
    BY ItemTypes
  <2> QED BY <2>1, LatestSplits, Sizes
<1>2. Latest(s, QueueSize) \in Seq(Item)
  BY LatestSplits, Sizes
<1>3. queue' = [c \in Client |-> IF Subscribed(c) THEN Latest(queue[c] \o s, QueueSize)
                                                  ELSE queue[c]]
  BY DEF Enqueue
<1>4. queue' \in [Client -> Seq(Item)] /\ \A c \in Client : Len(queue'[c]) <= QueueSize
  BY <1>1, <1>3, ItemTypes DEF TypeOK
<1>5. stale' \in [Client -> SUBSET Proc]
  <2>1. /\ ProcsOf(lost) \subseteq Proc
        /\ \A c \in Client : /\ ProcsOf(Overflow(queue[c] \o s, QueueSize)) \subseteq Proc
                             /\ stale[c] \subseteq Proc
    BY <1>1, ProcsType DEF TypeOK
  <2> QED BY <2>1 DEF Enqueue
<1> QED BY <1>4, <1>5, EventsAreItems

-----------------------------------------------------------------------------
(* The endpoint's batching loop: how many plain items it takes at once.    *)
LEMMA RunProperties ==
  ASSUME TypeOK, NEW c \in Client
  PROVE  /\ Run(c) \in 0..Len(queue[c])
         /\ Run(c) <= MaxEventBatch - Len(batch[c])
         /\ Run(c) < MaxEventBatch - Len(batch[c]) /\ Run(c) < Len(queue[c])
              => IsTyped(queue[c][Run(c) + 1])
<1> DEFINE q == queue[c]
           room == MaxEventBatch - Len(batch[c])
           typed == {i \in 1..Len(q) : IsTyped(q[i])}
           first(n) == n + 1 \in typed /\ \A i \in typed : n + 1 <= i
           upto == IF typed = {} THEN Len(q) ELSE CHOOSE n \in 0..Len(q) : first(n)
<1>1. Len(q) \in Nat /\ room \in Nat
  <2>1. q \in Seq(Item) /\ batch[c] \in Seq(Item)
    BY ItemTypes
  <2>2. Len(batch[c]) < MaxEventBatch
    BY DEF TypeOK
  <2> QED BY <2>1, <2>2, Sizes
<1>2. Run(c) = Least(room, upto)
  BY DEF Run
<1>3. upto \in 0..Len(q) /\ (upto < Len(q) => IsTyped(q[upto + 1]))
  <2>1. CASE typed = {}
    BY <1>1, <2>1
  <2>2. CASE typed # {}
    <3>1. typed \in SUBSET Nat
      BY <1>1
    <3>2. PICK i \in typed : \A j \in typed : i <= j
      BY <2>2, <3>1, LeastExists
    <3>3. i - 1 \in 0..Len(q) /\ first(i - 1)
      BY <1>1, <3>2
    <3>4. upto \in 0..Len(q) /\ first(upto)
      BY <2>2, <3>3
    <3> QED BY <3>4
  <2> QED BY <2>1, <2>2
<1> HIDE DEF upto, room
<1>4. Least(room, upto) \in 0..Len(q) /\ Least(room, upto) <= room
      /\ (Least(room, upto) < room => Least(room, upto) = upto)
  BY <1>1, <1>3 DEF Least
<1>5. Run(c) < room /\ Run(c) < Len(q) => IsTyped(q[Run(c) + 1])
  BY <1>2, <1>3, <1>4
<1> QED BY <1>2, <1>4, <1>5 DEF room

Taken(c) == batch[c] \o SubSeq(queue[c], 1, Run(c))
Rest(c)  == SubSeq(queue[c], Run(c) + 1, Len(queue[c]))

(* What the loop takes joins the batch; the rest of the queue, unless the  *)
(* batch is full, starts with an item that is sent by itself.              *)
LEMMA ReceiveSplits ==
  ASSUME TypeOK, NEW c \in Client
  PROVE  /\ Taken(c) \in Seq(Item) /\ Rest(c) \in Seq(Item)
         /\ Len(Taken(c)) <= MaxEventBatch /\ Len(Rest(c)) <= Len(queue[c])
         /\ \E got \in Seq(Item) : /\ queue[c] = got \o Rest(c)
                                  /\ Taken(c) = batch[c] \o got
         /\ Len(Taken(c)) < MaxEventBatch /\ Rest(c) # <<>> => IsTyped(Head(Rest(c)))
<1> DEFINE r == Run(c)
           q == queue[c]
           got == SubSeq(q, 1, r)
<1>1. q \in Seq(Item) /\ batch[c] \in Seq(Item) /\ Len(batch[c]) \in Nat
  BY ItemTypes
<1>2. r \in 0..Len(q) /\ r <= MaxEventBatch - Len(batch[c])
      /\ (r < MaxEventBatch - Len(batch[c]) /\ r < Len(q) => IsTyped(q[r + 1]))
  BY RunProperties
<1>3. /\ got \in Seq(Item) /\ Len(got) = r
      /\ Rest(c) \in Seq(Item) /\ Len(Rest(c)) = Len(q) - r
      /\ \A i \in 1..(Len(q) - r) : Rest(c)[i] = q[r + i]
      /\ q = got \o Rest(c)
  BY <1>1, <1>2, SplitAt DEF Rest
<1>4. Taken(c) = batch[c] \o got
  BY DEF Taken
<1> HIDE DEF got, r
<1>5. Taken(c) \in Seq(Item) /\ Len(Taken(c)) = Len(batch[c]) + r
  <2>1. batch[c] \in Seq(Item) /\ got \in Seq(Item) /\ Len(got) = r
    BY <1>1, <1>3
  <2>2. batch[c] \o got \in Seq(Item) /\ Len(batch[c] \o got) = Len(batch[c]) + Len(got)
    BY <2>1
  <2> QED BY <1>4, <2>1, <2>2
<1>6. Len(Taken(c)) <= MaxEventBatch /\ Len(Rest(c)) <= Len(q)
  BY <1>1, <1>2, <1>3, <1>5, Sizes
<1>7. ASSUME Len(Taken(c)) < MaxEventBatch, Rest(c) # <<>> PROVE IsTyped(Head(Rest(c)))
  <2>1. Len(Rest(c)) > 0
    BY <1>3, <1>7
  <2>2. r < MaxEventBatch - Len(batch[c]) /\ r < Len(q) /\ 1 \in 1..(Len(q) - r)
    BY <1>1, <1>2, <1>3, <1>5, <1>7, <2>1, Sizes
  <2>3. Head(Rest(c)) = q[r + 1]
    BY <1>3, <2>1, <2>2
  <2> QED BY <1>2, <2>2, <2>3
<1> QED BY <1>3, <1>4, <1>5, <1>6, <1>7

(* An item that is sent by itself says nothing of any process.             *)
LEMMA TypedHead ==
  ASSUME NEW q \in Seq(Item), q # <<>>, IsTyped(Head(q))
  PROVE  /\ Tail(q) \in Seq(Item) /\ Len(Tail(q)) < Len(q)
         /\ \A x : Silent(q, x) <=> Silent(Tail(q), x)
         /\ \A x, kind : Says(q, x, kind) <=> Says(Tail(q), x, kind)
<1> DEFINE h == <<Head(q)>>
<1>1. Tail(q) \in Seq(Item) /\ h \in Seq(Side) /\ h \in Seq(Item) /\ Len(Tail(q)) < Len(q)
  BY DEF IsTyped, Side, Item
<1>2. q = h \o Tail(q)
  OBVIOUS
<1>3. \A x : Silent(h, x) /\ \A kind : ~Says(h, x, kind)
  BY <1>1, SideIsSilent, SaysOneThing
<1> HIDE DEF h
<1>4. ASSUME NEW x
      PROVE  /\ Silent(h \o Tail(q), x) <=> Silent(Tail(q), x)
             /\ \A kind : Says(h \o Tail(q), x, kind) <=> Says(Tail(q), x, kind)
  BY <1>1, <1>3, SilentConcat, SaysConcat
<1>5. ASSUME NEW x
      PROVE  /\ Silent(q, x) <=> Silent(Tail(q), x)
             /\ \A kind : Says(q, x, kind) <=> Says(Tail(q), x, kind)
  BY <1>2, <1>4, Zenon
<1> QED BY <1>1, <1>5

-----------------------------------------------------------------------------
(* What the actions of one endpoint have in common: the server and what    *)
(* belongs to the other connections stay as they are.                      *)
ClientSame(d) ==
  /\ ws'[d] = ws[d] /\ queue'[d] = queue[d] /\ batch'[d] = batch[d]
  /\ view'[d] = view[d] /\ stale'[d] = stale[d]

SnapshotReal == ~bench /\ topology # NoTopology

(* What sending a snapshot changes.                                        *)
LEMMA SnapshotEffect ==
  ASSUME TypeOK, NEW c \in Client, SendSnapshot(c)
  PROVE  /\ UNCHANGED <<server, queue, batch, unsent, ticks, side>>
         /\ ws' = [ws EXCEPT ![c] = "ready"]
         /\ view' = [view EXCEPT ![c] = IF SnapshotReal THEN topology ELSE {}]
         /\ stale' = [stale EXCEPT ![c] =
              IF SnapshotReal THEN unsent \union (stale[c] \intersect ProcsOf(queue[c]))
                              ELSE Proc]
BY DEF SendSnapshot, SnapshotReal

LEMMA SnapshotType ==
  ASSUME TypeOK, NEW c \in Client, SendSnapshot(c)
  PROVE  TypeOK'
<1>1. view' \in [Client -> SUBSET Proc]
  BY SnapshotEffect DEF TypeOK, SnapshotReal
<1>2. stale' \in [Client -> SUBSET Proc]
  <2>1. /\ unsent \union (stale[c] \intersect ProcsOf(queue[c])) \in SUBSET Proc
        /\ Proc \in SUBSET Proc
    BY DEF TypeOK
  <2>2. PICK s \in SUBSET Proc : stale' = [stale EXCEPT ![c] = s]
    BY <2>1, SnapshotEffect
  <2> QED BY <2>2 DEF TypeOK
<1>3. ws' \in [Client -> {"off", "waiting", "ready", "batching"}]
  BY SnapshotEffect DEF TypeOK
<1> QED BY <1>1, <1>2, <1>3, SnapshotEffect DEF TypeOK, server

(* What the batching loop changes.                                         *)
LEMMA ReceiveEventsEffect ==
  ASSUME TypeOK, NEW c \in Client, ReceiveEvents(c)
  PROVE  /\ ws[c] \in {"ready", "batching"}
         /\ UNCHANGED <<server, unsent, ticks, side>>
         /\ \/ /\ Len(Taken(c)) < MaxEventBatch /\ Rest(c) # <<>>
               /\ ws' = [ws EXCEPT ![c] = "batching"]
               /\ batch' = [batch EXCEPT ![c] = Taken(c)]
               /\ queue' = [queue EXCEPT ![c] = Tail(Rest(c))]
               /\ UNCHANGED <<view, stale>>
            \/ /\ ws' = [ws EXCEPT ![c] = "ready"]
               /\ batch' = [batch EXCEPT ![c] = <<>>]
               /\ queue' = [queue EXCEPT ![c] = Rest(c)]
               /\ \E n \in Cuts(Taken(c)) : ApplyFrame(c, Taken(c), n, Rest(c))
BY DEF ReceiveEvents, Taken, Rest, TypeOK

(* A frame cut short is still a frame: what was applied and what was not.  *)
LEMMA FrameSplits ==
  ASSUME NEW t \in Seq(Item), NEW n \in Cuts(t)
  PROVE  /\ SubSeq(t, 1, n) \in Seq(Item) /\ SubSeq(t, n + 1, Len(t)) \in Seq(Item)
         /\ t = SubSeq(t, 1, n) \o SubSeq(t, n + 1, Len(t))
<1>1. n \in 0..Len(t)
  BY DEF Cuts
<1> QED BY <1>1, SplitAt

LEMMA ApplyFrameType ==
  ASSUME TypeOK, NEW c \in Client, NEW t \in Seq(Item), NEW n \in Cuts(t), NEW r,
         ApplyFrame(c, t, n, r)
  PROVE  view' \in [Client -> SUBSET Proc] /\ stale' \in [Client -> SUBSET Proc]
<1>1. SubSeq(t, 1, n) \in Seq(Item) /\ SubSeq(t, n + 1, Len(t)) \in Seq(Item)
  BY FrameSplits
<1>2. /\ Applied(view[c], SubSeq(t, 1, n)) \in SUBSET Proc
      /\ ProcsOf(SubSeq(t, n + 1, Len(t))) \in SUBSET Proc
  BY <1>1, AppliedType, ProcsType DEF TypeOK
<1> QED BY <1>2 DEF ApplyFrame, TypeOK

LEMMA ReceiveEventsType ==
  ASSUME TypeOK, NEW c \in Client, ReceiveEvents(c)
  PROVE  TypeOK'
<1>1. /\ Taken(c) \in Seq(Item) /\ Rest(c) \in Seq(Item)
      /\ Len(Rest(c)) <= Len(queue[c])
      /\ Len(Taken(c)) < MaxEventBatch /\ Rest(c) # <<>> => IsTyped(Head(Rest(c)))
  BY ReceiveSplits
<1>2. Len(queue[c]) <= QueueSize /\ Len(queue[c]) \in Nat /\ Len(Rest(c)) \in Nat
  BY <1>1, ItemTypes DEF TypeOK
<1>3. UNCHANGED <<server, unsent, ticks, side>>
  BY ReceiveEventsEffect
<1>4. ws' \in [Client -> {"off", "waiting", "ready", "batching"}]
  BY ReceiveEventsEffect DEF TypeOK
<1>5. queue' \in [Client -> Seq(Item)] /\ \A d \in Client : Len(queue'[d]) <= QueueSize
  <2>1. CASE queue' = [queue EXCEPT ![c] = Rest(c)]
    BY <1>1, <1>2, <2>1, ItemTypes, Sizes DEF TypeOK
  <2>2. CASE /\ queue' = [queue EXCEPT ![c] = Tail(Rest(c))] /\ Rest(c) # <<>>
             /\ Len(Taken(c)) < MaxEventBatch
    <3>1. Tail(Rest(c)) \in Seq(Item) /\ Len(Tail(Rest(c))) < Len(Rest(c))
      BY <1>1, <2>2, TypedHead
    <3>2. Len(Tail(Rest(c))) <= QueueSize
      BY <1>1, <1>2, <3>1, Sizes
    <3> QED BY <2>2, <3>1, <3>2, ItemTypes DEF TypeOK
  <2> QED BY <2>1, <2>2, ReceiveEventsEffect
<1>6. batch' \in [Client -> Seq(Item)] /\ \A d \in Client : Len(batch'[d]) < MaxEventBatch
  <2>1. CASE batch' = [batch EXCEPT ![c] = <<>>]
    BY <2>1, ItemTypes, Sizes DEF TypeOK
  <2>2. CASE batch' = [batch EXCEPT ![c] = Taken(c)] /\ Len(Taken(c)) < MaxEventBatch
    BY <1>1, <2>2, ItemTypes DEF TypeOK
  <2> QED BY <2>1, <2>2, ReceiveEventsEffect
<1>7. view' \in [Client -> SUBSET Proc] /\ stale' \in [Client -> SUBSET Proc]
  <2>1. CASE UNCHANGED <<view, stale>>
    BY <2>1 DEF TypeOK
  <2>2. CASE \E n \in Cuts(Taken(c)) : ApplyFrame(c, Taken(c), n, Rest(c))
    BY <1>1, <2>2, ApplyFrameType
  <2> QED BY <2>1, <2>2, ReceiveEventsEffect
<1> QED BY <1>3, <1>4, <1>5, <1>6, <1>7, EventsAreItems DEF TypeOK, server

(* The other loops, and the semantic engine, publish no event of the diff. *)
LEMMA SideType ==
  /\ \A s \in SideCalls : s \in Seq(Side) /\ s \in Seq(Item)
  /\ \A s \in SemanticRows : s \in Seq(Side) /\ s \in Seq(Item)
  /\ \A s \in {<<>>, <<Quiet>>} : s \in Seq(Side) /\ s \in Seq(Item)
<1>1. Message \in Side /\ Row \in Side /\ Quiet \in Side
  BY DEF Side
<1>2. /\ <<Message>> \in Seq(Side) /\ <<Message, Row>> \in Seq(Side)
      /\ <<Row>> \in Seq(Side) /\ <<Quiet>> \in Seq(Side) /\ <<>> \in Seq(Side)
  BY <1>1
<1> QED BY <1>2, EventsAreItems DEF SideCalls, SemanticRows

LEMMA NothingLost == <<>> \in Seq(Item) /\ ProcsOf(<<>>) = {}
<1>1. <<>> \in Seq(Item)
  OBVIOUS
<1>2. \A x : x \notin ProcsOf(<<>>)
  BY <1>1, ProcsSpoken, SilentEmpty
<1> QED BY <1>1, <1>2

(* What the end of a tick puts into the queues: nothing, while its events  *)
(* are forgone, or a list that says of a process what its events say.      *)
LEMMA FinishPuts ==
  ASSUME TypeOK, FinishTick
  PROVE  \E s \in Seq(Item), lost \in Seq(Item) :
           /\ Enqueue(s, lost)
           /\ \/ s = <<>> /\ lost = events
              \/ \A x : /\ Silent(s, x) <=> Silent(events, x)
                        /\ \A kind : Says(s, x, kind) <=> Says(events, x, kind)
<1>1. PICK rows \in SemanticRows, quiet \in {<<>>, <<Quiet>>} :
        IF bench THEN Enqueue(<<>>, events) ELSE Enqueue(rows \o events \o quiet, <<>>)
  BY DEF FinishTick
<1>2. /\ rows \in Seq(Side) /\ quiet \in Seq(Side)
      /\ rows \in Seq(Item) /\ quiet \in Seq(Item) /\ events \in Seq(Item)
  BY SideType, EventItems
<1>3. rows \o events \o quiet \in Seq(Item)
  BY <1>2
<1>4. ASSUME NEW x
      PROVE  /\ Silent(rows \o events \o quiet, x) <=> Silent(events, x)
             /\ \A kind : Says(rows \o events \o quiet, x, kind) <=> Says(events, x, kind)
  <2>1. Silent(rows, x) /\ Silent(quiet, x)
    BY <1>2, SideIsSilent
  <2>2. \A kind : ~Says(rows, x, kind) /\ ~Says(quiet, x, kind)
    BY <1>2, <2>1, SaysOneThing
  <2> QED BY <1>2, <2>1, <2>2, ThreeSay
<1>5. CASE bench
  BY <1>1, <1>2, <1>5, NothingLost
<1>6. CASE ~bench
  BY <1>1, <1>3, <1>4, <1>6, NothingLost
<1> QED BY <1>5, <1>6

(* Every step keeps the types.                                             *)
LEMMA StepType == IInv /\ [Next]_vars => TypeOK'
<1> SUFFICES ASSUME IInv, [Next]_vars PROVE TypeOK'
  OBVIOUS
<1>0. TypeOK
  BY DEF IInv
<1>1. ASSUME NEW new \in SUBSET Proc, NEW opened \in SeqOf(new, MaxOpened),
             DiffTick(new, opened)
      PROVE  TypeOK'
  <2>1. events' \in Seq(Event)
    <3>1. CASE prev = NoTopology
      <4>1. events' = <<>>
        BY <1>1, <3>1 DEF DiffTick
      <4> QED BY <4>1
    <3>2. CASE prev # NoTopology
      <4>1. prev \in SUBSET Proc /\ events' = Diff(prev, new, opened)
        BY <1>0, <1>1, <3>2 DEF DiffTick, TypeOK
      <4> QED BY <4>1, DiffSpeaks
    <3> QED BY <3>1, <3>2
  <2>2. ticks' \in 0..MaxTicks
    BY <1>0, <1>1, Sizes DEF DiffTick, TypeOK
  <2> QED BY <1>0, <1>1, <2>1, <2>2 DEF DiffTick, TypeOK
<1>2. CASE FinishTick
  <2>1. /\ queue' \in [Client -> Seq(Event \union Side)]
        /\ \A c \in Client : Len(queue'[c]) <= QueueSize
        /\ stale' \in [Client -> SUBSET Proc]
    BY <1>0, <1>2, FinishPuts, EnqueueType
  <2>2. /\ prev' = prev /\ topology' = prev /\ tick' = "idle" /\ events' = <<>>
        /\ unsent' = {} /\ UNCHANGED <<bench, ws, batch, view, ticks, side>>
    BY <1>2 DEF FinishTick
  <2>3. events' \in Seq(Event)
    BY <2>2
  <2> QED BY <1>0, <2>1, <2>2, <2>3 DEF TypeOK
<1>3. CASE FailTick
  <2>1. /\ queue' \in [Client -> Seq(Event \union Side)]
        /\ \A c \in Client : Len(queue'[c]) <= QueueSize
        /\ stale' \in [Client -> SUBSET Proc]
    <3>1. PICK rows \in SemanticRows : Enqueue(rows, events)
      BY <1>3 DEF FailTick
    <3> QED BY <1>0, <3>1, EnqueueType, EventItems, SideType
  <2>2. ProcsOf(events) \subseteq Proc
    BY <1>0, EventItems, ProcsType
  <2>3. events' = <<>> /\ events' \in Seq(Event)
    BY <1>3 DEF FailTick
  <2>4. unsent' \in SUBSET Proc
    BY <1>0, <1>3, <2>2 DEF FailTick, TypeOK
  <2>5. tick' = "idle" /\ UNCHANGED <<prev, topology, bench, ws, batch, view, ticks, side>>
    BY <1>3 DEF FailTick
  <2> QED BY <1>0, <2>1, <2>3, <2>4, <2>5 DEF TypeOK
<1>4. CASE PublishSide
  <2>1. PICK s \in SideCalls : Enqueue(s, <<>>)
    BY <1>4 DEF PublishSide
  <2>2. /\ queue' \in [Client -> Seq(Event \union Side)]
        /\ \A c \in Client : Len(queue'[c]) <= QueueSize
        /\ stale' \in [Client -> SUBSET Proc]
    BY <1>0, <2>1, EnqueueType, SideType, NothingLost
  <2>3. side' \in 0..MaxSide
    BY <1>0, <1>4, Sizes DEF PublishSide, TypeOK
  <2>4. UNCHANGED <<server, ws, batch, view, unsent, ticks>>
    BY <1>4 DEF PublishSide
  <2> QED BY <1>0, <2>2, <2>3, <2>4 DEF TypeOK, server
<1>5. CASE SwitchBenchmark
  BY <1>0, <1>5 DEF SwitchBenchmark, TypeOK
<1>6. ASSUME NEW c \in Client, Connect(c) \/ Snapshot(c) \/ SnapshotTimeout(c) PROVE TypeOK'
  BY <1>0, <1>6, SnapshotType DEF Connect, Snapshot, SnapshotTimeout
<1>7. ASSUME NEW c \in Client, ConnectEarly(c) PROVE TypeOK'
  BY <1>0, <1>7 DEF ConnectEarly, TypeOK, server
<1>8. ASSUME NEW c \in Client, ReceiveTyped(c) PROVE TypeOK'
  <2>1. /\ queue[c] # <<>> /\ IsTyped(Head(queue[c]))
        /\ queue' = [queue EXCEPT ![c] = Tail(queue[c])]
        /\ UNCHANGED <<server, ws, batch, view, unsent, stale, ticks, side>>
    BY <1>8 DEF ReceiveTyped
  <2>2. Tail(queue[c]) \in Seq(Item) /\ Len(Tail(queue[c])) < Len(queue[c])
    BY <1>0, <2>1, TypedHead, ItemTypes
  <2>3. Len(Tail(queue[c])) <= QueueSize
    <3>1. Len(queue[c]) <= QueueSize /\ Len(queue[c]) \in Nat /\ Len(Tail(queue[c])) \in Nat
      BY <1>0, <2>2, ItemTypes DEF TypeOK
    <3> QED BY <2>2, <3>1, Sizes
  <2>4. queue' \in [Client -> Seq(Item)] /\ \A d \in Client : Len(queue'[d]) <= QueueSize
    BY <1>0, <2>1, <2>2, <2>3, ItemTypes DEF TypeOK
  <2> QED BY <1>0, <2>1, <2>4, EventsAreItems DEF TypeOK, server
<1>9. ASSUME NEW c \in Client, ReceiveEvents(c) PROVE TypeOK'
  BY <1>0, <1>9, ReceiveEventsType
<1>10. ASSUME NEW c \in Client, Disconnect(c) PROVE TypeOK'
  <2>1. /\ ws' = [ws EXCEPT ![c] = "off"]
        /\ queue' = [queue EXCEPT ![c] = <<>>] /\ batch' = [batch EXCEPT ![c] = <<>>]
        /\ view' = [view EXCEPT ![c] = {}] /\ stale' = [stale EXCEPT ![c] = {}]
        /\ UNCHANGED <<server, unsent, ticks, side>>
    BY <1>10 DEF Disconnect
  <2>2. queue' \in [Client -> Seq(Item)] /\ \A d \in Client : Len(queue'[d]) <= QueueSize
    BY <1>0, <2>1, ItemTypes, Sizes DEF TypeOK
  <2>3. batch' \in [Client -> Seq(Item)] /\ \A d \in Client : Len(batch'[d]) < MaxEventBatch
    BY <1>0, <2>1, ItemTypes, Sizes DEF TypeOK
  <2>4. /\ ws' \in [Client -> {"off", "waiting", "ready", "batching"}]
        /\ view' \in [Client -> SUBSET Proc] /\ stale' \in [Client -> SUBSET Proc]
    BY <1>0, <2>1 DEF TypeOK
  <2> QED BY <1>0, <2>1, <2>2, <2>3, <2>4, EventsAreItems DEF TypeOK, server
<1>11. CASE UNCHANGED vars
  BY <1>0, <1>11 DEF vars, server, history, TypeOK
<1> QED
  BY <1>1, <1>2, <1>3, <1>4, <1>5, <1>6, <1>7, <1>8, <1>9, <1>10, <1>11 DEF Next, Endpoint

-----------------------------------------------------------------------------
(* An action that leaves the server's topologies and a connection alone    *)
(* leaves alone what is known of them.                                     *)
LEMMA ServerKept ==
  ASSUME EventsTell, TopologyLags, UNCHANGED <<prev, topology, events, unsent>>
  PROVE  EventsTell' /\ TopologyLags'
BY DEF EventsTell, TopologyLags

LEMMA ClientKept ==
  ASSUME NEW d \in Client, QueueTells(d), Delivers(d), ClientSame(d),
         UNCHANGED <<prev, topology, events, unsent>>
  PROVE  QueueTells(d)' /\ Delivers(d)'
BY DEF QueueTells, Delivers, Pending, Streaming, ClientSame

(* What an action of the endpoint of c has to keep.                        *)
LEMMA EndpointInv ==
  ASSUME IInv, TypeOK', NEW c \in Client, UNCHANGED <<server, unsent>>,
         \A d \in Client \ {c} : ClientSame(d),
         ws'[c] = "off" => queue'[c] = <<>>,
         ws'[c] # "batching" => batch'[c] = <<>>,
         prev = NoTopology /\ ws'[c] \in {"ready", "batching"} => Proc \subseteq stale'[c],
         QueueTells(c)', Delivers(c)'
  PROVE  IInv'
<1>1. UNCHANGED <<prev, topology, tick, events, unsent>>
  BY DEF server
<1>2. EventsTell' /\ TopologyLags'
  BY <1>1, ServerKept DEF IInv
<1>3. \A d \in Client : QueueTells(d)' /\ Delivers(d)'
  BY <1>1, ClientKept DEF IInv
<1>4. Phases'
  <2>1. ASSUME NEW d \in Client
        PROVE  /\ ws'[d] = "off" => queue'[d] = <<>>
               /\ ws'[d] # "batching" => batch'[d] = <<>>
               /\ prev = NoTopology /\ ws'[d] \in {"ready", "batching"}
                    => Proc \subseteq stale'[d]
    <3>1. CASE d = c
      BY <3>1
    <3>2. CASE d # c
      BY <3>2 DEF IInv, Phases, Subscribed, Streaming, ClientSame
    <3> QED BY <3>1, <3>2
  <2> QED BY <1>1, <2>1 DEF IInv, Phases, Subscribed, Streaming
<1> QED BY <1>2, <1>3, <1>4 DEF IInv

-----------------------------------------------------------------------------
(* The events of a tick turn the old topology into the new one.            *)
LEMMA DiffGives ==
  ASSUME NEW old \in SUBSET Proc, NEW new \in SUBSET Proc,
         NEW opened \in SeqOf(new, MaxOpened), NEW x
  PROVE  x \in new <=> \/ Says(Diff(old, new, opened), x, "there")
                       \/ Silent(Diff(old, new, opened), x) /\ x \in old
<1>1. /\ Diff(old, new, opened) \in Seq(Item)
      /\ Says(Diff(old, new, opened), x, "there") => x \in new
      /\ Says(Diff(old, new, opened), x, "gone") => x \notin new
      /\ Silent(Diff(old, new, opened), x) => (x \in new <=> x \in old)
  BY DiffSpeaks, EventsAreItems
<1>2. \/ Silent(Diff(old, new, opened), x) \/ Says(Diff(old, new, opened), x, "there")
      \/ Says(Diff(old, new, opened), x, "gone")
  BY <1>1, SaysSomething
<1> QED BY <1>1, <1>2

(* A tick up to the detectors: what the diff says is now pending.          *)
LEMMA DiffInv ==
  ASSUME IInv, TypeOK', NEW new \in SUBSET Proc,
         NEW opened \in SeqOf(new, MaxOpened), DiffTick(new, opened)
  PROVE  IInv'
<1>1. /\ TypeOK /\ events = <<>> /\ new # NoTopology
      /\ prev' = new /\ tick' = "detecting"
      /\ UNCHANGED <<topology, queue, ws, batch, view, unsent, stale>>
  BY TopologyIsNone DEF IInv, Phases, DiffTick
<1>2. CASE prev = NoTopology
  <2>1. events' = <<>> /\ topology' = NoTopology
    BY <1>1, <1>2 DEF DiffTick, IInv, Phases
  <2>2. EventsTell' /\ TopologyLags'
    BY <2>1, SilentEmpty DEF EventsTell, TopologyLags
  <2>3. \A c \in Client : Streaming(c) => Proc \subseteq stale[c]
    BY <1>2 DEF IInv, Phases
  <2>4. ASSUME NEW c \in Client PROVE QueueTells(c)' /\ Delivers(c)'
    BY <1>1, <2>3 DEF IInv, QueueTells, Delivers, Streaming
  <2>5. Phases'
    BY <1>1 DEF IInv, Phases, Subscribed, Streaming
  <2> QED BY <2>2, <2>4, <2>5 DEF IInv
<1>3. CASE prev # NoTopology
  <2>1. prev \in SUBSET Proc /\ events' = Diff(prev, new, opened)
    BY <1>1, <1>3 DEF DiffTick, TypeOK
  <2>2. /\ events' \in Seq(Item)
        /\ \A x : Says(events', x, "there") => x \in new
        /\ \A x : Says(events', x, "gone") => x \notin new
    BY <2>1, DiffSpeaks, EventsAreItems
  <2>3. \A x : x \in new <=> Says(events', x, "there") \/ (Silent(events', x) /\ x \in prev)
    BY <2>1, DiffGives
  <2>4. EventsTell'
    BY <1>1, <2>2 DEF EventsTell
  <2>5. TopologyLags'
    <3> SUFFICES ASSUME topology # NoTopology, NEW x \in Proc \ unsent
                 PROVE  x \in new <=> \/ Says(events', x, "there")
                                      \/ Silent(events', x) /\ x \in topology
      BY <1>1 DEF TopologyLags
    <3>1. x \in prev <=> x \in topology
      BY <1>1, SilentEmpty DEF IInv, TopologyLags
    <3> QED BY <2>3, <3>1
  <2>6. ASSUME NEW c \in Client PROVE QueueTells(c)'
    BY <1>1 DEF IInv, QueueTells
  <2>7. ASSUME NEW c \in Client PROVE Delivers(c)'
    <3> SUFFICES ASSUME Streaming(c), NEW x \in Proc \ stale[c]
                 PROVE  x \in new <=> \/ Says(batch[c] \o queue[c] \o events', x, "there")
                                      \/ /\ Silent(batch[c] \o queue[c] \o events', x)
                                         /\ x \in view[c]
      BY <1>1 DEF Delivers, Pending, Streaming
    <3> DEFINE b == batch[c]
               q == queue[c]
    <3>1. b \in Seq(Item) /\ q \in Seq(Item) /\ events \in Seq(Item)
      BY <1>1, ItemTypes
    <3>2. x \in prev <=> \/ Says(b \o q \o events, x, "there")
                         \/ Silent(b \o q \o events, x) /\ x \in view[c]
      BY <1>3 DEF IInv, Delivers, Pending
    <3>3. Silent(events, x) /\ \A kind : ~Says(events, x, kind)
      BY <1>1, SilentEmpty
    <3> HIDE DEF b, q
    <3>4. x \in prev <=> \/ Says(q, x, "there")
                         \/ Silent(q, x) /\ Says(b, x, "there")
                         \/ Silent(q, x) /\ Silent(b, x) /\ x \in view[c]
      BY <3>1, <3>2, <3>3, ThreeSay
    <3>5. x \in new <=> \/ Says(b \o q \o events', x, "there")
                        \/ Silent(b \o q \o events', x) /\ x \in view[c]
      <4>1. /\ Silent(b \o q \o events', x) <=>
                 Silent(b, x) /\ Silent(q, x) /\ Silent(events', x)
            /\ Says(b \o q \o events', x, "there") <=>
                 \/ Says(events', x, "there")
                 \/ Silent(events', x) /\ Says(q, x, "there")
                 \/ Silent(events', x) /\ Silent(q, x) /\ Says(b, x, "there")
        BY <2>2, <3>1, ThreeSay
      <4> QED BY <2>3, <3>4, <4>1
    <3> QED BY <3>5 DEF b, q
  <2>8. Phases'
    BY <1>1, <1>3 DEF IInv, Phases, Subscribed, Streaming
  <2> QED BY <2>4, <2>5, <2>6, <2>7, <2>8 DEF IInv
<1> QED BY <1>2, <1>3

-----------------------------------------------------------------------------
(* A subscription after s was published, on a process it has not lost.     *)
LEMMA EnqueuedSays ==
  ASSUME TypeOK, NEW s \in Seq(Item), NEW lost \in Seq(Item), Enqueue(s, lost),
         NEW c \in Client, Subscribed(c), NEW x, x \notin stale'[c]
  PROVE  /\ queue'[c] \in Seq(Item)
         /\ Silent(queue'[c], x) <=> Silent(queue[c], x) /\ Silent(s, x)
         /\ ~Silent(s, x) => \A kind : Says(queue'[c], x, kind) <=> Says(s, x, kind)
         /\ Silent(s, x) => /\ x \notin stale[c]
                            /\ \A kind : Says(queue'[c], x, kind) <=> Says(queue[c], x, kind)
         /\ Silent(lost, x)
<1>1. queue[c] \in Seq(Item) /\ QueueSize \in Nat
  BY ItemTypes, Sizes
<1>2. /\ queue'[c] = Latest(queue[c] \o s, QueueSize)
      /\ stale'[c] = (stale[c] \ ProcsOf(Latest(s, QueueSize)))
                       \union (ProcsOf(Overflow(queue[c] \o s, QueueSize))
                                 \ ProcsOf(Latest(queue[c] \o s, QueueSize)))
                       \union ProcsOf(lost)
  BY DEF Enqueue
<1>3. /\ x \notin (stale[c] \ ProcsOf(Latest(s, QueueSize)))
                 \union (ProcsOf(Overflow(queue[c] \o s, QueueSize))
                           \ ProcsOf(Latest(queue[c] \o s, QueueSize)))
      /\ x \notin ProcsOf(lost)
  BY <1>2
<1>4. /\ Latest(queue[c] \o s, QueueSize) \in Seq(Item)
      /\ Silent(Latest(queue[c] \o s, QueueSize), x) <=> Silent(queue[c], x) /\ Silent(s, x)
      /\ ~Silent(s, x) => \A kind : Says(Latest(queue[c] \o s, QueueSize), x, kind)
                                      <=> Says(s, x, kind)
      /\ Silent(s, x) => /\ x \notin stale[c]
                         /\ \A kind : Says(Latest(queue[c] \o s, QueueSize), x, kind)
                                        <=> Says(queue[c], x, kind)
  BY <1>1, <1>3, EnqueueSays
<1>5. Silent(lost, x)
  BY <1>3, ProcsSpoken
<1> QED BY <1>2, <1>4, <1>5

(* In particular after items that say nothing.                             *)
LEMMA SilentlyEnqueued ==
  ASSUME TypeOK, NEW s \in Seq(Side), NEW lost \in Seq(Item), Enqueue(s, lost),
         NEW c \in Client, Subscribed(c), NEW x, x \notin stale'[c]
  PROVE  /\ x \notin stale[c] /\ queue'[c] \in Seq(Item) /\ Silent(lost, x)
         /\ Silent(queue'[c], x) <=> Silent(queue[c], x)
         /\ \A kind : Says(queue'[c], x, kind) <=> Says(queue[c], x, kind)
<1>1. s \in Seq(Item) /\ Silent(s, x)
  BY SideIsSilent, EventsAreItems
<1> QED BY <1>1, EnqueuedSays

(* The messages of the other loops.                                        *)
LEMMA SideInv ==
  ASSUME IInv, TypeOK', PublishSide
  PROVE  IInv'
<1>1. TypeOK /\ UNCHANGED <<server, ws, batch, view, unsent>>
  BY DEF IInv, PublishSide
<1>2. PICK s \in SideCalls : Enqueue(s, <<>>)
  BY DEF PublishSide
<1>3. s \in Seq(Side) /\ <<>> \in Seq(Item)
  BY SideType
<1>4. ASSUME NEW c \in Client, Subscribed(c), NEW x, x \notin stale'[c]
      PROVE  /\ x \notin stale[c] /\ queue'[c] \in Seq(Item)
             /\ Silent(queue'[c], x) <=> Silent(queue[c], x)
             /\ Says(queue'[c], x, "there") <=> Says(queue[c], x, "there")
  BY <1>1, <1>2, <1>3, <1>4, SilentlyEnqueued
<1>5. ASSUME NEW c \in Client, ~Subscribed(c) PROVE queue'[c] = <<>> /\ stale'[c] = stale[c]
  BY <1>2, <1>5 DEF Enqueue, IInv, Phases
<1>6. Phases'
  <2>1. ASSUME NEW c \in Client, prev = NoTopology, Streaming(c)
        PROVE  Proc \subseteq stale'[c]
    <3>1. Subscribed(c) /\ Proc \subseteq stale[c]
      BY <2>1 DEF IInv, Phases, Subscribed, Streaming
    <3> QED BY <1>4, <3>1
  <2> QED BY <1>1, <1>5, <2>1 DEF server, IInv, Phases, Subscribed, Streaming
<1>7. EventsTell' /\ TopologyLags'
  BY <1>1, ServerKept DEF IInv, server
<1>8. ASSUME NEW c \in Client PROVE QueueTells(c)'
  <2>1. CASE Subscribed(c)
    BY <1>1, <1>4, <2>1 DEF IInv, QueueTells, server
  <2>2. CASE ~Subscribed(c)
    BY <1>5, <2>2, SilentEmpty DEF QueueTells
  <2> QED BY <2>1, <2>2
<1>9. ASSUME NEW c \in Client PROVE Delivers(c)'
  <2> DEFINE b == batch[c]
             q == queue[c]
             r == queue'[c]
             e == events
  <2> SUFFICES ASSUME Streaming(c), prev # NoTopology, NEW x \in Proc \ stale'[c]
               PROVE  x \in prev <=> \/ Says(b \o r \o e, x, "there")
                                     \/ Silent(b \o r \o e, x) /\ x \in view[c]
    BY <1>1 DEF Delivers, Pending, Streaming, server
  <2>1. /\ x \notin stale[c] /\ r \in Seq(Item)
        /\ Silent(r, x) <=> Silent(q, x)
        /\ Says(r, x, "there") <=> Says(q, x, "there")
    BY <1>4 DEF Streaming, Subscribed
  <2>2. x \in prev <=> \/ Says(b \o q \o e, x, "there")
                       \/ Silent(b \o q \o e, x) /\ x \in view[c]
    BY <2>1 DEF IInv, Delivers, Pending
  <2>3. b \in Seq(Item) /\ q \in Seq(Item) /\ e \in Seq(Item)
    BY <1>1, ItemTypes
  <2> HIDE DEF b, q, r, e
  <2> QED BY <2>1, <2>2, <2>3, ThreeSay
<1> QED BY <1>6, <1>7, <1>8, <1>9 DEF IInv

-----------------------------------------------------------------------------
(* The end of a tick.  Of a process a client has not lost , the queue now  *)
(* says what `prev`, served from here on, holds.                           *)
LEMMA FinishSays ==
  ASSUME IInv, FinishTick, NEW c \in Client, Subscribed(c), NEW x \in Proc \ stale'[c]
  PROVE  \/ /\ ~Silent(queue'[c], x)
            /\ Says(queue'[c], x, "there") <=> x \in prev
            /\ ~Silent(events, x)
            /\ queue'[c] \in Seq(Item)
         \/ /\ Silent(events, x) /\ x \notin stale[c]
            /\ queue'[c] \in Seq(Item)
            /\ Silent(queue'[c], x) <=> Silent(queue[c], x)
            /\ \A kind : Says(queue'[c], x, kind) <=> Says(queue[c], x, kind)
<1>1. TypeOK /\ prev # NoTopology /\ events \in Seq(Item) /\ queue[c] \in Seq(Item)
  BY ItemTypes DEF IInv, FinishTick, Phases
<1>2. PICK s \in Seq(Item), lost \in Seq(Item) :
        /\ Enqueue(s, lost)
        /\ \/ s = <<>> /\ lost = events
           \/ \A y : /\ Silent(s, y) <=> Silent(events, y)
                     /\ \A kind : Says(s, y, kind) <=> Says(events, y, kind)
  BY <1>1, FinishPuts
<1>3. /\ queue'[c] \in Seq(Item)
      /\ Silent(queue'[c], x) <=> Silent(queue[c], x) /\ Silent(s, x)
      /\ ~Silent(s, x) => \A kind : Says(queue'[c], x, kind) <=> Says(s, x, kind)
      /\ Silent(s, x) => /\ x \notin stale[c]
                         /\ \A kind : Says(queue'[c], x, kind) <=> Says(queue[c], x, kind)
      /\ Silent(lost, x)
  BY <1>1, <1>2, EnqueuedSays
<1>4. CASE s = <<>> /\ lost = events
  <2>1. Silent(s, x)
    BY <1>4, SilentEmpty
  <2> QED BY <1>3, <1>4, <2>1
<1>5. CASE /\ Silent(s, x) <=> Silent(events, x)
           /\ \A kind : Says(s, x, kind) <=> Says(events, x, kind)
  <2>1. ~Silent(events, x) => (Says(events, x, "there") <=> x \in prev)
    <3>1. /\ Says(events, x, "there") => x \in prev
          /\ Says(events, x, "gone") => x \notin prev
      BY <1>1 DEF IInv, EventsTell
    <3>2. Silent(events, x) \/ Says(events, x, "there") \/ Says(events, x, "gone")
      BY <1>1, SaysSomething
    <3> QED BY <3>1, <3>2
  <2> QED BY <1>3, <1>5, <2>1
<1> QED BY <1>2, <1>4, <1>5

LEMMA FinishInv ==
  ASSUME IInv, TypeOK', FinishTick
  PROVE  IInv'
<1>1. /\ TypeOK /\ prev # NoTopology
      /\ tick' = "idle" /\ topology' = prev /\ events' = <<>> /\ unsent' = {}
      /\ UNCHANGED <<prev, ws, batch, view>>
  BY DEF IInv, Phases, FinishTick
<1>2. ASSUME NEW c \in Client, ~Subscribed(c) PROVE queue'[c] = <<>>
  <2>1. PICK s, lost : Enqueue(s, lost)
    BY <1>1, FinishPuts
  <2> QED BY <1>2, <2>1 DEF Enqueue, IInv, Phases
<1>3. Phases'
  BY <1>1, <1>2 DEF IInv, Phases, Subscribed, Streaming
<1>4. EventsTell' /\ TopologyLags'
  BY <1>1, SilentEmpty DEF EventsTell, TopologyLags
<1>5. ASSUME NEW c \in Client PROVE QueueTells(c)'
  <2>1. CASE ~Subscribed(c)
    BY <1>2, <2>1, SilentEmpty DEF QueueTells
  <2>2. CASE Subscribed(c)
    <3> SUFFICES ASSUME NEW x \in Proc \ stale'[c], ~Silent(queue'[c], x)
                 PROVE  Says(queue'[c], x, "there") <=> x \in prev
      BY <1>1 DEF QueueTells
    <3>1. CASE ~Silent(events, x)
      BY <2>2, <3>1, FinishSays
    <3>2. CASE Silent(events, x)
      <4>1. /\ x \notin stale[c] /\ ~Silent(queue[c], x)
            /\ Says(queue'[c], x, "there") <=> Says(queue[c], x, "there")
        BY <2>2, <3>2, FinishSays
      <4>2. /\ topology # NoTopology /\ x \notin unsent
            /\ Says(queue[c], x, "there") <=> x \in topology
        BY <4>1 DEF IInv, QueueTells
      <4>3. ~Says(events, x, "there")
        BY <1>1, <3>2, EventItems, SaysOneThing
      <4>4. x \in prev <=> x \in topology
        BY <3>2, <4>2, <4>3 DEF IInv, TopologyLags
      <4> QED BY <4>1, <4>2, <4>4
    <3> QED BY <3>1, <3>2
  <2> QED BY <2>1, <2>2
<1>6. ASSUME NEW c \in Client PROVE Delivers(c)'
  <2> DEFINE b == batch[c]
             q == queue[c]
             r == queue'[c]
             e == events
  <2> SUFFICES ASSUME Streaming(c), NEW x \in Proc \ stale'[c]
               PROVE  x \in prev <=> \/ Says(b \o r \o <<>>, x, "there")
                                     \/ Silent(b \o r \o <<>>, x) /\ x \in view[c]
    BY <1>1 DEF Delivers, Pending, Streaming
  <2>1. Subscribed(c)
    BY DEF Streaming, Subscribed
  <2>2. b \in Seq(Item) /\ q \in Seq(Item) /\ e \in Seq(Item) /\ r \in Seq(Item)
    BY <1>1, <2>1, ItemTypes, FinishSays
  <2>3. /\ Silent(b \o r \o <<>>, x) <=> Silent(b, x) /\ Silent(r, x)
        /\ Says(b \o r \o <<>>, x, "there") <=>
             Says(r, x, "there") \/ (Silent(r, x) /\ Says(b, x, "there"))
    <3>1. <<>> \in Seq(Item)
      OBVIOUS
    <3> QED BY <2>2, <3>1, ThreeSay, SilentEmpty
  <2>4. CASE ~Silent(e, x)
    BY <2>1, <2>2, <2>3, <2>4, FinishSays
  <2>5. CASE Silent(e, x)
    <3>1. /\ x \notin stale[c]
          /\ Silent(r, x) <=> Silent(q, x)
          /\ Says(r, x, "there") <=> Says(q, x, "there")
      BY <2>1, <2>5, FinishSays
    <3>2. x \in prev <=> \/ Says(b \o q \o e, x, "there")
                         \/ Silent(b \o q \o e, x) /\ x \in view[c]
      BY <1>1, <3>1 DEF IInv, Delivers, Pending
    <3>3. ~Says(e, x, "there")
      BY <2>2, <2>5, SaysOneThing
    <3> HIDE DEF b, q, r, e
    <3>4. x \in prev <=> \/ Says(q, x, "there")
                         \/ Silent(q, x) /\ Says(b, x, "there")
                         \/ Silent(q, x) /\ Silent(b, x) /\ x \in view[c]
      BY <2>2, <2>5, <3>2, <3>3, ThreeSay
    <3> QED BY <2>3, <3>1, <3>4
  <2> QED BY <2>4, <2>5
<1> QED BY <1>3, <1>4, <1>5, <1>6 DEF IInv

(* A tick that raises: what its events spoke of is stale for every client, *)
(* and no longer what a snapshot would serve.                              *)
LEMMA FailInv ==
  ASSUME IInv, TypeOK', FailTick
  PROVE  IInv'
<1>1. /\ TypeOK /\ prev # NoTopology
      /\ tick' = "idle" /\ events' = <<>> /\ unsent' = unsent \union ProcsOf(events)
      /\ UNCHANGED <<prev, topology, ws, batch, view>>
  BY DEF IInv, Phases, FailTick
<1>2. PICK rows \in SemanticRows : Enqueue(rows, events)
  BY DEF FailTick
<1>3. events \in Seq(Item) /\ rows \in Seq(Side)
  BY <1>1, EventItems, SideType
<1>4. ASSUME NEW c \in Client, Subscribed(c), NEW x, x \notin stale'[c]
      PROVE  /\ x \notin stale[c] /\ Silent(events, x) /\ queue'[c] \in Seq(Item)
             /\ Silent(queue'[c], x) <=> Silent(queue[c], x)
             /\ Says(queue'[c], x, "there") <=> Says(queue[c], x, "there")
  BY <1>1, <1>2, <1>3, <1>4, SilentlyEnqueued
<1>5. ASSUME NEW c \in Client, ~Subscribed(c) PROVE queue'[c] = <<>>
  BY <1>2, <1>5 DEF Enqueue, IInv, Phases
<1>6. Phases'
  BY <1>1, <1>5 DEF IInv, Phases, Subscribed, Streaming
<1>7. EventsTell'
  BY <1>1, SilentEmpty DEF EventsTell
<1>8. TopologyLags'
  <2> SUFFICES ASSUME topology # NoTopology, NEW x \in Proc \ unsent'
               PROVE  x \in prev <=> x \in topology
    BY <1>1, SilentEmpty DEF TopologyLags
  <2>1. x \notin unsent /\ Silent(events, x)
    BY <1>1, <1>3, ProcsSpoken
  <2>2. ~Says(events, x, "there")
    BY <1>3, <2>1, SaysOneThing
  <2> QED BY <2>1, <2>2 DEF IInv, TopologyLags
<1>9. ASSUME NEW c \in Client PROVE QueueTells(c)'
  <2>1. CASE ~Subscribed(c)
    BY <1>5, <2>1, SilentEmpty DEF QueueTells
  <2>2. CASE Subscribed(c)
    <3> SUFFICES ASSUME NEW x \in Proc \ stale'[c], ~Silent(queue'[c], x)
                 PROVE  /\ topology # NoTopology /\ x \notin unsent'
                        /\ Says(queue'[c], x, "there") <=> x \in topology
      BY <1>1 DEF QueueTells
    <3>1. /\ x \notin stale[c] /\ Silent(events, x) /\ ~Silent(queue[c], x)
          /\ Says(queue'[c], x, "there") <=> Says(queue[c], x, "there")
      BY <1>4, <2>2
    <3>2. x \in unsent' <=> x \in unsent
      BY <1>1, <1>3, <3>1, ProcsSpoken
    <3> QED BY <3>1, <3>2 DEF IInv, QueueTells
  <2> QED BY <2>1, <2>2
<1>10. ASSUME NEW c \in Client PROVE Delivers(c)'
  <2> DEFINE b == batch[c]
             q == queue[c]
             r == queue'[c]
             e == events
  <2> SUFFICES ASSUME Streaming(c), NEW x \in Proc \ stale'[c]
               PROVE  x \in prev <=> \/ Says(b \o r \o <<>>, x, "there")
                                     \/ Silent(b \o r \o <<>>, x) /\ x \in view[c]
    BY <1>1 DEF Delivers, Pending, Streaming
  <2>1. /\ x \notin stale[c] /\ Silent(e, x) /\ r \in Seq(Item)
        /\ Silent(r, x) <=> Silent(q, x)
        /\ Says(r, x, "there") <=> Says(q, x, "there")
    BY <1>4 DEF Streaming, Subscribed
  <2>2. x \in prev <=> \/ Says(b \o q \o e, x, "there")
                       \/ Silent(b \o q \o e, x) /\ x \in view[c]
    BY <1>1, <2>1 DEF IInv, Delivers, Pending
  <2>3. b \in Seq(Item) /\ q \in Seq(Item) /\ e \in Seq(Item) /\ <<>> \in Seq(Item)
    BY <1>1, ItemTypes
  <2>4. ~Says(e, x, "there") /\ Silent(<<>>, x) /\ ~Says(<<>>, x, "there")
    BY <2>1, <2>3, SaysOneThing, SilentEmpty
  <2> HIDE DEF b, q, r, e
  <2>5. /\ Says(b \o q \o e, x, "there") <=> Says(b \o r \o <<>>, x, "there")
        /\ Silent(b \o q \o e, x) <=> Silent(b \o r \o <<>>, x)
    BY <2>1, <2>3, <2>4, ThreeSay
  <2> QED BY <2>2, <2>5
<1> QED BY <1>6, <1>7, <1>8, <1>9, <1>10 DEF IInv

-----------------------------------------------------------------------------
(* A snapshot.  The batch is empty; what still waits in the queue repeats  *)
(* what the snapshot served, of processes that are not stale.              *)
LEMMA SnapshotInv ==
  ASSUME IInv, TypeOK', NEW c \in Client, SendSnapshot(c), ws[c] # "batching"
  PROVE  IInv'
<1> DEFINE q == queue[c]
           e == events
<1>1. /\ TypeOK /\ UNCHANGED <<server, queue, batch, unsent>>
      /\ ws'[c] = "ready" /\ batch[c] = <<>>
      /\ view'[c] = IF SnapshotReal THEN topology ELSE {}
      /\ stale'[c] = IF SnapshotReal THEN unsent \union (stale[c] \intersect ProcsOf(q))
                                     ELSE Proc
  <2>1. TypeOK /\ batch[c] = <<>>
    BY DEF IInv, Phases
  <2>2. /\ ws \in [Client -> {"off", "waiting", "ready", "batching"}]
        /\ view \in [Client -> SUBSET Proc] /\ stale \in [Client -> SUBSET Proc]
    BY <2>1 DEF TypeOK
  <2>3. /\ UNCHANGED <<server, queue, batch, unsent>>
        /\ ws' = [ws EXCEPT ![c] = "ready"]
        /\ view' = [view EXCEPT ![c] = IF SnapshotReal THEN topology ELSE {}]
        /\ stale' = [stale EXCEPT ![c] =
             IF SnapshotReal THEN unsent \union (stale[c] \intersect ProcsOf(q)) ELSE Proc]
    BY <2>1, SnapshotEffect
  <2> QED BY <2>1, <2>2, <2>3
<1>2. \A d \in Client \ {c} : ClientSame(d)
  BY <1>1, SnapshotEffect DEF ClientSame, TypeOK
<1>3. prev = NoTopology => Proc \subseteq stale'[c]
  BY <1>1 DEF IInv, Phases, SnapshotReal
<1>4. q \in Seq(Item) /\ e \in Seq(Item)
  BY <1>1, ItemTypes
<1>5. ASSUME NEW x \in Proc \ stale'[c]
      PROVE  /\ SnapshotReal /\ x \notin unsent
             /\ ~Silent(q, x) => (Says(q, x, "there") <=> x \in topology)
  <2>1. SnapshotReal /\ x \notin unsent /\ (x \notin stale[c] \/ x \notin ProcsOf(q))
    BY <1>1
  <2>2. ~Silent(q, x) => x \notin stale[c]
    BY <1>4, <2>1, ProcsSpoken
  <2> QED BY <2>1, <2>2 DEF IInv, QueueTells
<1>6. QueueTells(c)'
  BY <1>1, <1>5 DEF QueueTells, SnapshotReal, server
<1>7. Delivers(c)'
  <2> SUFFICES ASSUME prev # NoTopology, NEW x \in Proc \ stale'[c]
               PROVE  x \in prev <=> \/ Says(<<>> \o q \o e, x, "there")
                                     \/ Silent(<<>> \o q \o e, x) /\ x \in view'[c]
    BY <1>1 DEF Delivers, Pending, server
  <2>1. view'[c] = topology /\ topology # NoTopology
    BY <1>1, <1>5 DEF SnapshotReal
  <2>2. x \in prev <=> Says(e, x, "there") \/ (Silent(e, x) /\ x \in topology)
    BY <1>5, <2>1 DEF IInv, TopologyLags
  <2>3. /\ Silent(<<>> \o q \o e, x) <=> Silent(q, x) /\ Silent(e, x)
        /\ Says(<<>> \o q \o e, x, "there") <=>
             Says(e, x, "there") \/ (Silent(e, x) /\ Says(q, x, "there"))
    <3>1. <<>> \in Seq(Item)
      OBVIOUS
    <3> QED BY <1>4, <3>1, ThreeSay, SilentEmpty
  <2>4. Silent(q, x) => ~Says(q, x, "there")
    BY <1>4, SaysOneThing
  <2> QED BY <1>5, <2>1, <2>2, <2>3, <2>4
<1> QED BY <1>1, <1>2, <1>3, <1>6, <1>7, EndpointInv DEF IInv, Phases

(* A message that is sent by itself, ahead of what waits.                  *)
LEMMA TypedInv ==
  ASSUME IInv, TypeOK', NEW c \in Client, ReceiveTyped(c)
  PROVE  IInv'
<1> DEFINE b == batch[c]
           q == queue[c]
           r == queue'[c]
           e == events
<1>1. /\ TypeOK /\ q # <<>> /\ IsTyped(Head(q)) /\ r = Tail(q)
      /\ queue' = [queue EXCEPT ![c] = Tail(q)]
      /\ UNCHANGED <<server, ws, batch, view, unsent, stale>>
  BY DEF IInv, ReceiveTyped, TypeOK
<1>2. b \in Seq(Item) /\ q \in Seq(Item) /\ e \in Seq(Item)
  BY <1>1, ItemTypes
<1>3. /\ r \in Seq(Item)
      /\ \A x : Silent(q, x) <=> Silent(r, x)
      /\ \A x, kind : Says(q, x, kind) <=> Says(r, x, kind)
  BY <1>1, <1>2, TypedHead
<1>4. \A d \in Client \ {c} : ClientSame(d)
  BY <1>1 DEF ClientSame
<1>5. QueueTells(c)'
  BY <1>1, <1>3 DEF IInv, QueueTells, server
<1>6. Delivers(c)'
  <2> SUFFICES ASSUME Streaming(c), prev # NoTopology, NEW x \in Proc \ stale[c]
               PROVE  x \in prev <=> \/ Says(b \o r \o e, x, "there")
                                     \/ Silent(b \o r \o e, x) /\ x \in view[c]
    BY <1>1 DEF Delivers, Pending, Streaming, server
  <2>1. x \in prev <=> \/ Says(b \o q \o e, x, "there")
                       \/ Silent(b \o q \o e, x) /\ x \in view[c]
    BY DEF IInv, Delivers, Pending
  <2>2. /\ Silent(q, x) <=> Silent(r, x)
        /\ \A kind : Says(q, x, kind) <=> Says(r, x, kind)
    BY <1>3
  <2> HIDE DEF b, q, r, e
  <2> QED BY <1>2, <1>3, <2>1, <2>2, ThreeSay
<1>7. ws'[c] = "ready" /\ batch'[c] = <<>> /\ (prev = NoTopology => Proc \subseteq stale'[c])
  BY <1>1 DEF ReceiveTyped, IInv, Phases, Streaming
<1> QED BY <1>1, <1>4, <1>5, <1>6, <1>7, EndpointInv DEF server

(* The batching loop: what it takes from the queue it adds to the batch,   *)
(* or applies behind the batch; a typed item it passes on says nothing.    *)
LEMMA ReceiveInv ==
  ASSUME IInv, TypeOK', NEW c \in Client, ReceiveEvents(c)
  PROVE  IInv'
<1> DEFINE b == batch[c]
           q == queue[c]
           e == events
           t == Taken(c)
           r == Rest(c)
<1>1. /\ TypeOK /\ ws[c] \in {"ready", "batching"}
      /\ UNCHANGED <<server, unsent, ticks, side>>
      /\ \A d \in Client \ {c} : ClientSame(d)
      /\ \/ /\ Len(t) < MaxEventBatch /\ r # <<>>
            /\ ws'[c] = "batching" /\ batch'[c] = t /\ queue'[c] = Tail(r)
            /\ view'[c] = view[c] /\ stale'[c] = stale[c]
         \/ /\ ws'[c] = "ready" /\ batch'[c] = <<>> /\ queue'[c] = r
            /\ \E n \in Cuts(t) :
                 /\ view'[c] = Applied(view[c], SubSeq(t, 1, n))
                 /\ stale'[c] = stale[c] \union (ProcsOf(SubSeq(t, n + 1, Len(t))) \ ProcsOf(r))
  <2>1. TypeOK
    BY DEF IInv
  <2>2. /\ ws \in [Client -> {"off", "waiting", "ready", "batching"}]
        /\ queue \in [Client -> Seq(Event \union Side)]
        /\ batch \in [Client -> Seq(Event \union Side)]
        /\ view \in [Client -> SUBSET Proc] /\ stale \in [Client -> SUBSET Proc]
    BY <2>1, ReceiveEventsEffect DEF TypeOK
  <2>3. /\ ws[c] \in {"ready", "batching"}
        /\ UNCHANGED <<server, unsent, ticks, side>>
    BY <2>1, ReceiveEventsEffect
  <2>4. CASE /\ Len(t) < MaxEventBatch /\ r # <<>>
             /\ ws' = [ws EXCEPT ![c] = "batching"]
             /\ batch' = [batch EXCEPT ![c] = t]
             /\ queue' = [queue EXCEPT ![c] = Tail(r)]
             /\ UNCHANGED <<view, stale>>
    BY <2>1, <2>2, <2>3, <2>4 DEF ClientSame
  <2>5. CASE /\ ws' = [ws EXCEPT ![c] = "ready"]
             /\ batch' = [batch EXCEPT ![c] = <<>>]
             /\ queue' = [queue EXCEPT ![c] = r]
             /\ \E n \in Cuts(t) : ApplyFrame(c, t, n, r)
    <3>1. PICK n \in Cuts(t) : ApplyFrame(c, t, n, r)
      BY <2>5
    <3>2. /\ view'[c] = Applied(view[c], SubSeq(t, 1, n))
          /\ stale'[c] = stale[c] \union (ProcsOf(SubSeq(t, n + 1, Len(t))) \ ProcsOf(r))
          /\ \A d \in Client \ {c} : view'[d] = view[d] /\ stale'[d] = stale[d]
      BY <2>2, <3>1 DEF ApplyFrame
    <3> HIDE DEF t, r
    <3>3. \A d \in Client \ {c} : ClientSame(d)
      BY <2>2, <2>5, <3>2 DEF ClientSame
    <3>4. ws'[c] = "ready" /\ batch'[c] = <<>> /\ queue'[c] = r
      BY <2>2, <2>5
    <3> QED BY <2>1, <2>3, <3>2, <3>3, <3>4
  <2> QED BY <2>1, <2>4, <2>5, ReceiveEventsEffect
<1>2. b \in Seq(Item) /\ q \in Seq(Item) /\ e \in Seq(Item)
  BY <1>1, ItemTypes
<1>3. t \in Seq(Item) /\ r \in Seq(Item)
  BY <1>1, ReceiveSplits
<1>4. PICK got \in Seq(Item) : q = got \o r /\ t = b \o got
  BY <1>1, ReceiveSplits
<1>5. Len(t) < MaxEventBatch /\ r # <<>> => IsTyped(Head(r))
  BY <1>1, ReceiveSplits
<1>6. stale[c] \subseteq stale'[c] /\ (prev = NoTopology => Proc \subseteq stale'[c])
  BY <1>1 DEF IInv, Phases, Streaming
<1>7. ASSUME NEW x
      PROVE  /\ ~Silent(r, x) => /\ ~Silent(q, x)
                                 /\ \A kind : Says(q, x, kind) <=> Says(r, x, kind)
             /\ Silent(q, x) <=> Silent(got, x) /\ Silent(r, x)
             /\ \A kind : Says(q, x, kind) <=>
                             Says(r, x, kind) \/ (Silent(r, x) /\ Says(got, x, kind))
             /\ Silent(t, x) <=> Silent(b, x) /\ Silent(got, x)
             /\ \A kind : Says(t, x, kind) <=>
                             Says(got, x, kind) \/ (Silent(got, x) /\ Says(b, x, kind))
  BY <1>2, <1>3, <1>4, SuffixSays, SilentConcat, SaysConcat
<1>8. ASSUME NEW x \in Proc \ stale[c], prev # NoTopology
      PROVE  x \in prev <=> \/ Says(b \o q \o e, x, "there")
                            \/ Silent(b \o q \o e, x) /\ x \in view[c]
  BY <1>1, <1>8 DEF IInv, Delivers, Pending, Streaming
<1>9. ASSUME NEW x \in Proc \ stale[c], ~Silent(r, x)
      PROVE  /\ topology # NoTopology /\ x \notin unsent
             /\ Says(r, x, "there") <=> x \in topology
  BY <1>7, <1>9 DEF IInv, QueueTells
<1>10. CASE /\ Len(t) < MaxEventBatch /\ r # <<>>
            /\ ws'[c] = "batching" /\ batch'[c] = t /\ queue'[c] = Tail(r)
            /\ view'[c] = view[c] /\ stale'[c] = stale[c]
  <2> DEFINE u == Tail(r)
  <2>1. /\ u \in Seq(Item)
        /\ \A x : Silent(r, x) <=> Silent(u, x)
        /\ \A x, kind : Says(r, x, kind) <=> Says(u, x, kind)
    BY <1>3, <1>5, <1>10, TypedHead
  <2>2. QueueTells(c)'
    BY <1>1, <1>9, <1>10, <2>1 DEF QueueTells, server
  <2>3. Delivers(c)'
    <3> SUFFICES ASSUME prev # NoTopology, NEW x \in Proc \ stale[c]
                 PROVE  x \in prev <=> \/ Says(t \o u \o e, x, "there")
                                       \/ Silent(t \o u \o e, x) /\ x \in view[c]
      BY <1>1, <1>10 DEF Delivers, Pending, server
    <3>1. x \in prev <=> \/ Says(b \o q \o e, x, "there")
                         \/ Silent(b \o q \o e, x) /\ x \in view[c]
      BY <1>8
    <3>2. /\ Silent(r, x) <=> Silent(u, x)
          /\ \A kind : Says(r, x, kind) <=> Says(u, x, kind)
      BY <2>1
    <3> HIDE DEF b, q, e, t, r, u
    <3>3. /\ Silent(b \o q \o e, x) <=> Silent(t \o u \o e, x)
          /\ Says(b \o q \o e, x, "there") <=> Says(t \o u \o e, x, "there")
      <4>1. /\ Silent(b \o q \o e, x) <=> Silent(b, x) /\ Silent(q, x) /\ Silent(e, x)
            /\ Says(b \o q \o e, x, "there") <=>
                 \/ Says(e, x, "there")
                 \/ Silent(e, x) /\ Says(q, x, "there")
                 \/ Silent(e, x) /\ Silent(q, x) /\ Says(b, x, "there")
        BY <1>2, ThreeSay
      <4>2. /\ Silent(t \o u \o e, x) <=> Silent(t, x) /\ Silent(u, x) /\ Silent(e, x)
            /\ Says(t \o u \o e, x, "there") <=>
                 \/ Says(e, x, "there")
                 \/ Silent(e, x) /\ Says(u, x, "there")
                 \/ Silent(e, x) /\ Silent(u, x) /\ Says(t, x, "there")
        BY <1>2, <1>3, <2>1, ThreeSay
      <4> QED BY <1>7, <3>2, <4>1, <4>2
    <3> QED BY <3>1, <3>3
  <2> QED BY <1>1, <1>6, <1>10, <2>2, <2>3, EndpointInv
<1>11. CASE /\ ws'[c] = "ready" /\ batch'[c] = <<>> /\ queue'[c] = r
            /\ \E n \in Cuts(t) :
                 /\ view'[c] = Applied(view[c], SubSeq(t, 1, n))
                 /\ stale'[c] = stale[c] \union (ProcsOf(SubSeq(t, n + 1, Len(t))) \ ProcsOf(r))
  <2>1. PICK n \in Cuts(t) :
          /\ view'[c] = Applied(view[c], SubSeq(t, 1, n))
          /\ stale'[c] = stale[c] \union (ProcsOf(SubSeq(t, n + 1, Len(t))) \ ProcsOf(r))
    BY <1>11
  <2> DEFINE kept == SubSeq(t, 1, n)
             out  == SubSeq(t, n + 1, Len(t))
  <2>2. kept \in Seq(Item) /\ out \in Seq(Item) /\ t = kept \o out
    BY <1>3, FrameSplits
  <2>3. QueueTells(c)'
    BY <1>1, <1>6, <1>9, <1>11 DEF QueueTells, server
  <2>4. Delivers(c)'
    <3> SUFFICES ASSUME prev # NoTopology, NEW x \in Proc \ stale'[c]
                 PROVE  x \in prev <=> \/ Says(<<>> \o r \o e, x, "there")
                                       \/ /\ Silent(<<>> \o r \o e, x)
                                          /\ x \in Applied(view[c], kept)
      BY <1>1, <1>11, <2>1 DEF Delivers, Pending, server
    <3>1. x \in prev <=> \/ Says(b \o q \o e, x, "there")
                         \/ Silent(b \o q \o e, x) /\ x \in view[c]
      BY <1>6, <1>8
    <3>2. Silent(out, x) \/ ~Silent(r, x)
      BY <1>3, <2>1, <2>2, ProcsSpoken
    <3>3. x \in Applied(view[c], kept) <=>
            Says(kept, x, "there") \/ (Silent(kept, x) /\ x \in view[c])
      BY <2>2, AppliedIsLastWord
    <3> HIDE DEF b, q, e, t, r, kept, out
    <3>4. /\ Silent(t, x) <=> Silent(kept, x) /\ Silent(out, x)
          /\ Says(t, x, "there") <=>
               Says(out, x, "there") \/ (Silent(out, x) /\ Says(kept, x, "there"))
      BY <2>2, SilentConcat, SaysConcat
    <3>5. Silent(out, x) => ~Says(out, x, "there")
      BY <2>2, SaysOneThing
    <3>6. /\ Silent(b \o q \o e, x) <=> Silent(b, x) /\ Silent(q, x) /\ Silent(e, x)
          /\ Says(b \o q \o e, x, "there") <=>
               \/ Says(e, x, "there")
               \/ Silent(e, x) /\ Says(q, x, "there")
               \/ Silent(e, x) /\ Silent(q, x) /\ Says(b, x, "there")
      BY <1>2, ThreeSay
    <3>7. /\ Silent(<<>> \o r \o e, x) <=> Silent(r, x) /\ Silent(e, x)
          /\ Says(<<>> \o r \o e, x, "there") <=>
               Says(e, x, "there") \/ (Silent(e, x) /\ Says(r, x, "there"))
      <4>1. <<>> \in Seq(Item)
        OBVIOUS
      <4> QED BY <1>2, <1>3, <4>1, ThreeSay, SilentEmpty
    <3>8. /\ Silent(q, x) <=> Silent(got, x) /\ Silent(r, x)
          /\ Says(q, x, "there") <=>
               Says(r, x, "there") \/ (Silent(r, x) /\ Says(got, x, "there"))
          /\ Silent(t, x) <=> Silent(b, x) /\ Silent(got, x)
          /\ Says(t, x, "there") <=>
               Says(got, x, "there") \/ (Silent(got, x) /\ Says(b, x, "there"))
          /\ ~Silent(r, x) => ~Silent(q, x) /\ (Says(q, x, "there") <=> Says(r, x, "there"))
      BY <1>7
    <3> QED BY <3>1, <3>2, <3>3, <3>4, <3>5, <3>6, <3>7, <3>8
  <2> QED BY <1>1, <1>6, <1>11, <2>3, <2>4, EndpointInv
<1> QED BY <1>1, <1>10, <1>11

-----------------------------------------------------------------------------
(* Every step keeps the invariant.                                         *)
LEMMA StepInv == IInv /\ [Next]_vars => IInv'
<1> SUFFICES ASSUME IInv, [Next]_vars PROVE IInv'
  OBVIOUS
<1>0. TypeOK /\ TypeOK'
  BY StepType DEF IInv
<1>1. ASSUME NEW new \in SUBSET Proc, NEW opened \in SeqOf(new, MaxOpened),
             DiffTick(new, opened)
      PROVE  IInv'
  BY <1>0, <1>1, DiffInv
<1>2. CASE FinishTick
  BY <1>0, <1>2, FinishInv
<1>3. CASE FailTick
  BY <1>0, <1>3, FailInv
<1>4. CASE PublishSide
  BY <1>0, <1>4, SideInv
<1>5. CASE SwitchBenchmark
  <2>1. /\ UNCHANGED <<prev, topology, tick, events, queue, ws, batch, view, unsent, stale>>
    BY <1>5 DEF SwitchBenchmark
  <2>2. EventsTell' /\ TopologyLags'
    BY <2>1, ServerKept DEF IInv
  <2>3. \A d \in Client : QueueTells(d)' /\ Delivers(d)'
    BY <2>1, ClientKept DEF IInv, ClientSame
  <2>4. Phases'
    BY <2>1 DEF IInv, Phases, Subscribed, Streaming
  <2> QED BY <1>0, <2>2, <2>3, <2>4 DEF IInv
<1>6. ASSUME NEW c \in Client, Connect(c) \/ Snapshot(c) \/ SnapshotTimeout(c) PROVE IInv'
  <2>1. SendSnapshot(c) /\ ws[c] # "batching"
    BY <1>6 DEF Connect, Snapshot, SnapshotTimeout
  <2> QED BY <1>0, <2>1, SnapshotInv
<1>7. ASSUME NEW c \in Client, ConnectEarly(c) PROVE IInv'
  <2>1. /\ ws'[c] = "waiting" /\ queue'[c] = queue[c] /\ batch'[c] = batch[c]
        /\ queue[c] = <<>> /\ batch[c] = <<>>
        /\ UNCHANGED <<server, unsent>> /\ \A d \in Client \ {c} : ClientSame(d)
    BY <1>0, <1>7 DEF ConnectEarly, IInv, Phases, TypeOK, Subscribed, ClientSame
  <2>2. QueueTells(c)'
    BY <2>1, SilentEmpty DEF QueueTells
  <2>3. Delivers(c)'
    BY <2>1 DEF Delivers, Streaming
  <2> QED BY <1>0, <2>1, <2>2, <2>3, EndpointInv
<1>8. ASSUME NEW c \in Client, ReceiveTyped(c) PROVE IInv'
  BY <1>0, <1>8, TypedInv
<1>9. ASSUME NEW c \in Client, ReceiveEvents(c) PROVE IInv'
  BY <1>0, <1>9, ReceiveInv
<1>10. ASSUME NEW c \in Client, Disconnect(c) PROVE IInv'
  <2>1. /\ ws'[c] = "off" /\ queue'[c] = <<>> /\ batch'[c] = <<>>
        /\ UNCHANGED <<server, unsent>> /\ \A d \in Client \ {c} : ClientSame(d)
    BY <1>0, <1>10 DEF Disconnect, TypeOK, ClientSame
  <2>2. QueueTells(c)'
    BY <2>1, SilentEmpty DEF QueueTells
  <2>3. Delivers(c)'
    BY <2>1 DEF Delivers, Streaming
  <2> QED BY <1>0, <2>1, <2>2, <2>3, EndpointInv
<1>11. CASE UNCHANGED vars
  BY <1>11 DEF vars, server, history, IInv, TypeOK, Phases, EventsTell, TopologyLags,
               QueueTells, Delivers, Pending, Subscribed, Streaming
<1> QED
  BY <1>1, <1>2, <1>3, <1>4, <1>5, <1>6, <1>7, <1>8, <1>9, <1>10, <1>11 DEF Next, Endpoint

-----------------------------------------------------------------------------
(* The invariant holds in every state.                                     *)
LEMMA Invariance == Spec => []IInv
BY InitInv, StepInv, PTL DEF Spec

(* Collector, subscriptions and endpoints keep to their types: no queue of *)
(* a subscription grows beyond queue_size, however slow its socket, and no *)
(* batch of the endpoint beyond max_event_batch.                           *)
THEOREM TypeCorrect == Spec => []TypeOK
<1>1. IInv => TypeOK
  BY DEF IInv
<1> QED BY <1>1, Invariance, PTL

(* Whatever the sizes of the queue and of the batch, and however ticks,    *)
(* failing ticks, messages of the other loops, switches of the benchmark   *)
(* and connections interleave: what a client shows, what waits for it and  *)
(* what the running tick found give the topology the diff engine holds,    *)
(* except for processes whose own latest event this client lost.           *)
THEOREM DamageTheorem == Spec => []DamageConfined
BY Invariance, Confined, PTL
=============================================================================
