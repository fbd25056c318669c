----------------------------- MODULE StreamProofs -----------------------------
(***************************************************************************)
(* The event stream, and the AI telemetry that is published into it.       *)
(*                                                                         *)
(* For every number of clients, queue size and batch length: the waiting   *)
(* items are always the newest window, EventStream implements LossyFeed,   *)
(* and the loops of publish() implement EventStream.                       *)
(*                                                                         *)
(* For any traces, spans, caps and lifetime: the buffer's runs and the     *)
(* client's nodes are lists without repetition that keep within their      *)
(* caps, no run is dropped while it is being reported, and what is drawn   *)
(* will expire.  That needs one fact more: the age the buffer keeps of an  *)
(* active run is the time since its last event.                            *)
(***************************************************************************)
EXTENDS EventStreamLoop, AiTelemetry, ListingLemmas, TLAPS

(* The inductive invariant: types, the window, and that a client outside   *)
(* the stream holds nothing.                                               *)
Window(c) ==
  /\ last[c] <= items
  /\ Len(queue[c]) = Least(QueueSize, items - last[c])
  /\ \A i \in 1..Len(queue[c]) : queue[c][i] = items - Len(queue[c]) + i

IInv == TypeOK /\ \A c \in subs : Window(c)

(* Latest returns a sequence of the n newest elements of s, or all of s.   *)
LEMMA LatestProperties ==
  ASSUME NEW S, NEW s \in Seq(S), NEW n \in Nat
  PROVE  /\ Latest(s, n) \in Seq(S)
         /\ Len(Latest(s, n)) = Least(n, Len(s))
         /\ \A i \in 1..Len(Latest(s, n)) :
              Latest(s, n)[i] = s[Len(s) - Len(Latest(s, n)) + i]
<1>1. Len(s) \in Nat
  OBVIOUS
<1> DEFINE k == Least(n, Len(s))
<1>2. k \in Nat /\ k <= Len(s)
  BY <1>1 DEF Least
<1>3. Latest(s, n) = SubSeq(s, Len(s) - k + 1, Len(s))
  BY DEF Latest
<1> HIDE DEF k
<1>4. Len(s) - (Len(s) - k + 1) + 1 = k
  BY <1>1, <1>2
<1>5. /\ SubSeq(s, Len(s) - k + 1, Len(s)) \in Seq(S)
      /\ Len(SubSeq(s, Len(s) - k + 1, Len(s))) = k
      /\ \A i \in 1..k : SubSeq(s, Len(s) - k + 1, Len(s))[i] = s[Len(s) - k + i]
  BY <1>1, <1>2, <1>4
<1> QED
  BY <1>3, <1>5 DEF k

(* Publishing n items to a queue that holds the newest window leaves it    *)
(* holding the newest window of what is published then.                    *)
LEMMA PublishKeepsWindow ==
  ASSUME IInv, NEW n \in Nat, NEW c \in subs, items' = items + n, last' = last,
         queue'[c] = Latest(queue[c] \o Batch(n), QueueSize)
  PROVE  queue'[c] \in Seq(Nat) /\ Window(c)'
<1> USE StreamAssumption
<1> DEFINE q == queue[c]
           s == q \o Batch(n)
<1>1. q \in Seq(Nat) /\ items \in Nat /\ last[c] \in Nat /\ Window(c)
  BY DEF IInv, TypeOK
<1>2. Batch(n) \in Seq(Nat) /\ Len(Batch(n)) = n
  BY <1>1 DEF Batch
<1>3. s \in Seq(Nat) /\ Len(s) = Len(q) + n
  BY <1>1, <1>2
<1>4. \A i \in 1..Len(s) : s[i] = items + n - Len(s) + i
  <2> SUFFICES ASSUME NEW i \in 1..Len(s)
               PROVE  s[i] = items + n - Len(s) + i
    OBVIOUS
  <2>0. Len(q) \in Nat /\ i \in Nat /\ i >= 1 /\ i <= Len(q) + n
    BY <1>1, <1>3
  <2>1. CASE i <= Len(q)
    <3>1. s[i] = q[i]
      BY <2>0, <2>1, <1>1, <1>2
    <3>2. q[i] = items - Len(q) + i
      <4>1. i \in 1..Len(q)
        BY <2>0, <2>1
      <4>2. \A j \in 1..Len(q) : q[j] = items - Len(q) + j
        BY <1>1 DEF Window
      <4> QED
        BY <4>1, <4>2
    <3> QED
      BY <3>1, <3>2, <2>0, <1>1, <1>3
  <2>2. CASE i > Len(q)
    <3>1. i - Len(q) \in 1..n
      BY <2>0, <2>2
    <3>2. s[i] = Batch(n)[i - Len(q)]
      BY <2>0, <2>2, <1>1, <1>2
    <3>3. Batch(n)[i - Len(q)] = items + (i - Len(q))
      BY <3>1 DEF Batch
    <3>4. PICK l \in Nat, m \in Nat : l = Len(q) /\ m = items /\ Len(s) = l + n
      BY <1>1, <1>3, <2>0
    <3>5. m + n - (l + n) + i = m + (i - l)
      BY <2>0, <3>4
    <3> QED
      BY <3>2, <3>3, <3>4, <3>5
  <2> QED
    BY <2>0, <2>1, <2>2
<1> HIDE DEF s
<1>5. /\ queue'[c] \in Seq(Nat)
      /\ Len(queue'[c]) = Least(QueueSize, Len(s))
      /\ \A i \in 1..Len(queue'[c]) :
           queue'[c][i] = s[Len(s) - Len(queue'[c]) + i]
  <2>1. queue'[c] = Latest(s, QueueSize)
    BY DEF s
  <2>2. QueueSize \in Nat
    OBVIOUS
  <2>3. /\ Latest(s, QueueSize) \in Seq(Nat)
        /\ Len(Latest(s, QueueSize)) = Least(QueueSize, Len(s))
        /\ \A i \in 1..Len(Latest(s, QueueSize)) :
             Latest(s, QueueSize)[i] = s[Len(s) - Len(Latest(s, QueueSize)) + i]
    BY <1>3, <2>2, LatestProperties
  <2> QED
    BY <2>1, <2>3
<1>6. Len(queue'[c]) = Least(QueueSize, items + n - last[c])
  <2>1. Len(q) = Least(QueueSize, items - last[c]) /\ last[c] <= items
    BY <1>1 DEF Window
  <2> QED
    BY <2>1, <1>1, <1>3, <1>5 DEF Least
<1>7. \A i \in 1..Len(queue'[c]) : queue'[c][i] = items + n - Len(queue'[c]) + i
  <2> SUFFICES ASSUME NEW i \in 1..Len(queue'[c])
               PROVE  queue'[c][i] = items + n - Len(queue'[c]) + i
    OBVIOUS
  <2>1. Len(queue'[c]) \in Nat /\ Len(queue'[c]) <= Len(s) /\ Len(s) \in Nat
    BY <1>3, <1>5 DEF Least
  <2>2. Len(s) - Len(queue'[c]) + i \in 1..Len(s)
    BY <2>1
  <2>3. queue'[c][i] = s[Len(s) - Len(queue'[c]) + i]
    BY <1>5
  <2>4. s[Len(s) - Len(queue'[c]) + i]
          = items + n - Len(s) + (Len(s) - Len(queue'[c]) + i)
    BY <2>2, <1>4
  <2> QED
    BY <2>1, <2>3, <2>4, <1>1
<1> QED
  BY <1>1, <1>5, <1>6, <1>7 DEF Window

LEMMA InitIInv == Init => IInv
  BY DEF Init, IInv, TypeOK

LEMMA StepIInv == IInv /\ [Next]_vars => IInv'
<1> SUFFICES ASSUME IInv, [Next]_vars
             PROVE  IInv'
  OBVIOUS
<1> USE StreamAssumption
<1>0. TypeOK /\ \A c \in subs : Window(c)
  BY DEF IInv
<1>1. ASSUME NEW c \in Client, Subscribe(c)
      PROVE  IInv'
  <2>1. TypeOK'
    BY <1>0, <1>1 DEF TypeOK, Subscribe
  <2>2. ASSUME NEW d \in subs'
        PROVE  Window(d)'
    <3>1. CASE d = c
      <4>1. queue'[c] = <<>> /\ last'[c] = items /\ items' = items /\ items \in Nat
        BY <1>0, <1>1 DEF TypeOK, Subscribe
      <4>2. Len(<<>>) = 0 /\ Least(QueueSize, items - items) = 0
        BY <4>1 DEF Least
      <4> QED
        BY <3>1, <4>1, <4>2 DEF Window
    <3>2. CASE d # c
      BY <1>0, <1>1, <2>2, <3>2 DEF TypeOK, Subscribe, Window
    <3> QED
      BY <3>1, <3>2
  <2> QED
    BY <2>1, <2>2 DEF IInv
<1>2. ASSUME NEW c \in Client, Unsubscribe(c)
      PROVE  IInv'
  <2>1. TypeOK'
    BY <1>0, <1>2 DEF TypeOK, Unsubscribe
  <2>2. ASSUME NEW d \in subs'
        PROVE  Window(d)'
    BY <1>0, <1>2, <2>2 DEF TypeOK, Unsubscribe, Window
  <2> QED
    BY <2>1, <2>2 DEF IInv
<1>3. ASSUME NEW c \in Client, Get(c)
      PROVE  IInv'
  <2>1. queue[c] \in Seq(Nat) /\ queue[c] # <<>> /\ Window(c)
    BY <1>0, <1>3 DEF Get, TypeOK
  <2>2. /\ Tail(queue[c]) \in Seq(Nat)
        /\ Len(Tail(queue[c])) = Len(queue[c]) - 1
        /\ Len(queue[c]) \in Nat \ {0}
        /\ \A i \in 1..Len(queue[c]) - 1 : Tail(queue[c])[i] = queue[c][i + 1]
        /\ Head(queue[c]) = queue[c][1]
    BY <2>1
  <2>3. Head(queue[c]) = items - Len(queue[c]) + 1 /\ Head(queue[c]) \in Nat
    BY <2>1, <2>2 DEF Window
  <2>4. TypeOK'
    BY <1>0, <1>3, <2>2, <2>3 DEF TypeOK, Get
  <2>5. Window(c)'
    <3>1. /\ queue'[c] = Tail(queue[c]) /\ last'[c] = Head(queue[c])
          /\ items' = items
      BY <1>0, <1>3 DEF TypeOK, Get
    <3>2. /\ items \in Nat /\ last[c] \in Nat /\ last[c] <= items
          /\ Len(queue[c]) = Least(QueueSize, items - last[c])
      BY <1>0, <2>1 DEF TypeOK, Window
    <3>3. last'[c] <= items'
      BY <2>2, <2>3, <3>1, <3>2
    <3>4. Len(queue'[c]) = Least(QueueSize, items' - last'[c])
      <4>1. Len(queue[c]) <= QueueSize
        BY <2>2, <3>2 DEF Least
      <4>2. items' - last'[c] = Len(queue[c]) - 1
        BY <2>2, <2>3, <3>1, <3>2
      <4>3. Len(queue'[c]) = Len(queue[c]) - 1
        BY <2>2, <3>1
      <4> QED
        BY <2>2, <4>1, <4>2, <4>3 DEF Least
    <3>5. ASSUME NEW i \in 1..Len(queue'[c])
          PROVE  queue'[c][i] = items' - Len(queue'[c]) + i
      <4>1. i \in 1..Len(queue[c]) - 1 /\ i + 1 \in 1..Len(queue[c])
        BY <2>2, <3>1
      <4>2. queue'[c][i] = queue[c][i + 1]
        BY <2>2, <3>1, <4>1
      <4>3. queue[c][i + 1] = items - Len(queue[c]) + (i + 1)
        BY <2>1, <4>1 DEF Window
      <4>4. Len(queue'[c]) = Len(queue[c]) - 1
        BY <2>2, <3>1
      <4>5. /\ items' = items /\ items \in Nat
            /\ Len(queue[c]) \in Nat /\ i \in Int
        BY <2>2, <3>1, <3>2, <4>1
      <4>6. PICK l \in Nat, m \in Nat : l = Len(queue[c]) /\ m = items
        BY <4>5
      <4>7. m - (l - 1) + i = m - l + (i + 1)
        BY <4>5
      <4> QED
        BY <4>2, <4>3, <4>4, <4>5, <4>6, <4>7
    <3> QED
      BY <3>3, <3>4, <3>5 DEF Window
  <2>6. ASSUME NEW d \in subs', d # c
        PROVE  Window(d)'
    BY <1>0, <1>3, <2>6 DEF TypeOK, Get, Window
  <2> QED
    BY <2>4, <2>5, <2>6 DEF IInv
<1>4. ASSUME NEW n \in 1..MaxBatch, Publish(n)
      PROVE  IInv'
  <2>1. ASSUME NEW c \in subs
        PROVE  queue'[c] \in Seq(Nat) /\ Window(c)'
    <3>1. n \in Nat /\ c \in Client
      BY <1>0 DEF TypeOK
    <3>2. /\ items' = items + n /\ last' = last
          /\ queue'[c] = Latest(queue[c] \o Batch(n), QueueSize)
      BY <1>4, <2>1, <3>1 DEF Publish
    <3> QED
      BY <3>1, <3>2, PublishKeepsWindow
  <2>2. TypeOK'
    <3>1. /\ subs' = subs /\ last' = last /\ items' = items + n
          /\ queue' = [c \in Client |-> queue'[c]]
      BY <1>4 DEF Publish
    <3>2. ASSUME NEW c \in Client
          PROVE  queue'[c] \in Seq(Nat)
      BY <1>0, <1>4, <2>1, <3>2 DEF Publish, TypeOK
    <3> QED
      BY <1>0, <3>1, <3>2 DEF TypeOK
  <2> QED
    BY <1>4, <2>1, <2>2 DEF Publish, IInv
<1>5. CASE UNCHANGED vars
  BY <1>0, <1>5 DEF vars, IInv, TypeOK, Window
<1> QED
  BY <1>1, <1>2, <1>3, <1>4, <1>5 DEF Next

(* The queues of the event stream are always well formed.                  *)
THEOREM TypeCorrect == Spec => []TypeOK
<1>1. IInv => TypeOK
  BY DEF IInv
<1> QED
  BY <1>1, InitIInv, StepIInv, PTL DEF Spec

(* publish() loses an item only to newer ones and never while a slot is    *)
(* free, for every queue size and any number of subscribers.               *)
THEOREM WindowTheorem == Spec => []QueueIsNewestWindow
<1>1. IInv => QueueIsNewestWindow
  BY DEF IInv, Window, QueueIsNewestWindow
<1> QED
  BY <1>1, InitIInv, StepIInv, PTL DEF Spec

(* Every step of the stream is a step of the lossy feed.                   *)
LEMMA StepFeed == IInv /\ [Next]_vars => [Feed!Next]_(Feed!vars)
<1> SUFFICES ASSUME IInv, Next
             PROVE  Feed!Next \/ UNCHANGED Feed!vars
  BY DEF vars, Feed!vars
<1> USE StreamAssumption
<1>0. TypeOK /\ \A c \in subs : Window(c)
  BY DEF IInv
<1>1. ASSUME NEW c \in Client, Subscribe(c)
      PROVE  Feed!Join(c)
  BY <1>1 DEF Subscribe, Feed!Join
<1>2. ASSUME NEW c \in Client, Unsubscribe(c)
      PROVE  Feed!Leave(c)
  BY <1>2 DEF Unsubscribe, Feed!Leave
<1>3. ASSUME NEW c \in Client, Get(c)
      PROVE  Feed!Deliver(c)
  <2>1. /\ queue[c] \in Seq(Nat) /\ queue[c] # <<>> /\ Window(c)
        /\ items \in Nat /\ last[c] \in Nat
    BY <1>0, <1>3 DEF Get, TypeOK
  <2>2. Len(queue[c]) \in Nat \ {0} /\ Head(queue[c]) = queue[c][1]
    BY <2>1
  <2>3. /\ Head(queue[c]) = items - Len(queue[c]) + 1
        /\ last[c] < items
        /\ Head(queue[c]) = Greatest(last[c], items - QueueSize) + 1
    BY <2>1, <2>2 DEF Window, Least, Greatest
  <2> QED
    BY <1>3, <2>3 DEF Get, Feed!Deliver, Feed!Greatest, Greatest
<1>4. ASSUME NEW n \in 1..MaxBatch, Publish(n)
      PROVE  Feed!Publish(n)
  BY <1>4 DEF Publish, Feed!Publish
<1> QED
  BY <1>1, <1>2, <1>3, <1>4 DEF Next, Feed!Next

(* Whatever the queue size and the number of subscribers, a subscriber of  *)
(* EventStream sees the lossy feed: in order, nothing twice, and a gap     *)
(* only when QueueSize newer items were waiting.                           *)
THEOREM StreamImplementsFeed == Spec => ImplementsLossyFeed
<1>1. Init => Feed!Init
  BY DEF Init, Feed!Init
<1> QED
  BY <1>1, InitIInv, StepIInv, StepFeed, PTL DEF Spec, ImplementsLossyFeed, Feed!Spec

-----------------------------------------------------------------------------
(* A queue that fits is its own newest part.                               *)
LEMMA FitsWhole ==
  ASSUME NEW S, NEW q \in Seq(S), Len(q) <= QueueSize
  PROVE  Latest(q, QueueSize) = q
<1> USE StreamAssumption
<1>1. /\ Latest(q, QueueSize) \in Seq(S) /\ Len(Latest(q, QueueSize)) = Len(q)
      /\ \A i \in 1..Len(q) : Latest(q, QueueSize)[i] = q[Len(q) - Len(q) + i]
  BY LatestProperties DEF Least
<1>2. \A i \in 1..Len(q) : Latest(q, QueueSize)[i] = q[i]
  BY <1>1
<1> QED BY <1>1, <1>2, SeqEqual

(* One put leaves the newest items of the queue with the event.            *)
LEMMA PutKeepsLatest ==
  ASSUME NEW S, NEW s \in Seq(S), NEW ev \in S
  PROVE  PutDroppingOldest(Latest(s, QueueSize), ev)
           = Latest(Append(s, ev), QueueSize)
<1> USE StreamAssumption
<1> DEFINE k == Least(QueueSize, Len(s))
           q == Latest(s, QueueSize)
           r == PutDroppingOldest(q, ev)
           t == Append(s, ev)
           w == Latest(t, QueueSize)
<1>1. /\ q \in Seq(S) /\ Len(q) = k
      /\ \A i \in 1..Len(q) : q[i] = s[Len(s) - Len(q) + i]
  BY LatestProperties
<1>2. t \in Seq(S) /\ Len(t) = Len(s) + 1 /\ t[Len(s) + 1] = ev
      /\ \A i \in 1..Len(s) : t[i] = s[i]
  OBVIOUS
<1>3. /\ w \in Seq(S) /\ Len(w) = Least(QueueSize, Len(t))
      /\ \A i \in 1..Len(w) : w[i] = t[Len(t) - Len(w) + i]
  BY <1>2, LatestProperties
<1>4. PICK n \in Nat : n = Len(s)
  OBVIOUS
<1> HIDE DEF q, t, w
<1>5. CASE n < QueueSize
  <2>1. Len(q) = n /\ Len(w) = n + 1
    BY <1>1, <1>2, <1>3, <1>4, <1>5 DEF Least
  <2>2. r = Append(q, ev)
    BY <2>1, <1>5 DEF PutDroppingOldest
  <2>3. r \in Seq(S) /\ Len(r) = n + 1 /\ r[n + 1] = ev
        /\ \A i \in 1..n : r[i] = q[i]
    BY <2>1, <2>2, <1>1
  <2> HIDE DEF r
  <2>4. ASSUME NEW i \in 1..(n + 1) PROVE r[i] = w[i]
    <3>1. w[i] = t[i]
      <4>1. Len(t) - Len(w) + i = i
        BY <2>1, <1>2, <1>4
      <4> QED BY <4>1, <2>1, <1>3
    <3>2. CASE i = n + 1
      BY <3>1, <3>2, <2>3, <1>2, <1>4
    <3>3. CASE i \in 1..n
      <4>1. q[i] = s[i]
        <5>1. Len(s) - Len(q) + i = i
          BY <2>1, <1>4
        <5> QED BY <5>1, <2>1, <1>1, <3>3
      <4> QED BY <4>1, <3>1, <3>3, <2>3, <1>2, <1>4
    <3> QED BY <3>2, <3>3
  <2>5. Len(r) = Len(w)
    BY <2>1, <2>3
  <2>6. r = w
    BY <2>3, <2>4, <2>5, <1>3, SeqEqual
  <2> QED BY <2>6 DEF r, q, w, t
<1>6. CASE n >= QueueSize
  <2>1. Len(q) = QueueSize /\ Len(w) = QueueSize
    BY <1>1, <1>2, <1>3, <1>4, <1>6 DEF Least
  <2>2. r = Append(Tail(q), ev)
    BY <2>1 DEF PutDroppingOldest
  <2>3. Tail(q) \in Seq(S) /\ Len(Tail(q)) = QueueSize - 1
        /\ \A i \in 1..(QueueSize - 1) : Tail(q)[i] = q[i + 1]
    BY <2>1, <1>1
  <2>4. r \in Seq(S) /\ Len(r) = QueueSize /\ r[QueueSize] = ev
        /\ \A i \in 1..(QueueSize - 1) : r[i] = q[i + 1]
    BY <2>2, <2>3
  <2> HIDE DEF r
  <2>5. ASSUME NEW i \in 1..QueueSize PROVE r[i] = w[i]
    <3>1. w[i] = t[n + 1 - QueueSize + i]
      <4>1. i \in 1..Len(w) /\ Len(t) - Len(w) + i = n + 1 - QueueSize + i
        BY <2>1, <1>2, <1>4
      <4>2. w[i] = t[Len(t) - Len(w) + i]
        BY <4>1, <1>3
      <4> QED BY <4>1, <4>2
    <3>2. CASE i = QueueSize
      <4>1. n + 1 - QueueSize + i = n + 1
        BY <3>2
      <4> QED BY <4>1, <3>1, <3>2, <2>4, <1>2, <1>4
    <3>3. CASE i \in 1..(QueueSize - 1)
      <4>1. q[i + 1] = s[n - QueueSize + (i + 1)]
        <5>1. i + 1 \in 1..Len(q)
          BY <2>1, <3>3
        <5> QED BY <5>1, <2>1, <1>1, <1>4
      <4>2. n - QueueSize + (i + 1) \in 1..Len(s)
            /\ n - QueueSize + (i + 1) = n + 1 - QueueSize + i
        BY <1>4, <1>6, <3>3
      <4> QED BY <4>1, <4>2, <3>1, <3>3, <2>4, <1>2
    <3> QED BY <3>2, <3>3
  <2>6. r = w
    BY <2>1, <2>4, <2>5, <1>3, SeqEqual
  <2> QED BY <2>6 DEF r, q, w, t
<1> QED BY <1>4, <1>5, <1>6

(* So the loop over a batch leaves what the closed form says.  What the    *)
(* closed form says after each event satisfies the equations of the loop,  *)
(* and nothing else does: the first event after which something else were  *)
(* in the queue would have been put into the same queue.                   *)
LEMMA PutAllKeepsLatest ==
  ASSUME NEW S, NEW q \in Seq(S), Len(q) <= QueueSize, NEW b \in Seq(S)
  PROVE  PutAll(q, b) = Latest(q \o b, QueueSize)
<1> USE StreamAssumption
<1> DEFINE n       == Len(b)
           part(i) == q \o SubSeq(b, 1, i)
           form    == [i \in 0..n |-> Latest(part(i), QueueSize)]
           Step(f) == [i \in 0..n |-> IF i = 0 THEN q ELSE PutDroppingOldest(f[i - 1], b[i])]
           loop    == CHOOSE f : f = Step(f)
<1>0. n \in Nat
  OBVIOUS
<1>1. ASSUME NEW i \in 0..n PROVE part(i) \in Seq(S)
  BY <1>0, SubSeqProperties
<1>2. part(0) = q
  <2>1. SubSeq(b, 1, 0) = <<>>
    BY SubSeqEmpty
  <2> QED BY <2>1
<1>3. part(n) = q \o b
  <2>1. SubSeq(b, 1, n) = b
    BY SubSeqFull
  <2> QED BY <2>1
<1>4. ASSUME NEW i \in 1..n PROVE part(i) = Append(part(i - 1), b[i])
  <2>1. SubSeq(b, 1, i) = SubSeq(b, 1, i - 1) \o <<b[i]>>
    BY <1>0, SubSeqRecursiveSecond
  <2>2. SubSeq(b, 1, i - 1) \in Seq(S) /\ b[i] \in S
    BY <1>0, SubSeqProperties
  <2> QED BY <2>1, <2>2
<1> HIDE DEF part
<1>5. Latest(q, QueueSize) = q
  BY FitsWhole
<1>6. form[0] = q
  BY <1>0, <1>2, <1>5
<1>7. ASSUME NEW i \in 1..n PROVE form[i] = PutDroppingOldest(form[i - 1], b[i])
  <2>1. i - 1 \in 0..n /\ i \in 0..n /\ b[i] \in S
    BY <1>0
  <2>2. form[i - 1] = Latest(part(i - 1), QueueSize) /\ form[i] = Latest(part(i), QueueSize)
    BY <2>1
  <2> QED BY <2>1, <2>2, <1>1, <1>4, PutKeepsLatest
<1>8. form = Step(form)
  <2>1. DOMAIN form = 0..n /\ form = [i \in 0..n |-> form[i]]
    OBVIOUS
  <2> HIDE DEF form
  <2>2. \A i \in 0..n : form[i] = IF i = 0 THEN q ELSE PutDroppingOldest(form[i - 1], b[i])
    BY <1>0, <1>6, <1>7
  <2> QED BY <2>1, <2>2
<1>9. loop = Step(loop)
  BY <1>8
<1>10. PutAll(q, b) = loop[n]
  BY DEF PutAll
<1> HIDE DEF loop, form
<1>11. /\ loop[0] = q
       /\ \A i \in 1..n : loop[i] = PutDroppingOldest(loop[i - 1], b[i])
  <2>1. ASSUME NEW i \in 0..n
        PROVE  loop[i] = IF i = 0 THEN q ELSE PutDroppingOldest(loop[i - 1], b[i])
    <3>1. Step(loop)[i] = IF i = 0 THEN q ELSE PutDroppingOldest(loop[i - 1], b[i])
      OBVIOUS
    <3> QED BY <1>9, <3>1
  <2> QED BY <2>1, <1>0
<1>12. \A i \in 0..n : loop[i] = form[i]
  <2> DEFINE Wrong == {i \in 0..n : loop[i] # form[i]}
  <2> SUFFICES ASSUME Wrong # {} PROVE FALSE
    OBVIOUS
  <2>0. Wrong \in SUBSET Nat
    BY <1>0
  <2>1. PICK i \in Wrong : \A j \in Wrong : i <= j
    BY <2>0, LeastExists
  <2>2. i \in 0..n /\ loop[i] # form[i]
    OBVIOUS
  <2>3. i # 0
    BY <2>2, <1>6, <1>11
  <2>4. i \in 1..n /\ i - 1 \in 0..n /\ i - 1 \notin Wrong
    BY <1>0, <2>1, <2>2, <2>3
  <2>5. loop[i - 1] = form[i - 1]
    BY <2>4
  <2> QED BY <2>2, <2>4, <2>5, <1>7, <1>11
<1> QED
  <2>1. form[n] = Latest(part(n), QueueSize)
    BY <1>0 DEF form
  <2> QED BY <1>0, <1>3, <1>10, <1>12, <2>1

(* Every step of the loops is a step of the closed form.                   *)
LEMMA StepLoop == IInv /\ [LoopNext]_vars => [Next]_vars
<1> SUFFICES ASSUME IInv, LoopNext PROVE Next
  OBVIOUS
<1> USE StreamAssumption
<1>1. ASSUME NEW c \in subs
      PROVE  c \in Client /\ queue[c] \in Seq(Nat) /\ Len(queue[c]) <= QueueSize
  <2>1. c \in Client /\ queue[c] \in Seq(Nat) /\ items \in Nat /\ last[c] \in Nat
    BY DEF IInv, TypeOK
  <2>2. Len(queue[c]) = Least(QueueSize, items - last[c]) /\ last[c] <= items
    BY DEF IInv, Window
  <2> QED BY <2>1, <2>2 DEF Least
<1>2. \A n \in Nat : Batch(n) \in Seq(Nat)
  BY DEF IInv, TypeOK, Batch
<1>3. ASSUME NEW n \in 1..MaxBatch, PublishLoop(n)
      PROVE  Publish(n)
  <2>1. ASSUME NEW c \in subs
        PROVE  PutAll(queue[c], Batch(n)) = Latest(queue[c] \o Batch(n), QueueSize)
    BY <1>1, <1>2, PutAllKeepsLatest
  <2> QED BY <1>3, <2>1 DEF PublishLoop, Publish
<1>4. ASSUME PublishMessage
      PROVE  Publish(1)
  <2>1. items \in Nat
    BY DEF IInv, TypeOK
  <2>2. Batch(1) = <<items + 1>>
    BY <2>1 DEF Batch
  <2>3. ASSUME NEW c \in subs
        PROVE  PutDroppingOldest(queue[c], items + 1) = Latest(queue[c] \o Batch(1), QueueSize)
    <3> DEFINE q == queue[c]
    <3>1. q \in Seq(Nat) /\ Len(q) <= QueueSize /\ items + 1 \in Nat
      BY <1>1, <2>1
    <3> HIDE DEF q
    <3>2. Latest(q, QueueSize) = q
      BY <3>1, FitsWhole
    <3>3. PutDroppingOldest(q, items + 1) = Latest(Append(q, items + 1), QueueSize)
      BY <3>1, <3>2, PutKeepsLatest
    <3>4. Append(q, items + 1) = q \o Batch(1)
      <4> DEFINE m == items + 1
      <4>1. m \in Nat
        BY <3>1
      <4> HIDE DEF m
      <4>2. Append(q, m) = q \o <<m>>
        BY <3>1, <4>1
      <4> QED BY <4>2, <2>2 DEF m
    <3> QED BY <3>3, <3>4 DEF q
  <2>4. 1 \in 1..MaxBatch
    OBVIOUS
  <2> QED BY <1>4, <2>3 DEF PublishMessage, Publish
<1>5. 1 \in 1..MaxBatch
  OBVIOUS
<1> QED BY <1>3, <1>4, <1>5 DEF LoopNext, Next

(* The loops of publish() and publish_message(), with the QueueFull branch *)
(* as it is written, do to every queue what the closed form says, for      *)
(* every queue size and batch length and any number of subscribers.        *)
THEOREM LoopImplementsStream == LoopSpec => ImplementsEventStream
<1>1. IInv /\ [LoopNext]_vars => IInv'
  BY StepLoop, StepIInv
<1> QED
  BY <1>1, InitIInv, StepLoop, PTL DEF LoopSpec, Spec, ImplementsEventStream

(* So it is the code's loops that lose an item only to newer ones and      *)
(* never while a slot is free.                                             *)
THEOREM LoopWindow == LoopSpec => []QueueIsNewestWindow
BY LoopImplementsStream, WindowTheorem DEF ImplementsEventStream

(* And whoever publishes with them, however many events at a time, gives   *)
(* each subscriber the lossy feed: in order, nothing twice, and a gap only *)
(* when QueueSize newer items were waiting.                                *)
THEOREM LoopImplementsFeed == LoopSpec => ImplementsLossyFeed
BY LoopImplementsStream, StreamImplementsFeed DEF ImplementsEventStream


-----------------------------------------------------------------------------
(* The nodes a client may have, one for each event without a trace.        *)
Node == ({"run"} \X Trace) \union ({"span"} \X Span) \union ({"event"} \X Nat)

Lists ==
  /\ traces \in Seq(Trace) /\ IsSet(traces) /\ Len(traces) <= TraceCap
  /\ nodes \in Seq(Node) /\ IsSet(nodes) /\ Len(nodes) <= NodeCap
  /\ age \in [Trace -> 0..Old] /\ idle \in [Trace -> 0..Old]
  /\ events \in Nat

Loose ==
  /\ provider \in Provider /\ stamp \in {0, 1} /\ since \in 0..AlivePolls
  /\ connected \in BOOLEAN /\ muted \in BOOLEAN
  /\ DOMAIN shown = {"status", "runs"}

(* The age of an active run is the time since its last event: none of its  *)
(* events fails to refresh it.                                             *)
AgeIsIdle == \A t \in Range(traces) : age[t] = idle[t]

AiInv == Lists /\ Loose /\ AgeIsIdle

(* Lists without repetition.                                               *)
LEMMA LatestList ==
  ASSUME NEW S, NEW s \in Seq(S), NEW n \in Nat
  PROVE  /\ Latest(s, n) \in Seq(S) /\ Len(Latest(s, n)) <= n
         /\ Range(Latest(s, n)) \subseteq Range(s)
         /\ IsSet(s) => IsSet(Latest(s, n))
         /\ Len(s) <= n => Latest(s, n) = s
         /\ n > 0 /\ s # <<>> => s[Len(s)] \in Range(Latest(s, n))
<1>1. Len(s) \in Nat /\ DOMAIN s = 1..Len(s)
  OBVIOUS
<1>2. CASE n < Len(s)
  <2> DEFINE l == SubSeq(s, Len(s) - n + 1, Len(s))
             m == Len(s) - n
  <2>1. Latest(s, n) = l
    BY <1>2 DEF Latest, Least
  <2>2. l \in Seq(S) /\ Len(l) = n /\ \A i \in 1..n : l[i] = s[m + i]
    BY <1>1, <1>2
  <2> HIDE DEF l
  <2>3. DOMAIN l = 1..n
    BY <2>2
  <2>4. \A i \in 1..n : m + i \in DOMAIN s
    BY <1>1, <1>2
  <2>5. Range(l) \subseteq Range(s)
    <3> SUFFICES ASSUME NEW x \in Range(l) PROVE x \in Range(s)
      OBVIOUS
    <3>1. PICK i \in 1..n : l[i] = x
      BY <2>3 DEF Range
    <3>2. s[m + i] = x /\ m + i \in DOMAIN s
      BY <2>2, <2>4, <3>1
    <3> HIDE DEF m
    <3> QED BY <3>2 DEF Range
  <2>6. IsSet(s) => IsSet(l)
    <3> SUFFICES ASSUME IsSet(s), NEW i \in 1..n, NEW j \in 1..n, l[i] = l[j] PROVE i = j
      BY <2>3 DEF IsSet
    <3>1. m \in Int
      BY <1>1
    <3>2. m + i \in DOMAIN s /\ m + j \in DOMAIN s /\ s[m + i] = s[m + j]
      BY <2>2, <2>4
    <3> HIDE DEF m
    <3>3. m + i = m + j
      BY <3>2 DEF IsSet
    <3> QED BY <3>1, <3>3
  <2>7. n > 0 => s[Len(s)] \in Range(l)
    <3> SUFFICES ASSUME n > 0 PROVE s[Len(s)] \in Range(l)
      OBVIOUS
    <3>1. n \in 1..n /\ m + n = Len(s)
      BY <1>1
    <3>2. l[n] = s[Len(s)]
      BY <2>2, <3>1
    <3> QED BY <2>3, <3>1, <3>2 DEF Range
  <2>8. ~(Len(s) <= n)
    BY <1>1, <1>2
  <2>9. Len(l) <= n
    BY <2>2
  <2> QED BY <2>1, <2>2, <2>5, <2>6, <2>7, <2>8, <2>9
<1>3. CASE ~(n < Len(s))
  <2>1. Latest(s, n) = SubSeq(s, 1, Len(s))
    BY <1>1, <1>3 DEF Latest, Least
  <2>2. Latest(s, n) = s
    BY <1>1, <2>1
  <2>3. Len(s) <= n
    BY <1>1, <1>3
  <2>4. s # <<>> => s[Len(s)] \in Range(s)
    <3> SUFFICES ASSUME s # <<>> PROVE s[Len(s)] \in Range(s)
      OBVIOUS
    <3>1. Len(s) \in 1..Len(s)
      BY <1>1
    <3> QED BY <1>1, <3>1 DEF Range
  <2> QED BY <2>2, <2>3, <2>4
<1> QED BY <1>2, <1>3

LEMMA WhereList ==
  ASSUME NEW S, NEW s \in Seq(S), NEW W
  PROVE  /\ Where(s, W) \in Seq(S) /\ Len(Where(s, W)) <= Len(s)
         /\ Range(Where(s, W)) = Range(s) \intersect W
         /\ IsSet(s) => IsSet(Where(s, W))
         /\ ~(Range(s) \subseteq W) => Len(Where(s, W)) < Len(s)
<1> DEFINE w == Where(s, W)
<1>1. /\ w \in Seq(S) /\ Len(w) <= Len(s)
      /\ \A k \in DOMAIN w : w[k] \in W /\ \E i \in DOMAIN s : s[i] = w[k]
      /\ \A i \in DOMAIN s : s[i] \in W => \E k \in DOMAIN w : w[k] = s[i]
      /\ \A i \in DOMAIN s : s[i] \notin W => Len(w) < Len(s)
      /\ IsSet(s) => IsSet(w)
  BY WhereKeeps DEF IsSet
<1> HIDE DEF w
<1>2. Range(w) = Range(s) \intersect W
  <2>1. ASSUME NEW x \in Range(w) PROVE x \in Range(s) /\ x \in W
    BY <1>1 DEF Range
  <2>2. ASSUME NEW x \in Range(s), x \in W PROVE x \in Range(w)
    <3>1. PICK i \in DOMAIN s : s[i] = x
      BY DEF Range
    <3>2. PICK k \in DOMAIN w : w[k] = x
      BY <1>1, <2>2, <3>1
    <3> QED BY <3>2 DEF Range
  <2> QED BY <2>1, <2>2
<1>3. ~(Range(s) \subseteq W) => Len(w) < Len(s)
  BY <1>1 DEF Range
<1> QED BY <1>1, <1>2, <1>3 DEF w

LEMMA AppendList ==
  ASSUME NEW S, NEW s \in Seq(S), NEW x \in S
  PROVE  /\ Append(s, x) \in Seq(S) /\ Len(Append(s, x)) = Len(s) + 1
         /\ Range(Append(s, x)) = Range(s) \union {x}
         /\ IsSet(s) /\ x \notin Range(s) => IsSet(Append(s, x))
         /\ Append(s, x) # <<>> /\ Append(s, x)[Len(Append(s, x))] = x
<1> DEFINE a == Append(s, x)
           n == Len(s)
<1>1. /\ n \in Nat /\ DOMAIN s = 1..n
      /\ a \in Seq(S) /\ Len(a) = n + 1 /\ a[n + 1] = x /\ a # <<>>
      /\ \A i \in 1..n : a[i] = s[i]
  OBVIOUS
<1> HIDE DEF a
<1>2. DOMAIN a = 1..(n + 1)
  BY <1>1
<1> HIDE DEF n
<1>3. \A i \in 1..(n + 1) : i = n + 1 \/ i \in 1..n
  BY <1>1
<1>4. \A i \in 1..n : i \in 1..(n + 1)
  BY <1>1
<1>5. n + 1 \in 1..(n + 1)
  BY <1>1
<1>6. Range(a) = Range(s) \union {x}
  <2>1. ASSUME NEW y \in Range(a) PROVE y \in Range(s) \union {x}
    BY <1>1, <1>2, <1>3 DEF Range
  <2>2. ASSUME NEW y \in Range(s) PROVE y \in Range(a)
    <3>1. PICK i \in 1..n : s[i] = y
      BY <1>1 DEF Range
    <3>2. a[i] = y /\ i \in DOMAIN a
      BY <1>1, <1>2, <1>4, <3>1
    <3> QED BY <3>2 DEF Range
  <2>3. x \in Range(a)
    BY <1>1, <1>2, <1>5 DEF Range
  <2> QED BY <2>1, <2>2, <2>3
<1>7. IsSet(s) /\ x \notin Range(s) => IsSet(a)
  <2> SUFFICES ASSUME IsSet(s), x \notin Range(s),
                      NEW i \in 1..(n + 1), NEW j \in 1..(n + 1), a[i] = a[j]
               PROVE  i = j
    BY <1>2 DEF IsSet
  <2>1. \A k \in 1..n : s[k] # x
    BY <1>1 DEF Range
  <2> QED BY <1>1, <1>3, <2>1 DEF IsSet
<1> QED BY <1>1, <1>6, <1>7 DEF a, n

LEMMA ListedList ==
  ASSUME NEW S, NEW s \in Seq(S), NEW x \in S
  PROVE  /\ Listed(s, x) \in Seq(S) /\ Range(Listed(s, x)) = Range(s) \union {x}
         /\ IsSet(s) => IsSet(Listed(s, x))
<1>1. CASE x \in Range(s)
  BY <1>1 DEF Listed
<1>2. CASE x \notin Range(s)
  BY <1>2, AppendList DEF Listed
<1> QED BY <1>1, <1>2


-----------------------------------------------------------------------------
LEMMA ReportParts ==
  ASSUME NEW e \in Report
  PROVE  /\ e.trace \in Trace /\ e.kind \in {"START", "END", "SPAN"}
         /\ NodeOf(e) \in Node
<1>1. CASE e \in [kind : {"START", "END"}, trace : Trace]
  <2>1. DOMAIN e = {"kind", "trace"} /\ e.kind \in {"START", "END"} /\ e.trace \in Trace
    BY <1>1
  <2>2. NodeOf(e) = <<"run", e.trace>>
    BY <2>1 DEF NodeOf
  <2> QED BY <2>1, <2>2 DEF Node
<1>2. CASE e \in [kind : {"SPAN"}, trace : Trace, span : Span]
  <2>1. e.kind = "SPAN" /\ e.trace \in Trace /\ e.span \in Span
    BY <1>2
  <2>2. NodeOf(e) = <<"span", e.span>>
    BY <2>1 DEF NodeOf
  <2> QED BY <2>1, <2>2 DEF Node
<1> QED BY <1>1, <1>2 DEF Report

LEMMA FoundNode ==
  ASSUME NEW kind \in {"START", "END"}, NEW n \in Nat
  PROVE  NodeOf([kind |-> kind, number |-> n]) \in Node
<1> DEFINE e == [kind |-> kind, number |-> n]
<1>1. DOMAIN e = {"kind", "number"} /\ e.kind # "SPAN" /\ e.number = n
  OBVIOUS
<1>2. "trace" \notin DOMAIN e
  BY <1>1
<1> HIDE DEF e
<1>3. NodeOf(e) = <<"event", n>>
  BY <1>1, <1>2 DEF NodeOf
<1> QED BY <1>3 DEF e, Node

(* What the buffer registers: the run of a start is the last, and there is *)
(* one run more at most.                                                   *)
LEMMA RegisteredList ==
  ASSUME Lists, NEW e \in Report
  PROVE  LET r == Registered(e)
         IN  /\ r \in Seq(Trace) /\ IsSet(r)
             /\ e.kind = "START" => /\ Range(r) = Range(traces) \union {e.trace}
                                    /\ r # <<>> /\ r[Len(r)] = e.trace
             /\ e.kind = "START" /\ e.trace \notin Range(traces) => r = Append(traces, e.trace)
             /\ e.kind = "END" => Range(r) = Range(traces) \ {e.trace}
             /\ e.kind = "SPAN" => Range(r) = Range(traces)
             /\ Len(r) <= Len(traces) \/ /\ e.kind = "START" /\ e.trace \notin Range(traces)
                                         /\ Len(r) <= Len(traces) + 1
<1> DEFINE w == Where(traces, Trace \ {e.trace})
<1>1. /\ e.trace \in Trace /\ e.kind \in {"START", "END", "SPAN"}
  BY ReportParts
<1>2. traces \in Seq(Trace) /\ IsSet(traces)
  BY DEF Lists
<1>3. Range(traces) \subseteq Trace /\ Len(traces) \in Nat
  BY <1>2 DEF Range
<1>4. /\ w \in Seq(Trace) /\ Len(w) <= Len(traces) /\ IsSet(w)
      /\ Range(w) = Range(traces) \intersect (Trace \ {e.trace})
      /\ ~(Range(traces) \subseteq Trace \ {e.trace}) => Len(w) < Len(traces)
  BY <1>2, WhereList
<1>5. CASE e.kind = "START"
  <2>1. Registered(e) = Append(w, e.trace)
    BY <1>5 DEF Registered
  <2> HIDE DEF w
  <2>2. /\ Append(w, e.trace) \in Seq(Trace) /\ Len(Append(w, e.trace)) = Len(w) + 1
        /\ Range(Append(w, e.trace)) = Range(w) \union {e.trace}
        /\ e.trace \notin Range(w) => IsSet(Append(w, e.trace))
        /\ Append(w, e.trace) # <<>> /\ Append(w, e.trace)[Len(Append(w, e.trace))] = e.trace
    BY <1>1, <1>4, AppendList
  <2>3. e.trace \notin Range(w) /\ Range(w) \union {e.trace} = Range(traces) \union {e.trace}
    BY <1>3, <1>4
  <2>4. Len(w) \in Nat
    BY <1>4
  <2>5. Len(w) + 1 <= Len(traces) \/ (e.trace \notin Range(traces) /\ Len(w) + 1 <= Len(traces) + 1)
    BY <1>3, <1>4, <2>4
  <2>6. e.trace \notin Range(traces) => w = traces
    <3>1. e.trace \notin Range(traces) => \A i \in DOMAIN traces : traces[i] \in Trace \ {e.trace}
      BY <1>2 DEF Range
    <3> QED BY <1>2, <3>1, WhereAll DEF w
  <2> QED BY <1>5, <2>1, <2>2, <2>3, <2>5, <2>6
<1>6. CASE e.kind = "END"
  <2>1. Registered(e) = w
    BY <1>6 DEF Registered
  <2>2. Range(w) = Range(traces) \ {e.trace}
    BY <1>3, <1>4
  <2> QED BY <1>4, <1>6, <2>1, <2>2
<1>7. CASE e.kind = "SPAN"
  <2>1. Registered(e) = traces
    BY <1>7 DEF Registered
  <2> QED BY <1>2, <1>3, <1>7, <2>1
<1> QED BY <1>1, <1>5, <1>6, <1>7

LEMMA PrunedList ==
  ASSUME NEW ts \in Seq(Trace), IsSet(ts), NEW ages
  PROVE  /\ Pruned(ts, ages) \in Seq(Trace) /\ IsSet(Pruned(ts, ages))
         /\ Len(Pruned(ts, ages)) <= TraceCap
         /\ Range(Pruned(ts, ages)) =
              {t \in Range(Latest(ts, TraceCap)) : t \in Trace /\ ages[t] < Old}
         /\ Range(Pruned(ts, ages)) \subseteq Range(ts)
<1> DEFINE l == Latest(ts, TraceCap)
           young == {t \in Trace : ages[t] < Old}
<1>1. TraceCap \in Nat
  BY AiAssumption
<1>2. l \in Seq(Trace) /\ Len(l) <= TraceCap /\ Range(l) \subseteq Range(ts) /\ IsSet(l)
  BY <1>1, LatestList
<1>3. Pruned(ts, ages) = Where(l, young)
  BY DEF Pruned
<1> HIDE DEF l, young
<1>4. /\ Where(l, young) \in Seq(Trace) /\ Len(Where(l, young)) <= Len(l)
      /\ Range(Where(l, young)) = Range(l) \intersect young /\ IsSet(Where(l, young))
  BY <1>2, WhereList
<1>5. Len(Where(l, young)) <= TraceCap
  <2>1. Len(Where(l, young)) \in Nat /\ Len(l) \in Nat
    BY <1>2, <1>4
  <2> QED BY <1>1, <1>2, <1>4, <2>1
<1>6. Range(l) \intersect young = {t \in Range(l) : t \in Trace /\ ages[t] < Old}
  BY DEF young
<1> QED BY <1>2, <1>3, <1>4, <1>5, <1>6 DEF l

(* The ages after an event.                                                *)
LEMMA IngestAges ==
  ASSUME AiInv, NEW e \in Report, Ingest(e)
  PROVE  /\ age' \in [Trace -> 0..Old] /\ idle' \in [Trace -> 0..Old]
         /\ age'[e.trace] = 0 /\ idle'[e.trace] = 0
         /\ \A t \in Trace \ {e.trace} : age'[t] = age[t] /\ idle'[t] = idle[t]
         /\ traces' = Pruned(Registered(e), age')
<1>1. e.trace \in Trace /\ 0 \in 0..Old
  BY ReportParts, AiAssumption
<1>2. age \in [Trace -> 0..Old] /\ idle \in [Trace -> 0..Old]
  BY DEF AiInv, Lists
<1>3. /\ age' = [t \in Trace |-> IF t \in Seen(e) THEN 0 ELSE age[t]]
      /\ idle' = [idle EXCEPT ![e.trace] = 0]
      /\ traces' = Pruned(Registered(e), age')
  BY DEF Ingest
<1>4. age' = [t \in Trace |-> IF t = e.trace THEN 0 ELSE age[t]]
  BY <1>3 DEF Seen
<1> QED BY <1>1, <1>2, <1>3, <1>4

LEMMA IngestKeeps ==
  ASSUME AiInv, NEW e \in Report, Ingest(e)
  PROVE  /\ traces' \in Seq(Trace) /\ IsSet(traces') /\ Len(traces') <= TraceCap
         /\ AgeIsIdle'
<1>1. Registered(e) \in Seq(Trace) /\ IsSet(Registered(e))
      /\ Range(Registered(e)) \subseteq Range(traces) \union {e.trace}
  BY ReportParts, RegisteredList DEF AiInv
<1>2. traces' = Pruned(Registered(e), age')
  BY IngestAges
<1>3. /\ traces' \in Seq(Trace) /\ IsSet(traces') /\ Len(traces') <= TraceCap
      /\ Range(traces') \subseteq Range(traces) \union {e.trace}
      /\ Range(traces') \subseteq Trace
  <2>1. /\ traces' \in Seq(Trace) /\ IsSet(traces') /\ Len(traces') <= TraceCap
        /\ Range(traces') \subseteq Range(Registered(e))
    BY <1>1, <1>2, PrunedList
  <2>2. Range(traces') \subseteq Trace
    BY <2>1 DEF Range
  <2> QED BY <1>1, <2>1, <2>2
<1>4. ASSUME NEW t \in Range(traces') PROVE age'[t] = idle'[t]
  BY <1>3, <1>4, IngestAges DEF AiInv, AgeIsIdle
<1> QED BY <1>3, <1>4 DEF AgeIsIdle

(* A full list that one more is appended to loses its first entry only.    *)
LEMMA FirstGoes ==
  ASSUME NEW S, NEW s \in Seq(S), NEW x \in S, Len(s) > 0
  PROVE  \A i \in 2..Len(s) : s[i] \in Range(Latest(Append(s, x), Len(s)))
<1> DEFINE n == Len(s)
           a == Append(s, x)
           l == SubSeq(a, 2, n + 1)
<1>1. n \in Nat /\ n > 0
  OBVIOUS
<1>2. a \in Seq(S) /\ Len(a) = n + 1 /\ \A i \in 1..n : a[i] = s[i]
  OBVIOUS
<1> HIDE DEF n, a
<1>3. Latest(a, n) = l
  <2>1. Len(a) - Least(n, Len(a)) + 1 = 2
    BY <1>1, <1>2 DEF Least
  <2> QED BY <1>2, <2>1 DEF Latest
<1>4. DOMAIN l = 1..n /\ \A i \in 1..n : l[i] = a[i + 1]
  BY <1>1, <1>2
<1> HIDE DEF l
<1>5. ASSUME NEW i \in 2..n PROVE s[i] \in Range(l)
  <2>1. i - 1 \in 1..n /\ (i - 1) + 1 = i /\ i \in 1..n
    BY <1>1
  <2>2. l[i - 1] = s[i]
    BY <1>2, <1>4, <2>1
  <2> QED BY <1>4, <2>1, <2>2 DEF Range
<1> QED BY <1>3, <1>5 DEF n, a

(* A run that an event costs its place: it has ended, or been silent for   *)
(* too long, or is the oldest while the event starts one more than the cap *)
(* allows.                                                                 *)
LEMMA IngestSpares ==
  ASSUME AiInv, NEW e \in Report, Ingest(e), NEW t \in Range(traces) \ Range(traces')
  PROVE  \/ t \in ended'
         \/ idle'[t] >= Old
         \/ /\ Len(traces) = TraceCap /\ t = Head(traces)
            /\ ~(Range(traces') \subseteq Range(traces))
<1> DEFINE r == Registered(e)
           l == Latest(r, TraceCap)
<1>1. /\ r \in Seq(Trace) /\ IsSet(r)
      /\ e.kind = "START" => /\ Range(r) = Range(traces) \union {e.trace}
                             /\ r # <<>> /\ r[Len(r)] = e.trace
      /\ e.kind = "START" /\ e.trace \notin Range(traces) => r = Append(traces, e.trace)
      /\ e.kind = "END" => Range(r) = Range(traces) \ {e.trace}
      /\ e.kind = "SPAN" => Range(r) = Range(traces)
      /\ Len(r) <= Len(traces) \/ /\ e.kind = "START" /\ e.trace \notin Range(traces)
                                  /\ Len(r) <= Len(traces) + 1
  BY RegisteredList DEF AiInv
<1>2. /\ TraceCap \in Nat /\ TraceCap > 0 /\ Old \in Nat /\ Old > 0
      /\ Len(traces) \in Nat /\ Len(traces) <= TraceCap /\ t \in Trace
      /\ e.kind \in {"START", "END", "SPAN"} /\ e.trace \in Trace
  <2>1. traces \in Seq(Trace) /\ Len(traces) <= TraceCap
    BY DEF AiInv, Lists
  <2>2. t \in Trace /\ Len(traces) \in Nat
    BY <2>1 DEF Range
  <2> QED BY <2>1, <2>2, AiAssumption, ReportParts
<1>3. /\ l \in Seq(Trace) /\ Range(l) \subseteq Range(r)
      /\ Len(r) <= TraceCap => l = r
      /\ r # <<>> => r[Len(r)] \in Range(l)
  BY <1>1, <1>2, LatestList
<1>4. /\ age' \in [Trace -> 0..Old] /\ idle' \in [Trace -> 0..Old]
      /\ age'[e.trace] = 0 /\ idle'[e.trace] = 0
      /\ \A s \in Trace \ {e.trace} : age'[s] = age[s] /\ idle'[s] = idle[s]
      /\ traces' = Pruned(r, age')
  BY IngestAges
<1>5. Range(traces') = {s \in Range(l) : s \in Trace /\ age'[s] < Old}
  BY <1>1, <1>4, PrunedList
<1>6. Len(r) \in Nat
  BY <1>1
<1>7. ended' = CASE e.kind = "END" -> ended \union {e.trace}
                 [] e.kind = "START" -> ended \ {e.trace}
                 [] OTHER -> ended
  BY DEF Ingest
<1> HIDE DEF r, l
<1>8. CASE t \notin Range(r)
  <2>1. e.kind = "END" /\ t = e.trace
    BY <1>1, <1>2, <1>8
  <2> QED BY <1>7, <2>1
<1>9. CASE t \in Range(l)
  <2>1. ~(age'[t] < Old)
    BY <1>2, <1>5, <1>9
  <2>2. t # e.trace
    BY <1>2, <1>4, <2>1
  <2>3. age'[t] = age[t] /\ idle'[t] = idle[t] /\ age[t] = idle[t]
    BY <1>2, <1>4, <2>2 DEF AiInv, AgeIsIdle
  <2>4. idle'[t] \in 0..Old
    BY <1>2, <1>4
  <2> QED BY <1>2, <2>1, <2>3, <2>4
<1>10. CASE t \in Range(r) /\ t \notin Range(l)
  <2>1. ~(Len(r) <= TraceCap)
    BY <1>3, <1>10
  <2>2. e.kind = "START" /\ e.trace \notin Range(traces) /\ Len(r) <= Len(traces) + 1
    BY <1>1, <1>2, <1>6, <2>1
  <2>3. Len(traces) = TraceCap
    BY <1>2, <1>6, <2>1, <2>2
  <2>4. e.trace \in Range(l)
    BY <1>1, <1>3, <2>2
  <2>5. e.trace \in Range(traces')
    BY <1>2, <1>4, <1>5, <2>4
  <2>6. traces \in Seq(Trace) /\ traces # <<>>
    BY <1>2, <2>3 DEF AiInv, Lists
  <2>7. \A i \in 2..Len(traces) : traces[i] \in Range(Latest(Append(traces, e.trace), TraceCap))
    BY <1>2, <2>3, <2>6, FirstGoes
  <2>8. PICK i \in DOMAIN traces : traces[i] = t
    BY DEF Range
  <2>9. i \notin 2..Len(traces)
    BY <1>1, <1>10, <2>2, <2>7, <2>8 DEF l
  <2>10. i = 1 /\ t = Head(traces)
    BY <2>6, <2>8, <2>9
  <2> QED BY <2>2, <2>3, <2>5, <2>10
<1> QED BY <1>8, <1>9, <1>10

(* The nodes of the client after an event.                                 *)
LEMMA ApplyKeeps ==
  ASSUME Lists, NEW n \in Node, Apply(n)
  PROVE  /\ nodes' \in Seq(Node) /\ IsSet(nodes') /\ Len(nodes') <= NodeCap
         /\ DrawnExpires => DrawnExpires'
<1>1. nodes \in Seq(Node) /\ IsSet(nodes) /\ Len(nodes) <= NodeCap /\ NodeCap \in Nat
  BY AiAssumption DEF Lists
<1>2. CASE connected /\ ~muted
  <2> DEFINE s == Listed(nodes, n)
  <2>1. s \in Seq(Node) /\ Range(s) = Range(nodes) \union {n} /\ IsSet(s)
    BY <1>1, ListedList
  <2>2. /\ nodes' = Latest(s, NodeCap) /\ drawn' = drawn \union {n}
        /\ crowded' = (crowded \ {n}) \union (Range(s) \ Range(nodes'))
        /\ lost' = lost \ {n}
    BY <1>2 DEF Apply
  <2> HIDE DEF s
  <2>3. /\ nodes' \in Seq(Node) /\ IsSet(nodes') /\ Len(nodes') <= NodeCap
        /\ Range(nodes') \subseteq Range(s)
    BY <1>1, <2>1, <2>2, LatestList
  <2>4. DrawnExpires => DrawnExpires'
    BY <2>1, <2>2, <2>3 DEF DrawnExpires
  <2> QED BY <2>3, <2>4
<1>3. CASE ~(connected /\ ~muted)
  BY <1>1, <1>3 DEF Apply, DrawnExpires
<1> QED BY <1>2, <1>3


-----------------------------------------------------------------------------
LEMMA InitAiInv == AiInit => AiInv
<1> SUFFICES ASSUME AiInit PROVE AiInv
  OBVIOUS
<1>1. TraceCap \in Nat /\ NodeCap \in Nat /\ Old \in Nat /\ AlivePolls \in Nat
  BY AiAssumption
<1>2. traces = <<>> /\ nodes = <<>>
  BY DEF AiInit
<1>3. traces \in Seq(Trace) /\ nodes \in Seq(Node) /\ Len(traces) = 0 /\ Len(nodes) = 0
      /\ DOMAIN traces = {} /\ DOMAIN nodes = {}
  BY <1>2
<1>4. IsSet(traces) /\ IsSet(nodes) /\ Range(traces) = {}
  BY <1>3 DEF IsSet, Range
<1>5. age \in [Trace -> 0..Old] /\ idle \in [Trace -> 0..Old] /\ events \in Nat
  BY <1>1 DEF AiInit
<1>6. Lists
  BY <1>1, <1>3, <1>4, <1>5 DEF Lists
<1>7. Loose
  <2>1. shown = [status |-> "never", runs |-> 0]
    BY DEF AiInit
  <2>2. DOMAIN shown = {"status", "runs"}
    BY <2>1
  <2>3. since \in 0..AlivePolls /\ stamp \in {0, 1} /\ provider \in Provider
    BY <1>1 DEF AiInit, Provider
  <2> QED BY <2>2, <2>3 DEF AiInit, Loose
<1> QED BY <1>4, <1>6, <1>7 DEF AiInv, AgeIsIdle

LEMMA TickKeeps ==
  ASSUME AiInv, NEW found,
         found = NoEvent \/ \E kind \in {"START", "END"} : found = [kind |-> kind, number |-> events],
         Tick(found)
  PROVE  /\ AiInv'
         /\ DrawnExpires => DrawnExpires'
         /\ \A t \in Range(traces) \ Range(traces') : idle'[t] >= Old
<1>1. Lists /\ Loose /\ AgeIsIdle
  BY DEF AiInv
<1>2. /\ connected' = connected /\ muted' = muted /\ idle' = idle
      /\ provider' \in Provider /\ stamp' = 1 - stamp
      /\ DOMAIN shown' = {"status", "runs"}
  BY DEF Tick
<1>3. since' \in 0..AlivePolls
  <2>1. since' = 0 \/ since' = Least(since + 1, AlivePolls)
    BY DEF Tick
  <2>2. since \in 0..AlivePolls /\ AlivePolls \in Nat
    BY <1>1, AiAssumption DEF Loose
  <2> QED BY <2>1, <2>2 DEF Least
<1>4. Loose'
  <2>1. stamp' \in {0, 1}
    BY <1>1, <1>2 DEF Loose
  <2> QED BY <1>1, <1>2, <1>3, <2>1 DEF Loose
<1>5. CASE found = NoEvent
  <2>1. /\ traces' = traces /\ age' = age /\ nodes' = nodes
        /\ drawn' = drawn /\ crowded' = crowded /\ lost' = lost /\ events' = events
    BY <1>5 DEF Tick, buffer
  <2>2. Lists' /\ AgeIsIdle'
    BY <1>1, <1>2, <2>1 DEF Lists, AgeIsIdle
  <2>3. DrawnExpires => DrawnExpires'
    BY <2>1 DEF DrawnExpires
  <2> QED BY <1>4, <2>1, <2>2, <2>3 DEF AiInv
<1>6. CASE found # NoEvent
  <2>1. PICK kind \in {"START", "END"} : found = [kind |-> kind, number |-> events]
    BY <1>6
  <2>2. /\ events' = events + 1 /\ age' = age /\ traces' = Pruned(traces, age)
        /\ Apply(NodeOf(found))
    BY <1>6 DEF Tick
  <2>3. /\ traces \in Seq(Trace) /\ IsSet(traces) /\ Len(traces) <= TraceCap
        /\ age \in [Trace -> 0..Old] /\ idle \in [Trace -> 0..Old]
        /\ events \in Nat /\ TraceCap \in Nat /\ Old \in Nat
    BY <1>1, AiAssumption DEF Lists
  <2>4. /\ traces' \in Seq(Trace) /\ IsSet(traces') /\ Len(traces') <= TraceCap
        /\ Range(traces') = {t \in Range(Latest(traces, TraceCap)) : t \in Trace /\ age[t] < Old}
        /\ Range(traces') \subseteq Range(traces)
    BY <2>2, <2>3, PrunedList
  <2>5. Latest(traces, TraceCap) = traces
    BY <2>3, LatestList
  <2>6. NodeOf(found) \in Node
    BY <2>1, <2>3, FoundNode
  <2>7. /\ nodes' \in Seq(Node) /\ IsSet(nodes') /\ Len(nodes') <= NodeCap
        /\ DrawnExpires => DrawnExpires'
    BY <1>1, <2>2, <2>6, ApplyKeeps
  <2>8. Lists'
    BY <1>2, <2>2, <2>3, <2>4, <2>7 DEF Lists
  <2>9. AgeIsIdle'
    BY <1>1, <1>2, <2>2, <2>4 DEF AgeIsIdle
  <2>10. ASSUME NEW t \in Range(traces) \ Range(traces') PROVE idle'[t] >= Old
    <3>1. t \in Trace
      BY <2>3 DEF Range
    <3>2. ~(age[t] < Old)
      BY <2>4, <2>5, <3>1
    <3>3. idle'[t] = age[t] /\ age[t] \in 0..Old
      BY <1>1, <1>2, <2>3, <3>1 DEF AgeIsIdle
    <3> QED BY <2>3, <3>2, <3>3
  <2> QED BY <1>4, <2>7, <2>8, <2>9, <2>10 DEF AiInv
<1> QED BY <1>5, <1>6

LEMMA TimeKeeps ==
  ASSUME AiInv, TimePasses
  PROVE  AiInv'
<1>1. Lists /\ Loose /\ AgeIsIdle /\ Old \in Nat
  BY AiAssumption DEF AiInv
<1>2. /\ traces' = traces /\ UNCHANGED <<registry, connected, muted, client, events>>
      /\ age' = [t \in Trace |-> IF t \in Range(traces) THEN Least(age[t] + 1, Old) ELSE 0]
      /\ idle' = [t \in Trace |-> IF t \in Range(traces) THEN Least(idle[t] + 1, Old) ELSE 0]
  BY DEF TimePasses
<1>3. \A n \in 0..Old : Least(n + 1, Old) \in 0..Old
  BY <1>1 DEF Least
<1>4. age \in [Trace -> 0..Old] /\ idle \in [Trace -> 0..Old] /\ traces \in Seq(Trace)
  BY <1>1 DEF Lists
<1>5. 0 \in 0..Old
  BY <1>1
<1>6. age' \in [Trace -> 0..Old] /\ idle' \in [Trace -> 0..Old]
  BY <1>2, <1>3, <1>4, <1>5
<1>7. Lists'
  BY <1>1, <1>2, <1>6 DEF Lists, client
<1>8. Loose'
  BY <1>1, <1>2 DEF Loose, client, registry
<1>9. AgeIsIdle'
  <2>1. Range(traces) \subseteq Trace
    BY <1>4 DEF Range
  <2> QED BY <1>1, <1>2, <2>1 DEF AgeIsIdle
<1> QED BY <1>7, <1>8, <1>9 DEF AiInv

LEMMA ExpireKeeps ==
  ASSUME AiInv, Expire
  PROVE  AiInv' /\ (DrawnExpires => DrawnExpires')
<1>1. Lists /\ Loose /\ AgeIsIdle /\ NodeCap \in Nat
  BY AiAssumption DEF AiInv
<1>2. PICK n \in Range(nodes) : /\ nodes' = Where(nodes, Range(nodes) \ {n})
                                /\ drawn' = drawn \ {n}
  BY DEF Expire
<1>3. UNCHANGED <<buffer, registry, connected, muted, shown, idle, crowded, lost, events>>
  BY DEF Expire
<1>4. nodes \in Seq(Node) /\ IsSet(nodes) /\ Len(nodes) <= NodeCap
  BY <1>1 DEF Lists
<1>5. /\ nodes' \in Seq(Node) /\ IsSet(nodes') /\ Len(nodes') <= Len(nodes)
      /\ Range(nodes') = Range(nodes) \intersect (Range(nodes) \ {n})
  BY <1>2, <1>4, WhereList
<1>6. Len(nodes') <= NodeCap
  <2>1. Len(nodes) \in Nat /\ Len(nodes') \in Nat
    BY <1>4, <1>5
  <2> QED BY <1>1, <1>4, <1>5, <2>1
<1>7. Lists'
  BY <1>1, <1>3, <1>5, <1>6 DEF Lists, buffer
<1>8. Loose' /\ AgeIsIdle'
  BY <1>1, <1>3 DEF Loose, AgeIsIdle, buffer, registry
<1>9. DrawnExpires => DrawnExpires'
  BY <1>2, <1>3, <1>5 DEF DrawnExpires
<1> QED BY <1>7, <1>8, <1>9 DEF AiInv

LEMMA ConnectKeeps ==
  ASSUME AiInv, NEW reload \in BOOLEAN, Connect(reload)
  PROVE  AiInv' /\ DrawnExpires'
<1>1. Lists /\ Loose /\ AgeIsIdle /\ NodeCap \in Nat
  BY AiAssumption DEF AiInv
<1>2. /\ UNCHANGED <<buffer, registry, muted, idle, events>> /\ connected' = TRUE
      /\ nodes' = IF reload THEN <<>> ELSE nodes
      /\ \/ drawn' = Range(nodes') /\ lost' = {}
         \/ drawn' = {} /\ lost' = Range(nodes')
      /\ shown' = IF reload THEN [status |-> "never", runs |-> 0] ELSE shown
  BY DEF Connect
<1>3. nodes' \in Seq(Node) /\ IsSet(nodes') /\ Len(nodes') <= NodeCap
  <2>1. CASE reload
    <3>1. nodes' = <<>>
      BY <1>2, <2>1
    <3>2. nodes' \in Seq(Node) /\ DOMAIN nodes' = {} /\ Len(nodes') = 0
      BY <3>1
    <3> QED BY <1>1, <3>2 DEF IsSet
  <2>2. CASE ~reload
    BY <1>1, <1>2, <2>2 DEF Lists
  <2> QED BY <2>1, <2>2
<1>4. Lists'
  BY <1>1, <1>2, <1>3 DEF Lists, buffer
<1>5. DOMAIN shown' = {"status", "runs"}
  BY <1>1, <1>2 DEF Loose
<1>6. Loose' /\ AgeIsIdle'
  BY <1>1, <1>2, <1>5 DEF Loose, AgeIsIdle, buffer, registry
<1>7. DrawnExpires'
  BY <1>2 DEF DrawnExpires
<1> QED BY <1>4, <1>6, <1>7 DEF AiInv

(* The other moves, and stuttering, leave the lists alone.                 *)
LEMMA RestKeeps ==
  ASSUME AiInv, Disconnect \/ SwitchBenchmark \/ UNCHANGED aiVars
  PROVE  AiInv' /\ (DrawnExpires => DrawnExpires') /\ traces' = traces
<1>1. /\ UNCHANGED <<buffer, registry, client, idle, crowded, lost, events>>
      /\ connected' \in BOOLEAN /\ muted' \in BOOLEAN
  BY DEF Disconnect, SwitchBenchmark, aiVars, AiInv, Loose
<1>2. Lists' /\ Loose' /\ AgeIsIdle'
  BY <1>1 DEF AiInv, Lists, Loose, AgeIsIdle, buffer, registry, client
<1>3. DrawnExpires => DrawnExpires'
  BY <1>1 DEF DrawnExpires, client
<1> QED BY <1>1, <1>2, <1>3 DEF AiInv, buffer

LEMMA ReportKeeps ==
  ASSUME AiInv, NEW e \in Report, Ingest(e), Apply(NodeOf(e)), events' = events + 1,
         UNCHANGED <<registry, connected, muted, shown>>
  PROVE  AiInv' /\ (DrawnExpires => DrawnExpires')
<1>1. Lists /\ Loose
  BY DEF AiInv
<1>2. /\ nodes' \in Seq(Node) /\ IsSet(nodes') /\ Len(nodes') <= NodeCap
      /\ DrawnExpires => DrawnExpires'
  BY <1>1, ReportParts, ApplyKeeps
<1>3. /\ traces' \in Seq(Trace) /\ IsSet(traces') /\ Len(traces') <= TraceCap
      /\ AgeIsIdle'
  BY IngestKeeps
<1>4. age' \in [Trace -> 0..Old] /\ idle' \in [Trace -> 0..Old]
  BY IngestAges
<1>5. events' \in Nat
  BY <1>1 DEF Lists
<1>6. Lists'
  BY <1>2, <1>3, <1>4, <1>5 DEF Lists
<1>7. Loose'
  BY <1>1 DEF Loose, registry
<1> QED BY <1>2, <1>3, <1>6, <1>7 DEF AiInv

LEMMA StepAiInv ==
  ASSUME AiInv, [AiNext]_aiVars
  PROVE  AiInv' /\ (DrawnExpires => DrawnExpires')
<1>1. CASE ReportEvent
  BY <1>1, ReportKeeps DEF ReportEvent
<1>2. CASE Poll
  <2>1. PICK found : /\ \/ found = NoEvent
                        \/ \E kind \in {"START", "END"} : found = [kind |-> kind, number |-> events]
                     /\ Tick(found)
    BY <1>2 DEF Poll
  <2> QED BY <2>1, TickKeeps
<1>3. CASE TimePasses
  <2>1. DrawnExpires => DrawnExpires'
    BY <1>3 DEF TimePasses, DrawnExpires, client
  <2> QED BY <1>3, <2>1, TimeKeeps
<1>4. CASE Expire
  BY <1>4, ExpireKeeps
<1>5. CASE \E reload \in BOOLEAN : Connect(reload)
  BY <1>5, ConnectKeeps
<1>6. CASE Disconnect \/ SwitchBenchmark \/ UNCHANGED aiVars
  BY <1>6, RestKeeps
<1> QED BY <1>1, <1>2, <1>3, <1>4, <1>5, <1>6 DEF AiNext

LEMMA AiInvHolds == AiSpec => []AiInv
<1>1. AiInv /\ [AiNext]_aiVars => AiInv'
  BY StepAiInv
<1> QED BY <1>1, InitAiInv, PTL DEF AiSpec

(* The buffer's runs and the client's nodes are lists without repetition,  *)
(* and neither exceeds its cap.                                            *)
THEOREM AiTypes == AiSpec => []AiTypeOK
<1>1. AiInv => AiTypeOK
  <2> SUFFICES ASSUME AiInv PROVE AiTypeOK
    OBVIOUS
  <2>1. Range(traces) \subseteq Trace
    BY DEF AiInv, Lists, Range
  <2> QED BY <2>1 DEF AiInv, Lists, Loose, AiTypeOK
<1> QED BY <1>1, AiInvHolds, PTL

(* Whatever is drawn is listed to expire or was pushed out of the list by  *)
(* the cap since the last snapshot, and whatever is listed is drawn, or    *)
(* the last snapshot failed before it drew it.                             *)
THEOREM DrawnTheorem == AiSpec => []DrawnExpires
<1>1. AiInit => DrawnExpires
  BY DEF AiInit, DrawnExpires, Range
<1>2. AiInv /\ DrawnExpires /\ [AiNext]_aiVars => DrawnExpires'
  BY StepAiInv
<1> QED BY <1>1, <1>2, AiInvHolds, PTL DEF AiSpec

(* Time and the client cost no run its place.                              *)
LEMMA StepSparesRuns ==
  ASSUME AiInv, [AiNext]_aiVars, NEW t \in Range(traces) \ Range(traces')
  PROVE  \/ t \in ended'
         \/ idle'[t] >= Old
         \/ /\ Len(traces) = TraceCap /\ t = Head(traces)
            /\ ~(Range(traces') \subseteq Range(traces))
<1>1. CASE ReportEvent
  BY <1>1, IngestSpares DEF ReportEvent
<1>2. CASE Poll
  <2>1. PICK found : /\ \/ found = NoEvent
                        \/ \E kind \in {"START", "END"} : found = [kind |-> kind, number |-> events]
                     /\ Tick(found)
    BY <1>2 DEF Poll
  <2> QED BY <2>1, TickKeeps
<1>3. CASE TimePasses \/ Expire \/ Disconnect \/ SwitchBenchmark \/ UNCHANGED aiVars
           \/ \E reload \in BOOLEAN : Connect(reload)
  BY <1>3 DEF TimePasses, Expire, Disconnect, SwitchBenchmark, Connect, aiVars, buffer
<1> QED BY <1>1, <1>2, <1>3 DEF AiNext

(* A run leaves the active runs by its end, by silence, or because it is   *)
(* the one started first when another starts at the cap; never otherwise   *)
(* while it is being reported.                                             *)
THEOREM RunsKept == AiSpec => RunKeptWhileBusy
<1>1. AiInv /\ [AiNext]_aiVars =>
        [\A t \in Range(traces) \ Range(traces') :
           \/ t \in ended'
           \/ idle'[t] >= Old
           \/ /\ Len(traces) = TraceCap /\ t = Head(traces)
              /\ ~(Range(traces') \subseteq Range(traces))]_aiVars
  BY StepSparesRuns
<1> QED BY <1>1, AiInvHolds, PTL DEF AiSpec, RunKeptWhileBusy
===============================================================================
