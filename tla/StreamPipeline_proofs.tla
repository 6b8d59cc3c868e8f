----------------------- MODULE StreamPipeline_proofs -----------------------
(***************************************************************************)
(* Theorems about StreamPipeline, for any number of transactions, poison   *)
(* messages and faults: unless a delivery is lost that nobody misses,      *)
(* what is consumed is settled and what is published is on its topic, and  *)
(* the events that come back to their publisher do not multiply.           *)
(***************************************************************************)
EXTENDS StreamPipeline, TLAPS, FiniteSetTheorems, FunctionTheorems

Topics == OutTopics \cup {DeadLetters}

\* The message in hand is the last one fetched.
LoopInv ==
  /\ log \in [Topics -> Seq(Keys)]
  /\ current = NoOffset <=> wpc = "poll"
  /\ current # NoOffset => current = position - 1
  /\ wpc = "score" => Key \notin Poison

\* A message is on its topic, or will be when the queue is empty.
Produced(m) == OnTopic(m[1], m[2]) \/ m \in Range(queue)

Settled(k) == k \in scored \/ OnTopic(DeadLetters, k)

\* Everything fetched is settled, except perhaps the message in hand, which is
\* before its offset is committed.
ConsumerInv ==
  /\ \A o \in 1 .. position : Settled(log[Source][o]) \/ (current = o - 1 /\ committed < o)
  /\ wpc \in {"commit", "metrics"} => Settled(Key)
  /\ wpc = "dlq_flush" => Produced(<<DeadLetters, Key>>)
  /\ wpc = "dlq_commit" => Settled(Key)

\* A row is published, or about to be marked so, only once it is on its topic.
RelayInv ==
  /\ \A r \in Rows : row[r] = "published" => OnTopic(r[1], r[2])
  /\ \A r \in pub.marked : OnTopic(r[1], r[2])
  /\ \A r \in pub.inflight : Produced(r)

IInv == TypeOK /\ LoopInv /\ (faults.lossy \/ (ConsumerInv /\ RelayInv))

-----------------------------------------------------------------------------
(* Sequences                                                               *)

\* An element more at the end.
LEMMA RangeOfAppend ==
  ASSUME NEW S, NEW s \in Seq(S), NEW e \in S
  PROVE  Range(Append(s, e)) = Range(s) \cup {e}
<1>1. /\ Append(s, e) \in Seq(S) /\ Len(Append(s, e)) = Len(s) + 1
      /\ Append(s, e)[Len(s) + 1] = e
      /\ \A i \in 1 .. Len(s) : Append(s, e)[i] = s[i]
  OBVIOUS
<1>2. DOMAIN Append(s, e) = 1 .. Len(s) + 1 /\ DOMAIN s = 1 .. Len(s) /\ Len(s) \in Nat
  BY <1>1
<1>3. \A i \in 1 .. Len(s) + 1 : i \in 1 .. Len(s) \/ i = Len(s) + 1
  BY <1>2
<1>4. ASSUME NEW x \in Range(s) \cup {e} PROVE x \in Range(Append(s, e))
  <2>1. CASE x = e
    BY <1>1, <1>2, <2>1 DEF Range
  <2>2. CASE x \in Range(s)
    <3>1. PICK i \in 1 .. Len(s) : x = s[i]
      BY <1>2, <2>2 DEF Range
    <3>2. i \in 1 .. Len(s) + 1
      BY <1>2
    <3> QED
      BY <1>1, <1>2, <3>1, <3>2 DEF Range
  <2> QED
    BY <2>1, <2>2
<1> QED
  BY <1>1, <1>2, <1>3, <1>4 DEF Range

\* The head is gone, and nothing else.
LEMMA RangeOfTail ==
  ASSUME NEW S, NEW s \in Seq(S), s # <<>>
  PROVE  /\ Head(s) \in S /\ Tail(s) \in Seq(S)
         /\ \A x \in Range(s) : x = Head(s) \/ x \in Range(Tail(s))
<1>1. /\ Len(s) \in Nat \ {0} /\ Head(s) = s[1] /\ Tail(s) \in Seq(S)
      /\ Len(Tail(s)) = Len(s) - 1
      /\ \A i \in 1 .. Len(s) - 1 : Tail(s)[i] = s[i + 1]
  OBVIOUS
<1>2. SUFFICES ASSUME NEW i \in 1 .. Len(s), i # 1 PROVE s[i] \in Range(Tail(s))
  BY <1>1 DEF Range
<1>3. i - 1 \in 1 .. Len(Tail(s)) /\ Tail(s)[i - 1] = s[i]
  BY <1>1, <1>2
<1>4. DOMAIN Tail(s) = 1 .. Len(Tail(s))
  BY <1>1
<1> QED
  BY <1>3, <1>4 DEF Range

-----------------------------------------------------------------------------
(* The log only grows                                                      *)

\* A message is appended to a topic: everything that was there is still there,
\* where it was.
LEMMA LogGrows ==
  ASSUME IInv, NEW topic \in Topics, NEW k \in Keys,
         log' = [log EXCEPT ![topic] = Append(@, k)], topic = Source \/ k \in Txns \/ topic = DeadLetters
  PROVE  /\ log' \in [Topics -> Seq(Keys)]
         /\ \A other \in OutTopics \ {Source} : log'[other] \in Seq(Txns)
         /\ \A other \in Topics : \A x : OnTopic(other, x) => OnTopic(other, x)'
         /\ OnTopic(topic, k)'
         /\ Len(log[Source]) <= Len(log'[Source])
         /\ \A o \in 1 .. Len(log[Source]) : log'[Source][o] = log[Source][o]
<1> USE DEF IInv, TypeOK, LoopInv
<1>1. /\ log'[topic] = Append(log[topic], k) /\ log[topic] \in Seq(Keys)
      /\ \A other \in Topics \ {topic} : log'[other] = log[other]
      /\ DOMAIN log' = Topics
  OBVIOUS
<1>2. Range(log'[topic]) = Range(log[topic]) \cup {k}
  BY <1>1, RangeOfAppend
<1>3. log' \in [Topics -> Seq(Keys)]
  BY <1>1
<1>4. \A other \in OutTopics \ {Source} : log'[other] \in Seq(Txns)
  BY <1>1 DEF Topics, OutTopics, Source, DeadLetters
<1>5. Source \in Topics /\ log[Source] \in Seq(Keys)
  BY DEF Topics, OutTopics, Source
<1>6. /\ Len(log[Source]) <= Len(log'[Source])
      /\ \A o \in 1 .. Len(log[Source]) : log'[Source][o] = log[Source][o]
  BY <1>1, <1>5
<1> QED
  BY <1>1, <1>2, <1>3, <1>4, <1>6 DEF OnTopic

-----------------------------------------------------------------------------
(* The invariant                                                           *)

\* Initially nothing has been sent.
LEMMA InitIInv == Init => IInv
<1> SUFFICES ASSUME Init PROVE IInv
  OBVIOUS
<1>1. TypeOK
  BY PipelineAssumption DEF PipelineAssumption, Init, TypeOK, IdlePub, PubPCs, WPCs, Rows,
                            OutTopics, Source, DeadLetters
<1>2. LoopInv
  BY DEF Init, LoopInv, Topics
<1>3. ConsumerInv
  BY DEF Init, ConsumerInv
<1>4. RelayInv
  BY DEF Init, RelayInv, IdlePub
<1> QED
  BY <1>1, <1>2, <1>3, <1>4 DEF IInv

\* A fault is counted, and remembered if it loses a message.
LEMMA FaultIsCounted ==
  ASSUME IInv, NEW kind, Fault(kind)
  PROVE  /\ faults' \in [count : 0 .. MaxFaults, lossy : BOOLEAN]
         /\ faults'.lossy <=> faults.lossy \/ kind \in Lossy
<1>1. /\ faults \in [count : 0 .. MaxFaults, lossy : BOOLEAN] /\ MaxFaults \in Nat
      /\ faults.count < MaxFaults
      /\ faults' = [count |-> faults.count + 1, lossy |-> faults.lossy \/ kind \in Lossy]
  BY PipelineAssumption DEF PipelineAssumption, IInv, TypeOK, Fault
<1>2. faults'.count = faults.count + 1 /\ faults'.lossy = (faults.lossy \/ kind \in Lossy)
  BY <1>1
<1>3. faults.count + 1 \in 0 .. MaxFaults
  BY <1>1
<1> QED
  BY <1>1, <1>2, <1>3

\* A flush returns with an empty queue, or a message may be lost.
LEMMA FlushIsEmptyOrLossy ==
  ASSUME IInv, FlushReturns
  PROVE  /\ faults' \in [count : 0 .. MaxFaults, lossy : BOOLEAN]
         /\ faults.lossy => faults'.lossy
         /\ faults'.lossy \/ (queue = <<>> /\ \A m : Produced(m) => OnTopic(m[1], m[2]))
<1>1. CASE queue = <<>>
  <2>1. Range(queue) = {}
    BY <1>1 DEF Range
  <2> QED
    BY <1>1, <2>1 DEF FlushReturns, Produced, IInv, TypeOK
<1>2. CASE queue # <<>>
  BY <1>2, FaultIsCounted DEF FlushReturns, Lossy
<1> QED
  BY <1>1, <1>2

\* A transaction is scored: rows become pending, none published.
LEMMA ScoreAddsPending ==
  ASSUME IInv, NEW t \in Txns, Score(t)
  PROVE  /\ scored' \subseteq Txns /\ scored \subseteq scored' /\ t \in scored'
         /\ row' \in [Rows -> {"absent", "pending", "published"}]
         /\ \A r \in Rows : row'[r] = "published" => row[r] = "published"
  BY DEF IInv, TypeOK, Score

\* How far the loop is, in terms of the topic.
LEMMA Bounds ==
  ASSUME IInv
  PROVE  /\ Source \in Topics /\ DeadLetters \in Topics /\ \A r \in Rows : r[1] \in Topics
         /\ log[Source] \in Seq(Keys) /\ Len(log[Source]) \in Nat
         /\ committed \in Nat /\ position \in Nat
         /\ committed <= position /\ position <= Len(log[Source])
         /\ current # NoOffset => /\ current \in Nat /\ current = position - 1
                                  /\ position \in 1 .. Len(log[Source])
                                  /\ Key = log[Source][position] /\ Key \in Keys
<1>1. /\ log[Source] \in Seq(Keys) /\ position \in 0 .. Len(log[Source])
      /\ committed \in 0 .. position
      /\ current \in 0 .. position - 1 \/ current = NoOffset
      /\ current # NoOffset => current = position - 1
  BY DEF IInv, TypeOK, LoopInv
<1>2. Source \in Topics /\ DeadLetters \in Topics /\ \A r \in Rows : r[1] \in Topics
  BY DEF Topics, OutTopics, Source, Rows
<1> QED
  BY <1>1, <1>2 DEF Key

\* The environment and the broker: what has been scored, published or produced
\* only grows.
Grows ==
  /\ scored \subseteq scored'
  /\ \A topic \in Topics : Range(log[topic]) \subseteq Range(log'[topic])
  /\ \A m \in Range(queue) : m \in Range(queue') \/ m[2] \in Range(log'[m[1]])
  /\ \A o \in 1 .. position : log'[Source][o] = log[Source][o]

\* Then a loop that stands still knows no less.
LEMMA ConsumerStays ==
  ASSUME IInv, Grows, UNCHANGED worker, UNCHANGED committed
  PROVE  /\ current # NoOffset => Key' = Key
         /\ ConsumerInv => ConsumerInv'
<1>1. UNCHANGED <<wpc, position, current>>
  BY DEF worker
<1>2. current # NoOffset => Key' = Key
  BY <1>1, Bounds DEF Key, Grows
<1>3. SUFFICES ASSUME ConsumerInv PROVE ConsumerInv'
  BY <1>2
<1>4. ASSUME NEW o \in 1 .. position
      PROVE  Settled(log[Source][o])' \/ (current' = o - 1 /\ committed' < o)
  <2>1. log'[Source][o] = log[Source][o]
    BY DEF Grows
  <2> QED
    BY <1>1, <1>3, <2>1, Bounds DEF ConsumerInv, Settled, OnTopic, Grows
<1>5. wpc # "poll" => Key' = Key
  BY <1>2 DEF IInv, LoopInv
<1>6. wpc \in {"commit", "metrics", "dlq_commit"} => (Settled(Key) => Settled(Key)')
  BY <1>5, Bounds DEF Settled, OnTopic, Grows
<1>7. ASSUME wpc = "dlq_flush", Produced(<<DeadLetters, Key>>)
      PROVE  Produced(<<DeadLetters, Key>>)'
  <2>1. Key \in Range(log[DeadLetters]) => Key \in Range(log'[DeadLetters])
    BY Bounds DEF Grows
  <2>2. <<DeadLetters, Key>> \in Range(queue) =>
          <<DeadLetters, Key>> \in Range(queue') \/ Key \in Range(log'[DeadLetters])
    BY DEF Grows
  <2> QED
    BY <1>5, <1>7, <2>1, <2>2 DEF Produced, OnTopic
<1> QED
  BY <1>1, <1>3, <1>4, <1>6, <1>7 DEF ConsumerInv

\* And a relay that stands still has no less on its topics.
LEMMA RelayStays ==
  ASSUME IInv, Grows, UNCHANGED pub,
         \A r \in Rows : row'[r] = "published" => row[r] = "published"
  PROVE  RelayInv => RelayInv'
<1>1. ASSUME NEW r \in Rows
      PROVE  /\ OnTopic(r[1], r[2]) => OnTopic(r[1], r[2])'
             /\ Produced(r) => Produced(r)'
  BY Bounds DEF Grows, OnTopic, Produced
<1>2. pub.marked \subseteq Rows /\ pub.inflight \subseteq Rows
  BY DEF IInv, TypeOK
<1> QED
  BY <1>1, <1>2 DEF RelayInv

\* The API scores a transaction.
LEMMA ApiScoreKeeps == ASSUME IInv, NEW t \in Txns, ApiScore(t) PROVE IInv'
<1>1. UNCHANGED <<log, sent, committed, up, queue, pub, worker, wpc, position, current, faults>>
  BY DEF ApiScore, broker, worker
<1>2. TypeOK'
  BY <1>1, ScoreAddsPending DEF IInv, TypeOK, ApiScore
<1>3. LoopInv'
  BY <1>1 DEF IInv, LoopInv, Key
<1>4. Grows
  BY <1>1, ScoreAddsPending DEF Grows, ApiScore
<1> QED
  BY <1>1, <1>2, <1>3, <1>4, ScoreAddsPending, ConsumerStays, RelayStays DEF IInv, ApiScore

\* Somebody publishes a key.
LEMMA ExternalPublishKeeps == ASSUME IInv, NEW k \in Keys, ExternalPublish(k) PROVE IInv'
<1>1. /\ log' \in [Topics -> Seq(Keys)]
      /\ \A other \in OutTopics \ {Source} : log'[other] \in Seq(Txns)
      /\ \A other \in Topics : \A x : OnTopic(other, x) => OnTopic(other, x)'
      /\ Len(log[Source]) <= Len(log'[Source])
      /\ \A o \in 1 .. Len(log[Source]) : log'[Source][o] = log[Source][o]
  BY Bounds, LogGrows DEF ExternalPublish
<1>2. /\ sent' = sent \cup {k}
      /\ UNCHANGED <<scored, row, committed, up, queue, pub, worker, wpc, position, current, faults>>
  BY DEF ExternalPublish, db, worker
<1>3. position \in 0 .. Len(log'[Source]) /\ log'[Source] \in Seq(Keys) /\ log'[DeadLetters] \in Seq(Keys)
  BY <1>1, Bounds
<1>4. TypeOK'
  BY <1>1, <1>2, <1>3 DEF IInv, TypeOK
<1>5. Grows
  BY <1>1, <1>2, Bounds DEF Grows, OnTopic
<1>6. LoopInv'
  BY <1>1, <1>2, <1>5, ConsumerStays, PipelineAssumption DEF IInv, LoopInv, PipelineAssumption
<1> QED
  BY <1>2, <1>4, <1>5, <1>6, ConsumerStays, RelayStays DEF IInv

\* The oldest message of the queue gets to its topic.
LEMMA AcknowledgeKeeps == ASSUME IInv, Acknowledge PROVE IInv'
<1>1. /\ queue \in Seq(Messages) /\ queue # <<>> /\ queue' = Tail(queue)
      /\ UNCHANGED <<scored, row, sent, committed, up, pub, worker, wpc, position, current, faults>>
  BY DEF Acknowledge, db, worker, IInv, TypeOK
<1>2. /\ Head(queue) \in Messages /\ Tail(queue) \in Seq(Messages)
      /\ \A m \in Range(queue) : m = Head(queue) \/ m \in Range(Tail(queue))
  BY <1>1, RangeOfTail
<1>3. PICK topic \in Topics, k \in Keys :
        /\ Head(queue) = <<topic, k>>
        /\ topic = Source \/ k \in Txns \/ topic = DeadLetters
  BY <1>2 DEF Messages, Topics, Keys
<1>4. /\ log' \in [Topics -> Seq(Keys)]
      /\ \A other \in OutTopics \ {Source} : log'[other] \in Seq(Txns)
      /\ \A other \in Topics : \A x : OnTopic(other, x) => OnTopic(other, x)'
      /\ OnTopic(topic, k)'
      /\ Len(log[Source]) <= Len(log'[Source])
      /\ \A o \in 1 .. Len(log[Source]) : log'[Source][o] = log[Source][o]
  <2>1. log' = [log EXCEPT ![topic] = Append(@, k)]
    <3>1. log' = [log EXCEPT ![Head(queue)[1]] = Append(@, Head(queue)[2])]
      BY DEF Acknowledge
    <3>2. Head(queue)[1] = topic /\ Head(queue)[2] = k
      BY <1>3
    <3> QED
      BY <3>1, <3>2
  <2> QED
    BY <1>3, <2>1, LogGrows
<1>5. position \in 0 .. Len(log'[Source]) /\ log'[Source] \in Seq(Keys) /\ log'[DeadLetters] \in Seq(Keys)
  BY <1>4, Bounds
<1>6. TypeOK'
  BY <1>1, <1>2, <1>4, <1>5 DEF IInv, TypeOK
<1>7. Grows
  <2>1. ASSUME NEW m \in Range(queue) PROVE m \in Range(queue') \/ m[2] \in Range(log'[m[1]])
    BY <1>1, <1>2, <1>3, <1>4 DEF OnTopic
  <2> QED
    BY <1>1, <1>4, <2>1, Bounds DEF Grows, OnTopic
<1>8. LoopInv'
  BY <1>1, <1>4, <1>7, ConsumerStays, PipelineAssumption DEF IInv, LoopInv, PipelineAssumption
<1> QED
  BY <1>1, <1>6, <1>7, <1>8, ConsumerStays, RelayStays DEF IInv

\* A message is lost, and it is remembered.
LEMMA DeliveryErrorKeeps == ASSUME IInv, DeliveryError PROVE IInv'
<1>1. faults' \in [count : 0 .. MaxFaults, lossy : BOOLEAN] /\ faults'.lossy
  BY FaultIsCounted DEF DeliveryError, Lossy
<1>2. queue' \in Seq(Messages)
  BY RangeOfTail DEF DeliveryError, IInv, TypeOK
<1>3. UNCHANGED <<scored, row, log, sent, committed, up, pub, wpc, position, current>>
  BY DEF DeliveryError, db, broker, worker
<1>4. TypeOK' /\ LoopInv'
  BY <1>1, <1>2, <1>3 DEF IInv, TypeOK, LoopInv, Key
<1> QED
  BY <1>1, <1>4, Zenon DEF IInv

-----------------------------------------------------------------------------
(* The outbox thread                                                       *)

\* What the thread does leaves the consumer's state alone, if the queue loses
\* nothing.
LEMMA OutboxFrame ==
  ASSUME IInv, UNCHANGED <<scored, log, committed, worker>>,
         Range(queue) \subseteq Range(queue')
  PROVE  LoopInv' /\ (ConsumerInv => ConsumerInv') /\ Grows
<1>1. Grows
  BY DEF Grows
<1>2. LoopInv'
  BY DEF IInv, LoopInv, Key, worker
<1> QED
  BY <1>1, <1>2, ConsumerStays

\* A step of the thread that neither produces nor commits.
LEMMA BatchStepKeeps ==
  ASSUME IInv,
         \/ SelectBatch \/ MarkRow \/ OutboxThreadDies
         \/ \E r \in Rows : PublishRowFails(r)
  PROVE  IInv'
<1>1. UNCHANGED <<scored, row, log, sent, committed, up, queue, worker, wpc, position, current>>
  BY DEF SelectBatch, MarkRow, OutboxThreadDies, PublishRowFails, db, broker, worker
<1>2. LoopInv' /\ (ConsumerInv => ConsumerInv')
  BY <1>1, OutboxFrame
<1>3. /\ pub \in [pc : PubPCs, batch : SUBSET Rows, inflight : SUBSET Rows, marked : SUBSET Rows]
      /\ faults \in [count : 0 .. MaxFaults, lossy : BOOLEAN]
  BY DEF IInv, TypeOK
<1>4. /\ pub' \in [pc : PubPCs, batch : SUBSET Rows, inflight : SUBSET Rows, marked : SUBSET Rows]
      /\ faults' \in [count : 0 .. MaxFaults, lossy : BOOLEAN]
      /\ faults.lossy => faults'.lossy
      /\ faults'.lossy \/ (RelayInv => RelayInv')
  <2>1. CASE SelectBatch
    <3>1. PICK batch \in SUBSET Pending : pub' = [pub EXCEPT !.pc = "publish", !.batch = batch]
      BY <2>1 DEF SelectBatch
    <3>2. /\ pub' \in [pc : PubPCs, batch : SUBSET Rows, inflight : SUBSET Rows, marked : SUBSET Rows]
          /\ pub'.inflight = pub.inflight /\ pub'.marked = pub.marked
      BY <1>3, <3>1 DEF PubPCs, Pending
    <3>3. UNCHANGED faults
      BY <2>1 DEF SelectBatch
    <3> QED
      BY <1>1, <1>3, <3>2, <3>3 DEF RelayInv, OnTopic, Produced
  <2>2. CASE MarkRow
    <3>1. pub' = [pub EXCEPT !.pc = "publish", !.inflight = {}, !.marked = @ \cup pub.inflight]
      BY <2>2 DEF MarkRow
    <3>2. /\ faults' \in [count : 0 .. MaxFaults, lossy : BOOLEAN]
          /\ faults.lossy => faults'.lossy
          /\ faults'.lossy \/ \A m : Produced(m) => OnTopic(m[1], m[2])
      BY <2>2, FlushIsEmptyOrLossy DEF MarkRow
    <3>3. /\ pub'.inflight = {} /\ pub'.marked = pub.marked \cup pub.inflight
          /\ pub' \in [pc : PubPCs, batch : SUBSET Rows, inflight : SUBSET Rows, marked : SUBSET Rows]
      BY <1>3, <3>1 DEF PubPCs
    <3> QED
      BY <1>1, <3>2, <3>3 DEF RelayInv, OnTopic
  <2>3. CASE OutboxThreadDies
    <3>1. /\ pub' = [IdlePub EXCEPT !.pc = "dead"]
          /\ faults' \in [count : 0 .. MaxFaults, lossy : BOOLEAN]
          /\ faults.lossy => faults'.lossy
      BY <2>3, FaultIsCounted DEF OutboxThreadDies
    <3>2. pub' = [pc |-> "dead", batch |-> {}, inflight |-> {}, marked |-> {}]
      BY <3>1 DEF IdlePub
    <3>3. RelayInv => RelayInv'
      BY <1>1, <3>2 DEF RelayInv, OnTopic
    <3>4. pub' \in [pc : PubPCs, batch : SUBSET Rows, inflight : SUBSET Rows, marked : SUBSET Rows]
      BY <3>2 DEF PubPCs
    <3> QED
      BY <3>1, <3>3, <3>4
  <2>4. CASE \E r \in Rows : PublishRowFails(r)
    <3>1. PICK r \in Rows : PublishRowFails(r)
      BY <2>4
    <3>2. /\ pub' = [pub EXCEPT !.batch = @ \ {r}]
          /\ faults' \in [count : 0 .. MaxFaults, lossy : BOOLEAN]
          /\ faults.lossy => faults'.lossy
      BY <3>1, FaultIsCounted DEF PublishRowFails
    <3> QED
      BY <1>1, <1>3, <3>2 DEF RelayInv, OnTopic, Produced, PubPCs
  <2> QED
    BY <2>1, <2>2, <2>3, <2>4
<1>5. TypeOK'
  BY <1>1, <1>4 DEF IInv, TypeOK
<1> QED
  BY <1>2, <1>4, <1>5, Zenon DEF IInv

\* A row is handed to the producer.
LEMMA PublishRowKeeps == ASSUME IInv, NEW r \in Rows, PublishRow(r) PROVE IInv'
<1>1. /\ queue \in Seq(Messages) /\ r \in Messages /\ queue' = Append(queue, r)
      /\ UNCHANGED <<scored, row, log, sent, committed, up, worker, wpc, position, current, faults>>
  BY DEF PublishRow, db, broker, worker, IInv, TypeOK, Rows, Messages
<1>2. Range(queue') = Range(queue) \cup {r} /\ queue' \in Seq(Messages)
  BY <1>1, RangeOfAppend
<1>3. LoopInv' /\ (ConsumerInv => ConsumerInv')
  BY <1>1, <1>2, OutboxFrame
<1>4. /\ pub' \in [pc : PubPCs, batch : SUBSET Rows, inflight : SUBSET Rows, marked : SUBSET Rows]
      /\ pub'.inflight = {r} /\ pub'.marked = pub.marked
  BY DEF PublishRow, PubPCs, IInv, TypeOK
<1>5. TypeOK'
  BY <1>1, <1>2, <1>4 DEF IInv, TypeOK
<1>6. RelayInv => RelayInv'
  BY <1>1, <1>2, <1>4 DEF RelayInv, OnTopic, Produced
<1> QED
  BY <1>1, <1>3, <1>5, <1>6 DEF IInv

\* The rows of the batch that are on their topics are marked.
LEMMA CommitBatchKeeps == ASSUME IInv, CommitBatch PROVE IInv'
<1>1. UNCHANGED <<scored, log, sent, committed, up, queue, worker, wpc, position, current, faults>>
  BY DEF CommitBatch, broker, worker
<1>2. LoopInv' /\ (ConsumerInv => ConsumerInv')
  BY <1>1, OutboxFrame
<1>3. /\ row' = [r \in Rows |-> IF r \in pub.marked THEN "published" ELSE row[r]]
      /\ row \in [Rows -> {"absent", "pending", "published"}]
      /\ pub' = [pc |-> "select", batch |-> {}, inflight |-> {}, marked |-> {}]
  BY DEF CommitBatch, IdlePub, IInv, TypeOK
<1>4. TypeOK'
  BY <1>1, <1>3 DEF IInv, TypeOK, PubPCs
<1>5. RelayInv => RelayInv'
  BY <1>1, <1>3 DEF RelayInv, OnTopic
<1> QED
  BY <1>1, <1>2, <1>4, <1>5 DEF IInv

-----------------------------------------------------------------------------
(* The main thread                                                         *)

\* What the thread does leaves the relay's state alone, if the queue loses
\* nothing and no row becomes published.
LEMMA MainFrame ==
  ASSUME IInv, UNCHANGED <<log, pub>>, scored \subseteq scored',
         Range(queue) \subseteq Range(queue'),
         \A r \in Rows : row'[r] = "published" => row[r] = "published"
  PROVE  RelayInv => RelayInv'
<1>1. Grows
  BY DEF Grows
<1> QED
  BY <1>1, RelayStays

\* The next message is fetched.
LEMMA PollKeeps == ASSUME IInv, Poll PROVE IInv'
<1>1. /\ wpc = "poll" /\ current = NoOffset /\ position < Len(log[Source])
      /\ current' = position /\ position' = position + 1
      /\ wpc' = IF log[Source][position + 1] \in Poison THEN "dlq" ELSE "score"
      /\ UNCHANGED <<scored, row, log, sent, committed, up, queue, pub, faults>>
  BY DEF Poll, db, broker, IInv, LoopInv
<1>2. Key' = log[Source][position + 1]
  BY <1>1 DEF Key
<1>3. TypeOK'
  BY <1>1, Bounds DEF IInv, TypeOK, WPCs
<1>4. LoopInv'
  BY <1>1, <1>2, Bounds, PipelineAssumption DEF IInv, LoopInv, PipelineAssumption
<1>5. ASSUME ConsumerInv PROVE ConsumerInv'
  <2>1. ASSUME NEW o \in 1 .. position PROVE Settled(log[Source][o])
    BY <1>1, <1>5, <2>1, Bounds, PipelineAssumption DEF ConsumerInv, PipelineAssumption
  <2>2. \A o \in 1 .. position' : o \in 1 .. position \/ (current' = o - 1 /\ committed' < o)
    BY <1>1, Bounds
  <2>3. wpc' \in {"dlq", "score"}
    BY <1>1
  <2> QED
    BY <1>1, <2>1, <2>2, <2>3 DEF ConsumerInv, Settled, OnTopic
<1>6. RelayInv => RelayInv'
  BY <1>1, MainFrame
<1> QED
  BY <1>1, <1>3, <1>4, <1>5, <1>6 DEF IInv

\* An offset is committed, or the next message wanted, only once the message in
\* hand is settled.
LEMMA FetchedIsSettled ==
  ASSUME IInv, ConsumerInv, UNCHANGED <<log, position>>, scored \subseteq scored',
         current # NoOffset,
         \/ UNCHANGED <<current, committed>>
         \/ Key \in scored'
         \/ OnTopic(DeadLetters, Key)
  PROVE  \A o \in 1 .. position' : Settled(log[Source][o])' \/ (current' = o - 1 /\ committed' < o)
<1>1. SUFFICES ASSUME NEW o \in 1 .. position
               PROVE  Settled(log[Source][o])' \/ (current' = o - 1 /\ committed' < o)
  OBVIOUS
<1>2. Settled(log[Source][o]) => Settled(log[Source][o])'
  BY DEF Settled, OnTopic
<1>3. CASE o = position
  <2>1. Key = log[Source][o]
    BY <1>3, Bounds
  <2>2. CASE UNCHANGED <<current, committed>>
    BY <1>2, <2>2 DEF ConsumerInv
  <2>3. CASE Key \in scored' \/ OnTopic(DeadLetters, Key)
    BY <2>1, <2>3 DEF Settled, OnTopic
  <2> QED
    BY <2>2, <2>3
<1>4. CASE o # position
  <2>1. current # o - 1
    BY <1>4, Bounds
  <2> QED
    BY <1>2, <2>1 DEF ConsumerInv
<1> QED
  BY <1>3, <1>4

\* The message is scored.
LEMMA ScoreMessageKeeps == ASSUME IInv, ScoreMessage PROVE IInv'
<1>1. /\ wpc = "score" /\ wpc' = "commit" /\ current # NoOffset /\ Score(Key)
      /\ UNCHANGED <<log, sent, committed, up, queue, pub, position, current, faults>>
  BY DEF ScoreMessage, broker, IInv, LoopInv
<1>2. Key \in Txns
  BY <1>1, Bounds DEF IInv, LoopInv, Keys
<1>3. /\ scored' \subseteq Txns /\ scored \subseteq scored' /\ Key \in scored'
      /\ row' \in [Rows -> {"absent", "pending", "published"}]
      /\ \A r \in Rows : row'[r] = "published" => row[r] = "published"
  BY <1>1, <1>2, ScoreAddsPending
<1>4. Key' = Key
  BY <1>1 DEF Key
<1>5. TypeOK'
  BY <1>1, <1>3 DEF IInv, TypeOK, WPCs
<1>6. LoopInv'
  BY <1>1 DEF IInv, LoopInv
<1>7. ConsumerInv => ConsumerInv'
  <2>1. Settled(Key)'
    BY <1>3, <1>4 DEF Settled
  <2> QED
    BY <1>1, <1>3, <2>1, FetchedIsSettled DEF ConsumerInv
<1>8. RelayInv => RelayInv'
  BY <1>1, <1>3, MainFrame
<1> QED
  BY <1>1, <1>5, <1>6, <1>7, <1>8 DEF IInv

\* The steps that write no table and produce nothing.
LEMMA LoopStepKeeps ==
  ASSUME IInv,
         \/ ScoreFails \/ CommitOffset \/ CommitOffsetFails \/ ReportMetrics \/ MetricsFail
         \/ DeadLetterFails \/ DeadLetterFlushed \/ CommitDeadLetter \/ CommitDeadLetterFails
  PROVE  IInv'
<1>1. /\ wpc # "poll" /\ current # NoOffset
      /\ UNCHANGED <<scored, row, log, sent, up, queue, pub, position>>
  BY DEF ScoreFails, CommitOffset, CommitOffsetFails, ReportMetrics, MetricsFail, DeadLetterFails,
         DeadLetterFlushed, CommitDeadLetter, CommitDeadLetterFails, db, broker, IInv, LoopInv
<1>2. RelayInv => RelayInv'
  BY <1>1, MainFrame
<1> DEFINE Typed == /\ faults' \in [count : 0 .. MaxFaults, lossy : BOOLEAN]
                    /\ faults.lossy => faults'.lossy
<1>3. Typed
  <2>1. CASE UNCHANGED faults
    BY <2>1 DEF IInv, TypeOK
  <2>2. CASE DeadLetterFlushed
    BY <2>2, FlushIsEmptyOrLossy DEF DeadLetterFlushed
  <2>3. CASE \E kind \in FaultKinds : Fault(kind)
    BY <2>3, FaultIsCounted
  <2> QED
    BY <2>1, <2>2, <2>3
    DEF ScoreFails, CommitOffset, CommitOffsetFails, ReportMetrics, MetricsFail, DeadLetterFails,
        CommitDeadLetter, CommitDeadLetterFails, FaultKinds
<1>4. \/ wpc' \in {"dlq", "metrics", "exit", "dlq_commit"} /\ current' = current
      \/ wpc' = "poll" /\ current' = NoOffset
  BY DEF ScoreFails, CommitOffset, CommitOffsetFails, ReportMetrics, MetricsFail, DeadLetterFails,
         DeadLetterFlushed, CommitDeadLetter, CommitDeadLetterFails
<1>5. committed' \in {committed, current + 1}
  BY DEF ScoreFails, CommitOffset, CommitOffsetFails, ReportMetrics, MetricsFail, DeadLetterFails,
         DeadLetterFlushed, CommitDeadLetter, CommitDeadLetterFails, broker
<1>6. TypeOK'
  BY <1>1, <1>3, <1>4, <1>5, Bounds DEF IInv, TypeOK, WPCs
<1>7. LoopInv'
  BY <1>1, <1>4 DEF IInv, LoopInv
<1>8. ASSUME ConsumerInv PROVE ConsumerInv' \/ faults'.lossy
  <2>1. /\ Settled(Key) \/ UNCHANGED <<current, committed>>
        /\ faults'.lossy \/ (wpc' \in {"metrics", "dlq_commit"} => Settled(Key))
    <3>1. CASE DeadLetterFlushed
      <4>1. faults'.lossy \/ OnTopic(DeadLetters, Key)
        BY <1>8, <3>1, FlushIsEmptyOrLossy DEF DeadLetterFlushed, ConsumerInv
      <4> QED
        BY <3>1, <4>1 DEF DeadLetterFlushed, broker, Settled
    <3>2. CASE ~DeadLetterFlushed
      BY <1>8, <3>2
      DEF ScoreFails, CommitOffset, CommitOffsetFails, ReportMetrics, MetricsFail, DeadLetterFails,
          CommitDeadLetter, CommitDeadLetterFails, broker, ConsumerInv
    <3> QED
      BY <3>1, <3>2
  <2>2. wpc' # "poll" => Key' = Key
    BY <1>1, <1>4 DEF Key
  <2>3. \A o \in 1 .. position' : Settled(log[Source][o])' \/ (current' = o - 1 /\ committed' < o)
    BY <1>1, <1>8, <2>1, FetchedIsSettled DEF Settled
  <2>4. faults'.lossy \/ (wpc' \in {"metrics", "dlq_commit"} => Settled(Key)')
    BY <1>1, <1>4, <2>1, <2>2 DEF Settled, OnTopic
  <2> QED
    BY <1>4, <2>3, <2>4 DEF ConsumerInv
<1> QED
  BY <1>2, <1>3, <1>6, <1>7, <1>8 DEF IInv

\* A message goes to the dead letters.
LEMMA DeadLetterKeeps == ASSUME IInv, DeadLetter PROVE IInv'
<1>1. /\ wpc = "dlq" /\ current # NoOffset /\ wpc' = "dlq_flush"
      /\ queue \in Seq(Messages) /\ queue' = Append(queue, <<DeadLetters, Key>>)
      /\ UNCHANGED <<scored, row, log, sent, committed, up, pub, position, current, faults>>
  BY DEF DeadLetter, db, broker, IInv, TypeOK, LoopInv
<1>2. <<DeadLetters, Key>> \in Messages /\ Key' = Key
  BY <1>1, Bounds DEF Messages, Key
<1>3. Range(queue') = Range(queue) \cup {<<DeadLetters, Key>>} /\ queue' \in Seq(Messages)
  BY <1>1, <1>2, RangeOfAppend
<1>4. TypeOK'
  BY <1>1, <1>3 DEF IInv, TypeOK, WPCs
<1>5. LoopInv'
  BY <1>1 DEF IInv, LoopInv
<1>6. ConsumerInv => ConsumerInv'
  <2>1. Produced(<<DeadLetters, Key>>)'
    BY <1>2, <1>3 DEF Produced
  <2> QED
    BY <1>1, <2>1, FetchedIsSettled DEF ConsumerInv
<1>7. RelayInv => RelayInv'
  BY <1>1, <1>3, MainFrame
<1> QED
  BY <1>1, <1>4, <1>5, <1>6, <1>7 DEF IInv

-----------------------------------------------------------------------------
(* The process                                                             *)

\* The process ends: what it held is gone, and the next one starts from what was
\* committed.
LEMMA DownKeeps ==
  ASSUME IInv, Down, faults' \in [count : 0 .. MaxFaults, lossy : BOOLEAN],
         faults.lossy => faults'.lossy
  PROVE  IInv'
<1>1. /\ wpc' = "poll" /\ current' = NoOffset /\ position' = committed /\ queue' = <<>>
      /\ up' = FALSE /\ pub' = [pc |-> "select", batch |-> {}, inflight |-> {}, marked |-> {}]
      /\ UNCHANGED <<scored, row, log, sent, committed>>
  BY DEF Down, db, broker, IdlePub
<1>2. TypeOK'
  <2>1. position' \in 0 .. Len(log[Source]) /\ committed' \in 0 .. position'
    BY <1>1, Bounds
  <2>2. pub' \in [pc : PubPCs, batch : SUBSET Rows, inflight : SUBSET Rows, marked : SUBSET Rows]
    BY <1>1 DEF PubPCs
  <2>3. queue' \in Seq(Messages) /\ wpc' \in WPCs
    BY <1>1 DEF WPCs
  <2>4. up' \in BOOLEAN
    BY <1>1, Zenon
  <2>5. log'[Source] \in Seq(Keys) /\ log'[DeadLetters] \in Seq(Keys)
    BY <1>1 DEF IInv, TypeOK
  <2> QED
    BY <1>1, <2>1, <2>2, <2>3, <2>4, <2>5 DEF IInv, TypeOK
<1>3. LoopInv'
  BY <1>1 DEF IInv, LoopInv
<1>4. ASSUME ConsumerInv PROVE ConsumerInv'
  <2>1. ASSUME NEW o \in 1 .. committed PROVE Settled(log[Source][o])
    BY <1>4, Bounds DEF ConsumerInv
  <2> QED
    BY <1>1, <2>1 DEF ConsumerInv, Settled, OnTopic
<1>5. RelayInv => RelayInv'
  BY <1>1 DEF RelayInv, OnTopic
<1> QED
  BY <1>2, <1>3, <1>4, <1>5 DEF IInv

\* The ends of the process, its restart, and steps of others.
LEMMA ProcessKeeps == ASSUME IInv, Crash \/ Exit \/ Restart \/ UNCHANGED vars PROVE IInv'
<1>1. CASE Crash
  BY <1>1, FaultIsCounted, DownKeeps DEF Crash
<1>2. CASE Exit
  BY <1>2, FlushIsEmptyOrLossy, DownKeeps DEF Exit
<1>3. CASE Restart \/ UNCHANGED vars
  <2>1. UNCHANGED <<scored, row, log, sent, committed, queue, pub, wpc, position, current, faults>>
    BY <1>3 DEF Restart, vars, db, broker, worker
  <2>2. TypeOK'
    BY <1>3, <2>1 DEF Restart, vars, IInv, TypeOK
  <2> QED
    BY <2>1, <2>2 DEF IInv, LoopInv, ConsumerInv, RelayInv, Key, Settled, Produced, OnTopic
<1> QED
  BY <1>1, <1>2, <1>3

\* Every step.
LEMMA NextIInv == IInv /\ [Next]_vars => IInv'
<1> SUFFICES ASSUME IInv, [Next]_vars PROVE IInv'
  OBVIOUS
<1>1. CASE Environment
  BY <1>1, ApiScoreKeeps, ExternalPublishKeeps DEF Environment
<1>2. CASE Acknowledge \/ DeliveryError
  BY <1>2, AcknowledgeKeeps, DeliveryErrorKeeps
<1>3. CASE OutboxThread
  BY <1>3, BatchStepKeeps, PublishRowKeeps, CommitBatchKeeps DEF OutboxThread
<1>4. CASE MainThread
  BY <1>4, PollKeeps, ScoreMessageKeeps, LoopStepKeeps, DeadLetterKeeps, ProcessKeeps DEF MainThread
<1>5. CASE Crash \/ Restart \/ UNCHANGED vars
  BY <1>5, ProcessKeeps
<1> QED
  BY <1>1, <1>2, <1>3, <1>4, <1>5 DEF Next

\* What the invariant says of the properties of the run.
LEMMA IInvImplies == IInv => ConsumedIsSettled /\ PublishedIsOnTopic
<1> SUFFICES ASSUME IInv, ~faults.lossy PROVE ConsumedIsSettled /\ PublishedIsOnTopic
  BY DEF ConsumedIsSettled, PublishedIsOnTopic
<1>1. ConsumerInv /\ RelayInv
  BY DEF IInv
<1>2. ASSUME NEW o \in 1 .. committed PROVE Settled(log[Source][o])
  BY <1>1, Bounds DEF ConsumerInv
<1> QED
  BY <1>1, <1>2 DEF ConsumedIsSettled, PublishedIsOnTopic, RelayInv, Settled

-----------------------------------------------------------------------------
(* Counting                                                                *)

At(s, x) == {i \in DOMAIN s : s[i] = x}

Unit(p) == IF p THEN 1 ELSE 0

LEMMA AtIsFinite ==
  ASSUME NEW S, NEW s \in Seq(S), NEW x
  PROVE  IsFiniteSet(At(s, x)) /\ Cardinality(At(s, x)) \in Nat
<1>1. DOMAIN s = 1 .. Len(s) /\ Len(s) \in Nat
  OBVIOUS
<1>2. At(s, x) \in SUBSET (1 .. Len(s)) /\ IsFiniteSet(1 .. Len(s))
  BY <1>1, FS_Interval DEF At
<1>3. IsFiniteSet(At(s, x))
  BY <1>2, FS_Subset
<1> QED
  BY <1>3, FS_CardinalityType

\* One more at the end.
LEMMA AtOfAppend ==
  ASSUME NEW S, NEW s \in Seq(S), NEW e \in S, NEW x
  PROVE  Cardinality(At(Append(s, e), x)) = Cardinality(At(s, x)) + Unit(e = x)
<1>1. /\ Len(s) \in Nat /\ DOMAIN s = 1 .. Len(s) /\ DOMAIN Append(s, e) = 1 .. Len(s) + 1
      /\ Append(s, e)[Len(s) + 1] = e
      /\ \A i \in 1 .. Len(s) : Append(s, e)[i] = s[i]
  OBVIOUS
<1>2. \A i \in 1 .. Len(s) + 1 : i \in 1 .. Len(s) \/ i = Len(s) + 1
  BY <1>1
<1>3. 1 .. Len(s) \subseteq 1 .. Len(s) + 1 /\ Len(s) + 1 \in 1 .. Len(s) + 1
  BY <1>1
<1>4. CASE e = x
  <2>1. At(Append(s, e), x) = At(s, x) \cup {Len(s) + 1}
    BY <1>1, <1>2, <1>3, <1>4 DEF At
  <2>2. Len(s) + 1 \notin At(s, x)
    BY <1>1 DEF At
  <2> QED
    BY <1>4, <2>1, <2>2, AtIsFinite, FS_AddElement DEF Unit
<1>5. CASE e # x
  <2>1. At(Append(s, e), x) = At(s, x)
    BY <1>1, <1>2, <1>3, <1>5 DEF At
  <2> QED
    BY <1>5, <2>1, AtIsFinite DEF Unit
<1> QED
  BY <1>4, <1>5

\* One less at the beginning.
LEMMA AtOfTail ==
  ASSUME NEW S, NEW s \in Seq(S), s # <<>>, NEW x
  PROVE  Cardinality(At(s, x)) = Cardinality(At(Tail(s), x)) + Unit(Head(s) = x)
<1> DEFINE t == Tail(s)
           rest == At(s, x) \ {1}
           shift == [i \in At(t, x) |-> i + 1]
<1>1. /\ Len(s) \in Nat \ {0} /\ Head(s) = s[1] /\ t \in Seq(S)
      /\ Len(t) = Len(s) - 1 /\ DOMAIN s = 1 .. Len(s) /\ DOMAIN t = 1 .. Len(s) - 1
      /\ \A i \in 1 .. Len(s) - 1 : t[i] = s[i + 1]
  OBVIOUS
<1> HIDE DEF t
<1>2. \A i \in At(t, x) : i \in Nat /\ i + 1 \in rest
  BY <1>1 DEF At
<1>3. \A j \in rest : j \in Nat /\ j - 1 \in At(t, x) /\ shift[j - 1] = j
  BY <1>1 DEF At
<1>4. shift \in Bijection(At(t, x), rest)
  <2>1. shift \in [At(t, x) -> rest]
    BY <1>2
  <2>2. \A i, j \in At(t, x) : shift[i] = shift[j] => i = j
    BY <1>2
  <2>3. \A j \in rest : \E i \in At(t, x) : shift[i] = j
    BY <1>3
  <2> QED
    BY <2>1, <2>2, <2>3, Fun_IsBij
<1>5. ExistsBijection(At(t, x), rest)
  BY <1>4 DEF ExistsBijection
<1>6. Cardinality(rest) = Cardinality(At(t, x))
  BY <1>1, <1>5, AtIsFinite, FS_Bijection
<1>7. 1 \in At(s, x) <=> Head(s) = x
  BY <1>1 DEF At
<1>8. Cardinality(At(s, x)) \in Nat /\ IsFiniteSet(At(s, x))
  BY AtIsFinite
<1>9. Cardinality(rest) = IF 1 \in At(s, x) THEN Cardinality(At(s, x)) - 1 ELSE Cardinality(At(s, x))
  BY <1>8, FS_RemoveElement
<1> QED
  BY <1>6, <1>7, <1>8, <1>9 DEF Unit, t

-----------------------------------------------------------------------------
(* The echo                                                                *)

SourceRow(k) == <<Source, k>>

\* The event of a scored transaction that is yet to be handed to the producer.
Owed(k) ==
  /\ k \in Txns /\ row[SourceRow(k)] = "pending"
  /\ SourceRow(k) \notin pub.inflight \cup pub.marked

\* Where the thread is with the rows of its batch.
BatchInv ==
  /\ \A r \in Rows : row[r] = "pending" => r[2] \in scored
  /\ \A r \in pub.batch : row[r] = "pending" /\ r \notin pub.inflight \cup pub.marked
  /\ pub.pc # "flush" => pub.inflight = {}
  /\ pub.pc = "select" => pub.marked = {}
  /\ wpc = "exit" => faults.count >= 1

\* The events of a key that are on the topic, on their way or still to be handed
\* over.  Only a fault makes the worker exit, and lets it lose its batch (an
\* undecodable key counts as one, each time it is met): until it is gone, that
\* counts as one more.
Copies(k) == Cardinality(At(log[Source], k))
Queued(k) == Cardinality(At(queue, SourceRow(k)))
Doomed(k) == k \in scored /\ wpc = "exit"

EchoInv(k) ==
  Copies(k) + Queued(k) + Unit(Owed(k)) + Unit(Doomed(k))
    <= Unit(k \in sent) + (IF k \in scored THEN 1 + faults.count ELSE 0)

LEMMA CountsAreNatural ==
  ASSUME IInv, NEW k
  PROVE  Copies(k) \in Nat /\ Queued(k) \in Nat /\ faults.count \in Nat
<1>1. log[Source] \in Seq(Keys) /\ queue \in Seq(Messages)
  BY DEF IInv, TypeOK
<1>2. faults.count \in 0 .. MaxFaults
  BY DEF IInv, TypeOK
<1> QED
  BY <1>1, <1>2, AtIsFinite DEF Copies, Queued

\* Scoring makes rows pending, of transactions that were not scored.
LEMMA ScoreKeepsBatch ==
  ASSUME IInv, BatchInv, NEW t \in Txns, Score(t), UNCHANGED <<pub, faults>>,
         wpc' = "exit" => wpc = "exit"
  PROVE  BatchInv'
<1>1. /\ scored' = scored \cup {t}
      /\ \A r \in Rows : row[r] = "pending" => row'[r] = "pending"
      /\ \A r \in Rows : row'[r] = "pending" => row[r] = "pending" \/ r[2] = t
  BY DEF Score, IInv, TypeOK
<1>2. pub.batch \subseteq Rows
  BY DEF IInv, TypeOK
<1> QED
  BY <1>1, <1>2 DEF BatchInv

\* A process that goes down has no batch.
LEMMA DownKeepsBatch ==
  ASSUME BatchInv, Down
  PROVE  BatchInv'
  BY DEF BatchInv, Down, IdlePub, db

LEMMA FaultCounts ==
  ASSUME IInv
  PROVE  /\ \A kind : Fault(kind) => faults'.count = faults.count + 1
         /\ FlushReturns => faults'.count \in {faults.count, faults.count + 1}
  BY DEF Fault, FlushReturns

LEMMA NextBatchInv ==
  ASSUME IInv, BatchInv, [Next]_vars
  PROVE  BatchInv'
<1>0. faults.count \in Nat
  BY CountsAreNatural
<1>1. CASE Environment
  <2>1. ASSUME NEW t \in Txns, ApiScore(t) PROVE BatchInv'
    BY <2>1, ScoreKeepsBatch DEF ApiScore, worker
  <2>2. ASSUME NEW k \in Keys, ExternalPublish(k) PROVE BatchInv'
    BY <2>2 DEF ExternalPublish, BatchInv, db, worker
  <2> QED
    BY <1>1, <2>1, <2>2 DEF Environment
<1>2. CASE Acknowledge
  BY <1>2 DEF Acknowledge, BatchInv, db, worker
<1>3. CASE DeliveryError
  BY <1>0, <1>3, FaultCounts DEF DeliveryError, BatchInv, db, worker
<1>4. CASE OutboxThread
  <2> USE DEF BatchInv, worker
  <2>0. /\ pub \in [pc : PubPCs, batch : SUBSET Rows, inflight : SUBSET Rows, marked : SUBSET Rows]
        /\ row \in [Rows -> {"absent", "pending", "published"}]
    BY DEF IInv, TypeOK
  <2>1. ASSUME SelectBatch PROVE BatchInv'
    <3>1. PICK batch \in SUBSET Pending : pub' = [pub EXCEPT !.pc = "publish", !.batch = batch]
      BY <2>1 DEF SelectBatch
    <3>2. pub'.batch \subseteq Pending /\ pub'.inflight = {} /\ pub'.marked = {} /\ pub'.pc = "publish"
      BY <2>0, <2>1, <3>1 DEF SelectBatch
    <3> QED
      BY <2>1, <3>2 DEF SelectBatch, Pending, db
  <2>2. ASSUME MarkRow PROVE BatchInv'
    <3>1. /\ pub'.batch = pub.batch /\ pub'.inflight = {} /\ pub'.marked = pub.marked \cup pub.inflight
          /\ pub'.pc = "publish"
      BY <2>0, <2>2 DEF MarkRow
    <3> QED
      BY <1>0, <2>2, <3>1, FaultCounts DEF MarkRow, db
  <2>3. ASSUME CommitBatch PROVE BatchInv'
    BY <2>0, <2>3 DEF CommitBatch, IdlePub
  <2>4. ASSUME OutboxThreadDies PROVE BatchInv'
    BY <1>0, <2>4, FaultCounts DEF OutboxThreadDies, IdlePub, db
  <2>5. ASSUME NEW r \in Rows, PublishRow(r) PROVE BatchInv'
    <3>1. /\ pub'.batch = pub.batch \ {r} /\ pub'.inflight = {r} /\ pub'.marked = pub.marked
          /\ pub'.pc = "flush" /\ pub.inflight = {}
      BY <2>0, <2>5 DEF PublishRow
    <3> QED
      BY <2>5, <3>1 DEF PublishRow, db
  <2>6. ASSUME NEW r \in Rows, PublishRowFails(r) PROVE BatchInv'
    <3>1. /\ pub'.batch = pub.batch \ {r} /\ pub'.inflight = pub.inflight /\ pub'.marked = pub.marked
          /\ pub'.pc = pub.pc
      BY <2>0, <2>6 DEF PublishRowFails
    <3> QED
      BY <1>0, <2>6, <3>1, FaultCounts DEF PublishRowFails, db
  <2> QED
    BY <1>4, <2>1, <2>2, <2>3, <2>4, <2>5, <2>6 DEF OutboxThread
<1>5. CASE ScoreMessage
  <2>1. Key \in Txns
    BY <1>5, Bounds DEF ScoreMessage, IInv, LoopInv, Keys
  <2> QED
    BY <1>5, <2>1, ScoreKeepsBatch DEF ScoreMessage
<1>6. CASE \/ Poll \/ ScoreFails \/ CommitOffset \/ CommitOffsetFails \/ ReportMetrics \/ MetricsFail
           \/ DeadLetter \/ DeadLetterFails \/ DeadLetterFlushed
           \/ CommitDeadLetter \/ CommitDeadLetterFails
  <2>1. UNCHANGED <<scored, row, pub>>
    BY <1>6 DEF Poll, ScoreFails, CommitOffset, CommitOffsetFails, ReportMetrics, MetricsFail,
                DeadLetter, DeadLetterFails, DeadLetterFlushed, CommitDeadLetter,
                CommitDeadLetterFails, db
  <2>2. wpc' = "exit" => faults'.count >= 1
    BY <1>0, <1>6, FaultCounts
    DEF Poll, ScoreFails, CommitOffset, CommitOffsetFails, ReportMetrics, MetricsFail, DeadLetter,
        DeadLetterFails, DeadLetterFlushed, CommitDeadLetter, CommitDeadLetterFails
  <2> QED
    BY <2>1, <2>2 DEF BatchInv
<1>7. CASE Exit \/ Crash
  BY <1>7, DownKeepsBatch DEF Exit, Crash
<1>8. CASE Restart \/ UNCHANGED vars
  BY <1>8 DEF Restart, vars, db, worker, BatchInv
<1> QED
  BY <1>1, <1>2, <1>3, <1>4, <1>5, <1>6, <1>7, <1>8 DEF Next, MainThread

\* Steps that neither publish, produce nor score anything: what they may add is
\* paid for by a fault, or by the exit of a process that was doomed.
LEMMA EchoStays ==
  ASSUME IInv, BatchInv', NEW k, EchoInv(k),
         UNCHANGED <<log, sent, scored>>, Queued(k)' \in Nat, Queued(k)' <= Queued(k),
         \/ /\ faults'.count \in {faults.count, faults.count + 1}
            /\ Owed(k)' => Owed(k)
            /\ wpc' = "exit" => wpc = "exit"
         \/ faults'.count = faults.count + 1 /\ (Owed(k)' => Owed(k))
         \/ faults'.count = faults.count + 1 /\ (wpc' = "exit" => wpc = "exit")
         \/ faults'.count \in {faults.count, faults.count + 1} /\ wpc = "exit" /\ wpc' # "exit"
  PROVE  EchoInv(k)'
<1>1. Copies(k) \in Nat /\ Queued(k) \in Nat /\ faults.count \in Nat
  BY CountsAreNatural
<1>2. Copies(k)' = Copies(k)
  BY DEF Copies
<1>3. Owed(k)' => k \in scored
  <2>1. k \in Txns => SourceRow(k) \in Rows /\ SourceRow(k)[2] = k
    BY DEF Rows, OutTopics, SourceRow
  <2> QED
    BY <2>1 DEF Owed, BatchInv
<1> QED
  BY <1>1, <1>2, <1>3 DEF EchoInv, Unit, Doomed

\* Nothing is owed that was not, when rows and batch only get closer to the end.
LEMMA OwedStays ==
  ASSUME NEW k, UNCHANGED row, pub.inflight \cup pub.marked \subseteq pub'.inflight \cup pub'.marked
  PROVE  Owed(k)' => Owed(k)
BY DEF Owed

\* A transaction that was not scored has at most its sender's event on the topic;
\* one that was is answered from its prediction.
LEMMA ScoreEcho ==
  ASSUME IInv, BatchInv, NEW k \in Keys, EchoInv(k), NEW t \in Txns, Score(t),
         UNCHANGED <<log, sent, queue, pub, faults>>, wpc' = "exit" => wpc = "exit"
  PROVE  EchoInv(k)'
<1>1. Copies(k) \in Nat /\ Queued(k) \in Nat /\ faults.count \in Nat
  BY CountsAreNatural
<1>2. Copies(k)' = Copies(k) /\ Queued(k)' = Queued(k) /\ faults'.count = faults.count
  BY DEF Copies, Queued
<1>3. k \in Txns => SourceRow(k) \in Rows /\ SourceRow(k)[1] = Source /\ SourceRow(k)[2] = k
  BY DEF Rows, OutTopics, SourceRow
<1>4. scored' = scored \cup {t}
  BY DEF Score
<1>5. CASE k = t /\ t \notin scored
  <2>1. Unit(Owed(k)') \in {0, 1} /\ Unit(Owed(k)) \in {0, 1}
    BY DEF Unit
  <2>2. Doomed(k)' => faults.count >= 1
    BY DEF BatchInv, Doomed
  <2>3. ~Doomed(k)
    BY <1>5 DEF Doomed
  <2> QED
    BY <1>1, <1>2, <1>4, <1>5, <2>1, <2>2, <2>3 DEF EchoInv, Unit
<1>6. CASE k # t \/ t \in scored
  <2>1. k \in scored' <=> k \in scored
    BY <1>4, <1>6
  <2>2. Owed(k)' => Owed(k)
    <3>1. k \in Txns => row'[SourceRow(k)] = row[SourceRow(k)]
      BY <1>3, <1>6 DEF Score
    <3> QED
      BY <3>1 DEF Owed
  <2>3. Doomed(k)' => Doomed(k)
    BY <2>1 DEF Doomed
  <2> QED
    BY <1>1, <1>2, <2>1, <2>2, <2>3 DEF EchoInv, Unit
<1> QED
  BY <1>5, <1>6

LEMMA NextEchoInv ==
  ASSUME IInv, BatchInv, BatchInv', NEW k \in Keys, EchoInv(k), [Next]_vars
  PROVE  EchoInv(k)'
<1>1. Copies(k) \in Nat /\ Queued(k) \in Nat /\ faults.count \in Nat
  BY CountsAreNatural
<1>2. /\ log[Source] \in Seq(Keys) /\ queue \in Seq(Messages) /\ log \in [Topics -> Seq(Keys)]
      /\ Source \in Topics
      /\ pub \in [pc : PubPCs, batch : SUBSET Rows, inflight : SUBSET Rows, marked : SUBSET Rows]
  BY DEF IInv, TypeOK, LoopInv, Topics, OutTopics
<1>3. UNCHANGED queue => Queued(k)' = Queued(k)
  BY DEF Queued
<1>4. CASE Environment
  <2>1. ASSUME NEW t \in Txns, ApiScore(t) PROVE EchoInv(k)'
    BY <2>1, ScoreEcho DEF ApiScore, broker, worker
  <2>2. ASSUME NEW x \in Keys, ExternalPublish(x) PROVE EchoInv(k)'
    <3>1. /\ log'[Source] = Append(log[Source], x) /\ sent' = sent \cup {x} /\ x \notin sent
          /\ UNCHANGED <<scored, row, queue, pub, wpc, faults>>
      BY <1>2, <2>2 DEF ExternalPublish, db, worker
    <3>2. Copies(k)' = Copies(k) + Unit(x = k)
      BY <1>2, <3>1, AtOfAppend DEF Copies
    <3>3. (Owed(k)' <=> Owed(k)) /\ (Doomed(k)' <=> Doomed(k))
      BY <3>1 DEF Owed, Doomed
    <3> QED
      BY <1>1, <1>3, <3>1, <3>2, <3>3 DEF EchoInv, Unit
  <2> QED
    BY <1>4, <2>1, <2>2 DEF Environment
<1>5. CASE Acknowledge
  <2>1. /\ queue # <<>> /\ queue' = Tail(queue)
        /\ log' = [log EXCEPT ![Head(queue)[1]] = Append(@, Head(queue)[2])]
        /\ UNCHANGED <<scored, row, sent, pub, wpc, faults>>
    BY <1>5 DEF Acknowledge, db, worker
  <2>2. Queued(k) = Queued(k)' + Unit(Head(queue) = SourceRow(k))
    BY <1>2, <2>1, AtOfTail DEF Queued
  <2>3. PICK topic \in Topics, x \in Keys : Head(queue) = <<topic, x>>
    <3>1. Head(queue) \in Messages
      BY <1>2, <2>1, RangeOfTail
    <3> QED
      BY <3>1 DEF Messages, Topics, Keys
  <2>4. Copies(k)' = Copies(k) + Unit(Head(queue) = SourceRow(k))
    <3>1. log' = [log EXCEPT ![topic] = Append(@, x)]
      <4>1. Head(queue)[1] = topic /\ Head(queue)[2] = x
        BY <2>3
      <4> QED
        BY <2>1, <4>1
    <3>2. CASE topic = Source
      <4>1. log'[Source] = Append(log[Source], x)
        BY <1>2, <3>1, <3>2
      <4>2. Copies(k)' = Copies(k) + Unit(x = k)
        BY <1>2, <4>1, AtOfAppend DEF Copies
      <4> QED
        BY <2>3, <3>2, <4>2 DEF SourceRow, Unit
    <3>3. CASE topic # Source
      <4>1. log'[Source] = log[Source]
        BY <1>2, <3>1, <3>3
      <4> QED
        BY <1>1, <2>3, <3>3, <4>1 DEF Copies, SourceRow, Unit
    <3> QED
      BY <3>2, <3>3
  <2>5. (Owed(k)' <=> Owed(k)) /\ (Doomed(k)' <=> Doomed(k))
    BY <2>1 DEF Owed, Doomed
  <2>6. Queued(k)' \in Nat
    <3>1. queue' \in Seq(Messages)
      BY <1>2, <2>1, RangeOfTail
    <3> QED
      BY <3>1, AtIsFinite DEF Queued
  <2> QED
    BY <1>1, <2>1, <2>2, <2>4, <2>5, <2>6 DEF EchoInv, Unit
<1>6. CASE DeliveryError
  <2>1. queue # <<>> /\ queue' = Tail(queue) /\ UNCHANGED <<scored, row, log, sent, pub, wpc>>
    BY <1>6 DEF DeliveryError, db, broker, worker
  <2>2. Queued(k) = Queued(k)' + Unit(Head(queue) = SourceRow(k))
    BY <1>2, <2>1, AtOfTail DEF Queued
  <2>3. Queued(k)' \in Nat
    <3>1. queue' \in Seq(Messages)
      BY <1>2, <2>1, RangeOfTail
    <3> QED
      BY <3>1, AtIsFinite DEF Queued
  <2>4. Owed(k)' => Owed(k)
    BY <2>1, OwedStays
  <2>5. faults'.count = faults.count + 1
    BY <1>6, FaultCounts DEF DeliveryError
  <2> QED
    BY <1>1, <2>1, <2>2, <2>3, <2>4, <2>5, EchoStays DEF Unit
<1>7. CASE OutboxThread
  <2>1. ASSUME NEW r \in Rows, PublishRow(r) PROVE EchoInv(k)'
    <3>1. /\ queue' = Append(queue, r) /\ r \in pub.batch /\ pub.pc = "publish"
          /\ pub'.inflight = {r} /\ pub'.marked = pub.marked
          /\ UNCHANGED <<scored, row, log, sent, wpc, faults>>
      BY <1>2, <2>1 DEF PublishRow, db, broker, worker
    <3>2. r \in Messages
      BY DEF Rows, Messages
    <3>3. Queued(k)' = Queued(k) + Unit(r = SourceRow(k))
      BY <1>2, <3>1, <3>2, AtOfAppend DEF Queued
    <3>4. pub.inflight = {} /\ row[r] = "pending" /\ r \notin pub.marked
      BY <3>1 DEF BatchInv
    <3>5. Copies(k)' = Copies(k) /\ (Doomed(k)' <=> Doomed(k))
      BY <3>1 DEF Copies, Doomed
    <3>6. CASE r = SourceRow(k)
      <4>1. k \in Txns
        BY <3>6 DEF Rows, SourceRow
      <4>2. Owed(k) /\ ~Owed(k)'
        BY <3>1, <3>4, <3>6, <4>1 DEF Owed
      <4> QED
        BY <1>1, <3>1, <3>3, <3>5, <3>6, <4>2 DEF EchoInv, Unit
    <3>7. CASE r # SourceRow(k)
      <4>1. Owed(k)' => Owed(k)
        BY <3>1, <3>4 DEF Owed
      <4> QED
        BY <1>1, <3>1, <3>3, <3>5, <3>7, <4>1 DEF EchoInv, Unit
    <3> QED
      BY <3>6, <3>7
  <2>2. ASSUME CommitBatch PROVE EchoInv(k)'
    <3>1. /\ row' = [r \in Rows |-> IF r \in pub.marked THEN "published" ELSE row[r]]
          /\ UNCHANGED <<scored, log, sent, queue, wpc, faults>>
          /\ pub.pc = "publish"
      BY <2>2 DEF CommitBatch, broker, worker
    <3>2. k \in Txns => SourceRow(k) \in Rows
      BY DEF Rows, OutTopics, SourceRow
    <3>3. pub.inflight = {}
      BY <3>1 DEF BatchInv
    <3>4. Owed(k)' => Owed(k)
      BY <3>1, <3>2, <3>3 DEF Owed
    <3> QED
      BY <1>1, <1>3, <3>1, <3>4, EchoStays
  <2>3. ASSUME \/ SelectBatch \/ MarkRow \/ OutboxThreadDies
               \/ \E r \in Rows : PublishRowFails(r)
        PROVE  EchoInv(k)'
    <3>1. UNCHANGED <<scored, row, log, sent, queue, wpc>>
      BY <2>3 DEF SelectBatch, MarkRow, OutboxThreadDies, PublishRowFails, db, broker, worker
    <3>2. CASE OutboxThreadDies
      BY <1>1, <1>3, <3>1, <3>2, EchoStays, FaultCounts DEF OutboxThreadDies
    <3>3. CASE ~OutboxThreadDies
      <4>1. pub.inflight \cup pub.marked \subseteq pub'.inflight \cup pub'.marked
        BY <1>2, <2>3, <3>3 DEF SelectBatch, MarkRow, PublishRowFails
      <4>2. faults'.count \in {faults.count, faults.count + 1}
        BY <2>3, <3>3, FaultCounts DEF SelectBatch, MarkRow, PublishRowFails
      <4>3. Owed(k)' => Owed(k)
        BY <3>1, <4>1, OwedStays
      <4> QED
        BY <1>1, <1>3, <3>1, <4>2, <4>3, EchoStays
    <3> QED
      BY <3>2, <3>3
  <2> QED
    BY <1>7, <2>1, <2>2, <2>3 DEF OutboxThread
<1>8. CASE ScoreMessage
  <2>1. Key \in Txns
    BY <1>8, Bounds DEF ScoreMessage, IInv, LoopInv, Keys
  <2> QED
    BY <1>8, <2>1, ScoreEcho DEF ScoreMessage, broker
<1>9. CASE DeadLetter
  <2>1. /\ queue' = Append(queue, <<DeadLetters, Key>>) /\ wpc = "dlq" /\ wpc' = "dlq_flush"
        /\ UNCHANGED <<scored, row, log, sent, pub, faults>>
    BY <1>9 DEF DeadLetter, db, broker
  <2>2. <<DeadLetters, Key>> \in Messages /\ <<DeadLetters, Key>> # SourceRow(k)
    BY <2>1, Bounds DEF IInv, LoopInv, Messages, SourceRow, DeadLetters, Source
  <2>3. Queued(k)' = Queued(k)
    <3>1. Queued(k)' = Queued(k) + Unit(<<DeadLetters, Key>> = SourceRow(k))
      BY <1>2, <2>1, <2>2, AtOfAppend DEF Queued
    <3> QED
      BY <1>1, <2>2, <3>1 DEF Unit
  <2>4. Owed(k)' => Owed(k)
    BY <2>1, OwedStays
  <2> QED
    BY <1>1, <2>1, <2>3, <2>4, EchoStays
<1>10. CASE \/ Poll \/ ScoreFails \/ CommitOffset \/ CommitOffsetFails \/ ReportMetrics \/ MetricsFail
            \/ DeadLetterFails \/ DeadLetterFlushed \/ CommitDeadLetter \/ CommitDeadLetterFails
  <2>1. UNCHANGED <<scored, row, log, sent, queue, pub>>
    BY <1>10 DEF Poll, ScoreFails, CommitOffset, CommitOffsetFails, ReportMetrics, MetricsFail,
                 DeadLetterFails, DeadLetterFlushed, CommitDeadLetter, CommitDeadLetterFails,
                 db, broker
  <2>2. Owed(k)' => Owed(k)
    BY <2>1, OwedStays
  <2>3. \/ faults'.count \in {faults.count, faults.count + 1} /\ wpc' # "exit"
        \/ faults'.count = faults.count + 1
    BY <1>10, FaultCounts
    DEF Poll, ScoreFails, CommitOffset, CommitOffsetFails, ReportMetrics, MetricsFail,
        DeadLetterFails, DeadLetterFlushed, CommitDeadLetter, CommitDeadLetterFails
  <2> QED
    BY <1>1, <1>3, <2>1, <2>2, <2>3, EchoStays
<1>11. CASE Exit \/ Crash
  <2>1. /\ UNCHANGED <<scored, log, sent>> /\ queue' = <<>> /\ wpc' = "poll"
        /\ \/ faults'.count = faults.count + 1
           \/ faults'.count = faults.count /\ wpc = "exit"
    BY <1>11, FaultCounts DEF Exit, Crash, Down, db, broker
  <2>2. Queued(k)' = 0
    <3>1. At(<<>>, SourceRow(k)) = {}
      BY DEF At
    <3> QED
      BY <2>1, <3>1, FS_EmptySet DEF Queued
  <2> QED
    BY <1>1, <2>1, <2>2, EchoStays
<1>12. CASE Restart \/ UNCHANGED vars
  <2>1. UNCHANGED <<scored, row, log, sent, queue, pub, wpc, faults>>
    BY <1>12 DEF Restart, vars, db, broker, worker
  <2>2. Owed(k)' => Owed(k)
    BY <2>1, OwedStays
  <2> QED
    BY <1>1, <1>3, <2>1, <2>2, EchoStays
<1> QED
  BY <1>4, <1>5, <1>6, <1>7, <1>8, <1>9, <1>10, <1>11, <1>12 DEF Next, MainThread

LEMMA InitEchoInv ==
  ASSUME Init
  PROVE  BatchInv /\ \A k \in Keys : EchoInv(k)
<1>1. ASSUME NEW k \in Keys PROVE EchoInv(k)
  <2>1. Copies(k) = 0 /\ Queued(k) = 0
    <3>1. \A x : At(<<>>, x) = {}
      BY DEF At
    <3>2. log[Source] = <<>> /\ queue = <<>>
      BY DEF Init, OutTopics
    <3> QED
      BY <3>1, <3>2, FS_EmptySet DEF Copies, Queued
  <2>2. ~Owed(k)
    <3>1. k \in Txns => SourceRow(k) \in Rows
      BY DEF Rows, OutTopics, SourceRow
    <3> QED
      BY <3>1 DEF Init, Owed
  <2> QED
    BY <2>1, <2>2 DEF EchoInv, Doomed, Unit, Init
<1>2. BatchInv
  BY DEF Init, BatchInv, IdlePub
<1> QED
  BY <1>1, <1>2

-----------------------------------------------------------------------------
(* Theorems                                                                *)

\* The invariant holds of every behaviour.
THEOREM Invariance == Spec => []IInv
<1> QED
  BY InitIInv, NextIInv, PTL DEF Spec

\* The tables, the topics, the queue and both threads' variables are well-typed,
\* and the committed offset is never beyond what was fetched.
THEOREM TypeCorrect == Spec => []TypeOK
<1>1. IInv => TypeOK
  BY DEF IInv
<1> QED
  BY <1>1, Invariance, PTL

\* README.md:63-64: through any number of crashes, exits, failed scores, failed
\* commits and failed dead letters, an offset is committed only for a message
\* that has its prediction or its dead letter, unless a delivery was lost.
THEOREM NothingConsumedIsLost == Spec => []ConsumedIsSettled
<1>1. IInv => ConsumedIsSettled
  BY IInvImplies
<1> QED
  BY <1>1, Invariance, PTL

\* README.md:64: a row that publish_outbox_batch has marked is an event on its
\* topic, unless a delivery was lost.
THEOREM NothingPublishedIsLost == Spec => []PublishedIsOnTopic
<1>1. IInv => PublishedIsOnTopic
  BY IInvImplies
<1> QED
  BY <1>1, Invariance, PTL

\* The echo dies out: for every key, through any faults, the topic holds no more
\* events than its sender's, its outbox row's, and one more for each fault, the
\* exits on undecodable keys among them.  The
\* invariant also counts the copies in the producer's queue and the event that is
\* still to be handed over.
THEOREM EchoDiesOut == Spec => []EchoBounded
<1> DEFINE EInv == BatchInv /\ \A k \in Keys : EchoInv(k)
<1>1. Init => EInv
  BY InitEchoInv
<1>2. IInv /\ EInv /\ [Next]_vars => EInv'
  <2> SUFFICES ASSUME IInv, EInv, [Next]_vars PROVE EInv'
    OBVIOUS
  <2>1. BatchInv'
    BY NextBatchInv
  <2>2. ASSUME NEW k \in Keys PROVE EchoInv(k)'
    BY <2>1, NextEchoInv
  <2> QED
    BY <2>1, <2>2 DEF Keys
<1>3. IInv /\ EInv => EchoBounded
  <2> SUFFICES ASSUME IInv, EInv, NEW k \in Keys
               PROVE  Copies(k) <= (IF k \in sent THEN 1 ELSE 0)
                                     + (IF k \in scored THEN 1 + faults.count ELSE 0)
    BY DEF EchoBounded, Copies, At
  <2> QED
    BY CountsAreNatural DEF EchoInv, Unit
<1> HIDE DEF EInv
<1> QED
  BY <1>1, <1>2, <1>3, Invariance, PTL DEF Spec
=============================================================================
