--------------------------- MODULE StreamPipeline ---------------------------
(***************************************************************************)
(* The streaming path around the scoring store: the API and the stream     *)
(* worker score transactions (one atomic step each: ScoringStore shows     *)
(* that is what score_and_persist amounts to), the worker's outbox thread  *)
(* relays the outbox rows to the broker, and its main thread consumes      *)
(* transactions.v1, the topic the outbox thread itself publishes to: every *)
(* scored transaction comes back once more.                                *)
(*                                                                         *)
(* Both threads share one Kafka producer, whose queue is lost with the     *)
(* process.  A step that fails is a fault; Faults says which kinds occur   *)
(* and MaxFaults bounds how many.  A message that does not validate and    *)
(* whose Kafka key is not UTF-8 cannot be written to the dead letters: it  *)
(* ends the process each time it is met.  These exits count as faults too. *)
(***************************************************************************)
EXTENDS Integers, Sequences, FiniteSets, SequencesExt

CONSTANTS
  Txns,      \* transaction ids
  Alerted,   \* those that are not approved
  Poison,    \* keys of messages that do not validate
  Undecodable, \* those whose Kafka key is not UTF-8
  BatchSize, \* limit of the outbox query
  Faults,    \* the kinds of fault that occur
  MaxFaults, \* and how many of them
  NoOffset   \* no message is being processed

FaultKinds == {"crash", "flush_timeout", "delivery_error", "buffer_full",
               "outbox_db", "score", "kafka_commit", "watermark", "bad_key"}

\* The kinds that lose a message nobody misses.
Lossy == {"flush_timeout", "delivery_error"}

ASSUME PipelineAssumption ==
  /\ Alerted \subseteq Txns
  /\ Poison \cap Txns = {} /\ Undecodable \subseteq Poison
  /\ BatchSize \in Nat \ {0}
  /\ Faults \subseteq FaultKinds /\ (Undecodable # {} => "bad_key" \in Faults)
  /\ MaxFaults \in Nat
  /\ NoOffset \notin Nat

VARIABLES
  scored,     \* transactions with a committed prediction
  row,        \* <<topic, id>> -> state of the outbox row
  log,        \* topic -> messages on the broker, by key
  sent,       \* keys other producers have published
  committed,  \* committed offset of the group fraud-scorers-v1
  up,         \* the worker process runs
  queue,      \* its producer's queue: not yet acknowledged messages
  pub,        \* outbox thread: statement, rows to publish, row in flight, rows marked
  wpc,        \* main thread: next statement
  position,   \* next offset to fetch
  current,    \* offset of the message being processed
  faults      \* how many faults so far, and whether one of them was lossy

db     == <<scored, row>>
broker == <<log, sent, committed>>
worker == <<wpc, position, current>>
vars   == <<db, broker, up, queue, pub, worker, faults>>

Source      == "transactions.v1"
DeadLetters == "transactions.dlq.v1"
OutTopics   == {Source, "fraud_predictions.v1", "fraud_alerts.v1"}
Keys        == Txns \cup Poison
Rows        == OutTopics \X Txns
Messages    == (OutTopics \X Txns) \cup ({DeadLetters} \X Keys)

\* The outbox rows a score writes.
EventTopics(t) == {Source, "fraud_predictions.v1"}
                    \cup (IF t \in Alerted THEN {"fraud_alerts.v1"} ELSE {})

Pending == {r \in Rows : row[r] = "pending"}
PubPCs  == {"select", "publish", "flush", "dead"}
WPCs    == {"poll", "score", "commit", "metrics", "dlq", "dlq_flush", "dlq_commit", "exit"}
IdlePub == [pc |-> "select", batch |-> {}, inflight |-> {}, marked |-> {}]

TypeOK ==
  /\ scored \subseteq Txns
  /\ row \in [Rows -> {"absent", "pending", "published"}]
  /\ \A topic \in OutTopics \ {Source} : log[topic] \in Seq(Txns)
  /\ log[Source] \in Seq(Keys) /\ log[DeadLetters] \in Seq(Keys)
  /\ sent \subseteq Keys
  /\ up \in BOOLEAN
  /\ queue \in Seq(Messages)
  /\ pub \in [pc : PubPCs, batch : SUBSET Rows, inflight : SUBSET Rows, marked : SUBSET Rows]
  /\ wpc \in WPCs
  /\ position \in 0 .. Len(log[Source]) /\ committed \in 0 .. position
  /\ current \in 0 .. position - 1 \/ current = NoOffset
  /\ faults \in [count : 0 .. MaxFaults, lossy : BOOLEAN]

Init ==
  /\ scored = {}
  /\ row = [r \in Rows |-> "absent"]
  /\ log = [topic \in OutTopics \cup {DeadLetters} |-> <<>>]
  /\ sent = {}
  /\ committed = 0
  /\ up = TRUE
  /\ queue = <<>>
  /\ pub = IdlePub
  /\ wpc = "poll"
  /\ position = 0
  /\ current = NoOffset
  /\ faults = [count |-> 0, lossy |-> FALSE]

Fault(kind) ==
  /\ kind \in Faults
  /\ faults.count < MaxFaults
  /\ faults' = [count |-> faults.count + 1, lossy |-> faults.lossy \/ kind \in Lossy]

-----------------------------------------------------------------------------
(* Scoring: a transaction already scored is answered from its prediction.  *)

\* Mutant of Score: the outbox rows are written whether or not t has a
\* prediction already.
ScoreAgain(t) ==
  /\ scored' = scored \cup {t}
  /\ row' = [r \in Rows |-> IF r[2] = t /\ r[1] \in EventTopics(t) THEN "pending" ELSE row[r]]

Score(t) ==
  /\ scored' = scored \cup {t}
  /\ row' = IF t \in scored THEN row
            ELSE [r \in Rows |-> IF r[2] = t /\ r[1] \in EventTopics(t)
                                 THEN "pending" ELSE row[r]]

ApiScore(t) ==
  /\ t \notin scored
  /\ Score(t)
  /\ UNCHANGED <<broker, up, queue, pub, worker, faults>>

\* The simulator, or any other producer, publishes a key once.
ExternalPublish(k) ==
  /\ k \notin sent
  /\ sent' = sent \cup {k}
  /\ log' = [log EXCEPT ![Source] = Append(@, k)]
  /\ UNCHANGED <<db, committed, up, queue, pub, worker, faults>>

-----------------------------------------------------------------------------
(* The producer's background thread                                        *)

Acknowledge ==
  /\ up /\ queue # <<>>
  /\ log' = [log EXCEPT ![Head(queue)[1]] = Append(@, Head(queue)[2])]
  /\ queue' = Tail(queue)
  /\ UNCHANGED <<db, sent, committed, up, pub, worker, faults>>

\* Retries exhausted or message timeout: there is no delivery callback, so
\* nobody learns of it.
DeliveryError ==
  /\ up /\ queue # <<>>
  /\ Fault("delivery_error")
  /\ queue' = Tail(queue)
  /\ UNCHANGED <<db, broker, up, pub, worker>>

\* flush(10) returns when the queue is empty, or after ten seconds.
FlushReturns == IF queue = <<>> THEN UNCHANGED faults ELSE Fault("flush_timeout")

-----------------------------------------------------------------------------
(* The outbox thread                                                       *)

SelectBatch ==
  /\ up /\ pub.pc = "select" /\ Pending # {}
  /\ \E batch \in SUBSET Pending :
       /\ Cardinality(batch) = IF Cardinality(Pending) < BatchSize
                               THEN Cardinality(Pending) ELSE BatchSize
       /\ pub' = [pub EXCEPT !.pc = "publish", !.batch = batch]
  /\ UNCHANGED <<db, broker, up, queue, worker, faults>>

PublishRow(r) ==
  /\ up /\ pub.pc = "publish" /\ r \in pub.batch
  /\ queue' = Append(queue, r)
  /\ pub' = [pub EXCEPT !.pc = "flush", !.batch = @ \ {r}, !.inflight = {r}]
  /\ UNCHANGED <<db, broker, up, worker, faults>>

\* Mutant of PublishRowFails: the row that could not be produced is marked too.
PublishRowFailsMarked(r) ==
  /\ up /\ pub.pc = "publish" /\ r \in pub.batch
  /\ Fault("buffer_full")
  /\ pub' = [pub EXCEPT !.batch = @ \ {r}, !.marked = @ \cup {r}]
  /\ UNCHANGED <<db, broker, up, queue, worker>>

\* produce raises (the local queue is full): the row stays unpublished, the
\* batch goes on.
PublishRowFails(r) ==
  /\ up /\ pub.pc = "publish" /\ r \in pub.batch
  /\ Fault("buffer_full")
  /\ pub' = [pub EXCEPT !.batch = @ \ {r}]
  /\ UNCHANGED <<db, broker, up, queue, worker>>

\* Mutant of MarkRow: the row is marked without a flush.
MarkRowUnflushed ==
  /\ up /\ pub.pc = "flush"
  /\ pub' = [pub EXCEPT !.pc = "publish", !.inflight = {}, !.marked = @ \cup pub.inflight]
  /\ UNCHANGED <<db, broker, up, queue, worker, faults>>

\* The number flush returns is not looked at: the row counts as published.
MarkRow ==
  /\ up /\ pub.pc = "flush"
  /\ FlushReturns
  /\ pub' = [pub EXCEPT !.pc = "publish", !.inflight = {}, !.marked = @ \cup pub.inflight]
  /\ UNCHANGED <<db, broker, up, queue, worker>>

CommitBatch ==
  /\ up /\ pub.pc = "publish" /\ pub.batch = {}
  /\ row' = [r \in Rows |-> IF r \in pub.marked THEN "published" ELSE row[r]]
  /\ pub' = IdlePub
  /\ UNCHANGED <<scored, broker, up, queue, worker, faults>>

\* The query, the commit or the gauge query raises: publish_outbox_batch rolls
\* back and re-raises, outbox_loop does not catch, the thread ends.
OutboxThreadDies ==
  /\ up
  /\ pub.pc = "select" \/ (pub.pc = "publish" /\ pub.batch = {})
  /\ Fault("outbox_db")
  /\ pub' = [IdlePub EXCEPT !.pc = "dead"]
  /\ UNCHANGED <<db, broker, up, queue, worker>>

-----------------------------------------------------------------------------
(* The main thread                                                         *)

Key == log[Source][current + 1]

\* Mutant of Poll: the offset is committed as the message is fetched.
PollAutoCommit ==
  /\ up /\ wpc = "poll" /\ position < Len(log[Source])
  /\ current' = position
  /\ position' = position + 1
  /\ committed' = position + 1
  /\ wpc' = IF log[Source][position + 1] \in Poison THEN "dlq" ELSE "score"
  /\ UNCHANGED <<db, log, sent, up, queue, pub, faults>>

Poll ==
  /\ up /\ wpc = "poll" /\ position < Len(log[Source])
  /\ current' = position
  /\ position' = position + 1
  /\ wpc' = IF log[Source][position + 1] \in Poison THEN "dlq" ELSE "score"
  /\ UNCHANGED <<db, broker, up, queue, pub, faults>>

ScoreMessage ==
  /\ up /\ wpc = "score"
  /\ Score(Key)
  /\ wpc' = "commit"
  /\ UNCHANGED <<broker, up, queue, pub, position, current, faults>>

\* Any failure of a message, however transient, sends it to the dead letters.
ScoreFails ==
  /\ up /\ wpc = "score"
  /\ Fault("score")
  /\ wpc' = "dlq"
  /\ UNCHANGED <<db, broker, up, queue, pub, position, current>>

CommitOffset ==
  /\ up /\ wpc = "commit"
  /\ committed' = current + 1
  /\ wpc' = "metrics"
  /\ UNCHANGED <<db, log, sent, up, queue, pub, position, current, faults>>

\* The commit raises, whether or not the broker has stored it.
CommitOffsetFails ==
  /\ up /\ wpc = "commit"
  /\ Fault("kafka_commit")
  /\ committed' \in {committed, current + 1}
  /\ wpc' = "dlq"
  /\ UNCHANGED <<db, log, sent, up, queue, pub, position, current>>

ReportMetrics ==
  /\ up /\ wpc = "metrics"
  /\ wpc' = "poll"
  /\ current' = NoOffset
  /\ UNCHANGED <<db, broker, up, queue, pub, position, faults>>

\* get_watermark_offsets raises after everything is done.
MetricsFail ==
  /\ up /\ wpc = "metrics"
  /\ Fault("watermark")
  /\ wpc' = "dlq"
  /\ UNCHANGED <<db, broker, up, queue, pub, position, current>>

DeadLetter ==
  /\ up /\ wpc = "dlq" /\ Key \notin Undecodable
  /\ queue' = Append(queue, <<DeadLetters, Key>>)
  /\ wpc' = "dlq_flush"
  /\ UNCHANGED <<db, broker, up, pub, position, current, faults>>

\* An exception in the handler itself leaves the loop: the process exits.  The
\* key is decoded in the handler, which raises each time if it is not UTF-8.
DeadLetterFails ==
  /\ up /\ wpc = "dlq"
  /\ Fault(IF Key \in Undecodable THEN "bad_key" ELSE "buffer_full")
  /\ wpc' = "exit"
  /\ UNCHANGED <<db, broker, up, queue, pub, position, current>>

DeadLetterFlushed ==
  /\ up /\ wpc = "dlq_flush"
  /\ FlushReturns
  /\ wpc' = "dlq_commit"
  /\ UNCHANGED <<db, broker, up, queue, pub, position, current>>

\* Mutants of CommitDeadLetter: one offset too far; no commit at all.
CommitDeadLetterTooFar ==
  /\ up /\ wpc = "dlq_commit"
  /\ committed' = current + 2
  /\ wpc' = "poll"
  /\ current' = NoOffset
  /\ UNCHANGED <<db, log, sent, up, queue, pub, position, faults>>
CommitDeadLetterSkipped ==
  /\ up /\ wpc = "dlq_commit"
  /\ wpc' = "poll"
  /\ current' = NoOffset
  /\ UNCHANGED <<db, broker, up, queue, pub, position, faults>>

CommitDeadLetter ==
  /\ up /\ wpc = "dlq_commit"
  /\ committed' = current + 1
  /\ wpc' = "poll"
  /\ current' = NoOffset
  /\ UNCHANGED <<db, log, sent, up, queue, pub, position, faults>>

CommitDeadLetterFails ==
  /\ up /\ wpc = "dlq_commit"
  /\ Fault("kafka_commit")
  /\ committed' \in {committed, current + 1}
  /\ wpc' = "exit"
  /\ UNCHANGED <<db, log, sent, up, queue, pub, position, current>>

-----------------------------------------------------------------------------
(* The process                                                             *)

\* Both threads and the producer's queue are gone; locked rows are released.
Down ==
  /\ up' = FALSE
  /\ queue' = <<>>
  /\ pub' = IdlePub
  /\ wpc' = "poll"
  /\ current' = NoOffset
  /\ position' = committed
  /\ UNCHANGED <<db, broker>>

Crash == up /\ Fault("crash") /\ Down

\* consumer.close(), then a last flush.
Exit == up /\ wpc = "exit" /\ FlushReturns /\ Down

Restart ==
  /\ ~up
  /\ up' = TRUE
  /\ UNCHANGED <<db, broker, queue, pub, worker, faults>>

-----------------------------------------------------------------------------
Environment == \/ \E t \in Txns : ApiScore(t)
               \/ \E k \in Keys : ExternalPublish(k)

OutboxThread ==
  \/ SelectBatch \/ MarkRow \/ CommitBatch \/ OutboxThreadDies
  \/ \E r \in Rows : PublishRow(r) \/ PublishRowFails(r)

MainThread ==
  \/ Poll \/ ScoreMessage \/ ScoreFails
  \/ CommitOffset \/ CommitOffsetFails \/ ReportMetrics \/ MetricsFail
  \/ DeadLetter \/ DeadLetterFails \/ DeadLetterFlushed
  \/ CommitDeadLetter \/ CommitDeadLetterFails \/ Exit

Next ==
  \/ Environment \/ Acknowledge \/ DeliveryError
  \/ OutboxThread \/ MainThread \/ Crash \/ Restart

Spec == Init /\ [][Next]_vars

\* Every thread of a running process gets on, the broker acknowledges, and the
\* container of a process that is down is restarted (unless-stopped).  Nobody
\* needs to send anything.
FairSpec ==
  /\ Spec
  /\ WF_vars(OutboxThread)
  /\ WF_vars(MainThread)
  /\ WF_vars(Acknowledge)
  /\ WF_vars(Restart)

-----------------------------------------------------------------------------
(* Properties                                                              *)

OnTopic(topic, k) == k \in Range(log[topic])

\* Manual offset commits (README.md:63-64): an offset is committed only once
\* its message has its prediction, or its dead letter on the broker, wherever
\* the process failed or died in between, unless a delivery was lost.
ConsumedIsSettled ==
  faults.lossy \/ \A o \in 1 .. committed :
    log[Source][o] \in scored \/ OnTopic(DeadLetters, log[Source][o])

\* Transactional outbox (README.md:64, "prevent database/event divergence"): a
\* row marked published is an event on its topic, unless a delivery was lost.
PublishedIsOnTopic ==
  faults.lossy \/ \A r \in Rows : row[r] = "published" => OnTopic(r[1], r[2])

\* The same promise at its weakest: a published event is on its topic or may
\* still get there.  It is what a flush that timed out breaks.
PublishedIsNotLost ==
  \A r \in Rows : row[r] = "published" => OnTopic(r[1], r[2]) \/ r \in Range(queue)

\* The echo dies out: scoring what the outbox published adds no second event,
\* so a key is on transactions.v1 once for its sender, once for its outbox
\* row, and once more only for a fault, or an exit on an undecodable key, that
\* undid the publisher's commit.
EchoBounded ==
  \A k \in Keys :
    Cardinality({o \in DOMAIN log[Source] : log[Source][o] = k})
      <= (IF k \in sent THEN 1 ELSE 0) + (IF k \in scored THEN 1 + faults.count ELSE 0)

\* The next message to consume ends the process each time it is met, before and
\* after every restart: the worker is in a crash loop.
CrashLoop ==
  committed < Len(log[Source]) /\ log[Source][committed + 1] \in Undecodable

\* Every event a scored transaction owes is published in the end, through
\* every crash and every full queue (README.md:64), unless a delivery is lost,
\* the outbox thread dies and the process does not, or an undecodable key has
\* the process exit over and over, the outbox thread with it.
EveryEventPublished ==
  \A r \in Rows :
    row[r] = "pending"
      ~> (OnTopic(r[1], r[2]) \/ faults.lossy \/ pub.pc = "dead" \/ CrashLoop)

\* The topic is consumed to its end, whatever faults there were, or up to a
\* message with an undecodable key: nothing else blocks it, no other poison
\* message, failure or crash, and the echo of the worker's own events stops.  So
\* does the outbox, unless its thread is dead.
TopicDrains ==
  <>[](\/ CrashLoop
       \/ committed = Len(log[Source]) /\ (Pending = {} \/ pub.pc = "dead"))
=============================================================================
