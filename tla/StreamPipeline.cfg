\* Every kind of fault, two of them in a run.
\* The system stops once every event is sent and consumed: no deadlock check.
CONSTANTS
  T1 = T1
  Txns = {T1}
  Alerted = {}
  Poison = {Bad, BadKey}
  Undecodable = {BadKey}
  BatchSize = 2
  MaxFaults = 2
  Faults = {"crash", "flush_timeout", "delivery_error", "buffer_full",
            "outbox_db", "score", "kafka_commit", "watermark",
            "bad_key"}
  NoOffset = NoOffset
SPECIFICATION FairSpec
INVARIANTS TypeOK EchoBounded ConsumedIsSettled PublishedIsOnTopic
PROPERTIES EveryEventPublished TopicDrains
CHECK_DEADLOCK FALSE
