\* A flush times out and the process dies.
\* The system stops once every event is sent and consumed: no deadlock check.
CONSTANTS
  T1 = T1
  Txns = {T1}
  Alerted = {T1}
  Poison = {Bad}
  Undecodable = {}
  BatchSize = 2
  MaxFaults = 2
  Faults = {"flush_timeout", "crash"}
  NoOffset = NoOffset
SPECIFICATION Spec
INVARIANTS PublishedIsNotLost
CHECK_DEADLOCK FALSE
