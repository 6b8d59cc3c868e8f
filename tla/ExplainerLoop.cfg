\* Two alerts, one key of each other kind, four messages, three faults.
\* The loop stops at the end of the topic: no deadlock check.
CONSTANTS
  Alerts = {A1, A2}
  Unknown = {U}
  Undecodable = {X}
  Keyless = Keyless
  NoOffset = NoOffset
  MaxMessages = 4
  MaxFaults = 3
SPECIFICATION FairSpec
INVARIANTS TypeOK CommittedIsTried
PROPERTIES AlertIsExplained
CHECK_DEADLOCK FALSE
