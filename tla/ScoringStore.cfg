\* Two sessions, three transactions.  No symmetry, which is unsound for
\* liveness.
CONSTANTS
  T1 = T1
  T2 = T2
  T3 = T3
  Txns = {T1, T2, T3}
  Sessions = {s1, s2}
  NoRow = NoRow
  HistoryDays = 1
  UserOf <- MCUserOf
  MerchantOf <- MCMerchantOf
  CategoryOf <- MCCategoryOf
  TimeOf <- MCTimeOf
  Decide <- MCDecide
SPECIFICATION FairSpec
INVARIANTS TypeOK WriteSetComplete PointInTime ReplyIsRecord
PROPERTIES ImplementsLedger RequestFinishes
