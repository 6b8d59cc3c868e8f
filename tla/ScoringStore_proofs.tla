------------------------ MODULE ScoringStore_proofs ------------------------
(***************************************************************************)
(* Theorems about ScoringStore, for any number of sessions, transactions,  *)
(* users and merchants and any decision function.                          *)
(***************************************************************************)
EXTENDS ScoringStore, TLAPS

\* A session that has scored holds a prediction that is right for its
\* transaction, whatever the others have committed since.
Scored(s) ==
  pc[s] \in FlushedTxn \cup {"flush_score"} =>
    /\ reply[s] \in Predictions
    /\ reply[s] = PredictionOf(req[s], reply[s].history)
    /\ reply[s].history \subseteq transactions
    /\ \A x \in reply[s].history : Prior(x, req[s])

\* A row its SELECT found is still there: nothing is ever deleted.
ParentsFound(s) ==
  /\ pc[s] \in FlushedUser \cup {"flush_user"} =>
       userMissing[s] \/ UserOf[req[s]] \in users
  /\ pc[s] \in FlushedMerchant \cup {"flush_merchant"} =>
       merchantWrite[s] # "none" \/ merchants[MerchantOf[req[s]]] # NoRow

SessionInv(s) ==
  /\ pc[s] # "idle" => req[s] \in Txns
  /\ Scored(s)
  /\ ParentsFound(s)
  /\ pc[s] \in FlushedTxn => req[s] \notin transactions
  /\ pc[s] = "replied" => req[s] \in transactions

\* The primary key admits one uncommitted writer of a transaction.
OneWriter ==
  \A r, s \in Sessions :
    r # s /\ pc[r] \in FlushedTxn /\ pc[s] \in FlushedTxn => req[r] # req[s]

SessionsInv == \A s \in Sessions : SessionInv(s)

IInv ==
  /\ TypeOK
  /\ SessionsInv
  /\ OneWriter
  /\ WriteSetComplete
  /\ PointInTime
  /\ ReplyIsRecord
-----------------------------------------------------------------------------
(* Lemmas about the scoring vocabulary                                     *)

\* A score is a well-formed prediction of the history it was made from.
LEMMA PredictionWellFormed ==
  ASSUME NEW t \in Txns, NEW h \in SUBSET Txns
  PROVE  /\ PredictionOf(t, h) \in Predictions
         /\ PredictionOf(t, h).history = h
         /\ PredictionOf(t, h).decision = Decide[<<t, h>>]
<1>1. Decide[<<t, h>>] \in Decisions
  BY ScoringAssumption DEF ScoringAssumption
<1> QED
  BY <1>1 DEF PredictionOf, Predictions

\* No row of a table can be taken for a missing one.
LEMMA RowsAreNotNoRow ==
  /\ \A p \in Predictions : p # NoRow
  /\ \A c \in Categories : c # NoRow
  /\ \A e \in Entries : e # NoRow
BY ScoringAssumption DEF ScoringAssumption

\* Every transaction has a user, a merchant and a category.
LEMMA Parents ==
  ASSUME NEW t \in Txns
  PROVE  UserOf[t] \in Users /\ MerchantOf[t] \in Merchants /\ CategoryOf[t] \in Categories
BY ScoringAssumption DEF ScoringAssumption

\* A decision entails a natural number of alerts and of events.
LEMMA CountsAreNat ==
  ASSUME NEW d, NEW e
  PROVE  AlertCount(d) \in Nat /\ EventCount(d, e) \in Nat
BY DEF AlertCount, EventCount

-----------------------------------------------------------------------------
(* Type correctness                                                        *)

\* The empty tables and the idle sessions are well-formed.
LEMMA TypeInit == Init => TypeOK
BY DEF Init, TypeOK, PCs, MerchantWrites

\* Every statement keeps every table and session variable in its type.
LEMMA TypeStep ==
  ASSUME TypeOK, SessionsInv, [Next]_vars
  PROVE  TypeOK'
<1> USE DEF TypeOK
<1>1. CASE UNCHANGED vars
  BY <1>1 DEF vars, tables, session
<1>2. ASSUME NEW s \in Sessions, NEW t \in Txns, Begin(s, t)
      PROVE  TypeOK'
  BY <1>2 DEF Begin, Goto, tables, PCs, Working
<1>3. ASSUME NEW s \in Sessions, Step(s)
      PROVE  TypeOK'
  <2>0. pc[s] # "idle" => req[s] \in Txns
    BY DEF SessionsInv, SessionInv
  <2>1. CASE Replay(s)
    BY <2>0, <2>1 DEF Replay, Goto, tables, PCs
  <2>2. CASE LookupMiss(s)
    BY <2>2 DEF LookupMiss, Goto, tables, PCs, Working
  <2>3. CASE GetUser(s)
    BY <2>3 DEF GetUser, Goto, tables, PCs, Working
  <2>4. CASE FlushUser(s)
    BY <2>4 DEF FlushUser, Goto, tables, PCs, Working, FlushedUser
  <2>5. CASE GetMerchant(s)
    BY <2>5 DEF GetMerchant, Goto, tables, PCs, Working, FlushedUser, MerchantWrites
  <2>6. CASE FlushMerchant(s)
    BY <2>6 DEF FlushMerchant, Goto, tables, PCs, Working, FlushedUser, FlushedMerchant
  <2>7. CASE ReadHistory(s)
    <3> DEFINE history == {x \in transactions : Prior(x, req[s])}
    <3>1. history \in SUBSET Txns
      OBVIOUS
    <3>2. PredictionOf(req[s], history) \in Predictions
      BY <2>0, <2>7, <3>1, PredictionWellFormed DEF ReadHistory, Goto
    <3>3. reply' = [reply EXCEPT ![s] = PredictionOf(req[s], history)]
      BY <2>7 DEF ReadHistory
    <3> HIDE DEF history
    <3> QED
      BY <2>7, <3>2, <3>3
      DEF ReadHistory, Goto, tables, PCs, Working, FlushedUser, FlushedMerchant
  <2>8. CASE FlushScore(s)
    BY <2>8 DEF FlushScore, Goto, tables, PCs, Working, FlushedUser, FlushedMerchant, FlushedTxn
  <2>9. CASE FlushAlert(s)
    BY <2>9 DEF FlushAlert, Goto, tables, PCs, Working, FlushedUser, FlushedMerchant, FlushedTxn
  <2>10. CASE Commit(s)
    <3>1. req[s] \in Txns /\ reply[s] \in Predictions
      BY <2>0, <2>10 DEF Commit, Goto, SessionsInv, SessionInv, Scored, FlushedTxn
    <3>2. users' \in SUBSET Users
      BY <2>10, <3>1, Parents DEF Commit
    <3>3. merchants' \in [Merchants -> Categories \cup {NoRow}]
      BY <2>10, <3>1, Parents DEF Commit
    <3>4. transactions' \in SUBSET Txns /\ predictions' \in [Txns -> Predictions \cup {NoRow}]
      BY <2>10, <3>1 DEF Commit
    <3>5. alerts' \in [Txns -> Nat]
      BY <2>10, <3>1, CountsAreNat DEF Commit
    <3>6. outbox' \in [Topics \X Txns -> Nat]
      BY <2>10, <3>1, CountsAreNat DEF Commit
    <3>7. pc' \in [Sessions -> PCs]
      BY <2>10 DEF Commit, Goto, PCs
    <3> QED
      BY <2>10, <3>2, <3>3, <3>4, <3>5, <3>6, <3>7 DEF Commit
  <2>11. CASE Conflict(s)
    BY <2>11 DEF Conflict, tables, PCs
  <2>12. CASE Close(s)
    BY <2>12 DEF Close, tables, PCs, MerchantWrites
  <2> QED
    BY <1>3, <2>1, <2>2, <2>3, <2>4, <2>5, <2>6, <2>7, <2>8, <2>9, <2>10, <2>11, <2>12 DEF Step
<1>4. ASSUME NEW s \in Sessions, Abort(s)
      PROVE  TypeOK'
  BY <1>4 DEF Abort, tables, PCs
<1> QED
  BY <1>1, <1>2, <1>3, <1>4 DEF Next
-----------------------------------------------------------------------------
(* The invariant                                                           *)

\* Nothing is recorded yet and no session holds anything.
LEMMA InvInit == Init => IInv
<1> SUFFICES ASSUME Init PROVE IInv
  OBVIOUS
<1>1. TypeOK
  BY TypeInit
<1>2. SessionsInv /\ OneWriter /\ ReplyIsRecord
  BY DEF Init, SessionsInv, SessionInv, Scored, ParentsFound, OneWriter, ReplyIsRecord,
         FlushedUser, FlushedMerchant, FlushedTxn
<1>3. WriteSetComplete /\ PointInTime
  BY DEF Init, WriteSetComplete, PointInTime
<1> QED
  BY <1>1, <1>2, <1>3 DEF IInv

\* A statement before the commit touches no table and one session only.
Private(s) ==
  /\ UNCHANGED tables
  /\ \A r \in Sessions \ {s} :
       /\ pc'[r] = pc[r]
       /\ req'[r] = req[r]
       /\ userMissing'[r] = userMissing[r]
       /\ merchantWrite'[r] = merchantWrite[r]
       /\ reply'[r] = reply[r]

\* What a private step of s leaves to prove: s's own state, and that s is not
\* a second writer.
LEMMA PrivateStep ==
  ASSUME IInv, TypeOK', NEW s \in Sessions, Private(s), SessionInv(s)',
         pc'[s] \in FlushedTxn =>
           \A r \in Sessions \ {s} : pc[r] \in FlushedTxn => req[r] # req'[s],
         pc'[s] = "replied" => predictions[req'[s]] = reply'[s]
  PROVE  IInv'
<1> USE DEF IInv
<1>1. SessionsInv'
  <2> SUFFICES ASSUME NEW r \in Sessions, r # s
               PROVE  SessionInv(r)'
    BY DEF SessionsInv
  <2>1. SessionInv(r)
    BY DEF SessionsInv
  <2> QED
    BY <2>1 DEF Private, tables, SessionInv, Scored, ParentsFound
<1>2. OneWriter'
  BY DEF Private, OneWriter
<1>3. WriteSetComplete' /\ PointInTime'
  BY DEF Private, tables, WriteSetComplete, PointInTime
<1>4. ReplyIsRecord'
  BY DEF Private, tables, ReplyIsRecord
<1> QED
  BY <1>1, <1>2, <1>3, <1>4

\* The commit of a session: its rows appear, nobody else's change.
LEMMA CommitStep ==
  ASSUME IInv, TypeOK', NEW s \in Sessions, Commit(s)
  PROVE  IInv'
<1> DEFINE t == req[s]
<1> DEFINE d == reply[s].decision
<1> USE DEF IInv
<1>1. /\ pc[s] = "commit"
      /\ t \in Txns /\ t \notin transactions
      /\ reply[s] \in Predictions /\ reply[s] # NoRow
      /\ reply[s] = PredictionOf(t, reply[s].history)
      /\ reply[s].history \subseteq transactions
      /\ \A x \in reply[s].history : Prior(x, t)
      /\ ParentsFound(s)
  BY RowsAreNotNoRow DEF Commit, Goto, SessionsInv, SessionInv, Scored, FlushedTxn
<1>2. UserOf[t] \in Users /\ MerchantOf[t] \in Merchants /\ CategoryOf[t] # NoRow
  BY <1>1, Parents, RowsAreNotNoRow
<1>3. /\ users \subseteq users' /\ UserOf[t] \in users'
      /\ \A m \in Merchants : merchants[m] # NoRow => merchants'[m] # NoRow
      /\ merchants'[MerchantOf[t]] # NoRow
  BY <1>1, <1>2
  DEF Commit, ParentsFound, FlushedUser, FlushedMerchant, FlushedTxn, TypeOK
<1>4. /\ transactions' = transactions \cup {t}
      /\ predictions'[t] = reply[s]
      /\ \A x \in Txns \ {t} : predictions'[x] = predictions[x]
  BY <1>1 DEF Commit, TypeOK
<1>5. /\ alerts'[t] = alerts[t] + AlertCount(d)
      /\ \A x \in Txns \ {t} : alerts'[x] = alerts[x]
  BY <1>1 DEF Commit, TypeOK
<1>6. \A e \in Topics : \A x \in Txns :
        outbox'[<<e, x>>] = IF x = t THEN outbox[<<e, x>>] + EventCount(d, e) ELSE outbox[<<e, x>>]
  BY <1>1 DEF Commit, TypeOK
<1>7. WriteSetComplete'
  <2> SUFFICES ASSUME NEW x \in Txns
               PROVE  IF x \in transactions'
                      THEN /\ predictions'[x] # NoRow
                           /\ UserOf[x] \in users'
                           /\ merchants'[MerchantOf[x]] # NoRow
                           /\ alerts'[x] = AlertCount(predictions'[x].decision)
                           /\ \A e \in Topics :
                                outbox'[<<e, x>>] = EventCount(predictions'[x].decision, e)
                      ELSE /\ predictions'[x] = NoRow
                           /\ alerts'[x] = 0
                           /\ \A e \in Topics : outbox'[<<e, x>>] = 0
    BY DEF WriteSetComplete
  <2>1. CASE x = t
    <3>1. alerts[t] = 0 /\ \A e \in Topics : outbox[<<e, t>>] = 0
      BY <1>1 DEF WriteSetComplete
    <3>2. alerts'[t] = AlertCount(d)
      BY <1>5, <3>1 DEF AlertCount
    <3>3. \A e \in Topics : outbox'[<<e, t>>] = EventCount(d, e)
      BY <1>1, <1>6, <3>1 DEF EventCount, AlertCount
    <3> HIDE DEF t, d
    <3> QED
      BY <1>1, <1>3, <1>4, <2>1, <3>2, <3>3 DEF d
  <2>2. CASE x # t
    <3>1. MerchantOf[x] \in Merchants
      BY Parents
    <3>2. /\ predictions'[x] = predictions[x] /\ alerts'[x] = alerts[x]
          /\ \A e \in Topics : outbox'[<<e, x>>] = outbox[<<e, x>>]
          /\ x \in transactions' <=> x \in transactions
      BY <1>4, <1>5, <1>6, <2>2
    <3>3. CASE x \in transactions
      BY <1>3, <3>1, <3>2, <3>3 DEF WriteSetComplete
    <3>4. CASE x \notin transactions
      BY <3>2, <3>4 DEF WriteSetComplete
    <3> QED
      BY <3>3, <3>4
  <2> QED
    BY <2>1, <2>2
<1>8. PointInTime'
  BY <1>1, <1>4 DEF PointInTime, TypeOK
<1>9. \A r \in Sessions \ {s} : pc'[r] = pc[r] /\ (pc[r] \in FlushedTxn => req[r] # t)
  BY <1>1 DEF Commit, Goto, OneWriter, FlushedTxn, TypeOK
<1>10. UNCHANGED <<req, userMissing, merchantWrite, reply>> /\ pc'[s] = "replied"
  BY DEF Commit, Goto, TypeOK
<1>11. SessionsInv'
  <2> SUFFICES ASSUME NEW r \in Sessions PROVE SessionInv(r)'
    BY DEF SessionsInv
  <2>1. CASE r = s
    BY <1>1, <1>4, <1>10, <2>1
    DEF SessionInv, Scored, ParentsFound, FlushedUser, FlushedMerchant, FlushedTxn
  <2>2. CASE r # s
    <3>1. SessionInv(r) /\ (pc[r] # "idle" => MerchantOf[req[r]] \in Merchants)
      BY Parents DEF SessionsInv, SessionInv
    <3>2. Scored(r)'
      BY <1>4, <1>9, <1>10, <2>2, <3>1 DEF SessionInv, Scored
    <3>3. ParentsFound(r)'
      BY <1>3, <1>9, <1>10, <2>2, <3>1
      DEF SessionInv, ParentsFound, FlushedUser, FlushedMerchant, FlushedTxn
    <3> QED
      BY <1>4, <1>9, <1>10, <2>2, <3>1, <3>2, <3>3 DEF SessionInv
  <2> QED
    BY <2>1, <2>2
<1>12. OneWriter'
  BY <1>9, <1>10 DEF OneWriter, FlushedTxn
<1>13. ReplyIsRecord'
  <2> SUFFICES ASSUME NEW r \in Sessions, pc'[r] = "replied"
               PROVE  predictions'[req'[r]] = reply'[r]
    BY DEF ReplyIsRecord
  <2>1. CASE r = s
    BY <1>4, <1>10, <2>1
  <2>2. CASE r # s
    \* r's answer is on record, so it is not the transaction s just committed.
    <3>1. /\ predictions[req[r]] = reply[r]
          /\ req[r] \in Txns \ {t}
      BY <1>1, <1>9, <2>2 DEF ReplyIsRecord, SessionsInv, SessionInv
    <3> QED
      BY <1>4, <1>10, <3>1
  <2> QED
    BY <2>1, <2>2
<1> QED
  BY <1>7, <1>8, <1>11, <1>12, <1>13

\* Every other step is private, and keeps the session's own invariant.
LEMMA InvStep ==
  ASSUME IInv, [Next]_vars
  PROVE  IInv'
<1>0. TypeOK'
  BY TypeStep DEF IInv
<1> USE DEF IInv
<1>1. CASE UNCHANGED vars
  BY <1>0, <1>1
  DEF vars, tables, session, SessionsInv, SessionInv, Scored, ParentsFound, OneWriter,
      WriteSetComplete, PointInTime, ReplyIsRecord
<1>2. ASSUME NEW s \in Sessions, NEW t \in Txns, Begin(s, t)
      PROVE  IInv'
  <2>1. Private(s)
    BY <1>2 DEF Begin, Goto, Private, TypeOK
  <2>2. pc'[s] = "lookup" /\ req'[s] \in Txns
    BY <1>2 DEF Begin, Goto, TypeOK
  <2>3. SessionInv(s)'
    BY <2>2 DEF SessionInv, Scored, ParentsFound, FlushedUser, FlushedMerchant, FlushedTxn
  <2> QED
    BY <1>0, <2>1, <2>2, <2>3, PrivateStep DEF FlushedTxn
<1>3. ASSUME NEW s \in Sessions, Step(s)
      PROVE  IInv'
  <2> DEFINE unlocked == pc'[s] \in FlushedTxn =>
               \A r \in Sessions \ {s} : pc[r] \in FlushedTxn => req[r] # req'[s]
  <2> DEFINE answered == pc'[s] = "replied" => predictions[req'[s]] = reply'[s]
  <2>0. SessionInv(s) /\ (pc[s] # "idle" => req[s] \in Txns /\ UserOf[req[s]] \in Users
                                          /\ MerchantOf[req[s]] \in Merchants)
    BY Parents DEF SessionsInv, SessionInv
  <2> SUFFICES Commit(s) \/ (Private(s) /\ SessionInv(s)' /\ unlocked /\ answered)
    BY <1>0, CommitStep, PrivateStep
  <2> USE DEF Goto, Private, TypeOK, FlushedUser, FlushedMerchant, FlushedTxn
  <2>1. CASE Replay(s)
    <3>1. req[s] \in transactions
      BY <2>0, <2>1 DEF Replay, WriteSetComplete
    <3> QED
      BY <2>0, <2>1, <3>1 DEF Replay, tables, SessionInv, Scored, ParentsFound
  <2>2. CASE LookupMiss(s)
    BY <2>0, <2>2 DEF LookupMiss, SessionInv, Scored, ParentsFound
  <2>3. CASE GetUser(s)
    BY <2>0, <2>3 DEF GetUser, tables, SessionInv, Scored, ParentsFound
  <2>4. CASE FlushUser(s)
    BY <2>0, <2>4 DEF FlushUser, tables, SessionInv, Scored, ParentsFound
  <2>5. CASE GetMerchant(s)
    BY <2>0, <2>5 DEF GetMerchant, tables, SessionInv, Scored, ParentsFound
  <2>6. CASE FlushMerchant(s)
    BY <2>0, <2>6 DEF FlushMerchant, tables, SessionInv, Scored, ParentsFound
  <2>7. CASE ReadHistory(s)
    <3> DEFINE history == {x \in transactions : Prior(x, req[s])}
    <3>1. history \in SUBSET Txns /\ history \subseteq transactions
          /\ \A x \in history : Prior(x, req[s])
      OBVIOUS
    <3>2. reply'[s] = PredictionOf(req[s], history) /\ req[s] \in Txns
      BY <2>0, <2>7 DEF ReadHistory
    <3> HIDE DEF history
    <3>3. reply'[s] \in Predictions /\ reply'[s].history = history
      BY <3>1, <3>2, PredictionWellFormed
    <3>4. Private(s) /\ pc'[s] = "flush_score" /\ pc[s] = "read_history"
          /\ req'[s] = req[s] /\ UNCHANGED tables
          /\ userMissing'[s] = userMissing[s] /\ merchantWrite'[s] = merchantWrite[s]
      BY <2>7 DEF ReadHistory
    <3>5. Scored(s)'
      BY <3>1, <3>2, <3>3, <3>4 DEF Scored, tables
    <3>6. ParentsFound(s)'
      BY <2>0, <3>4 DEF SessionInv, ParentsFound, tables
    <3> QED
      BY <3>2, <3>4, <3>5, <3>6 DEF SessionInv
  <2>8. CASE FlushScore(s)
    BY <2>0, <2>8 DEF FlushScore, TxnFree, Others, LocksTxn, tables,
                      SessionInv, Scored, ParentsFound
  <2>9. CASE FlushAlert(s)
    BY <2>0, <2>9 DEF FlushAlert, OneWriter, tables, SessionInv, Scored, ParentsFound
  <2>10. CASE Commit(s)
    BY <2>10
  <2>11. CASE Conflict(s)
    BY <2>0, <2>11 DEF Conflict, UserTaken, MerchantTaken, TxnTaken, SessionInv, Scored, ParentsFound
  <2>12. CASE Close(s)
    BY <2>0, <2>12 DEF Close, SessionInv, Scored, ParentsFound
  <2> QED
    BY <1>3, <2>1, <2>2, <2>3, <2>4, <2>5, <2>6, <2>7, <2>8, <2>9, <2>10, <2>11, <2>12 DEF Step
<1>4. ASSUME NEW s \in Sessions, Abort(s)
      PROVE  IInv'
  <2>1. Private(s) /\ pc'[s] = "failed" /\ req'[s] = req[s] /\ pc[s] # "idle"
    BY <1>4 DEF Abort, Private, TypeOK, Working, FlushedUser, FlushedMerchant, FlushedTxn
  <2>2. SessionInv(s)'
    BY <2>1
    DEF SessionsInv, SessionInv, Scored, ParentsFound, FlushedUser, FlushedMerchant, FlushedTxn
  <2> QED
    BY <1>0, <2>1, <2>2, PrivateStep DEF FlushedTxn
<1> QED
  BY <1>1, <1>2, <1>3, <1>4 DEF Next

\* score_and_persist keeps the whole invariant, whatever its sessions do.
THEOREM Invariance == Spec => []IInv
<1>1. IInv /\ [Next]_vars => IInv'
  BY InvStep
<1> QED
  BY <1>1, InvInit, PTL DEF Spec
-----------------------------------------------------------------------------
(* What the invariant gives                                                *)

\* The tables and the sessions always hold well-formed rows.
THEOREM TypeCorrect == Spec => []TypeOK
BY Invariance, PTL DEF IInv

\* database.py:370-373: the write set of a transaction is all there or not at
\* all, however many sessions score it at once.
THEOREM WriteSetsAreAtomic == Spec => []WriteSetComplete
BY Invariance, PTL DEF IInv

\* README.md:65-66: no recorded decision rests on the present or the future.
THEOREM FeaturesArePointInTime == Spec => []PointInTime
BY Invariance, PTL DEF IInv

\* README.md:61: an id is always answered with the prediction on record.
THEOREM AnswersAreIdempotent == Spec => []ReplyIsRecord
BY Invariance, PTL DEF IInv

-----------------------------------------------------------------------------
(* The refinement                                                          *)

\* A step that leaves the tables alone leaves the ledger alone.
LEMMA SameTablesSameLedger ==
  ASSUME UNCHANGED tables
  PROVE  UNCHANGED LedgerView
BY DEF tables, LedgerView

\* A recorded transaction has an entry in the ledger.
LEMMA ViewOfRecorded ==
  ASSUME IInv, NEW x \in transactions
  PROVE  x \in Txns /\ LedgerView[x] # NoRow
<1>1. x \in Txns /\ predictions[x] \in Predictions
  BY DEF IInv, TypeOK, WriteSetComplete
<1>2. /\ alerts[x] \in Nat
      /\ [e \in Topics |-> outbox[<<e, x>>]] \in [Topics -> Nat]
  BY <1>1 DEF IInv, TypeOK
<1>3. LedgerView[x] = [prediction |-> predictions[x], alerts |-> alerts[x],
                       events |-> [e \in Topics |-> outbox[<<e, x>>]]]
  BY <1>1 DEF LedgerView
<1>4. LedgerView[x] \in Entries
  BY <1>1, <1>2, <1>3 DEF Entries
<1> QED
  BY <1>1, <1>4, RowsAreNotNoRow

\* A commit enters its transaction in the ledger.
LEMMA CommitEnters ==
  ASSUME IInv, IInv', NEW s \in Sessions, Commit(s)
  PROVE  Ledger!Enter(req[s])
<1> DEFINE t == req[s]
<1> DEFINE h == reply[s].history
<1> USE DEF IInv
<1>1. /\ t \in Txns /\ t \notin transactions
      /\ reply[s] = PredictionOf(t, h)
      /\ h \subseteq transactions /\ h \in SUBSET Txns
      /\ \A x \in h : Prior(x, t)
  BY DEF Commit, Goto, SessionsInv, SessionInv, Scored, FlushedTxn, TypeOK
<1>2. reply[s].decision = Decide[<<t, h>>]
  BY <1>1, PredictionWellFormed
<1>3. /\ transactions' = transactions \cup {t}
      /\ predictions' = [predictions EXCEPT ![t] = reply[s]]
      /\ alerts' = [alerts EXCEPT ![t] = alerts[t] + AlertCount(reply[s].decision)]
      /\ \A e \in Topics : \A x \in Txns \ {t} : outbox'[<<e, x>>] = outbox[<<e, x>>]
  BY DEF Commit, TypeOK
<1>4. /\ predictions'[t] = PredictionOf(t, h)
      /\ alerts'[t] = AlertCount(Decide[<<t, h>>])
      /\ \A e \in Topics : outbox'[<<e, t>>] = EventCount(Decide[<<t, h>>], e)
  <2>1. predictions'[t] = reply[s] /\ t \in transactions'
    BY <1>1, <1>3 DEF TypeOK
  <2> HIDE DEF t, h
  <2> QED
    BY <1>1, <1>2, <2>1 DEF WriteSetComplete, t, h
<1>5. Ledger!EntryOf(t, h) = [prediction |-> PredictionOf(t, h),
                              alerts     |-> AlertCount(Decide[<<t, h>>]),
                              events     |-> [e \in Topics |-> EventCount(Decide[<<t, h>>], e)]]
  BY DEF Ledger!EntryOf, Ledger!PredictionOf, PredictionOf, Ledger!AlertCount, AlertCount,
         Ledger!EventCount, EventCount, Ledger!Topics, Topics
<1>6. LedgerView' = [LedgerView EXCEPT ![t] = Ledger!EntryOf(t, h)]
  <2>1. LedgerView'[t] = Ledger!EntryOf(t, h)
    <3> HIDE DEF t, h
    <3> QED
      BY <1>1, <1>3, <1>4, <1>5 DEF LedgerView
  <2>2. ASSUME NEW x \in Txns \ {t}
        PROVE  LedgerView'[x] = LedgerView[x]
    <3>1. predictions'[x] = predictions[x] /\ alerts'[x] = alerts[x]
          /\ (x \in transactions' <=> x \in transactions)
      BY <1>3 DEF TypeOK
    <3>2. [e \in Topics |-> outbox'[<<e, x>>]] = [e \in Topics |-> outbox[<<e, x>>]]
      BY <1>3
    <3> HIDE DEF t, h
    <3> QED
      BY <3>1, <3>2 DEF LedgerView
  <2> HIDE DEF t, h
  <2> QED
    BY <1>1, <2>1, <2>2 DEF LedgerView
<1>7. LedgerView[t] = NoRow
  BY <1>1 DEF LedgerView
<1>8. h \in SUBSET Ledger!Entered
  BY <1>1, ViewOfRecorded DEF Ledger!Entered
<1>9. \A x \in h : Ledger!Prior(x, t)
  BY <1>1 DEF Ledger!Prior, Prior
<1> QED
  BY <1>6, <1>7, <1>8, <1>9 DEF Ledger!Enter

\* The tables implement the ledger (ImplementsLedger, conjunct by conjunct):
\* initially it is empty, and every step of every session enters one
\* transaction or leaves the ledger as it is.
THEOREM StoreImplementsLedger == Spec => ImplementsLedger
<1>1. Init => Ledger!LedgerInit
  BY DEF Init, LedgerView, Ledger!LedgerInit
<1>2. IInv /\ IInv' /\ [Next]_vars => [Ledger!LedgerNext]_LedgerView
  <2> SUFFICES ASSUME IInv, IInv', [Next]_vars
               PROVE  Ledger!LedgerNext \/ UNCHANGED LedgerView
    OBVIOUS
  <2>1. CASE \E s \in Sessions : Commit(s)
    <3>1. PICK s \in Sessions : Commit(s)
      BY <2>1
    <3>2. req[s] \in Txns
      BY <3>1 DEF IInv, SessionsInv, SessionInv, Commit, Goto
    <3> QED
      BY <3>1, <3>2, CommitEnters DEF Ledger!LedgerNext
  <2>2. CASE ~\E s \in Sessions : Commit(s)
    <3>1. UNCHANGED tables
      BY <2>2
      DEF Next, vars, tables, Begin, Abort, Step, Replay, LookupMiss, GetUser, FlushUser, GetMerchant,
          FlushMerchant, ReadHistory, FlushScore, FlushAlert, Conflict, Close
    <3> QED
      BY <3>1, SameTablesSameLedger
  <2> QED
    BY <2>1, <2>2
<1> QED
  BY <1>1, <1>2, Invariance, PTL DEF Spec, ImplementsLedger, Ledger!LedgerSpec
=============================================================================
