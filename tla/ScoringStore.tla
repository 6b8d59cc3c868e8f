---------------------------- MODULE ScoringStore ----------------------------
(***************************************************************************)
(* score_and_persist, run by concurrent database sessions: the API's       *)
(* thread pool and the stream worker score through the same function.  One *)
(* action is one SQL statement of a session; what a session has flushed    *)
(* and not committed is visible to the others only through the row locks   *)
(* it holds (PostgreSQL, READ COMMITTED).                                  *)
(*                                                                         *)
(* session.merge SELECTs first and INSERTs at the next autoflush, so a row *)
(* that another session inserts in between makes the INSERT fail, and      *)
(* with it the whole request.                                              *)
(***************************************************************************)
EXTENDS ScoringContract

CONSTANT Sessions   \* database sessions: API requests and the worker's

VARIABLES
  \* committed tables
  users,         \* user ids
  merchants,     \* merchant -> category, or NoRow
  transactions,  \* transaction ids
  predictions,   \* transaction -> prediction row, or NoRow
  alerts,        \* transaction -> number of fraud_alerts rows
  outbox,        \* <<topic, key>> -> number of outbox_events rows
  \* sessions
  pc,            \* the next statement of each session
  req,           \* the transaction it scores
  userMissing,   \* its SELECT found no user row
  merchantWrite, \* what its merge of the merchant will flush
  reply          \* the prediction it has computed or found

tables  == <<users, merchants, transactions, predictions, alerts, outbox>>
session == <<pc, req, userMissing, merchantWrite, reply>>
vars    == <<tables, session>>

\* The statements of a request, in order.  From FlushedUser on the session
\* has flushed its user row, and so on.
FlushedTxn      == {"flush_alert", "commit"}
FlushedMerchant == FlushedTxn \cup {"read_history", "flush_score"}
FlushedUser     == FlushedMerchant \cup {"get_merchant", "flush_merchant"}
Working         == FlushedUser \cup {"lookup", "get_user", "flush_user"}
PCs             == Working \cup {"idle", "replied", "failed"}
MerchantWrites  == {"none", "insert", "update"}

TypeOK ==
  /\ users \in SUBSET Users
  /\ merchants \in [Merchants -> Categories \cup {NoRow}]
  /\ transactions \in SUBSET Txns
  /\ predictions \in [Txns -> Predictions \cup {NoRow}]
  /\ alerts \in [Txns -> Nat]
  /\ outbox \in [Topics \X Txns -> Nat]
  /\ pc \in [Sessions -> PCs]
  /\ req \in [Sessions -> Txns \cup {NoRow}]
  /\ userMissing \in [Sessions -> BOOLEAN]
  /\ merchantWrite \in [Sessions -> MerchantWrites]
  /\ reply \in [Sessions -> Predictions \cup {NoRow}]

Init ==
  /\ users = {}
  /\ merchants = [m \in Merchants |-> NoRow]
  /\ transactions = {}
  /\ predictions = [t \in Txns |-> NoRow]
  /\ alerts = [t \in Txns |-> 0]
  /\ outbox = [row \in Topics \X Txns |-> 0]
  /\ pc = [s \in Sessions |-> "idle"]
  /\ req = [s \in Sessions |-> NoRow]
  /\ userMissing = [s \in Sessions |-> FALSE]
  /\ merchantWrite = [s \in Sessions |-> "none"]
  /\ reply = [s \in Sessions |-> NoRow]

-----------------------------------------------------------------------------
(* Row locks: what an uncommitted session keeps from the others.           *)

LocksUser(s, u)     == pc[s] \in FlushedUser /\ userMissing[s] /\ UserOf[req[s]] = u
\* Mutant of LocksMerchant: the row is locked by the SELECT of the merge, which
\* does not wait, and locked again by the flush, which does.
LocksMerchantOnSelect(s, m) ==
  /\ pc[s] \in FlushedMerchant \cup {"flush_merchant"}
  /\ merchantWrite[s] # "none"
  /\ MerchantOf[req[s]] = m

LocksMerchant(s, m) == pc[s] \in FlushedMerchant /\ merchantWrite[s] # "none"
                         /\ MerchantOf[req[s]] = m
LocksTxn(s, t)      == pc[s] \in FlushedTxn /\ req[s] = t

Others(s) == Sessions \ {s}
UserFree(s)     == \A r \in Others(s) : ~LocksUser(r, UserOf[req[s]])
MerchantFree(s) == \A r \in Others(s) : ~LocksMerchant(r, MerchantOf[req[s]])
TxnFree(s)      == \A r \in Others(s) : ~LocksTxn(r, req[s])

Goto(s, from, to) == pc[s] = from /\ pc' = [pc EXCEPT ![s] = to]

-----------------------------------------------------------------------------
(* A request                                                               *)

Begin(s, t) ==
  /\ Goto(s, "idle", "lookup")
  /\ req' = [req EXCEPT ![s] = t]
  /\ UNCHANGED <<tables, userMissing, merchantWrite, reply>>

\* A transaction that already has a prediction is answered from it.
Replay(s) ==
  /\ Goto(s, "lookup", "replied")
  /\ predictions[req[s]] # NoRow
  /\ reply' = [reply EXCEPT ![s] = predictions[req[s]]]
  /\ UNCHANGED <<tables, req, userMissing, merchantWrite>>

LookupMiss(s) ==
  /\ Goto(s, "lookup", "get_user")
  /\ predictions[req[s]] = NoRow
  /\ UNCHANGED <<tables, req, userMissing, merchantWrite, reply>>

GetUser(s) ==
  /\ Goto(s, "get_user", "flush_user")
  /\ userMissing' = [userMissing EXCEPT ![s] = UserOf[req[s]] \notin users]
  /\ UNCHANGED <<tables, req, merchantWrite, reply>>

\* An INSERT waits for a session that has inserted the same key; UserConflict
\* is the case that the other one committed.
FlushUser(s) ==
  /\ Goto(s, "flush_user", "get_merchant")
  /\ userMissing[s] => UserFree(s) /\ UserOf[req[s]] \notin users
  /\ UNCHANGED <<tables, req, userMissing, merchantWrite, reply>>

\* Mutant of GetMerchant: remembers the category instead of the kind of write.
GetMerchantCategory(s) ==
  /\ Goto(s, "get_merchant", "flush_merchant")
  /\ merchantWrite' = [merchantWrite EXCEPT ![s] = CategoryOf[req[s]]]
  /\ UNCHANGED <<tables, req, userMissing, reply>>

GetMerchant(s) ==
  LET row == merchants[MerchantOf[req[s]]]
      event == CategoryOf[req[s]]
  IN  /\ Goto(s, "get_merchant", "flush_merchant")
      /\ merchantWrite' = [merchantWrite EXCEPT ![s] =
             IF row = NoRow THEN "insert" ELSE IF row # event THEN "update" ELSE "none"]
      /\ UNCHANGED <<tables, req, userMissing, reply>>

FlushMerchant(s) ==
  /\ Goto(s, "flush_merchant", "read_history")
  /\ merchantWrite[s] # "none" => MerchantFree(s)
  /\ merchantWrite[s] = "insert" => merchants[MerchantOf[req[s]]] = NoRow
  /\ UNCHANGED <<tables, req, userMissing, merchantWrite, reply>>

\* Mutant of ReadHistory: the query leaves out its time bounds.
ReadAllHistory(s) ==
  LET history == {x \in transactions : UserOf[x] = UserOf[req[s]] /\ x # req[s]}
  IN  /\ Goto(s, "read_history", "flush_score")
      /\ reply' = [reply EXCEPT ![s] = PredictionOf(req[s], history)]
      /\ UNCHANGED <<tables, req, userMissing, merchantWrite>>

\* The feature query sees what is committed now; the score follows from it.
ReadHistory(s) ==
  LET history == {x \in transactions : Prior(x, req[s])}
  IN  /\ Goto(s, "read_history", "flush_score")
      /\ reply' = [reply EXCEPT ![s] = PredictionOf(req[s], history)]
      /\ UNCHANGED <<tables, req, userMissing, merchantWrite>>

\* Mutant of FlushScore: no primary key on transactions.
FlushScoreUnkeyed(s) ==
  /\ Goto(s, "flush_score",
          IF reply[s].decision = "APPROVE" THEN "commit" ELSE "flush_alert")
  /\ UNCHANGED <<tables, req, userMissing, merchantWrite, reply>>

\* The first flush: transaction, prediction and their two outbox events.
FlushScore(s) ==
  /\ Goto(s, "flush_score",
          IF reply[s].decision = "APPROVE" THEN "commit" ELSE "flush_alert")
  /\ TxnFree(s)
  /\ req[s] \notin transactions
  /\ UNCHANGED <<tables, req, userMissing, merchantWrite, reply>>

\* Mutant of FlushAlert: the score is committed before the alert is added.
FlushAlertCommits(s) ==
  /\ Goto(s, "flush_alert", "commit")
  /\ transactions' = transactions \cup {req[s]}
  /\ predictions' = [predictions EXCEPT ![req[s]] = reply[s]]
  /\ UNCHANGED <<users, merchants, alerts, outbox, req, userMissing,
                 merchantWrite, reply>>

FlushAlert(s) ==
  /\ Goto(s, "flush_alert", "commit")
  /\ UNCHANGED <<tables, req, userMissing, merchantWrite, reply>>

\* Everything flushed becomes visible in one step.
Commit(s) ==
  LET t == req[s]
      d == reply[s].decision
  IN  /\ Goto(s, "commit", "replied")
      /\ users' = IF userMissing[s] THEN users \cup {UserOf[t]} ELSE users
      /\ merchants' = IF merchantWrite[s] = "none" THEN merchants
                      ELSE [merchants EXCEPT ![MerchantOf[t]] = CategoryOf[t]]
      /\ transactions' = transactions \cup {t}
      /\ predictions' = [predictions EXCEPT ![t] = reply[s]]
      /\ alerts' = [alerts EXCEPT ![t] = @ + AlertCount(d)]
      /\ outbox' = [row \in Topics \X Txns |->
                      IF row[2] = t THEN outbox[row] + EventCount(d, row[1])
                      ELSE outbox[row]]
      /\ UNCHANGED <<req, userMissing, merchantWrite, reply>>

\* A unique key turned out to be taken: the INSERT raises, the handler rolls
\* back and re-raises.
UserTaken(s)     == /\ pc[s] = "flush_user" /\ userMissing[s]
                    /\ UserOf[req[s]] \in users
MerchantTaken(s) == /\ pc[s] = "flush_merchant" /\ merchantWrite[s] = "insert"
                    /\ merchants[MerchantOf[req[s]]] # NoRow
TxnTaken(s)      == pc[s] = "flush_score" /\ req[s] \in transactions

\* Mutant of Conflict: the handler swallows the error and answers with the
\* prediction it has computed.
ConflictSwallowed(s) ==
  /\ UserTaken(s) \/ MerchantTaken(s) \/ TxnTaken(s)
  /\ pc' = [pc EXCEPT ![s] = IF TxnTaken(s) THEN "replied" ELSE "failed"]
  /\ UNCHANGED <<tables, req, userMissing, merchantWrite, reply>>

Conflict(s) ==
  /\ UserTaken(s) \/ MerchantTaken(s) \/ TxnTaken(s)
  /\ pc' = [pc EXCEPT ![s] = "failed"]
  /\ UNCHANGED <<tables, req, userMissing, merchantWrite, reply>>

\* Any statement may fail, and the process may die: the session rolls back.
Abort(s) ==
  /\ pc[s] \in Working
  /\ pc' = [pc EXCEPT ![s] = "failed"]
  /\ UNCHANGED <<tables, req, userMissing, merchantWrite, reply>>

\* The session is closed, its answer sent.
Close(s) ==
  /\ pc[s] \in {"replied", "failed"}
  /\ pc' = [pc EXCEPT ![s] = "idle"]
  /\ req' = [req EXCEPT ![s] = NoRow]
  /\ userMissing' = [userMissing EXCEPT ![s] = FALSE]
  /\ merchantWrite' = [merchantWrite EXCEPT ![s] = "none"]
  /\ reply' = [reply EXCEPT ![s] = NoRow]
  /\ UNCHANGED tables

\* The statements that run once they are not blocked, however they end.
Step(s) ==
  \/ Replay(s) \/ LookupMiss(s)
  \/ GetUser(s) \/ FlushUser(s)
  \/ GetMerchant(s) \/ FlushMerchant(s)
  \/ ReadHistory(s) \/ FlushScore(s) \/ FlushAlert(s)
  \/ Commit(s) \/ Conflict(s) \/ Close(s)

Next == \E s \in Sessions : (\E t \in Txns : Begin(s, t)) \/ Step(s) \/ Abort(s)

Spec == Init /\ [][Next]_vars

\* Clients need never send anything, but a session that started goes on, and
\* the lock manager's queue is fair: a session that is granted a lock again
\* and again gets it in the end.
FairSpec == Spec /\ \A s \in Sessions : SF_vars(Step(s))

-----------------------------------------------------------------------------
(* Properties                                                              *)

\* Atomicity of the write set (database.py:370-373, "preserves outbox
\* atomicity"): whatever sessions interleave, conflict or abort, a transaction
\* either has its user, merchant, prediction, alert and outbox rows, each
\* exactly as often as its decision calls for, or has none of them.
WriteSetComplete ==
  \A t \in Txns :
    LET d == predictions[t].decision
    IN  IF t \in transactions
        THEN /\ predictions[t] # NoRow
             /\ UserOf[t] \in users
             /\ merchants[MerchantOf[t]] # NoRow
             /\ alerts[t] = AlertCount(d)
             /\ \A e \in Topics : outbox[<<e, t>>] = EventCount(d, e)
        ELSE /\ predictions[t] = NoRow
             /\ alerts[t] = 0
             /\ \A e \in Topics : outbox[<<e, t>>] = 0

\* Point-in-time features (README.md:65-66, "Every online history query
\* excludes the current and future events"): the history behind a recorded
\* prediction is made of recorded, strictly earlier transactions of the same
\* user, and the decision is the one that history gives.
PointInTime ==
  \A t \in transactions :
    /\ predictions[t].history \subseteq transactions
    /\ \A x \in predictions[t].history : Prior(x, t)
    /\ predictions[t] = PredictionOf(t, predictions[t].history)

\* Idempotent transaction ids (README.md:61): every answer given for an id,
\* to whichever session and however often, is the one prediction on record.
ReplyIsRecord ==
  \A s \in Sessions : pc[s] = "replied" => predictions[req[s]] = reply[s]

\* The ledger the tables show.
LedgerView ==
  [t \in Txns |->
     IF t \notin transactions THEN NoRow
     ELSE [prediction |-> predictions[t],
           alerts     |-> alerts[t],
           events     |-> [e \in Topics |-> outbox[<<e, t>>]]]]

Ledger == INSTANCE ScoringLedger WITH ledger <- LedgerView

\* The tables implement the ledger: a transaction is entered at most once, in
\* one step with everything it entails, and no entry ever changes.
ImplementsLedger == Ledger!LedgerSpec

\* No request waits for ever: the locks are always taken in the order user,
\* merchant, transaction, so sessions never wait for each other in a circle.
RequestFinishes ==
  \A s \in Sessions : pc[s] = "lookup" ~> pc[s] \in {"replied", "failed"}
=============================================================================
