---------------------------- MODULE ExplainerLoop ----------------------------
(***************************************************************************)
(* The explainer's consumer loop: it reads fraud_alerts.v1, fills in the   *)
(* explanation of the alert a message names, commits the database and then *)
(* the offset.  A failed attempt is logged and its offset left alone, but  *)
(* the loop goes on: the next message's commit covers it.                  *)
(*                                                                         *)
(* AlertCase shows what the write does to the alert's row; here it is one  *)
(* step.  Faults counts what goes wrong, and the stops; MaxFaults bounds   *)
(* it, MaxMessages bounds the topic.                                       *)
(***************************************************************************)
EXTENDS Integers, Sequences

CONSTANTS
  Alerts,       \* transactions with an alert
  Unknown,      \* other keys: no alert, or no transaction, of that id
  Undecodable,  \* keys that are not UTF-8
  Keyless,      \* the key of a message without one
  NoOffset,     \* no message is being processed
  MaxMessages, MaxFaults

Keys == Alerts \cup Unknown \cup Undecodable \cup {Keyless}

ASSUME LoopAssumption ==
  /\ Alerts \cap (Unknown \cup Undecodable) = {}
  /\ Unknown \cap Undecodable = {}
  /\ Keyless \notin Alerts \cup Unknown \cup Undecodable
  /\ NoOffset \notin Nat
  /\ MaxMessages \in Nat /\ MaxFaults \in Nat

VARIABLES
  log,        \* fraud_alerts.v1: the keys of its messages
  committed,  \* committed offset of the group fraud-explainers-v1
  explained,  \* alerts with an explanation
  up,         \* the process runs
  pc,         \* next statement
  position,   \* next offset to fetch
  current,    \* offset of the message being processed
  failed,     \* messages an attempt at which has failed
  faults      \* faults and stops so far

loop == <<pc, position, current>>
vars == <<log, committed, explained, up, loop, failed, faults>>

TypeOK ==
  /\ log \in Seq(Keys) /\ Len(log) <= MaxMessages
  /\ committed \in Nat /\ position \in Nat
  /\ committed <= position /\ position <= Len(log)
  /\ explained \subseteq Alerts
  /\ up \in BOOLEAN
  /\ pc \in {"poll", "explain", "commit", "exit"}
  /\ current \in 0 .. position - 1 \cup {NoOffset}
  /\ pc = "poll" <=> current = NoOffset
  /\ failed \subseteq 1 .. Len(log)
  /\ faults \in 0 .. MaxFaults

Init ==
  /\ log = <<>> /\ committed = 0 /\ explained = {}
  /\ up = TRUE
  /\ pc = "poll" /\ position = 0 /\ current = NoOffset
  /\ failed = {} /\ faults = 0

Fault == faults < MaxFaults /\ faults' = faults + 1

\* The outbox relay announces every alert, some of them more than once.
Announce(k) ==
  /\ Len(log) < MaxMessages
  /\ log' = Append(log, k)
  /\ UNCHANGED <<committed, explained, up, loop, failed, faults>>

-----------------------------------------------------------------------------
(* The loop                                                                *)

Key == log[current + 1]

\* Where a key takes the loop: a message without one is only committed; one
\* that cannot be decoded raises outside the try, and the loop is left.
Target(k) == CASE k = Keyless -> "commit" [] k \in Undecodable -> "exit" [] OTHER -> "explain"

\* Mutant of Poll: the offset is committed as the message is fetched.
PollAutoCommit ==
  /\ up /\ pc = "poll" /\ position < Len(log)
  /\ current' = position /\ position' = position + 1
  /\ committed' = position'
  /\ pc' = Target(log[position'])
  /\ UNCHANGED <<log, explained, up, failed, faults>>

\* A poll that returns nothing, or an error, changes nothing.
Poll ==
  /\ up /\ pc = "poll" /\ position < Len(log)
  /\ current' = position /\ position' = position + 1
  /\ pc' = Target(log[position'])
  /\ UNCHANGED <<log, committed, explained, up, failed, faults>>

NextMessage == pc' = "poll" /\ current' = NoOffset

\* Rows read, factors computed, the session committed.
Explain ==
  /\ up /\ pc = "explain" /\ Key \in Alerts
  /\ explained' = explained \cup {Key}
  /\ pc' = "commit"
  /\ UNCHANGED <<log, committed, up, position, current, failed, faults>>

\* LookupError, or anything else that raises before the session is committed.
AttemptFails ==
  /\ up /\ pc = "explain"
  /\ (Key \in Unknown /\ UNCHANGED faults) \/ Fault
  /\ failed' = failed \cup {current + 1}
  /\ NextMessage
  /\ UNCHANGED <<log, committed, explained, up, position>>

\* Mutant of CommitOffset: one offset too far.
CommitOffsetTooFar ==
  /\ up /\ pc = "commit"
  /\ committed' = current + 2
  /\ NextMessage
  /\ UNCHANGED <<log, explained, up, position, failed, faults>>

CommitOffset ==
  /\ up /\ pc = "commit"
  /\ committed' = current + 1
  /\ NextMessage
  /\ UNCHANGED <<log, explained, up, position, failed, faults>>

\* The commit raises, whether or not the broker has stored it.  The explanation
\* is in the database by then, and the loop goes on; around the commit of a
\* message without a key there is no try.
CommitOffsetFails ==
  /\ up /\ pc = "commit"
  /\ Fault
  /\ committed' \in {committed, current + 1}
  /\ IF Key = Keyless THEN pc' = "exit" /\ UNCHANGED current ELSE NextMessage
  /\ UNCHANGED <<log, explained, up, position, failed>>

-----------------------------------------------------------------------------
(* The process                                                             *)

\* Mutant of Down: without a committed offset the group starts at the end.
DownToLatest ==
  /\ up' = FALSE
  /\ NextMessage
  /\ position' = IF committed = 0 THEN Len(log) ELSE committed
  /\ UNCHANGED <<log, committed, explained, failed>>

\* The position in the topic is gone with the process.
Down ==
  /\ up' = FALSE
  /\ NextMessage
  /\ position' = committed
  /\ UNCHANGED <<log, committed, explained, failed>>

Crash == up /\ Fault /\ Down

\* SIGTERM: the message in hand is finished first.
Stop == up /\ pc = "poll" /\ Fault /\ Down

\* An exception has left the loop.
Exit == up /\ pc = "exit" /\ Down /\ UNCHANGED faults

Restart ==
  /\ ~up
  /\ up' = TRUE
  /\ UNCHANGED <<log, committed, explained, loop, failed, faults>>

-----------------------------------------------------------------------------
Loop == Poll \/ Explain \/ AttemptFails \/ CommitOffset \/ CommitOffsetFails \/ Exit

Next == (\E k \in Keys : Announce(k)) \/ Loop \/ Crash \/ Stop \/ Restart

Spec == Init /\ [][Next]_vars

\* A running loop goes on, and an explainer that is down is started again: by
\* docker-compose (unless-stopped), or by the operator who has stopped it.
FairSpec == Spec /\ WF_vars(Loop) /\ WF_vars(Restart)

-----------------------------------------------------------------------------
(* Properties                                                              *)

\* Manual offset commits: whatever is behind the committed offset had no key,
\* has its explanation, or was tried and failed.  Nothing is passed over
\* unread, wherever the process died.
CommittedIsTried ==
  \A o \in 1 .. committed : log[o] \in explained \cup {Keyless} \/ o \in failed

\* GET /predictions/{id}/explanation.
Answer(k) == IF k \in explained THEN "complete" ELSE "pending"

\* The message at offset o announces an alert without an explanation, was never
\* tried without success, and has no undecodable key before it.
Waiting(o) ==
  /\ o \in DOMAIN log /\ log[o] \in Alerts
  /\ Answer(log[o]) = "pending" /\ o \notin failed
  /\ \A p \in 1 .. o : log[p] \notin Undecodable

\* README.md:72, "asynchronous SHAP explanations for alerts": an announced alert
\* does not stay pending through any crash, stop or failed offset commit; only
\* a failed attempt, or an undecodable key before it, can leave it so.
AlertIsExplained == \A o \in 1 .. MaxMessages : []<>~Waiting(o)
=============================================================================
