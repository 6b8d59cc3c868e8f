--------------------------- MODULE ScoringLedger ---------------------------
(***************************************************************************)
(* What scoring promises, with no sessions, locks or tables: a transaction *)
(* is entered in the ledger at most once, in one step and with all it      *)
(* entails, its decision computed from strictly prior entries that were    *)
(* already there; an entry never changes.                                  *)
(***************************************************************************)
EXTENDS ScoringContract

VARIABLE ledger

Entered == {t \in Txns : ledger[t] # NoRow}

EntryOf(t, history) ==
  LET d == Decide[<<t, history>>]
  IN  [prediction |-> PredictionOf(t, history),
       alerts     |-> AlertCount(d),
       events     |-> [e \in Topics |-> EventCount(d, e)]]

LedgerInit == ledger = [t \in Txns |-> NoRow]

Enter(t) ==
  /\ ledger[t] = NoRow
  /\ \E history \in SUBSET Entered :
       /\ \A x \in history : Prior(x, t)
       /\ ledger' = [ledger EXCEPT ![t] = EntryOf(t, history)]

LedgerNext == \E t \in Txns : Enter(t)

LedgerSpec == LedgerInit /\ [][LedgerNext]_ledger
=============================================================================
