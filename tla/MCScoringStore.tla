--------------------------- MODULE MCScoringStore ---------------------------
(***************************************************************************)
(* ScoringStore on small instances.  T1 and T2 are two events of one user, *)
(* a day apart; T3 is another user's.  All three meet at one merchant, and *)
(* T2 carries another category than the others, so that every kind of      *)
(* flush (insert, update, none) and every conflict occurs.                 *)
(***************************************************************************)
EXTENDS ScoringStore, TLC

CONSTANTS T1, T2, T3

MCUserOf     == (T1 :> "alice") @@ (T2 :> "alice") @@ (T3 :> "bob")
MCMerchantOf == [t \in Txns |-> "shop"]
MCCategoryOf == [t \in Txns |-> IF t = T2 THEN "travel" ELSE "grocery"]
MCTimeOf     == (T1 :> 0) @@ (T2 :> 1) @@ (T3 :> 1)

\* One decision of each kind: T3 goes to review, T2 is blocked when T1 is in
\* its history (a burst), everything else is approved.
MCDecide ==
  [th \in Txns \X SUBSET Txns |->
     CASE th[1] = T3 -> "MANUAL_REVIEW"
       [] th[2] # {} -> "BLOCK"
       [] OTHER -> "APPROVE"]
=============================================================================
