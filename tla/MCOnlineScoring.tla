--------------------------- MODULE MCOnlineScoring ---------------------------
(***************************************************************************)
(* OnlineScoring on small instances.  One user buys at home or elsewhere,  *)
(* cheaply or dearly, at times up to seven apart; another one is there to  *)
(* be kept apart.                                                          *)
(***************************************************************************)
EXTENDS OnlineScoring, TLC

Purchase(user, merchant, device, place, amount, times) ==
  [user : {user}, merchant : {merchant}, device : {device}, place : {place},
   amount : {amount}, time : times]

MCEvents ==
  Purchase("alice", "grocer", "phone", 0, 1, 0 .. 6)
    \cup Purchase("alice", "jeweller", "phone", NoPlace, 9, 0 .. 6)
    \cup Purchase("alice", "grocer", "other", 10, 2, {1, 4, 6})
    \cup Purchase("bob", "grocer", "phone", 0, 1, {2})

MCSymmetry == Permutations(Sessions)
=============================================================================
