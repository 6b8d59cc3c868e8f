------------------------------ MODULE Features ------------------------------
(***************************************************************************)
(* The features of a transaction, computed twice: online, from the rows    *)
(* that the history query returns (features.py), and offline, over the     *)
(* whole data set at once (training/data.py).  Rows are the indices of an  *)
(* archive, a sequence of transactions in the order of their commits.      *)
(*                                                                         *)
(* Times, windows and places are small integers; a place is a point on a   *)
(* line, or NoPlace.  Hour, weekday, country, IP and the sums and distinct *)
(* counts over the same windows are left out: they are read off the same   *)
(* rows in the same way.                                                   *)
(***************************************************************************)
EXTENDS Integers, Sequences, FiniteSets, FiniteSetsExt

CONSTANTS
  OneMinute, FiveMinutes, OneHour, OneDay,  \* the velocity windows
  HistoryDays,                              \* how far the history query looks back
  TravelLimit,                              \* distance per unit of time
  NoPlace                                   \* no coordinates

ASSUME WindowsAssumption ==
  /\ HistoryDays \in Nat
  /\ \A w \in {OneMinute, FiveMinutes, OneHour, OneDay} : w \in 0 .. HistoryDays

Windows == {OneMinute, FiveMinutes, OneHour, OneDay}

Abs(n) == IF n < 0 THEN -n ELSE n

SameUser(a, i) == {j \in DOMAIN a : a[j].user = a[i].user /\ j # i}

\* A mean is a sum and a count; a median, the two values in the middle.
Mean(a, rows) == <<SumFunction([j \in rows |-> a[j].amount]), Cardinality(rows)>>

Median(a, rows) ==
  LET amounts == {a[j].amount : j \in rows}
      UpTo(v) == 2 * Cardinality({j \in rows : a[j].amount <= v})
      n == Cardinality(rows)
  IN  <<Min({v \in amounts : UpTo(v) >= n}), Min({v \in amounts : UpTo(v) > n})>>

-----------------------------------------------------------------------------
(* Online                                                                  *)

\* Mutant of History: the query forgets the upper bound.
HistoryWithFuture(a, i) ==
  {j \in SameUser(a, i) : a[j].time >= a[i].time - HistoryDays}

\* The history query, and the filter calculate_features applies to it again.
History(a, i) ==
  {j \in SameUser(a, i) : a[j].time >= a[i].time - HistoryDays /\ a[j].time < a[i].time}

\* Mutant of Recent: the window is open on its left.
RecentOpen(a, i, prior, window) == {j \in prior : a[j].time > a[i].time - window}

Recent(a, i, prior, window) == {j \in prior : a[j].time >= a[i].time - window}

\* Rows of one time come in any order, so each of the latest can be prior[-1].
Latest(a, prior) == {j \in prior : \A k \in prior : a[k].time <= a[j].time}

ImpossibleTravel(a, i, last) ==
  /\ a[i].place # NoPlace /\ a[last].place # NoPlace
  /\ Abs(a[i].place - a[last].place) > TravelLimit * (a[i].time - a[last].time)

\* last: {} without history, or one of its latest rows.
Online(a, i, last) ==
  LET prior  == History(a, i)
      amount == a[i].amount
  IN  [amount      |-> amount,
       mean        |-> IF prior = {} THEN <<amount, 1>> ELSE Mean(a, prior),
       median      |-> IF prior = {} THEN <<amount, amount>> ELSE Median(a, prior),
       velocity    |-> [w \in Windows |-> Cardinality(Recent(a, i, prior, w))],
       newMerchant |-> prior # {} /\ \A j \in prior : a[j].merchant # a[i].merchant,
       newDevice   |-> prior # {} /\ \A j \in prior : a[j].device # a[i].device,
       impossibleTravel |-> \E j \in last : ImpossibleTravel(a, i, j)]

-----------------------------------------------------------------------------
(* Offline                                                                 *)

\* The rows before i in the data set sorted by user and time: ties are sorted
\* as the library likes.
Precedings(a, i) ==
  {{j \in SameUser(a, i) : a[j].time < a[i].time} \cup ties :
     ties \in SUBSET {j \in SameUser(a, i) : a[j].time = a[i].time}}

\* The columns that models are trained on, from the rows before i: expanding
\* aggregates shifted by one, duplicates, and rolling windows closed on the left.
Offline(a, i, before) ==
  LET amount == a[i].amount
  IN  [amount      |-> amount,
       mean        |-> IF before = {} THEN <<amount, 1>> ELSE Mean(a, before),
       median      |-> IF before = {} THEN <<amount, amount>> ELSE Median(a, before),
       velocity    |-> [w \in Windows \ {OneMinute} |->
                          Cardinality({j \in before : a[j].time >= a[i].time - w})],
       newMerchant |-> before # {} /\ \A j \in before : a[j].merchant # a[i].merchant]
=============================================================================
