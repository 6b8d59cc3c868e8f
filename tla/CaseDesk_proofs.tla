-------------------------- MODULE CaseDesk_proofs --------------------------
(***************************************************************************)
(* Theorems about CaseDesk, for any number of sessions, transactions and   *)
(* verdicts and any size of the page: no verdict lands on another          *)
(* transaction, and no page goes back on what its session has seen.        *)
(***************************************************************************)
EXTENDS CaseDesk, TLAPS

Calls == [key : CacheKeys, answer : Seq(Txns) \cup Cases, live : BOOLEAN]

Shape ==
  /\ cache \in [CacheKeys -> Seq(Txns) \cup Cases \cup {None}]
  /\ fetch \in [Analysts -> Calls \cup {None}]

TypeInv == TypeOK /\ Shape

-----------------------------------------------------------------------------
(* Types                                                                   *)

\* What the API answers.
LEMMA AnswerTypes ==
  ASSUME TypeInv, NEW key \in CacheKeys
  PROVE  /\ key = "feed" => AnswerTo(key) \in Seq(Txns)
         /\ key # "feed" => key \in Txns /\ AnswerTo(key) = case[key] /\ AnswerTo(key) \in Cases
<1>1. CASE key = "feed"
  <2>1. order \in Seq(Txns) /\ Len(order) \in Nat /\ PageSize \in Nat
    BY DeskAssumption DEF DeskAssumption, TypeInv, TypeOK
  <2>2. SubSeq(order, 1, IF Len(order) < PageSize THEN Len(order) ELSE PageSize) \in Seq(Txns)
    BY <2>1
  <2> QED
    BY <1>1, <2>2 DEF AnswerTo, Page
<1>2. CASE key # "feed"
  BY <1>2 DEF AnswerTo, CacheKeys, TypeInv, TypeOK
<1> QED
  BY <1>1, <1>2

\* What a session gets is what the API once answered, and comes from the cache or
\* from its call.
LEMMA GotTypes ==
  ASSUME TypeInv, NEW s \in Analysts, NEW key \in CacheKeys, NEW answer, Got(s, key, answer)
  PROVE  /\ key = "feed" => answer \in Seq(Txns)
         /\ key # "feed" => key \in Txns /\ answer \in Cases
         /\ fetch'[s] = None
         /\ \A r \in Analysts : r # s => fetch'[r] = fetch[r]
         /\ fetch' \in [Analysts -> Calls \cup {None}]
         /\ cache' \in [CacheKeys -> Seq(Txns) \cup Cases \cup {None}]
         /\ \A k \in CacheKeys : cache'[k] = cache[k] \/ (k = key /\ cache'[k] = answer /\ fetch[s] # None /\ fetch[s].live)
<1>1. /\ cache \in [CacheKeys -> Seq(Txns) \cup Cases \cup {None}]
      /\ fetch \in [Analysts -> Calls \cup {None}]
      /\ cache["feed"] \in {None} \cup Seq(Txns)
      /\ \A t \in Txns : cache[t] \in Cases \cup {None}
      /\ fetch[s] # None =>
           fetch[s].answer \in IF fetch[s].key = "feed" THEN Seq(Txns) ELSE Cases
  BY DEF TypeInv, TypeOK, Shape
<1>2. key # "feed" => key \in Txns
  BY DEF CacheKeys
<1>3. CASE fetch[s] = None /\ Hit(key, answer) /\ UNCHANGED <<cache, fetch>>
  BY <1>1, <1>2, <1>3 DEF Hit
<1>4. CASE /\ Returned(s, key, answer)
           /\ fetch' = [fetch EXCEPT ![s] = None]
           /\ cache' = IF fetch[s].live THEN [cache EXCEPT ![key] = answer] ELSE cache
  <2>1. /\ key = "feed" => answer \in Seq(Txns)
        /\ key # "feed" => answer \in Cases
        /\ fetch[s] # None
    BY <1>1, <1>4 DEF Returned
  <2>2. answer \in Seq(Txns) \cup Cases \cup {None}
    BY <2>1
  <2>3. CASE fetch[s].live
    BY <1>1, <1>2, <1>4, <2>1, <2>2, <2>3
  <2>4. CASE ~fetch[s].live
    BY <1>1, <1>2, <1>4, <2>1, <2>4
  <2> QED
    BY <2>3, <2>4
<1> QED
  BY <1>3, <1>4 DEF Got

\* A case goes from one status to the next, or stays.
LEMMA UpdateTypes ==
  ASSUME TypeInv, NEW t \in Txns, NEW verdict \in Verdicts, Update(t, verdict)
  PROVE  /\ case' \in [Txns -> Cases] /\ label' \in [Txns -> Resolutions \cup {None}]
         /\ order' = order
         /\ \A u \in Txns : u # t => case'[u] = case[u] /\ label'[u] = label[u]
         /\ label'[t] = case'[t].resolution
         /\ case'[t].resolution \in {case[t].resolution, verdict} \ {"IN_REVIEW"}
         /\ verdict = "IN_REVIEW" => case'[t].resolution = case[t].resolution
         /\ \A u \in Txns : Progress(case[u]) <= Progress(case'[u])
         /\ Progress(case'[t]) \in 0 .. 2
<1>1. /\ case \in [Txns -> Cases] /\ label \in [Txns -> Resolutions \cup {None}]
      /\ case' = [case EXCEPT ![t] = Applied(@, verdict)]
      /\ label' = [label EXCEPT ![t] = case'[t].resolution] /\ order' = order
  BY DEF TypeInv, TypeOK, Update
<1>2. /\ case[t] \in Cases /\ case[t].status \in Statuses
      /\ case[t].resolution \in Resolutions \cup {None}
  BY <1>1 DEF Cases
<1>3. "IN_REVIEW" \notin Resolutions \cup {None}
  BY DeskAssumption DEF DeskAssumption, Resolutions, Verdicts
<1>4. /\ Applied(case[t], verdict) \in Cases
      /\ Applied(case[t], verdict).resolution \in Resolutions \cup {None}
      /\ Applied(case[t], verdict).resolution \in {case[t].resolution, verdict}
      /\ verdict = "IN_REVIEW" => Applied(case[t], verdict).resolution = case[t].resolution
      /\ Progress(case[t]) <= Progress(Applied(case[t], verdict))
      /\ Progress(Applied(case[t], verdict)) \in 0 .. 2
  <2>1. CASE case[t].status = "RESOLVED"
    <3>1. Applied(case[t], verdict) = case[t]
      BY <2>1 DEF Applied
    <3>2. Progress(case[t]) \in 0 .. 2
      BY DEF Progress
    <3> QED
      BY <1>2, <3>1, <3>2
  <2>2. CASE case[t].status # "RESOLVED" /\ verdict = "IN_REVIEW"
    <3>1. Applied(case[t], verdict) = [status |-> "IN_REVIEW", resolution |-> case[t].resolution]
      BY <1>2, <2>2 DEF Applied, Cases
    <3> QED
      BY <1>2, <2>2, <3>1 DEF Progress, Cases, Statuses
  <2>3. CASE case[t].status # "RESOLVED" /\ verdict # "IN_REVIEW"
    <3>1. Applied(case[t], verdict) = [status |-> "RESOLVED", resolution |-> verdict]
      BY <2>3 DEF Applied
    <3> QED
      BY <1>2, <2>3, <3>1 DEF Progress, Cases, Statuses, Verdicts
  <2> QED
    BY <2>1, <2>2, <2>3
<1>5. /\ case'[t] = Applied(case[t], verdict)
      /\ \A u \in Txns : u # t => case'[u] = case[u]
      /\ case' \in [Txns -> Cases]
  BY <1>1, <1>4
<1>6. \A u \in Txns : Progress(case[u]) <= Progress(case'[u])
  <2>1. \A u \in Txns : Progress(case[u]) \in 0 .. 2
    BY DEF Progress
  <2> QED
    BY <1>4, <1>5, <2>1
<1> QED
  BY <1>1, <1>3, <1>4, <1>5, <1>6

\* The other clients of the API, the clock, and the API's answers.
LEMMA OutsideTypes ==
  ASSUME TypeInv,
         \/ \E t \in Txns : Arrive(t)
         \/ \E t \in Txns, verdict \in Resolutions : ResolveElsewhere(t, verdict)
         \/ \E key \in CacheKeys : Expire(key)
         \/ UNCHANGED vars
  PROVE  TypeInv'
<1>1. CASE \E t \in Txns : Arrive(t)
  <2>1. PICK t \in Txns, i \in 1 .. Len(order) + 1 :
          /\ order' = InsertAt(order, i, t)
          /\ UNCHANGED <<case, label, cache, fetch, session, history>>
    BY <1>1 DEF Arrive
  <2>2. order' \in Seq(Txns)
    <3>1. order \in Seq(Txns) /\ Len(order) \in Nat
      BY DEF TypeInv, TypeOK
    <3>2. SubSeq(order, 1, i - 1) \in Seq(Txns) /\ SubSeq(order, i, Len(order)) \in Seq(Txns)
      BY <3>1
    <3> QED
      BY <2>1, <3>2 DEF InsertAt
  <2> QED
    BY <2>1, <2>2 DEF TypeInv, TypeOK, Shape, session, history
<1>2. CASE \E t \in Txns, verdict \in Resolutions : ResolveElsewhere(t, verdict)
  <2>1. PICK t \in Txns, verdict \in Resolutions : ResolveElsewhere(t, verdict)
    BY <1>2
  <2>2. /\ case' \in [Txns -> Cases] /\ label' \in [Txns -> Resolutions \cup {None}]
        /\ order' = order
    BY <2>1, UpdateTypes DEF ResolveElsewhere, Verdicts
  <2>3. verdicts' \in 0 .. MaxVerdicts
    BY <2>1, DeskAssumption DEF DeskAssumption, ResolveElsewhere, TypeInv, TypeOK
  <2>4. given' \subseteq Txns \X Resolutions
    BY <2>1 DEF ResolveElsewhere, TypeInv, TypeOK
  <2> QED
    BY <2>1, <2>2, <2>3, <2>4 DEF ResolveElsewhere, TypeInv, TypeOK, Shape, session
<1>3. CASE \E key \in CacheKeys : Expire(key)
  <2>1. PICK key \in CacheKeys : Expire(key)
    BY <1>3
  <2>2. /\ \A k \in CacheKeys : cache'[k] \in {cache[k], None}
        /\ cache' \in [CacheKeys -> Seq(Txns) \cup Cases \cup {None}]
    BY <2>1 DEF Expire, TypeInv, Shape
  <2> QED
    BY <2>1, <2>2 DEF Expire, TypeInv, TypeOK, Shape, database, session, history, CacheKeys
<1>4. CASE UNCHANGED vars
  BY <1>4 DEF vars, database, session, history, TypeInv, TypeOK, Shape
<1> QED
  BY <1>1, <1>2, <1>3, <1>4

\* The analyst.
LEMMA AnalystTypes == ASSUME TypeInv, NEW s \in Analysts, Analyst(s) PROVE TypeInv'
<1>1. CASE \E i \in 0 .. PageSize : SelectRow(s, i)
  <2>1. PICK i \in 0 .. PageSize : SelectRow(s, i)
    BY <1>1
  <2>2. /\ pc' = [pc EXCEPT ![s] = "feed"] /\ row' = [row EXCEPT ![s] = i]
        /\ click' = [click EXCEPT ![s] = None]
        /\ UNCHANGED <<database, cache, fetch, stored, screen, history>>
    BY <2>1 DEF SelectRow, Run
  <2> QED
    BY <2>2 DEF TypeInv, TypeOK, Shape, database, history
<1>2. CASE \E verdict \in Verdicts : Press(s, verdict)
  <2>1. PICK verdict \in Verdicts : Press(s, verdict)
    BY <1>2
  <2>2. /\ pc' = [pc EXCEPT ![s] = "feed"]
        /\ click' = [click EXCEPT ![s] = [txn |-> screen[s].txn, verdict |-> verdict]]
        /\ screen[s].txn \in Txns
        /\ given' = IF verdict = "IN_REVIEW" THEN given
                    ELSE given \cup {<<screen[s].txn, verdict>>}
        /\ verdicts < MaxVerdicts /\ verdicts' = verdicts + 1
        /\ UNCHANGED <<database, cache, fetch, row, stored, screen, known>>
    BY <2>1 DEF Press, Run, TypeInv, TypeOK
  <2>3. verdicts' \in 0 .. MaxVerdicts
    BY <2>2, DeskAssumption DEF DeskAssumption, TypeInv, TypeOK
  <2>4. given' \subseteq Txns \X Resolutions
    BY <2>2 DEF TypeInv, TypeOK, Verdicts
  <2>5. click' \in [Analysts -> [txn : Txns, verdict : Verdicts] \cup {None}]
    BY <2>2 DEF TypeInv, TypeOK
  <2> QED
    BY <2>2, <2>3, <2>4, <2>5 DEF TypeInv, TypeOK, Shape, database
<1> QED
  BY <1>1, <1>2 DEF Analyst

\* Members of a page are transactions, and so is what a script works on.
LEMMA PageTypes ==
  ASSUME NEW page \in Seq(Txns)
  PROVE  \A t \in Range(page) : t \in Txns
BY DEF Range

LEMMA StoredTypes ==
  ASSUME TypeInv, NEW s \in Analysts, pc[s] \in {"detail", "patch"}
  PROVE  stored[s] \in Txns /\ stored[s] \in CacheKeys /\ stored[s] # "feed"
<1>1. screen[s].page \in Seq(Txns) /\ stored[s] \in Range(screen[s].page)
  BY DEF TypeInv, TypeOK
<1> QED
  BY <1>1, PageTypes, DeskAssumption DEF DeskAssumption, CacheKeys

\* A call goes out.
LEMMA CallTypes ==
  ASSUME TypeInv, NEW s \in Analysts, NEW key \in CacheKeys, Call(s, key)
  PROVE  TypeInv' /\ fetch' = [fetch EXCEPT ![s] = [key |-> key, answer |-> AnswerTo(key), live |-> TRUE]]
                  /\ fetch'[s] = [key |-> key, answer |-> AnswerTo(key), live |-> TRUE]
<1>1. /\ fetch' = [fetch EXCEPT ![s] = [key |-> key, answer |-> AnswerTo(key), live |-> TRUE]]
      /\ UNCHANGED <<database, cache, session, history>>
  BY DEF Call
<1>2. /\ fetch'[s] = [key |-> key, answer |-> AnswerTo(key), live |-> TRUE]
      /\ \A r \in Analysts : r # s => fetch'[r] = fetch[r]
  BY <1>1 DEF TypeInv, Shape
<1>3. fetch' \in [Analysts -> Calls \cup {None}]
  BY <1>1, AnswerTypes DEF TypeInv, Shape, Calls
<1>4. ASSUME NEW r \in Analysts, fetch'[r] # None
      PROVE  /\ fetch'[r].key \in CacheKeys /\ fetch'[r].live \in BOOLEAN
             /\ fetch'[r].answer \in IF fetch'[r].key = "feed" THEN Seq(Txns) ELSE Cases
  <2>1. CASE r = s
    <3>1. fetch'[r].key = key /\ fetch'[r].answer = AnswerTo(key) /\ fetch'[r].live = TRUE
      BY <1>2, <2>1
    <3>2. AnswerTo(key) \in IF key = "feed" THEN Seq(Txns) ELSE Cases
      BY AnswerTypes
    <3>3. fetch'[r].live \in BOOLEAN
      BY <3>1
    <3> QED
      BY <3>1, <3>2, <3>3
  <2>2. CASE r # s
    BY <1>2, <1>4, <2>2 DEF TypeInv, TypeOK
  <2> QED
    BY <2>1, <2>2
<1> QED
  BY <1>1, <1>2, <1>3, <1>4 DEF TypeInv, TypeOK, Shape, database, session, history

\* The script gets what it wants, and goes on.
LEMMA GetTypes == ASSUME TypeInv, NEW s \in Analysts, Feed(s) \/ Detail(s) PROVE TypeInv'
<1>1. PICK key \in CacheKeys : \E answer : Got(s, key, answer)
  BY StoredTypes DEF Feed, Detail, CacheKeys
<1>2. /\ fetch' \in [Analysts -> Calls \cup {None}]
      /\ cache' \in [CacheKeys -> Seq(Txns) \cup Cases \cup {None}]
      /\ \A r \in Analysts : fetch'[r] # None => fetch'[r] = fetch[r]
      /\ \A t \in Txns : cache'[t] \in Cases \cup {None}
      /\ cache'["feed"] \in {None} \cup Seq(Txns)
  <2>1. PICK answer : Got(s, key, answer)
    BY <1>1
  <2>2. /\ key = "feed" => answer \in Seq(Txns)
        /\ key # "feed" => answer \in Cases
        /\ \A k \in CacheKeys : cache'[k] = cache[k] \/ (k = key /\ cache'[k] = answer)
    BY <2>1, GotTypes
  <2>3. /\ \A t \in Txns : t \in CacheKeys /\ t # "feed" /\ cache[t] \in Cases \cup {None}
        /\ "feed" \in CacheKeys /\ cache["feed"] \in {None} \cup Seq(Txns)
    BY DeskAssumption DEF DeskAssumption, CacheKeys, TypeInv, TypeOK
  <2>4. /\ \A t \in Txns : cache'[t] \in Cases \cup {None}
        /\ cache'["feed"] \in {None} \cup Seq(Txns)
    BY <2>2, <2>3
  <2> QED
    BY <2>1, <2>4, GotTypes
<1>3. UNCHANGED <<order, case, label, given, verdicts>>
  BY DEF Feed, Detail, database, history
<1>4. CASE Feed(s)
  <2>1. PICK page \in Answers(s, "feed"), i \in {row[s], 0} :
          LET t == IF i \in DOMAIN page THEN page[i] ELSE stored[s]
          IN  /\ Got(s, "feed", page)
              /\ row' = [row EXCEPT ![s] = i]
              /\ IF Visible(page, t)
                 THEN /\ stored' = [stored EXCEPT ![s] = t]
                      /\ screen' = [screen EXCEPT ![s].page = page]
                      /\ pc' = [pc EXCEPT ![s] = "detail"]
                      /\ UNCHANGED click
                 ELSE /\ stored' = [stored EXCEPT ![s] = None]
                      /\ screen' = [screen EXCEPT ![s] = [Blank EXCEPT !.page = page]]
                      /\ pc' = [pc EXCEPT ![s] = "shown"]
                      /\ click' = [click EXCEPT ![s] = None]
    BY <1>4 DEF Feed
  <2> DEFINE t == IF i \in DOMAIN page THEN page[i] ELSE stored[s]
  <2>2. page \in Seq(Txns) /\ UNCHANGED known
    BY <1>4, <2>1, GotTypes DEF CacheKeys, Feed, history
  <2>3. row' \in [Analysts -> 0 .. PageSize]
    BY <2>1, DeskAssumption DEF DeskAssumption, TypeInv, TypeOK
  <2>4. CASE Visible(page, t)
    <3>1. t \in Txns /\ t \in Range(page)
      BY <2>2, <2>4, PageTypes DEF Visible
    <3>2. /\ stored' = [stored EXCEPT ![s] = t]
          /\ screen' = [screen EXCEPT ![s].page = page]
          /\ pc' = [pc EXCEPT ![s] = "detail"]
          /\ UNCHANGED click
      BY <2>1, <2>4
    <3> HIDE DEF t
    <3>3. /\ screen' \in [Analysts -> [page : Seq(Txns), txn : Txns \cup {None}, case : Cases \cup {None}]]
          /\ screen'[s].page = page /\ \A r \in Analysts : r # s => screen'[r] = screen[r]
      BY <2>2, <3>2 DEF TypeInv, TypeOK
    <3> QED
      BY <1>2, <1>3, <2>2, <2>3, <3>1, <3>2, <3>3 DEF TypeInv, TypeOK, Shape
  <2>5. CASE ~Visible(page, t)
    <3>1. /\ stored' = [stored EXCEPT ![s] = None]
          /\ screen' = [screen EXCEPT ![s] = [page |-> page, txn |-> None, case |-> None]]
          /\ pc' = [pc EXCEPT ![s] = "shown"]
          /\ click' = [click EXCEPT ![s] = None]
      BY <2>1, <2>5 DEF Blank
    <3>2. screen' \in [Analysts -> [page : Seq(Txns), txn : Txns \cup {None}, case : Cases \cup {None}]]
      BY <2>2, <3>1 DEF TypeInv, TypeOK
    <3> QED
      BY <1>2, <1>3, <2>2, <2>3, <3>1, <3>2 DEF TypeInv, TypeOK, Shape
  <2> QED
    BY <2>4, <2>5
<1>5. CASE Detail(s)
  <2>1. PICK c : /\ Got(s, stored[s], c)
                 /\ screen' = [screen EXCEPT ![s].txn = stored[s], ![s].case = c]
                 /\ known' = [known EXCEPT ![s][stored[s]] = IF @ < Progress(c) THEN Progress(c) ELSE @]
                 /\ \/ pc' = [pc EXCEPT ![s] = "patch"] /\ UNCHANGED click
                    \/ pc' = [pc EXCEPT ![s] = "shown"] /\ click' = [click EXCEPT ![s] = None]
    BY <1>5 DEF Detail
  <2>2. /\ stored[s] \in Txns /\ c \in Cases /\ Progress(c) \in 0 .. 2
        /\ pc[s] = "detail" /\ UNCHANGED <<row, stored>>
    BY <1>5, <2>1, StoredTypes, GotTypes DEF Detail, Progress
  <2>3. known' \in [Analysts -> [Txns -> 0 .. 2]]
    BY <2>1, <2>2 DEF TypeInv, TypeOK
  <2>4. /\ screen' \in [Analysts -> [page : Seq(Txns), txn : Txns \cup {None}, case : Cases \cup {None}]]
        /\ \A r \in Analysts : screen'[r].page = screen[r].page
    <3>1. screen \in [Analysts -> [page : Seq(Txns), txn : Txns \cup {None}, case : Cases \cup {None}]]
      BY DEF TypeInv, TypeOK
    <3>2. screen'[s] = [page |-> screen[s].page, txn |-> stored[s], case |-> c]
      BY <2>1, <3>1
    <3>3. \A r \in Analysts : r # s => screen'[r] = screen[r]
      BY <2>1, <3>1
    <3>4. DOMAIN screen' = Analysts /\ screen' = [r \in Analysts |-> screen'[r]]
      BY <2>1, <3>1
    <3>5. \A r \in Analysts :
            screen'[r] \in [page : Seq(Txns), txn : Txns \cup {None}, case : Cases \cup {None}]
      BY <2>2, <3>1, <3>2, <3>3
    <3> QED
      BY <3>1, <3>2, <3>3, <3>4, <3>5
  <2> QED
    BY <1>2, <1>3, <2>1, <2>2, <2>3, <2>4 DEF TypeInv, TypeOK, Shape
<1> QED
  BY <1>4, <1>5

\* A session in front of its PATCH has a button that was pressed on the very case
\* the script has opened.
ClickInv == \A s \in Analysts : pc[s] = "patch" => click[s] # None /\ click[s].txn = stored[s]

\* The failures, and the PATCH with what follows it.
LEMMA PatchTypes ==
  ASSUME TypeInv, ClickInv, NEW s \in Analysts,
         CallFails(s) \/ Patch(s) \/ PatchRefused(s) \/ PatchLost(s) \/ Refresh(s)
  PROVE  TypeInv'
<1> USE DEF TypeInv
<1>1. CASE CallFails(s)
  <2> DEFINE page == IF pc[s] = "feed" THEN <<>> ELSE screen[s].page
  <2>1. /\ screen' = [screen EXCEPT ![s] = [page |-> page, txn |-> None, case |-> None]]
        /\ row' = [row EXCEPT ![s] = IF page = <<>> THEN 0 ELSE @]
        /\ fetch' = [fetch EXCEPT ![s] = None]
        /\ pc' = [pc EXCEPT ![s] = "shown"] /\ click' = [click EXCEPT ![s] = None]
        /\ UNCHANGED <<database, cache, stored, history>>
    <3>1. [Blank EXCEPT !.page = page] = [page |-> page, txn |-> None, case |-> None]
      BY DEF Blank
    <3> QED
      BY <1>1, <3>1 DEF CallFails, ScriptEnds
  <2>2. page \in Seq(Txns)
    BY DEF TypeOK
  <2> HIDE DEF page
  <2>3. screen' \in [Analysts -> [page : Seq(Txns), txn : Txns \cup {None}, case : Cases \cup {None}]]
    BY <2>1, <2>2 DEF TypeOK
  <2>4. row' \in [Analysts -> 0 .. PageSize]
    BY <2>1, DeskAssumption DEF DeskAssumption, TypeOK
  <2>5. \A r \in Analysts : r # s => screen'[r] = screen[r]
    BY <2>1 DEF TypeOK
  <2>6. \A r \in Analysts : fetch'[r] # None => fetch'[r] = fetch[r]
    BY <2>1 DEF Shape
  <2> QED
    BY <2>1, <2>3, <2>4, <2>5, <2>6 DEF TypeOK, Shape, database, history
<1>2. CASE Patch(s)
  <2>1. stored[s] \in Txns /\ click[s].verdict \in Verdicts
    BY <1>2, StoredTypes DEF Patch, ClickInv, TypeOK
  <2>2. /\ case' \in [Txns -> Cases] /\ label' \in [Txns -> Resolutions \cup {None}]
        /\ order' = order /\ Progress(case'[stored[s]]) \in 0 .. 2
    BY <1>2, <2>1, UpdateTypes DEF Patch
  <2>3. known' \in [Analysts -> [Txns -> 0 .. 2]]
    BY <1>2, <2>1, <2>2 DEF Patch, TypeOK
  <2>4. /\ pc' = [pc EXCEPT ![s] = "refresh"] /\ click' = [click EXCEPT ![s] = None]
        /\ UNCHANGED <<cache, fetch, row, stored, screen, given, verdicts>>
    BY <1>2 DEF Patch
  <2> QED
    BY <2>2, <2>3, <2>4 DEF TypeOK, Shape
<1>3. CASE PatchRefused(s)
  BY <1>3 DEF PatchRefused, ScriptEnds, TypeOK, Shape, database, history
<1>4. CASE PatchLost(s)
  <2>1. stored[s] \in Txns /\ click[s].verdict \in Verdicts
    BY <1>4, StoredTypes DEF PatchLost, ClickInv, TypeOK
  <2>2. /\ case' \in [Txns -> Cases] /\ label' \in [Txns -> Resolutions \cup {None}]
        /\ order' = order
    <3>1. CASE Update(stored[s], click[s].verdict)
      BY <2>1, <3>1, UpdateTypes
    <3>2. CASE UNCHANGED database
      BY <3>2 DEF database, TypeOK
    <3> QED
      BY <1>4, <3>1, <3>2 DEF PatchLost
  <2>3. /\ pc' = [pc EXCEPT ![s] = "shown"] /\ click' = [click EXCEPT ![s] = None]
        /\ UNCHANGED <<cache, fetch, row, stored, screen, history>>
    BY <1>4 DEF PatchLost, ScriptEnds
  <2> QED
    BY <2>2, <2>3 DEF TypeOK, Shape, history
<1>5. CASE Refresh(s)
  <2>1. /\ cache' = [key \in CacheKeys |-> None]
        /\ fetch' = [r \in Analysts |-> IF fetch[r] = None THEN None
                                        ELSE [fetch[r] EXCEPT !.live = FALSE]]
        /\ pc' = [pc EXCEPT ![s] = "feed"]
        /\ UNCHANGED <<database, row, stored, click, screen, history>>
    BY <1>5 DEF Refresh, Run
  <2>2. ASSUME NEW r \in Analysts
        PROVE  fetch'[r] = None \/ (/\ fetch[r] # None /\ fetch'[r] \in Calls
                                    /\ fetch'[r].key = fetch[r].key
                                    /\ fetch'[r].answer = fetch[r].answer)
    BY <2>1 DEF Shape, Calls
  <2>3. fetch' \in [Analysts -> Calls \cup {None}]
    BY <2>1, <2>2
  <2>4. /\ cache' \in [CacheKeys -> Seq(Txns) \cup Cases \cup {None}]
        /\ \A k \in CacheKeys : cache'[k] = None
    BY <2>1
  <2>5. \A r \in Analysts : fetch'[r] # None =>
          /\ fetch'[r].key \in CacheKeys /\ fetch'[r].live \in BOOLEAN
          /\ fetch'[r].answer \in IF fetch'[r].key = "feed" THEN Seq(Txns) ELSE Cases
    BY <2>2 DEF TypeOK, Calls
  <2> QED
    BY <2>1, <2>3, <2>4, <2>5 DEF TypeOK, Shape, database, history, CacheKeys
<1> QED
  BY <1>1, <1>2, <1>3, <1>4, <1>5

\* Every step keeps the types.
LEMMA TypeStep == ASSUME TypeInv, ClickInv, [Next]_vars PROVE TypeInv'
<1>1. ASSUME NEW s \in Analysts, CallFeed(s) \/ CallDetail(s) PROVE TypeInv'
  BY <1>1, CallTypes, StoredTypes DEF CallFeed, CallDetail, CacheKeys
<1> QED
  BY <1>1, OutsideTypes, AnalystTypes, GetTypes, PatchTypes DEF Next, Script

-----------------------------------------------------------------------------
(* Verdicts                                                                *)

\* A button that waits to be looked at stands for a verdict that was given.
SaidInv == \A s \in Analysts :
  click[s] # None /\ click[s].verdict # "IN_REVIEW" => <<click[s].txn, click[s].verdict>> \in given

\* The label is the resolution of the case, and a verdict that was given.
LabelInv == \A t \in Txns :
  label[t] = case[t].resolution /\ (label[t] # None => <<t, label[t]>> \in given)

VerdictInv == ClickInv /\ SaidInv /\ LabelInv

\* An update writes the verdict of the request, or nothing new.
LEMMA UpdateKeepsLabels ==
  ASSUME TypeInv, LabelInv, NEW t \in Txns, NEW verdict \in Verdicts, Update(t, verdict),
         given \subseteq given', verdict = "IN_REVIEW" \/ <<t, verdict>> \in given'
  PROVE  LabelInv'
<1>1. ASSUME NEW u \in Txns
      PROVE  label'[u] = case'[u].resolution /\ (label'[u] # None => <<u, label'[u]>> \in given')
  <2>1. CASE u = t
    BY <2>1, UpdateTypes DEF LabelInv
  <2>2. CASE u # t
    BY <2>2, UpdateTypes DEF LabelInv
  <2> QED
    BY <2>1, <2>2
<1> QED
  BY <1>1 DEF LabelInv

\* Every step.
LEMMA VerdictStep == ASSUME TypeInv, VerdictInv, [Next]_vars PROVE VerdictInv'
<1> USE DEF VerdictInv
<1>1. CASE \/ \E t \in Txns : Arrive(t)
           \/ \E key \in CacheKeys : Expire(key)
           \/ \E s \in Analysts : CallFeed(s) \/ CallDetail(s)
           \/ UNCHANGED vars
  <2>1. UNCHANGED <<case, label, pc, click, stored, given>>
    BY <1>1 DEF Arrive, Expire, CallFeed, CallDetail, Call, vars, database, session, history
  <2> QED
    BY <2>1 DEF ClickInv, SaidInv, LabelInv
<1>2. CASE \E t \in Txns, verdict \in Resolutions : ResolveElsewhere(t, verdict)
  <2>1. PICK t \in Txns, verdict \in Resolutions : ResolveElsewhere(t, verdict)
    BY <1>2
  <2>2. /\ Update(t, verdict) /\ given' = given \cup {<<t, verdict>>} /\ verdict \in Verdicts
        /\ UNCHANGED <<pc, click, stored>>
    BY <2>1 DEF ResolveElsewhere, session, Verdicts
  <2>3. LabelInv'
    BY <2>2, UpdateKeepsLabels
  <2> QED
    BY <2>2, <2>3 DEF ClickInv, SaidInv
<1>3. ASSUME NEW s \in Analysts, Analyst(s) PROVE VerdictInv'
  <2>1. CASE \E i \in 0 .. PageSize : SelectRow(s, i)
    BY <2>1 DEF SelectRow, Run, database, history, ClickInv, SaidInv, LabelInv, TypeInv, TypeOK
  <2>2. CASE \E verdict \in Verdicts : Press(s, verdict)
    <3>1. PICK verdict \in Verdicts : Press(s, verdict)
      BY <2>2
    <3>2. /\ pc' = [pc EXCEPT ![s] = "feed"]
          /\ click' = [click EXCEPT ![s] = [txn |-> screen[s].txn, verdict |-> verdict]]
          /\ given' = IF verdict = "IN_REVIEW" THEN given
                      ELSE given \cup {<<screen[s].txn, verdict>>}
          /\ UNCHANGED <<case, label, stored>>
      BY <3>1 DEF Press, Run, database
    <3>3. /\ click'[s].txn = screen[s].txn /\ click'[s].verdict = verdict
          /\ \A r \in Analysts : r # s => click'[r] = click[r] /\ pc'[r] = pc[r]
          /\ pc'[s] = "feed" /\ given \subseteq given'
      BY <3>2 DEF TypeInv, TypeOK
    <3> QED
      BY <3>2, <3>3 DEF ClickInv, SaidInv, LabelInv
  <2> QED
    BY <1>3, <2>1, <2>2 DEF Analyst
<1>4. ASSUME NEW s \in Analysts, Feed(s) \/ CallFails(s) \/ PatchRefused(s) \/ Refresh(s)
      PROVE VerdictInv'
  <2>1. /\ UNCHANGED <<case, label, given>>
        /\ pc'[s] # "patch" /\ click'[s] \in {click[s], None}
        /\ \A r \in Analysts : r # s => pc'[r] = pc[r] /\ click'[r] = click[r] /\ stored'[r] = stored[r]
    BY <1>4 DEF Feed, CallFails, ScriptEnds, PatchRefused, Refresh, Run, database, history, TypeInv, TypeOK
  <2> QED
    BY <2>1 DEF ClickInv, SaidInv, LabelInv
<1>5. ASSUME NEW s \in Analysts, Detail(s) PROVE VerdictInv'
  <2>1. /\ UNCHANGED <<case, label, given, stored>>
        /\ pc'[s] = "patch" => click'[s] # None /\ click'[s].txn = stored[s]
        /\ click'[s] \in {click[s], None}
        /\ \A r \in Analysts : r # s => pc'[r] = pc[r] /\ click'[r] = click[r]
    BY <1>5 DEF Detail, Pressed, database, TypeInv, TypeOK
  <2> QED
    BY <2>1 DEF ClickInv, SaidInv, LabelInv
<1>6. ASSUME NEW s \in Analysts, Patch(s) \/ PatchLost(s) PROVE VerdictInv'
  <2>1. /\ pc[s] = "patch" /\ pc'[s] # "patch" /\ click'[s] = None /\ UNCHANGED <<given, stored>>
        /\ \A r \in Analysts : r # s => pc'[r] = pc[r] /\ click'[r] = click[r]
    BY <1>6 DEF Patch, PatchLost, ScriptEnds, history, TypeInv, TypeOK
  <2>2. stored[s] \in Txns /\ click[s].verdict \in Verdicts /\ click[s].txn = stored[s] /\ click[s] # None
    BY <2>1, StoredTypes DEF ClickInv, TypeInv, TypeOK
  <2>3. LabelInv'
    <3>1. CASE Update(stored[s], click[s].verdict)
      BY <2>1, <2>2, <3>1, UpdateKeepsLabels DEF SaidInv
    <3>2. CASE UNCHANGED database
      BY <2>1, <3>2 DEF database, LabelInv
    <3> QED
      BY <1>6, <3>1, <3>2 DEF Patch, PatchLost
  <2> QED
    BY <2>1, <2>3 DEF ClickInv, SaidInv
<1> QED
  BY <1>1, <1>2, <1>3, <1>4, <1>5, <1>6 DEF Next, Script

-----------------------------------------------------------------------------
(* How old an answer may be                                                *)

\* A session in front of its PATCH has its answer.
QuietInv == \A s \in Analysts : pc[s] = "patch" => fetch[s] = None

\* Nobody has seen a case further than it is.
KnownInv == \A s \in Analysts, t \in Txns : known[s][t] <= Progress(case[t])

\* The answer of a call is as new as what its session knew, and no newer than now.
AnswerInv == \A s \in Analysts, t \in Txns :
  fetch[s] # None /\ fetch[s].key = t =>
    known[s][t] <= Progress(fetch[s].answer) /\ Progress(fetch[s].answer) <= Progress(case[t])

\* c is in the cache for t, or will be.
Live(t, c) ==
  \/ cache[t] = c
  \/ \E s \in Analysts : fetch[s] # None /\ fetch[s].live /\ fetch[s].key = t /\ fetch[s].answer = c

OneLive == \A t \in Txns, c, d \in Cases : Live(t, c) /\ Live(t, d) => c = d

\* It is no newer than now, and as new as anything that anybody has seen, and as
\* any orphaned answer, until the session that has brought the case further clears
\* the cache.
LiveInv == \A t \in Txns, c \in Cases : Live(t, c) =>
  /\ Progress(c) <= Progress(case[t])
  /\ \A r \in Analysts :
       /\ pc[r] # "refresh" => known[r][t] <= Progress(c)
       /\ fetch[r] # None /\ ~fetch[r].live /\ fetch[r].key = t =>
            Progress(fetch[r].answer) <= Progress(c)

\* What is on display is all its session has seen.
ScreenInv == \A s \in Analysts :
  pc[s] \in {"shown", "patch"} /\ screen[s].txn # None =>
    known[s][screen[s].txn] <= Progress(screen[s].case)

AgeInv == KnownInv /\ AnswerInv /\ OneLive /\ LiveInv

LEMMA KnownTypes ==
  ASSUME TypeInv
  PROVE  \A s \in Analysts, t \in Txns : known[s][t] \in Nat
<1>1. known \in [Analysts -> [Txns -> 0 .. 2]]
  BY DEF TypeInv, TypeOK
<1> QED
  BY <1>1

\* A step after which no answer is new, and nobody has seen more.
LEMMA AgeFrame ==
  ASSUME TypeInv, AgeInv, UNCHANGED known,
         \A t \in Txns : Progress(case[t]) <= Progress(case'[t]),
         \A r \in Analysts : fetch'[r] \in {fetch[r], None},
         \A t \in Txns : cache'[t] \in {cache[t], None},
         \A r \in Analysts : pc'[r] # "refresh" => pc[r] # "refresh"
  PROVE  AgeInv'
<1> USE DEF AgeInv
<1>1. \A t \in Txns : Progress(case[t]) \in Nat /\ Progress(case'[t]) \in Nat
  BY DEF Progress
<1>2. \A s \in Analysts, t \in Txns : known[s][t] \in Nat
  BY KnownTypes
<1>3. KnownInv'
  BY <1>1, <1>2 DEF KnownInv
<1>4. AnswerInv'
  <2>1. SUFFICES ASSUME NEW s \in Analysts, NEW t \in Txns, fetch'[s] # None, fetch'[s].key = t
                 PROVE  /\ known[s][t] <= Progress(fetch'[s].answer)
                        /\ Progress(fetch'[s].answer) <= Progress(case'[t])
    BY DEF AnswerInv
  <2>2. fetch'[s] = fetch[s] /\ Progress(fetch[s].answer) \in Nat
    BY <2>1 DEF Progress
  <2> QED
    BY <1>1, <2>1, <2>2 DEF AnswerInv
<1>5. ASSUME NEW t \in Txns, NEW c \in Cases, Live(t, c)' PROVE Live(t, c)
  <2>1. None \notin Cases
    BY DeskAssumption DEF DeskAssumption
  <2> QED
    BY <1>5, <2>1 DEF Live
<1>6. OneLive'
  BY <1>5 DEF OneLive
<1>7. LiveInv'
  <2>1. SUFFICES ASSUME NEW t \in Txns, NEW c \in Cases, Live(t, c)'
                 PROVE  /\ Progress(c) <= Progress(case'[t])
                        /\ \A r \in Analysts :
                             /\ pc'[r] # "refresh" => known[r][t] <= Progress(c)
                             /\ fetch'[r] # None /\ ~fetch'[r].live /\ fetch'[r].key = t =>
                                  Progress(fetch'[r].answer) <= Progress(c)
    BY DEF LiveInv
  <2>2. Live(t, c) /\ Progress(c) \in Nat
    BY <1>5, <2>1 DEF Progress
  <2> QED
    BY <1>1, <2>2 DEF LiveInv
<1> QED
  BY <1>3, <1>4, <1>6, <1>7

\* The script asks the API: there was nothing in the cache, and nothing on its way
\* there.
LEMMA AgeCall ==
  ASSUME TypeInv, AgeInv, NEW s \in Analysts, NEW key \in CacheKeys, Call(s, key)
  PROVE  AgeInv'
<1> USE DEF AgeInv
<1>1. /\ UNCHANGED <<case, known, cache, pc>>
      /\ fetch'[s] = [key |-> key, answer |-> AnswerTo(key), live |-> TRUE]
      /\ \A r \in Analysts : r # s => fetch'[r] = fetch[r]
      /\ fetch[s] = None
  BY CallTypes DEF Call, database, session, history, TypeInv, Shape
<1>2. /\ fetch'[s].key = key /\ fetch'[s].answer = AnswerTo(key) /\ fetch'[s].live
  BY <1>1
<1>3. \A t \in Txns : t = key => AnswerTo(key) = case[t] /\ AnswerTo(key) \in Cases
  BY AnswerTypes, DeskAssumption DEF DeskAssumption
<1>4. KnownInv'
  BY <1>1 DEF KnownInv
<1>5. AnswerInv'
  BY <1>1, <1>2, <1>3, KnownTypes DEF AnswerInv, KnownInv, Progress
<1>6. ASSUME NEW t \in Txns, NEW c \in Cases, Live(t, c)'
      PROVE  IF t = key THEN c = case[t] ELSE Live(t, c)
  <2>1. CASE t = key
    BY <1>1, <1>2, <1>3, <1>6, <2>1, DeskAssumption DEF DeskAssumption, Live, Call
  <2>2. CASE t # key
    BY <1>1, <1>2, <1>6, <2>2 DEF Live
  <2> QED
    BY <2>1, <2>2
<1>7. OneLive'
  BY <1>6 DEF OneLive
<1>8. LiveInv'
  BY <1>1, <1>2, <1>6 DEF LiveInv, KnownInv, AnswerInv, Progress
<1> QED
  BY <1>4, <1>5, <1>7, <1>8
\* The answer of a session's call is as new as what is in the cache.
LEMMA AgeDetail ==
  ASSUME TypeInv, AgeInv, NEW s \in Analysts, Detail(s)
  PROVE  AgeInv' /\ (ScreenInv => ScreenInv')
<1> USE DEF AgeInv
<1> DEFINE t == stored[s]
<1>1. PICK c \in Answers(s, t) :
        /\ Got(s, t, c)
        /\ screen' = [screen EXCEPT ![s].txn = t, ![s].case = c]
        /\ known' = [known EXCEPT ![s][t] = IF @ < Progress(c) THEN Progress(c) ELSE @]
        /\ pc' = [pc EXCEPT ![s] = "patch"] \/ pc' = [pc EXCEPT ![s] = "shown"]
  BY DEF Detail
<1>2. t \in Txns /\ t \in CacheKeys /\ t # "feed" /\ pc[s] = "detail" /\ UNCHANGED case
  BY StoredTypes DEF Detail, database
<1>3. /\ c \in Cases /\ fetch'[s] = None
      /\ \A r \in Analysts : r # s => fetch'[r] = fetch[r]
      /\ \A k \in CacheKeys : \/ cache'[k] = cache[k]
                              \/ k = t /\ cache'[k] = c /\ fetch[s] # None /\ fetch[s].live
  BY <1>1, <1>2, GotTypes
<1>4. Live(t, c) \/ (fetch[s] # None /\ ~fetch[s].live /\ fetch[s].key = t /\ fetch[s].answer = c)
  BY <1>1 DEF Got, Hit, Returned, Live
<1>5. /\ \A u \in Txns : Progress(case[u]) \in Nat
      /\ \A d : Progress(d) \in Nat
      /\ \A r \in Analysts, u \in Txns : known[r][u] \in Nat
  BY KnownTypes DEF Progress
<1> HIDE DEF t
<1>6. Progress(c) <= Progress(case[t]) /\ known[s][t] <= Progress(c)
  BY <1>2, <1>3, <1>4 DEF LiveInv, AnswerInv
<1>7. \A d \in Cases : Live(t, d) => Progress(c) <= Progress(d)
  <2>1. CASE Live(t, c)
    BY <1>2, <1>3, <1>5, <2>1 DEF OneLive
  <2>2. CASE fetch[s] # None /\ ~fetch[s].live /\ fetch[s].key = t /\ fetch[s].answer = c
    BY <1>2, <2>2 DEF LiveInv
  <2> QED
    BY <1>4, <2>1, <2>2
<1>8. /\ known'[s][t] = Progress(c)
      /\ \A r \in Analysts, u \in Txns : r # s \/ u # t => known'[r][u] = known[r][u]
  <2>1. known \in [Analysts -> [Txns -> 0 .. 2]]
    BY DEF TypeInv, TypeOK
  <2>2. /\ known'[s][t] = IF known[s][t] < Progress(c) THEN Progress(c) ELSE known[s][t]
        /\ \A r \in Analysts, u \in Txns : r # s \/ u # t => known'[r][u] = known[r][u]
    BY <1>1, <1>2, <2>1
  <2> QED
    BY <1>2, <1>5, <1>6, <2>2
<1>9. ASSUME NEW u \in Txns, NEW d \in Cases, Live(u, d)' PROVE Live(u, d)
  <2>1. u \in CacheKeys
    BY DEF CacheKeys
  <2>2. CASE cache'[u] = d
    BY <1>1, <1>3, <1>9, <2>1, <2>2 DEF Live, Got, Returned
  <2>3. CASE \E r \in Analysts : fetch'[r] # None /\ fetch'[r].live /\ fetch'[r].key = u /\ fetch'[r].answer = d
    BY <1>3, <2>3 DEF Live
  <2> QED
    BY <1>9, <2>2, <2>3 DEF Live
<1>10. /\ pc'[s] # "refresh"
       /\ \A r \in Analysts : r # s => pc'[r] = pc[r]
  BY <1>1 DEF TypeInv, TypeOK
<1>11. KnownInv'
  BY <1>2, <1>6, <1>8 DEF KnownInv
<1>12. AnswerInv'
  BY <1>2, <1>3, <1>8 DEF AnswerInv
<1>13. OneLive'
  BY <1>9 DEF OneLive
<1>14. LiveInv'
  <2>1. SUFFICES ASSUME NEW u \in Txns, NEW d \in Cases, Live(u, d)', NEW r \in Analysts
                 PROVE  /\ Progress(d) <= Progress(case'[u])
                        /\ pc'[r] # "refresh" => known'[r][u] <= Progress(d)
                        /\ fetch'[r] # None /\ ~fetch'[r].live /\ fetch'[r].key = u =>
                             Progress(fetch'[r].answer) <= Progress(d)
    <3>1. ASSUME NEW u \in Txns, NEW d \in Cases, Live(u, d)'
          PROVE  Progress(d) <= Progress(case'[u])
      BY <1>2, <1>9, <3>1 DEF LiveInv
    <3> QED
      BY <3>1 DEF LiveInv
  <2>2. Live(u, d)
    BY <1>9, <2>1
  <2>3. CASE r = s
    BY <1>2, <1>3, <1>7, <1>8, <2>2, <2>3 DEF LiveInv
  <2>4. CASE r # s
    BY <1>2, <1>3, <1>8, <1>10, <2>2, <2>4 DEF LiveInv
  <2> QED
    BY <2>3, <2>4
<1>15. ASSUME ScreenInv PROVE ScreenInv'
  <2>1. /\ screen'[s].txn = t /\ screen'[s].case = c
        /\ \A r \in Analysts : r # s => screen'[r] = screen[r] /\ screen[r].txn \in Txns \cup {None}
    BY <1>1 DEF TypeInv, TypeOK
  <2> QED
    BY <1>2, <1>5, <1>8, <1>10, <1>15, <2>1 DEF ScreenInv
<1> QED
  BY <1>11, <1>12, <1>13, <1>14, <1>15

\* The session that has brought a case further has yet to clear the cache.
LEMMA AgePatch ==
  ASSUME TypeInv, ClickInv, QuietInv, AgeInv, NEW s \in Analysts, Patch(s)
  PROVE  AgeInv' /\ (ScreenInv => ScreenInv')
<1> USE DEF AgeInv
<1> DEFINE t == stored[s]
<1>1. /\ t \in Txns /\ fetch[s] = None /\ UNCHANGED <<cache, fetch, screen>>
      /\ \A u \in Txns : Progress(case[u]) <= Progress(case'[u])
  <2>1. click[s].verdict \in Verdicts
    BY DEF Patch, ClickInv, TypeInv, TypeOK
  <2> QED
    BY <2>1, StoredTypes, UpdateTypes DEF Patch, QuietInv
<1>2. /\ known'[s][t] = Progress(case'[t])
      /\ \A r \in Analysts, u \in Txns : r # s \/ u # t => known'[r][u] = known[r][u]
  <2>1. known \in [Analysts -> [Txns -> 0 .. 2]]
    BY DEF TypeInv, TypeOK
  <2> QED
    BY <1>1, <2>1 DEF Patch
<1>3. pc'[s] = "refresh" /\ \A r \in Analysts : r # s => pc'[r] = pc[r]
  BY DEF Patch, TypeInv, TypeOK
<1>4. /\ \A u \in Txns : Progress(case[u]) \in Nat /\ Progress(case'[u]) \in Nat
      /\ \A d : Progress(d) \in Nat
      /\ \A r \in Analysts, u \in Txns : known[r][u] \in Nat
  BY KnownTypes DEF Progress
<1> HIDE DEF t
<1>5. KnownInv'
  <2>1. SUFFICES ASSUME NEW r \in Analysts, NEW u \in Txns
                 PROVE  known'[r][u] <= Progress(case'[u])
    BY DEF KnownInv
  <2> QED
    BY <1>1, <1>2, <1>4 DEF KnownInv
<1>6. AnswerInv'
  <2>1. SUFFICES ASSUME NEW r \in Analysts, NEW u \in Txns, fetch[r] # None, fetch[r].key = u
                 PROVE  /\ known'[r][u] <= Progress(fetch[r].answer)
                        /\ Progress(fetch[r].answer) <= Progress(case'[u])
    BY <1>1 DEF AnswerInv
  <2> QED
    BY <1>1, <1>2, <1>4, <2>1 DEF AnswerInv
<1>7. \A u \in Txns, d \in Cases : Live(u, d)' => Live(u, d)
  BY <1>1 DEF Live
<1>8. OneLive'
  BY <1>7 DEF OneLive
<1>9. LiveInv'
  <2>1. SUFFICES ASSUME NEW u \in Txns, NEW d \in Cases, Live(u, d)
                 PROVE  /\ Progress(d) <= Progress(case'[u])
                        /\ \A r \in Analysts :
                             /\ pc'[r] # "refresh" => known'[r][u] <= Progress(d)
                             /\ fetch[r] # None /\ ~fetch[r].live /\ fetch[r].key = u =>
                                  Progress(fetch[r].answer) <= Progress(d)
    BY <1>1, <1>7 DEF LiveInv
  <2>2. Progress(d) <= Progress(case'[u])
    BY <1>1, <1>4, <2>1 DEF LiveInv
  <2> QED
    BY <1>2, <1>3, <2>1, <2>2 DEF LiveInv
<1>10. ASSUME ScreenInv PROVE ScreenInv'
  <2>1. \A r \in Analysts : screen[r].txn \in Txns \cup {None}
    BY DEF TypeInv, TypeOK
  <2> QED
    BY <1>1, <1>2, <1>3, <1>10, <2>1 DEF ScreenInv
<1> QED
  BY <1>5, <1>6, <1>8, <1>9, <1>10

\* Nothing that was under way will be read by anybody but who has asked for it.
LEMMA AgeRefresh ==
  ASSUME TypeInv, AgeInv, NEW s \in Analysts, Refresh(s)
  PROVE  AgeInv'
<1> USE DEF AgeInv
<1>1. UNCHANGED <<case, known>> /\ \A t \in Txns : cache'[t] = None
  BY DEF Refresh, database, history, CacheKeys
<1>2. ASSUME NEW r \in Analysts, fetch'[r] # None
      PROVE  /\ fetch[r] # None /\ ~fetch'[r].live
             /\ fetch'[r].key = fetch[r].key /\ fetch'[r].answer = fetch[r].answer
  BY <1>2 DEF Refresh, TypeInv, Shape, Calls
<1>3. \A t \in Txns, c \in Cases : ~Live(t, c)'
  BY <1>1, <1>2, DeskAssumption DEF DeskAssumption, Live
<1>4. KnownInv'
  BY <1>1 DEF KnownInv
<1>5. AnswerInv'
  BY <1>1, <1>2 DEF AnswerInv
<1>6. OneLive' /\ LiveInv'
  BY <1>3 DEF OneLive, LiveInv
<1> QED
  BY <1>4, <1>5, <1>6

\* A verdict that is given elsewhere, or may have been.
LEMMA CaseGrows ==
  ASSUME TypeInv, NEW t \in Txns, NEW verdict \in Verdicts, Update(t, verdict) \/ UNCHANGED database
  PROVE  \A u \in Txns : Progress(case[u]) <= Progress(case'[u])
<1>1. CASE Update(t, verdict)
  BY <1>1, UpdateTypes
<1>2. CASE UNCHANGED database
  BY <1>2 DEF database, Progress
<1> QED
  BY <1>1, <1>2

\* Every step.
LEMMA AgeStep == ASSUME TypeInv, ClickInv, QuietInv, AgeInv, [Next]_vars PROVE AgeInv'
<1> DEFINE Stays == /\ UNCHANGED <<case, known>>
                    /\ \A r \in Analysts : fetch'[r] \in {fetch[r], None}
                    /\ \A t \in Txns : cache'[t] \in {cache[t], None}
                    /\ \A r \in Analysts : pc'[r] # "refresh" => pc[r] # "refresh"
<1>1. ASSUME Stays PROVE AgeInv'
  <2>1. \A t \in Txns : Progress(case[t]) <= Progress(case'[t])
    BY <1>1 DEF Progress
  <2> QED
    BY <1>1, <2>1, AgeFrame
<1>2. CASE UNCHANGED vars
  <2>1. Stays
    BY <1>2 DEF vars, database, session, history
  <2> QED
    BY <1>1, <2>1
<1>3. CASE \E t \in Txns : Arrive(t)
  <2>1. Stays
    BY <1>3 DEF Arrive, session, history
  <2> QED
    BY <1>1, <2>1
<1>4. CASE \E t \in Txns, verdict \in Resolutions : ResolveElsewhere(t, verdict)
  <2>1. PICK t \in Txns, verdict \in Resolutions : ResolveElsewhere(t, verdict)
    BY <1>4
  <2>2. /\ Update(t, verdict) /\ verdict \in Verdicts
        /\ UNCHANGED <<cache, fetch, pc, known>>
    BY <2>1 DEF ResolveElsewhere, session, Verdicts
  <2>3. \A u \in Txns : Progress(case[u]) <= Progress(case'[u])
    BY <2>2, CaseGrows
  <2> QED
    BY <2>2, <2>3, AgeFrame
<1>5. CASE \E key \in CacheKeys : Expire(key)
  <2>1. Stays
    BY <1>5 DEF Expire, database, session, history, TypeInv, Shape, CacheKeys
  <2> QED
    BY <1>1, <2>1
<1>6. ASSUME NEW s \in Analysts, Analyst(s) PROVE AgeInv'
  <2>1. Stays
    BY <1>6 DEF Analyst, SelectRow, Press, Run, Touchable, database, history, TypeInv, TypeOK
  <2> QED
    BY <1>1, <2>1
<1>7. ASSUME NEW s \in Analysts, CallFeed(s) \/ CallDetail(s) PROVE AgeInv'
  BY <1>7, AgeCall, StoredTypes DEF CallFeed, CallDetail, CacheKeys
<1>8. ASSUME NEW s \in Analysts, Feed(s) PROVE AgeInv'
  <2>1. PICK page : Got(s, "feed", page)
    BY <1>8 DEF Feed
  <2>2. /\ \A r \in Analysts : fetch'[r] \in {fetch[r], None}
        /\ \A t \in Txns : cache'[t] = cache[t]
    BY <2>1, GotTypes, DeskAssumption DEF DeskAssumption, CacheKeys
  <2>3. UNCHANGED <<case, known>> /\ \A r \in Analysts : pc'[r] # "refresh" => pc[r] # "refresh"
    BY <1>8 DEF Feed, database, history, TypeInv, TypeOK
  <2> QED
    BY <1>1, <2>2, <2>3
<1>9. ASSUME NEW s \in Analysts, CallFails(s) \/ PatchRefused(s) PROVE AgeInv'
  <2>1. Stays
    BY <1>9 DEF CallFails, PatchRefused, ScriptEnds, database, history, TypeInv, TypeOK, Shape
  <2> QED
    BY <1>1, <2>1
<1>10. ASSUME NEW s \in Analysts, PatchLost(s) PROVE AgeInv'
  <2>1. stored[s] \in Txns /\ click[s].verdict \in Verdicts
    BY <1>10, StoredTypes DEF PatchLost, ClickInv, TypeInv, TypeOK
  <2>2. \A u \in Txns : Progress(case[u]) <= Progress(case'[u])
    BY <1>10, <2>1, CaseGrows DEF PatchLost
  <2>3. /\ UNCHANGED <<cache, fetch, known>>
        /\ \A r \in Analysts : pc'[r] # "refresh" => pc[r] # "refresh"
    BY <1>10 DEF PatchLost, ScriptEnds, history, TypeInv, TypeOK
  <2> QED
    BY <2>2, <2>3, AgeFrame
<1> QED
  BY <1>2, <1>3, <1>4, <1>5, <1>6, <1>7, <1>8, <1>9, <1>10, AgeDetail, AgePatch, AgeRefresh
     DEF Next, Script

\* Every step: what is on display is all its session has seen, and a session in
\* front of its PATCH has its answer.
LEMMA ScreenStep ==
  ASSUME TypeInv, ClickInv, QuietInv, AgeInv, ScreenInv, [Next]_vars
  PROVE  QuietInv' /\ ScreenInv'
<1>1. CASE \/ \E t \in Txns : Arrive(t)
           \/ \E t \in Txns, verdict \in Resolutions : ResolveElsewhere(t, verdict)
           \/ \E key \in CacheKeys : Expire(key)
           \/ UNCHANGED vars
  <2>1. UNCHANGED <<fetch, pc, screen, known>>
    BY <1>1 DEF Arrive, ResolveElsewhere, Expire, vars, session, history
  <2> QED
    BY <2>1 DEF QuietInv, ScreenInv
<1>2. ASSUME NEW s \in Analysts, Analyst(s) \/ Script(s) PROVE QuietInv'
  <2>1. /\ \A r \in Analysts : r # s => pc'[r] = pc[r] /\ (fetch[r] = None => fetch'[r] = None)
        /\ pc'[s] = "patch" => fetch'[s] = None
    <3>1. CASE Analyst(s)
      BY <3>1 DEF Analyst, SelectRow, Press, Run, TypeInv, TypeOK
    <3>2. CASE CallFeed(s) \/ CallDetail(s)
      BY <3>2 DEF CallFeed, CallDetail, Call, session, TypeInv, TypeOK, Shape
    <3>3. CASE Feed(s) \/ Detail(s)
      <4>1. PICK key \in CacheKeys : \E answer : Got(s, key, answer)
        BY <3>3, StoredTypes DEF Feed, Detail, CacheKeys
      <4>2. fetch'[s] = None /\ \A r \in Analysts : r # s => fetch'[r] = fetch[r]
        BY <4>1, GotTypes
      <4> QED
        BY <3>3, <4>2 DEF Feed, Detail, TypeInv, TypeOK
    <3>4. CASE CallFails(s) \/ Patch(s) \/ PatchRefused(s) \/ PatchLost(s)
      BY <3>4 DEF CallFails, Patch, PatchRefused, PatchLost, ScriptEnds, TypeInv, TypeOK, Shape
    <3>5. CASE Refresh(s)
      BY <3>5 DEF Refresh, Run, TypeInv, TypeOK
    <3> QED
      BY <1>2, <3>1, <3>2, <3>3, <3>4, <3>5 DEF Script
  <2> QED
    BY <2>1 DEF QuietInv
<1>3. ASSUME NEW s \in Analysts, Analyst(s) \/ Script(s) PROVE ScreenInv'
  <2>1. CASE Analyst(s) \/ CallFeed(s) \/ CallDetail(s) \/ Feed(s) \/ CallFails(s) \/ Refresh(s)
    <3>1. /\ UNCHANGED known
          /\ \A r \in Analysts : r # s => pc'[r] = pc[r] /\ screen'[r] = screen[r]
          /\ \/ pc'[s] \notin {"shown", "patch"}
             \/ screen'[s].txn = None
      <4>1. CASE Analyst(s)
        BY <4>1 DEF Analyst, SelectRow, Press, Run, history, TypeInv, TypeOK
      <4>2. CASE CallFeed(s) \/ CallDetail(s)
        BY <4>2 DEF CallFeed, CallDetail, Call, session, history, TypeInv, TypeOK
      <4>3. CASE Feed(s)
        BY <4>3 DEF Feed, Blank, history, TypeInv, TypeOK
      <4>4. CASE CallFails(s)
        BY <4>4 DEF CallFails, ScriptEnds, Blank, history, TypeInv, TypeOK
      <4>5. CASE Refresh(s)
        BY <4>5 DEF Refresh, Run, history, TypeInv, TypeOK
      <4> QED
        BY <2>1, <4>1, <4>2, <4>3, <4>4, <4>5
    <3> QED
      BY <3>1 DEF ScreenInv
  <2>2. CASE PatchRefused(s) \/ PatchLost(s)
    <3>1. /\ UNCHANGED <<known, screen>> /\ pc[s] = "patch"
          /\ \A r \in Analysts : r # s => pc'[r] = pc[r]
      BY <2>2 DEF PatchRefused, PatchLost, ScriptEnds, history, TypeInv, TypeOK
    <3> QED
      BY <3>1 DEF ScreenInv
  <2>3. CASE Detail(s) \/ Patch(s)
    BY <2>3, AgeDetail, AgePatch
  <2> QED
    BY <1>3, <2>1, <2>2, <2>3 DEF Script
<1> QED
  BY <1>1, <1>2, <1>3 DEF Next

-----------------------------------------------------------------------------
(* The theorems                                                            *)

IInv == TypeInv /\ VerdictInv /\ QuietInv /\ AgeInv /\ ScreenInv

LEMMA InitIInv == Init => IInv
<1> SUFFICES ASSUME Init PROVE IInv
  OBVIOUS
<1> USE DEF Init
<1>1. TypeInv
  <2>1. \A t \in Txns : cache[t] = None
    BY DEF CacheKeys
  <2>2. cache["feed"] = None /\ cache \in [CacheKeys -> Seq(Txns) \cup Cases \cup {None}]
    BY DEF CacheKeys
  <2>3. [status |-> "OPEN", resolution |-> None] \in Cases
    BY DEF Cases, Statuses
  <2>4. <<>> \in Seq(Txns)
    OBVIOUS
  <2>5. 0 \in 0 .. PageSize /\ 0 \in 0 .. MaxVerdicts
    BY DeskAssumption DEF DeskAssumption
  <2>6. screen \in [Analysts -> [page : Seq(Txns), txn : Txns \cup {None}, case : Cases \cup {None}]]
    BY <2>4 DEF Blank
  <2> QED
    BY <2>1, <2>2, <2>3, <2>4, <2>5, <2>6 DEF TypeInv, TypeOK, Shape
<1>2. VerdictInv /\ QuietInv
  BY DEF VerdictInv, ClickInv, SaidInv, LabelInv, QuietInv
<1>3. \A t \in Txns, c \in Cases : ~Live(t, c)
  BY DeskAssumption DEF DeskAssumption, Live, CacheKeys
<1>4. KnownInv /\ AnswerInv
  BY DEF KnownInv, AnswerInv, Progress
<1>5. AgeInv
  BY <1>3, <1>4 DEF AgeInv, OneLive, LiveInv
<1>6. ScreenInv
  BY DEF ScreenInv, Blank
<1> QED
  BY <1>1, <1>2, <1>5, <1>6 DEF IInv

\* The invariant that carries the theorems holds in every state of the desk.
THEOREM Invariance == Spec => []IInv
<1>1. IInv /\ [Next]_vars => IInv'
  BY TypeStep, VerdictStep, AgeStep, ScreenStep DEF IInv, VerdictInv
<1> QED
  BY <1>1, InitIInv, PTL DEF Spec

\* Type correctness of the sessions, the shared cache and the database, for any
\* number of analysts, transactions and verdicts and any page.
THEOREM TypeCorrect == Spec => []TypeOK
<1>1. IInv => TypeOK
  BY DEF IInv, TypeInv
<1> QED
  BY <1>1, Invariance, PTL

\* However the feed moves under a session, and whatever case its script has opened
\* when it gets to the buttons, no verdict lands on another transaction.
THEOREM VerdictsLandWhereGiven == Spec => []LabelWasGiven
<1>1. IInv => LabelWasGiven
  BY DEF IInv, VerdictInv, LabelInv, LabelWasGiven
<1> QED
  BY <1>1, Invariance, PTL

\* However many sessions fill and clear the shared cache, no page shows a case as
\* less far than its session has seen it or brought it.
THEOREM ScreensDoNotGoBack == Spec => []ScreenNeverGoesBack
<1>1. IInv => ScreenNeverGoesBack
  <2>1. SUFFICES ASSUME IInv, NEW s \in Analysts, pc[s] = "shown", screen[s].txn # None
                 PROVE  Progress(screen[s].case) >= known[s][screen[s].txn]
    BY DEF ScreenNeverGoesBack
  <2>2. screen[s].txn \in Txns
    BY <2>1 DEF IInv, TypeInv, TypeOK
  <2>3. known[s][screen[s].txn] <= Progress(screen[s].case)
    BY <2>1 DEF IInv, ScreenInv
  <2>4. known[s][screen[s].txn] \in Nat /\ Progress(screen[s].case) \in Nat
    BY <2>1, <2>2, KnownTypes DEF IInv, Progress
  <2> QED
    BY <2>3, <2>4
<1> QED
  BY <1>1, Invariance, PTL
=============================================================================
