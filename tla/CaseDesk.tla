------------------------------ MODULE CaseDesk ------------------------------
(***************************************************************************)
(* Analysts at the dashboard.  Each browser session runs the dashboard     *)
(* script from top to bottom whenever its analyst touches the page: the    *)
(* script gets the feed of recent transactions, finds out which one is     *)
(* selected, gets its investigation, and, if the page was touched on one   *)
(* of the buttons of the case, sends the PATCH and starts again.  All      *)
(* sessions share one cache of what the API answered.                      *)
(*                                                                         *)
(* update_alert is one step here: AlertCase has its interleavings.         *)
(* Streamlit is modelled from how the script uses it: a cached function    *)
(* runs once at a time for the same arguments, clearing the cache orphans  *)
(* the calls in flight, a button is known by its key, and a table whose    *)
(* rows have changed keeps its selected row or drops it.  The analyst's    *)
(* note, the filters of the feed and the other tabs are left out.          *)
(***************************************************************************)
EXTENDS Integers, Sequences, SequencesExt

CONSTANTS
  Analysts,    \* browser sessions
  Txns,        \* transactions, all of them with an alert
  PageSize,    \* limit of the feed
  MaxVerdicts, \* bound on the buttons pressed and the verdicts given elsewhere
  None

Resolutions == {"FRAUD", "LEGITIMATE"}
Statuses    == {"OPEN", "IN_REVIEW", "RESOLVED"}
Verdicts    == Resolutions \cup {"IN_REVIEW"}
Cases       == [status : Statuses, resolution : Resolutions \cup {None}]

ASSUME DeskAssumption ==
  /\ PageSize \in Nat \ {0} /\ MaxVerdicts \in Nat
  /\ None \notin Txns \cup Verdicts \cup Cases
  /\ "feed" \notin Txns

VARIABLES
  \* database
  order,   \* the transactions that have arrived, the latest event first
  case,    \* the alert of each
  label,   \* its confirmed label, or None
  \* the dashboard's process
  cache,   \* "feed" or transaction -> what the API answered, or None
  fetch,   \* session -> its call in flight, or None
  \* sessions
  pc,      \* "shown", or the next step of the script
  row,     \* selected row of the feed's table, or 0
  stored,  \* selected_transaction_id, or None
  click,   \* the button that was pressed, or None
  screen,  \* what is on display: the feed, and the case of a transaction
  \* history
  given,   \* verdicts given: the transaction on display, and the resolution
  known,   \* how far each session has seen or brought each case
  verdicts \* how many verdicts were given

database == <<order, case, label>>
session  == <<pc, row, stored, click, screen>>
history  == <<given, known, verdicts>>
vars     == <<database, cache, fetch, session, history>>

Arrived  == Range(order)
Page     == SubSeq(order, 1, IF Len(order) < PageSize THEN Len(order) ELSE PageSize)
CacheKeys == Txns \cup {"feed"}

\* What the API answers now: GET /transactions, GET /transactions/{id}/investigation.
AnswerTo(key) == IF key = "feed" THEN Page ELSE case[key]

\* How far a case has come.
Progress(c) == CASE c.status = "OPEN" -> 0 [] c.status = "IN_REVIEW" -> 1 [] OTHER -> 2

Blank == [page |-> <<>>, txn |-> None, case |-> None]

TypeOK ==
  /\ order \in Seq(Txns)
  /\ case \in [Txns -> Cases]
  /\ label \in [Txns -> Resolutions \cup {None}]
  /\ \A t \in Txns : cache[t] \in Cases \cup {None}
  /\ cache["feed"] \in {None} \cup Seq(Txns)
  /\ \A s \in Analysts : fetch[s] # None =>
       /\ fetch[s].key \in CacheKeys /\ fetch[s].live \in BOOLEAN
       /\ fetch[s].answer \in IF fetch[s].key = "feed" THEN Seq(Txns) ELSE Cases
  /\ pc \in [Analysts -> {"shown", "feed", "detail", "patch", "refresh"}]
  /\ row \in [Analysts -> 0 .. PageSize]
  /\ stored \in [Analysts -> Txns \cup {None}]
  /\ click \in [Analysts -> [txn : Txns, verdict : Verdicts] \cup {None}]
  /\ screen \in [Analysts -> [page : Seq(Txns), txn : Txns \cup {None}, case : Cases \cup {None}]]
  /\ \A s \in Analysts : pc[s] \in {"detail", "patch"} => stored[s] \in Range(screen[s].page)
  /\ given \subseteq Txns \X Resolutions
  /\ known \in [Analysts -> [Txns -> 0 .. 2]]
  /\ verdicts \in 0 .. MaxVerdicts

Init ==
  /\ order = <<>>
  /\ case = [t \in Txns |-> [status |-> "OPEN", resolution |-> None]]
  /\ label = [t \in Txns |-> None]
  /\ cache = [key \in CacheKeys |-> None]
  /\ fetch = [s \in Analysts |-> None]
  /\ pc = [s \in Analysts |-> "shown"]
  /\ row = [s \in Analysts |-> 0]
  /\ stored = [s \in Analysts |-> None]
  /\ click = [s \in Analysts |-> None]
  /\ screen = [s \in Analysts |-> Blank]
  /\ given = {}
  /\ known = [s \in Analysts |-> [t \in Txns |-> 0]]
  /\ verdicts = 0

-----------------------------------------------------------------------------
(* update_alert                                                            *)

Refused(c, verdict) == c.status = "RESOLVED" /\ c.resolution # verdict

Applied(c, verdict) ==
  IF c.status = "RESOLVED" THEN c
  ELSE IF verdict = "IN_REVIEW" THEN [c EXCEPT !.status = "IN_REVIEW"]
  ELSE [status |-> "RESOLVED", resolution |-> verdict]

Update(t, verdict) ==
  /\ ~Refused(case[t], verdict)
  /\ case' = [case EXCEPT ![t] = Applied(@, verdict)]
  /\ label' = [label EXCEPT ![t] = case'[t].resolution]
  /\ UNCHANGED order

-----------------------------------------------------------------------------
(* The rest of the system                                                  *)

\* A transaction is scored; its event may be older than others in the feed.
Arrive(t) ==
  /\ t \notin Arrived
  /\ \E i \in 1 .. Len(order) + 1 : order' = InsertAt(order, i, t)
  /\ UNCHANGED <<case, label, cache, fetch, session, history>>

\* Somebody resolves the case through the API or the web front end.
ResolveElsewhere(t, verdict) ==
  /\ t \in Arrived /\ verdicts < MaxVerdicts
  /\ Update(t, verdict)
  /\ given' = given \cup {<<t, verdict>>}
  /\ verdicts' = verdicts + 1
  /\ UNCHANGED <<cache, fetch, session, known>>

\* Five seconds have passed.
Expire(key) ==
  /\ cache[key] # None
  /\ cache' = [cache EXCEPT ![key] = None]
  /\ UNCHANGED <<database, fetch, session, history>>

-----------------------------------------------------------------------------
(* The analyst                                                             *)

Run(s) == pc' = [pc EXCEPT ![s] = "feed"]

\* Touching the page starts the script again, also while it runs; the button
\* that started it is forgotten then.
Touchable(s) == pc[s] \in {"shown", "feed", "detail"} /\ fetch[s] = None

\* A row of the table is selected, or its selection taken back, or some other
\* widget used.
SelectRow(s, i) ==
  /\ Touchable(s) /\ i \in DOMAIN screen[s].page \cup {0, row[s]}
  /\ row' = [row EXCEPT ![s] = i]
  /\ click' = [click EXCEPT ![s] = None]
  /\ Run(s)
  /\ UNCHANGED <<database, cache, fetch, stored, screen, history>>

\* A button of the case on display is pressed.
Press(s, verdict) ==
  /\ Touchable(s) /\ verdicts < MaxVerdicts
  /\ screen[s].txn # None /\ screen[s].case.status # "RESOLVED"
  /\ screen[s].case.status # verdict
  /\ click' = [click EXCEPT ![s] = [txn |-> screen[s].txn, verdict |-> verdict]]
  /\ Run(s)
  /\ given' = IF verdict = "IN_REVIEW" THEN given
              ELSE given \cup {<<screen[s].txn, verdict>>}
  /\ verdicts' = verdicts + 1
  /\ UNCHANGED <<database, cache, fetch, row, stored, screen, known>>

-----------------------------------------------------------------------------
(* The script                                                              *)

\* api_get: a cached answer, or a call that nobody else is making for the same
\* cache.
Hit(key, answer) == cache[key] = answer /\ answer # None

Call(s, key) ==
  /\ cache[key] = None /\ fetch[s] = None
  /\ \A r \in Analysts : fetch[r] # None => ~(fetch[r].key = key /\ fetch[r].live)
  /\ fetch' = [fetch EXCEPT ![s] = [key |-> key, answer |-> AnswerTo(key), live |-> TRUE]]
  /\ UNCHANGED <<database, cache, session, history>>

Returned(s, key, answer) ==
  /\ fetch[s] # None /\ fetch[s].key = key /\ fetch[s].answer = answer

Got(s, key, answer) ==
  \/ fetch[s] = None /\ Hit(key, answer) /\ UNCHANGED <<cache, fetch>>
  \/ /\ Returned(s, key, answer)
     /\ fetch' = [fetch EXCEPT ![s] = None]
     /\ cache' = IF fetch[s].live THEN [cache EXCEPT ![key] = answer] ELSE cache

Answers(s, key) == {cache[key]} \cup (IF fetch[s] = None THEN {} ELSE {fetch[s].answer})

CallFeed(s) == pc[s] = "feed" /\ Call(s, "feed")

\* Mutant of Visible: the selection is kept although it has left the page.
VisibleAlways(page, t) == t # None

Visible(page, t) == t \in Range(page)

\* The row becomes a transaction, which is kept by its id from then on, while
\* it is on the page.
Feed(s) ==
  /\ pc[s] = "feed"
  /\ \E page \in Answers(s, "feed") :
       /\ Got(s, "feed", page)
       /\ \E i \in {row[s], 0} :
            LET t == IF i \in DOMAIN page THEN page[i] ELSE stored[s]
            IN  /\ row' = [row EXCEPT ![s] = i]
                /\ IF Visible(page, t)
                   THEN /\ stored' = [stored EXCEPT ![s] = t]
                        /\ screen' = [screen EXCEPT ![s].page = page]
                        /\ pc' = [pc EXCEPT ![s] = "detail"]
                        /\ UNCHANGED click
                   ELSE /\ stored' = [stored EXCEPT ![s] = None]
                        /\ screen' = [screen EXCEPT ![s] = [Blank EXCEPT !.page = page]]
                        /\ pc' = [pc EXCEPT ![s] = "shown"]
                        /\ click' = [click EXCEPT ![s] = None]
  /\ UNCHANGED <<database, history>>

CallDetail(s) == pc[s] = "detail" /\ Call(s, stored[s])

\* Mutant of Pressed: the keys of the buttons do not name the alert.
PressedAny(s, t, c) == click[s] # None /\ c.status # "RESOLVED"

\* The button that was pressed is one of the buttons of this case.
Pressed(s, t, c) == click[s] # None /\ click[s].txn = t /\ c.status # "RESOLVED"

Detail(s) ==
  /\ pc[s] = "detail"
  /\ \E c \in Answers(s, stored[s]) :
       /\ Got(s, stored[s], c)
       /\ screen' = [screen EXCEPT ![s].txn = stored[s], ![s].case = c]
       /\ known' = [known EXCEPT ![s][stored[s]] = IF @ < Progress(c) THEN Progress(c) ELSE @]
       /\ IF Pressed(s, stored[s], c)
          THEN pc' = [pc EXCEPT ![s] = "patch"] /\ UNCHANGED click
          ELSE pc' = [pc EXCEPT ![s] = "shown"] /\ click' = [click EXCEPT ![s] = None]
  /\ UNCHANGED <<database, row, stored, given, verdicts>>

ScriptEnds(s) ==
  /\ pc' = [pc EXCEPT ![s] = "shown"]
  /\ click' = [click EXCEPT ![s] = None]

\* An API call fails: nothing is cached, and the page ends with the error, after
\* the feed or in its place; a table that is not shown has no selected row.
CallFails(s) ==
  /\ pc[s] \in {"feed", "detail"} /\ fetch[s] # None
  /\ fetch' = [fetch EXCEPT ![s] = None]
  /\ LET page == IF pc[s] = "feed" THEN <<>> ELSE screen[s].page
     IN  /\ screen' = [screen EXCEPT ![s] = [Blank EXCEPT !.page = page]]
         /\ row' = [row EXCEPT ![s] = IF page = <<>> THEN 0 ELSE @]
  /\ ScriptEnds(s)
  /\ UNCHANGED <<database, cache, stored, history>>

Patch(s) ==
  /\ pc[s] = "patch"
  /\ Update(stored[s], click[s].verdict)
  /\ known' = [known EXCEPT ![s][stored[s]] = Progress(case'[stored[s]])]
  /\ pc' = [pc EXCEPT ![s] = "refresh"]
  /\ click' = [click EXCEPT ![s] = None]
  /\ UNCHANGED <<cache, fetch, row, stored, screen, given, verdicts>>

\* 409: the error is shown under the case as it was got.
PatchRefused(s) ==
  /\ pc[s] = "patch"
  /\ Refused(case[stored[s]], click[s].verdict)
  /\ ScriptEnds(s)
  /\ UNCHANGED <<database, cache, fetch, row, stored, screen, history>>

\* The API cannot be reached, or does not answer in five seconds, whether or
\* not it has done what it was asked: not an HTTPStatusError, the script ends.
PatchLost(s) ==
  /\ pc[s] = "patch"
  /\ \/ Update(stored[s], click[s].verdict)
     \/ UNCHANGED database
  /\ ScriptEnds(s)
  /\ UNCHANGED <<cache, fetch, row, stored, screen, history>>

\* Mutant of Refresh: the cache is left as it is.
RefreshOnly(s) ==
  /\ pc[s] = "refresh"
  /\ Run(s)
  /\ UNCHANGED <<database, cache, fetch, row, stored, click, screen, history>>

\* refresh_dashboard clears the cache of all sessions; a call in flight will
\* fill one that nobody reads.
Refresh(s) ==
  /\ pc[s] = "refresh"
  /\ cache' = [key \in CacheKeys |-> None]
  /\ fetch' = [r \in Analysts |-> IF fetch[r] = None THEN None
                                  ELSE [fetch[r] EXCEPT !.live = FALSE]]
  /\ Run(s)
  /\ UNCHANGED <<database, row, stored, click, screen, history>>

-----------------------------------------------------------------------------
Analyst(s) ==
  \/ \E i \in 0 .. PageSize : SelectRow(s, i)
  \/ \E verdict \in Verdicts : Press(s, verdict)

Script(s) ==
  \/ CallFeed(s) \/ Feed(s) \/ CallDetail(s) \/ Detail(s) \/ CallFails(s)
  \/ Patch(s) \/ PatchRefused(s) \/ PatchLost(s) \/ Refresh(s)

Next ==
  \/ \E t \in Txns : Arrive(t)
  \/ \E t \in Txns, verdict \in Resolutions : ResolveElsewhere(t, verdict)
  \/ \E key \in CacheKeys : Expire(key)
  \/ \E s \in Analysts : Analyst(s) \/ Script(s)

Spec == Init /\ [][Next]_vars

-----------------------------------------------------------------------------
(* Properties                                                              *)

\* A confirmed label is what somebody said of that very transaction with its
\* case before him: however the feed moves under the selected row, and whatever
\* case the script has opened by the time it gets to the buttons, no verdict
\* lands on another transaction.
LabelWasGiven == \A t \in Txns : label[t] # None => <<t, label[t]>> \in given

\* "Alert resolved" (refresh_dashboard): a page never shows a case as less far
\* than its session has already seen it or brought it, whoever else fills the
\* shared cache and when.
ScreenNeverGoesBack ==
  \A s \in Analysts :
    pc[s] = "shown" /\ screen[s].txn # None =>
      Progress(screen[s].case) >= known[s][screen[s].txn]
=============================================================================
