------------------------------ MODULE AlertCase ------------------------------
(***************************************************************************)
(* The case of one alert: analysts move it with PATCH /alerts/{id}, labels *)
(* also come in through POST /transactions/{id}/label, and the explainer   *)
(* fills in the explanation.  Each is a database session of its own; the   *)
(* handlers check what they read without locking it, so what they check    *)
(* may be stale by the time they write (PostgreSQL, READ COMMITTED).       *)
(*                                                                         *)
(* The ORM writes only the columns whose new value differs from the value  *)
(* the session loaded.  An UPDATE locks the row until the session ends.    *)
(* The analyst's note takes part in no guard and is left out.              *)
(***************************************************************************)
EXTENDS Integers, Sequences

CONSTANTS
  Sessions,     \* API sessions and the explainer's
  Requests,     \* the requests that arrive, a subset of AllRequests
  MaxRequests,  \* how many of them
  None          \* NULL

Resolutions == {"FRAUD", "LEGITIMATE"}
Statuses    == {"OPEN", "IN_REVIEW", "RESOLVED"}

\* AlertUpdate admits a resolution exactly when the status is RESOLVED.
AllRequests ==
  [kind : {"patch"}, status : {"OPEN", "IN_REVIEW"}, resolution : {None}]
    \cup [kind : {"patch"}, status : {"RESOLVED"}, resolution : Resolutions]
    \cup [kind : {"label"}, status : {None}, resolution : Resolutions]
    \cup [kind : {"explain"}, status : {None}, resolution : {None}]

Alerts == [status : Statuses, resolution : Resolutions \cup {None}, explained : BOOLEAN]

ASSUME CaseAssumption ==
  /\ Requests \subseteq AllRequests
  /\ MaxRequests \in Nat
  /\ None \notin Resolutions \cup Statuses \cup AllRequests \cup Alerts

VARIABLES
  alert,     \* the committed alert row
  label,     \* the committed label of its transaction, or None
  events,    \* the confirmed_labels.v1 outbox rows, in commit order
  pc,        \* next statement of each session
  req,       \* the request it serves
  seen,      \* the alert row it loaded
  seenLabel, \* the label row it loaded
  served,    \* requests so far
  resolving  \* and whether each of them was a resolution or an explanation

tables  == <<alert, label, events>>
session == <<pc, req, seen, seenLabel>>
history == <<served, resolving>>
vars    == <<tables, session, history>>

PCs == {"idle", "read", "flush_alert", "get_label", "flush_label", "commit", "done", "refused"}

TypeOK ==
  /\ alert \in Alerts
  /\ label \in Resolutions \cup {None}
  /\ events \in Seq(Resolutions)
  /\ pc \in [Sessions -> PCs]
  /\ req \in [Sessions -> AllRequests \cup {None}]
  /\ seen \in [Sessions -> Alerts \cup {None}]
  /\ seenLabel \in [Sessions -> Resolutions \cup {None}]
  /\ served \in 0 .. MaxRequests
  /\ resolving \in BOOLEAN

Init ==
  /\ alert = [status |-> "OPEN", resolution |-> None, explained |-> FALSE]
  /\ label = None
  /\ events = <<>>
  /\ pc = [s \in Sessions |-> "idle"]
  /\ req = [s \in Sessions |-> None]
  /\ seen = [s \in Sessions |-> None]
  /\ seenLabel = [s \in Sessions |-> None]
  /\ served = 0
  /\ resolving = TRUE

-----------------------------------------------------------------------------
(* What a session writes                                                   *)

Resolves(s) == req[s].kind = "patch" /\ req[s].status = "RESOLVED"

\* Mutant of Labels: every PATCH writes a label.
LabelsOnPatch(s) == req[s].kind \in {"patch", "label"}

Labels(s)   == Resolves(s) \/ req[s].kind = "label"

\* Mutant of SetsStatus: the column is written even if its value is unchanged.
SetsStatusAlways(s) == req[s].kind = "patch"

\* The columns it has changed since it loaded the row.
SetsStatus(s)     == req[s].kind = "patch" /\ req[s].status # seen[s].status
SetsResolution(s) == Resolves(s) /\ req[s].resolution # seen[s].resolution
Explains(s)       == req[s].kind = "explain" /\ ~seen[s].explained
SetsLabel(s)      == Labels(s) /\ req[s].resolution # seenLabel[s]

\* A resolution always sets resolved_at; a label its confirmation time.
UpdatesAlert(s) == SetsStatus(s) \/ Resolves(s) \/ Explains(s)

\* Mutant of LocksAlert: the alert is flushed with the commit, not before the
\* label is read.
LocksAlertLate(s) == pc[s] = "commit" /\ req[s].kind # "label" /\ UpdatesAlert(s)

LocksAlert(s) == /\ pc[s] \in {"get_label", "flush_label", "commit"}
                 /\ req[s].kind # "label"
                 /\ UpdatesAlert(s)
LocksLabel(s) == pc[s] = "commit" /\ Labels(s)

AlertFree(s) == \A r \in Sessions \ {s} : ~LocksAlert(r)
LabelFree(s) == \A r \in Sessions \ {s} : ~LocksLabel(r)

Goto(s, from, to) == pc[s] = from /\ pc' = [pc EXCEPT ![s] = to]

-----------------------------------------------------------------------------
(* Requests                                                                *)

Begin(s, r) ==
  /\ served < MaxRequests
  /\ Goto(s, "idle", IF r.kind = "label" THEN "get_label" ELSE "read")
  /\ req' = [req EXCEPT ![s] = r]
  /\ served' = served + 1
  /\ resolving' = (resolving /\ (r.kind = "explain" \/ r.status = "RESOLVED"))
  /\ UNCHANGED <<tables, seen, seenLabel>>

\* The guards of update_alert, on the row as it is now.
Repeats(r, row) ==
  /\ row.status = "RESOLVED"
  /\ r.status = "RESOLVED" /\ r.resolution = row.resolution

Refuses(r, row) ==
  \/ row.status = "RESOLVED" /\ ~Repeats(r, row)
  \/ row.status = "IN_REVIEW" /\ r.status = "OPEN"

\* Loading the alert; a PATCH is refused (409) or answered at once if it
\* repeats a resolution.
ReadAlert(s) ==
  /\ Goto(s, "read",
          IF req[s].kind = "explain" THEN "flush_alert"
          ELSE IF Refuses(req[s], alert) THEN "refused"
          ELSE IF Repeats(req[s], alert) THEN "done" ELSE "flush_alert")
  /\ seen' = [seen EXCEPT ![s] = alert]
  /\ UNCHANGED <<tables, req, seenLabel, history>>

\* The alert is flushed before upsert_label looks for the label row.
FlushAlert(s) ==
  /\ Goto(s, "flush_alert", IF Resolves(s) THEN "get_label" ELSE "commit")
  /\ UpdatesAlert(s) => AlertFree(s)
  /\ UNCHANGED <<tables, req, seen, seenLabel, history>>

GetLabel(s) ==
  /\ Goto(s, "get_label", "flush_label")
  /\ seenLabel' = [seenLabel EXCEPT ![s] = label]
  /\ UNCHANGED <<tables, req, seen, history>>

FlushLabel(s) ==
  /\ Goto(s, "flush_label", "commit")
  /\ LabelFree(s)
  /\ seenLabel[s] = None => label = None
  /\ UNCHANGED <<tables, req, seen, seenLabel, history>>

\* Two sessions found no label and inserted one: the second is rolled back,
\* with its alert update.
LabelTaken(s) ==
  /\ Goto(s, "flush_label", "refused")
  /\ seenLabel[s] = None /\ label # None
  /\ UNCHANGED <<tables, req, seen, seenLabel, history>>

\* Mutant of Commit: the UPDATE writes every column of the loaded row.
CommitWholeRow(s) ==
  /\ Goto(s, "commit", "done")
  /\ alert' = IF req[s].kind = "label" THEN alert
              ELSE [status     |-> IF SetsStatus(s) THEN req[s].status ELSE seen[s].status,
                    resolution |-> IF SetsResolution(s) THEN req[s].resolution
                                   ELSE seen[s].resolution,
                    explained  |-> seen[s].explained \/ Explains(s)]
  /\ label' = IF SetsLabel(s) THEN req[s].resolution ELSE label
  /\ events' = IF Labels(s) THEN Append(events, req[s].resolution) ELSE events
  /\ UNCHANGED <<req, seen, seenLabel, history>>

Commit(s) ==
  /\ Goto(s, "commit", "done")
  /\ alert' = IF req[s].kind = "label" THEN alert
              ELSE [status     |-> IF SetsStatus(s) THEN req[s].status ELSE alert.status,
                    resolution |-> IF SetsResolution(s) THEN req[s].resolution
                                   ELSE alert.resolution,
                    explained  |-> alert.explained \/ Explains(s)]
  /\ label' = IF SetsLabel(s) THEN req[s].resolution ELSE label
  /\ events' = IF Labels(s) THEN Append(events, req[s].resolution) ELSE events
  /\ UNCHANGED <<req, seen, seenLabel, history>>

\* A statement fails, or the process dies: the session rolls back.
Abort(s) ==
  /\ pc[s] \notin {"idle", "done", "refused"}
  /\ pc' = [pc EXCEPT ![s] = "refused"]
  /\ UNCHANGED <<tables, req, seen, seenLabel, history>>

Close(s) ==
  /\ pc[s] \in {"done", "refused"}
  /\ pc' = [pc EXCEPT ![s] = "idle"]
  /\ req' = [req EXCEPT ![s] = None]
  /\ seen' = [seen EXCEPT ![s] = None]
  /\ seenLabel' = [seenLabel EXCEPT ![s] = None]
  /\ UNCHANGED <<tables, history>>

Step(s) ==
  \/ ReadAlert(s) \/ FlushAlert(s) \/ GetLabel(s) \/ FlushLabel(s)
  \/ LabelTaken(s) \/ Commit(s) \/ Close(s)

Next == \E s \in Sessions : (\E r \in Requests : Begin(s, r)) \/ Step(s) \/ Abort(s)

Spec == Init /\ [][Next]_vars

-----------------------------------------------------------------------------
(* Properties                                                              *)

\* main.py:430, "an in-review alert cannot return to OPEN": nor can a resolved
\* one, however stale the row a PATCH has checked, because an unchanged status
\* is not written.
NeverReopened == [][alert.status # "OPEN" => alert'.status # "OPEN"]_vars

\* README.md:179-180, "resolution atomically writes the delayed label": while
\* the case is only resolved and explained, the alert's resolution, its
\* transaction's label and what confirmed_labels.v1 was last told agree,
\* whichever of the concurrent resolutions wins.  (A label or a review that
\* comes in meanwhile may part them.)
LabelMatchesResolution ==
  resolving =>
    /\ alert.resolution # None => label = alert.resolution
    /\ events # <<>> => label = events[Len(events)]

\* The explainer and the analysts write the same row: an explanation, once
\* there, survives every PATCH that loaded the row before it.
ExplanationIsKept == [][alert.explained => alert'.explained]_vars
=============================================================================
