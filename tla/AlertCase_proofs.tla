-------------------------- MODULE AlertCase_proofs --------------------------
(***************************************************************************)
(* Theorems about AlertCase, for any number of sessions and requests.      *)
(***************************************************************************)
EXTENDS AlertCase, TLAPS

\* The states of a session that has passed the guards of its handler.
Passed == {"flush_alert", "get_label", "flush_label", "commit"}

\* A session that serves a request knows which; one that is past the guards of
\* update_alert has loaded a row, and if it is asked to reopen the alert, then
\* that row was open: there is nothing to write.
SessionInv(s) ==
  /\ pc[s] # "idle" => req[s] \in AllRequests
  /\ pc[s] \in Passed /\ req[s].kind = "patch" =>
       /\ seen[s] \in Alerts
       /\ req[s].status = "OPEN" => seen[s].status = "OPEN"

IInv == TypeOK /\ \A s \in Sessions : SessionInv(s)

\* The kinds of requests and what they carry.
LEMMA RequestKinds ==
  ASSUME NEW r \in AllRequests
  PROVE  /\ r.kind \in {"patch", "label", "explain"}
         /\ r.kind = "patch" => r.status \in Statuses
         /\ r.kind = "label" => r.resolution \in Resolutions
         /\ r.kind = "patch" /\ r.status = "RESOLVED" => r.resolution \in Resolutions
BY DEF AllRequests, Statuses

\* Initially the alert is open and no session is at work.
LEMMA InitIInv == Init => IInv
<1> SUFFICES ASSUME Init PROVE IInv
  OBVIOUS
<1>1. TypeOK
  BY CaseAssumption DEF CaseAssumption, Init, TypeOK, Alerts, Statuses, PCs
<1>2. \A s \in Sessions : SessionInv(s)
  BY DEF Init, SessionInv, Passed
<1> QED
  BY <1>1, <1>2 DEF IInv

\* The commit of a session writes values of the columns' types.
LEMMA CommitTypes ==
  ASSUME IInv, NEW s \in Sessions, Commit(s)
  PROVE  TypeOK' /\ (alert.status # "OPEN" => alert'.status # "OPEN")
<1>1. req[s] \in AllRequests /\ pc[s] = "commit"
  BY DEF IInv, TypeOK, SessionInv, Commit, Goto
<1>2. alert' \in Alerts
  BY <1>1, RequestKinds DEF IInv, TypeOK, Commit, Alerts, SetsStatus, SetsResolution, Resolves, Explains, Statuses
<1>3. Labels(s) => req[s].resolution \in Resolutions
  BY <1>1, RequestKinds DEF Labels, Resolves
<1>4. label' \in Resolutions \cup {None} /\ events' \in Seq(Resolutions)
  BY <1>3 DEF IInv, TypeOK, Commit, SetsLabel
<1>5. pc' \in [Sessions -> PCs]
  BY DEF IInv, TypeOK, Commit, Goto, PCs
<1>6. TypeOK'
  BY <1>2, <1>4, <1>5 DEF IInv, TypeOK, Commit, history
<1>7. ASSUME alert.status # "OPEN", alert'.status = "OPEN" PROVE FALSE
  <2>1. req[s].kind # "label" /\ SetsStatus(s) /\ req[s].status = "OPEN"
    BY <1>7 DEF Commit
  <2> QED
    BY <1>1, <2>1 DEF IInv, SessionInv, Passed, SetsStatus
<1> QED
  BY <1>6, <1>7

\* Every step keeps the types.
LEMMA StepTypes == IInv /\ [Next]_vars => TypeOK'
<1> SUFFICES ASSUME IInv, [Next]_vars PROVE TypeOK'
  OBVIOUS
<1> USE DEF IInv, TypeOK
<1>1. ASSUME NEW s \in Sessions, NEW r \in Requests, Begin(s, r) PROVE TypeOK'
  <2>1. r \in AllRequests
    BY CaseAssumption DEF CaseAssumption
  <2> QED
    BY <1>1, <2>1, CaseAssumption DEF CaseAssumption, Begin, Goto, PCs, tables, history
<1>2. ASSUME NEW s \in Sessions, ReadAlert(s) PROVE TypeOK'
  BY <1>2 DEF ReadAlert, Goto, PCs, tables, history
<1>3. ASSUME NEW s \in Sessions, FlushAlert(s) PROVE TypeOK'
  BY <1>3 DEF FlushAlert, Goto, PCs, tables, history
<1>4. ASSUME NEW s \in Sessions, GetLabel(s) PROVE TypeOK'
  BY <1>4 DEF GetLabel, Goto, PCs, tables, history
<1>5. ASSUME NEW s \in Sessions, FlushLabel(s) \/ LabelTaken(s) PROVE TypeOK'
  BY <1>5 DEF FlushLabel, LabelTaken, Goto, PCs, tables, history
<1>6. ASSUME NEW s \in Sessions, Commit(s) PROVE TypeOK'
  BY <1>6, CommitTypes
<1>7. ASSUME NEW s \in Sessions, Abort(s) \/ Close(s) PROVE TypeOK'
  BY <1>7 DEF Abort, Close, PCs, tables, history
<1>8. CASE UNCHANGED vars
  BY <1>8 DEF vars, tables, session, history
<1> QED
  BY <1>1, <1>2, <1>3, <1>4, <1>5, <1>6, <1>7, <1>8 DEF Next, Step

\* Every step keeps what the sessions know: it is about themselves only.
LEMMA StepSessions == IInv /\ [Next]_vars => \A s \in Sessions : SessionInv(s)'
<1> SUFFICES ASSUME IInv, [Next]_vars, NEW s \in Sessions PROVE SessionInv(s)'
  OBVIOUS
<1> USE DEF IInv, TypeOK, SessionInv, Passed
<1>1. ASSUME NEW t \in Sessions, NEW r \in Requests, Begin(t, r) PROVE SessionInv(s)'
  <2>1. r \in AllRequests
    BY CaseAssumption DEF CaseAssumption
  <2> QED
    BY <1>1, <2>1, RequestKinds DEF Begin, Goto
<1>2. ASSUME NEW t \in Sessions, ReadAlert(t) PROVE SessionInv(s)'
  <2>1. req[t].kind = "patch" /\ pc'[t] \in Passed /\ req[t].status = "OPEN" =>
          alert.status = "OPEN"
    BY <1>2 DEF ReadAlert, Goto, Refuses, Repeats, Alerts, Statuses
  <2> QED
    BY <1>2, <2>1 DEF ReadAlert, Goto
<1>3. ASSUME NEW t \in Sessions, FlushAlert(t) PROVE SessionInv(s)'
  BY <1>3 DEF FlushAlert, Goto
<1>4. ASSUME NEW t \in Sessions, GetLabel(t) PROVE SessionInv(s)'
  BY <1>4 DEF GetLabel, Goto
<1>5. ASSUME NEW t \in Sessions, FlushLabel(t) \/ LabelTaken(t) PROVE SessionInv(s)'
  BY <1>5 DEF FlushLabel, LabelTaken, Goto
<1>6. ASSUME NEW t \in Sessions, Commit(t) PROVE SessionInv(s)'
  BY <1>6 DEF Commit, Goto
<1>7. ASSUME NEW t \in Sessions, Abort(t) \/ Close(t) PROVE SessionInv(s)'
  BY <1>7 DEF Abort, Close
<1>8. CASE UNCHANGED vars
  BY <1>8 DEF vars, tables, session, history
<1> QED
  BY <1>1, <1>2, <1>3, <1>4, <1>5, <1>6, <1>7, <1>8 DEF Next, Step

LEMMA Invariance == Spec => []IInv
<1>1. IInv /\ [Next]_vars => IInv'
  BY StepTypes, StepSessions DEF IInv
<1> QED
  BY InitIInv, <1>1, PTL DEF Spec

-----------------------------------------------------------------------------
(* The theorems                                                            *)

\* In every reachable state the rows and the sessions are well-typed.
THEOREM TypeCorrect == Spec => []TypeOK
BY Invariance, PTL DEF IInv

\* However stale the row that a PATCH was checked against (update_alert), an
\* alert that has left OPEN never returns to it.
THEOREM AlertsAreNotReopened == Spec => NeverReopened
<1>1. IInv /\ [Next]_vars => [alert.status # "OPEN" => alert'.status # "OPEN"]_vars
  <2> SUFFICES ASSUME IInv, Next PROVE alert.status # "OPEN" => alert'.status # "OPEN"
    OBVIOUS
  <2>1. CASE \E s \in Sessions : Commit(s)
    BY <2>1, CommitTypes
  <2>2. CASE ~\E s \in Sessions : Commit(s)
    BY <2>2 DEF Next, Step, Begin, ReadAlert, FlushAlert, GetLabel, FlushLabel,
                LabelTaken, Abort, Close, tables
  <2> QED
    BY <2>1, <2>2
<1> QED
  BY <1>1, Invariance, PTL DEF Spec, NeverReopened

\* No PATCH, and no second explanation, takes an explanation away: the UPDATE
\* names changed columns only.
THEOREM ExplanationsAreKept == Spec => ExplanationIsKept
<1>1. [Next]_vars => [alert.explained => alert'.explained]_vars
  <2> SUFFICES ASSUME Next PROVE alert.explained => alert'.explained
    OBVIOUS
  <2>1. ASSUME NEW s \in Sessions, Commit(s) PROVE alert.explained => alert'.explained
    BY <2>1 DEF Commit
  <2>2. CASE ~\E s \in Sessions : Commit(s)
    BY <2>2 DEF Next, Step, Begin, ReadAlert, FlushAlert, GetLabel, FlushLabel,
                LabelTaken, Abort, Close, tables
  <2> QED
    BY <2>1, <2>2
<1> QED
  BY <1>1, PTL DEF Spec, ExplanationIsKept

-----------------------------------------------------------------------------
(* Resolutions and labels, while no other request has arrived              *)

\* The sessions that hold the alert's row lock on the way to a label.
Holders == {s \in Sessions : req[s].kind = "patch" /\ pc[s] \in {"get_label", "flush_label", "commit"}}

\* A resolving session that has passed the guards found the alert unresolved;
\* once it has the row lock, the label it has read cannot change any more.
ResolverInv(s) ==
  /\ pc[s] # "idle" => req[s].kind = "explain" \/ Resolves(s)
  /\ pc[s] \in Passed /\ req[s].kind = "patch" =>
       seen[s].status # "RESOLVED" /\ seen[s].resolution = None
  /\ pc[s] \in {"get_label", "flush_label"} => req[s].kind = "patch"
  /\ s \in Holders /\ pc[s] # "get_label" => seenLabel[s] = label

Agree ==
  /\ alert.resolution # None => label = alert.resolution
  /\ events # <<>> => label = events[Len(events)]

LabelInv ==
  /\ alert.status # "RESOLVED" => alert.resolution = None
  /\ \A r, s \in Holders : r = s
  /\ \A s \in Sessions : ResolverInv(s)
  /\ Agree

\* A session that commits a resolution writes alert, label and event alike.
LEMMA CommitLabels ==
  ASSUME IInv, LabelInv, NEW t \in Sessions, Commit(t)
  PROVE  LabelInv'
<1> USE DEF IInv, TypeOK
<1>1. /\ pc[t] = "commit" /\ req[t] \in AllRequests /\ pc' = [pc EXCEPT ![t] = "done"]
      /\ UNCHANGED <<req, seen, seenLabel>>
  BY DEF SessionInv, Commit, Goto
<1>2. req[t].kind \in {"patch", "explain"} /\ (req[t].kind = "patch" => Resolves(t))
  BY <1>1 DEF LabelInv, ResolverInv, Resolves
<1>3. Holders' = Holders \ {t}
  BY <1>1 DEF Holders
<1>4. CASE req[t].kind = "explain"
  <2>1. /\ alert'.status = alert.status /\ alert'.resolution = alert.resolution
        /\ label' = label /\ events' = events
    BY <1>4 DEF Commit, SetsStatus, SetsResolution, SetsLabel, Labels, Resolves
  <2>2. ASSUME NEW s \in Sessions PROVE ResolverInv(s)'
    BY <1>1, <1>3, <2>1 DEF LabelInv, ResolverInv, Resolves, Passed
  <2> QED
    BY <1>3, <2>1, <2>2 DEF LabelInv, Agree
<1>5. CASE req[t].kind = "patch"
  <2>1. /\ t \in Holders /\ seenLabel[t] = label
        /\ seen[t].status # "RESOLVED" /\ seen[t].resolution = None
    BY <1>1, <1>5 DEF LabelInv, ResolverInv, Holders, Passed
  <2>2. req[t].status = "RESOLVED" /\ req[t].resolution \in Resolutions
    BY <1>1, <1>2, <1>5, RequestKinds DEF Resolves
  <2>3. SetsStatus(t) /\ SetsResolution(t) /\ Labels(t)
    BY <1>2, <1>5, <2>1, <2>2, CaseAssumption
    DEF CaseAssumption, SetsResolution, SetsStatus, Labels
  <2>4. alert'.status = "RESOLVED" /\ alert'.resolution = req[t].resolution
    BY <1>5, <2>2, <2>3 DEF Commit
  <2>5. label' = req[t].resolution
    BY <2>1, <2>3 DEF Commit, SetsLabel
  <2>6. events' # <<>> /\ events'[Len(events')] = req[t].resolution
    BY <2>2, <2>3 DEF Commit
  <2>7. Holders' = {}
    BY <1>3, <2>1 DEF LabelInv
  <2>8. ASSUME NEW s \in Sessions PROVE ResolverInv(s)'
    BY <1>1, <2>7 DEF LabelInv, ResolverInv, Resolves, Passed
  <2> QED
    BY <2>4, <2>5, <2>6, <2>7, <2>8 DEF LabelInv, Agree
<1> QED
  BY <1>2, <1>4, <1>5

\* So does every other step, which leaves the rows alone: the lock admits one
\* session at a time to the label.
LEMMA StepLabelInv ==
  ASSUME IInv, LabelInv, [Next]_vars, resolving'
  PROVE  LabelInv'
<1> USE DEF IInv, TypeOK
<1>1. CASE \E t \in Sessions : Commit(t)
  BY <1>1, CommitLabels
<1>2. CASE ~\E t \in Sessions : Commit(t)
  <2>1. UNCHANGED tables
    BY <1>2 DEF Next, Step, Begin, ReadAlert, FlushAlert, GetLabel, FlushLabel,
                LabelTaken, Abort, Close, vars, tables
  <2>2. (\A r, s \in Holders : r = s)' /\ (\A s \in Sessions : ResolverInv(s)')
    <3> SUFFICES ASSUME NEW r \in Sessions, NEW s \in Sessions
                 PROVE  /\ r \in Holders' /\ s \in Holders' => r = s
                        /\ ResolverInv(s)'
      BY DEF Holders
    <3> USE <2>1 DEF LabelInv, ResolverInv, Holders, Resolves, Passed, tables
    <3>1. ASSUME NEW t \in Sessions, NEW q \in Requests, Begin(t, q)
          PROVE  (r \in Holders' /\ s \in Holders' => r = s) /\ ResolverInv(s)'
      <4>1. q \in AllRequests /\ q.kind # "label" /\ (q.kind = "explain" \/ q.status = "RESOLVED")
        <5>1. q \in AllRequests /\ (q.kind = "explain" \/ q.status = "RESOLVED")
          BY <3>1, CaseAssumption DEF CaseAssumption, Begin
        <5>2. q.kind = "label" => q.status = None
          BY <5>1 DEF AllRequests
        <5>3. None # "RESOLVED"
          BY CaseAssumption DEF CaseAssumption, Statuses
        <5> QED
          BY <5>1, <5>2, <5>3
      <4> QED
        BY <3>1, <4>1, RequestKinds DEF Begin, Goto
    <3>2. ASSUME NEW t \in Sessions, ReadAlert(t)
          PROVE  (r \in Holders' /\ s \in Holders' => r = s) /\ ResolverInv(s)'
      <4>1. pc'[t] = "flush_alert" /\ req[t].kind = "patch" =>
              alert.status # "RESOLVED" /\ alert.resolution = None
        BY <3>2 DEF ReadAlert, Goto, Refuses
      <4> QED
        BY <3>2, <4>1 DEF ReadAlert, Goto
    <3>3. ASSUME NEW t \in Sessions, FlushAlert(t)
          PROVE  (r \in Holders' /\ s \in Holders' => r = s) /\ ResolverInv(s)'
      <4>1. Resolves(t) => \A u \in Sessions \ {t} : u \notin Holders
        BY <3>3 DEF FlushAlert, UpdatesAlert, AlertFree, LocksAlert
      <4> QED
        BY <3>3, <4>1 DEF FlushAlert, Goto
    <3>4. ASSUME NEW t \in Sessions, GetLabel(t)
          PROVE  (r \in Holders' /\ s \in Holders' => r = s) /\ ResolverInv(s)'
      BY <3>4 DEF GetLabel, Goto
    <3>5. ASSUME NEW t \in Sessions, FlushLabel(t) \/ LabelTaken(t)
          PROVE  (r \in Holders' /\ s \in Holders' => r = s) /\ ResolverInv(s)'
      BY <3>5 DEF FlushLabel, LabelTaken, Goto
    <3>6. ASSUME NEW t \in Sessions, Abort(t) \/ Close(t)
          PROVE  (r \in Holders' /\ s \in Holders' => r = s) /\ ResolverInv(s)'
      BY <3>6 DEF Abort, Close
    <3>7. CASE UNCHANGED vars
      BY <3>7 DEF vars, session, history
    <3> QED
      BY <1>2, <3>1, <3>2, <3>3, <3>4, <3>5, <3>6, <3>7 DEF Next, Step
  <2> QED
    BY <2>1, <2>2 DEF LabelInv, Agree, tables
<1> QED
  BY <1>1, <1>2

\* While an alert is only resolved and explained, its resolution, the label of
\* its transaction and the last label event agree, for any number of analysts
\* who resolve it at once (update_alert, upsert_label).
THEOREM ResolutionsAndLabelsAgree == Spec => []LabelMatchesResolution
<1>1. Init => LabelInv
  BY DEF Init, LabelInv, Holders, ResolverInv, Passed, Agree
<1>2. IInv /\ (resolving => LabelInv) /\ [Next]_vars => (resolving' => LabelInv')
  <2>1. [Next]_vars /\ resolving' => resolving
    BY DEF Next, Step, Begin, ReadAlert, FlushAlert, GetLabel, FlushLabel, LabelTaken,
           Commit, Abort, Close, vars, history
  <2> QED
    BY <2>1, StepLabelInv
<1>3. (resolving => LabelInv) => LabelMatchesResolution
  BY DEF LabelInv, Agree, LabelMatchesResolution
<1> QED
  BY <1>1, <1>2, <1>3, Invariance, PTL DEF Spec
=============================================================================
