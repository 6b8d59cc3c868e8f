------------------------ MODULE ExplainerLoop_proofs ------------------------
(***************************************************************************)
(* Theorems about ExplainerLoop, for any number of messages and faults.    *)
(***************************************************************************)
EXTENDS ExplainerLoop, TLAPS

\* The message has no key, has its explanation, or was tried and failed.
Settled(o) == log[o] \in explained \cup {Keyless} \/ o \in failed

\* The message in hand is the last one fetched; everything fetched before it is
\* settled, and it is settled itself once its offset is to be committed.  The
\* offset of a message in hand is committed only if it has no key.
LoopInv ==
  /\ \A o \in 1 .. position : Settled(o) \/ current = o - 1
  /\ current # NoOffset =>
       /\ current = position - 1
       /\ committed <= current \/ Key = Keyless
       /\ pc = "commit" => Settled(position)
       /\ pc = "explain" => Key # Keyless

IInv == TypeOK /\ LoopInv

\* Initially nothing has been fetched.
LEMMA InitIInv == Init => IInv
BY LoopAssumption DEF LoopAssumption, Init, IInv, TypeOK, LoopInv, Keys

\* A new message leaves the older ones where they are.
LEMMA AnnounceKeeps == ASSUME IInv, NEW k \in Keys, Announce(k) PROVE IInv'
<1> USE DEF IInv, TypeOK
<1>1. /\ log' = Append(log, k) /\ Len(log') = Len(log) + 1 /\ log' \in Seq(Keys)
      /\ \A o \in 1 .. Len(log) : log'[o] = log[o]
      /\ UNCHANGED <<committed, explained, up, loop, failed, faults>>
  BY DEF Announce
<1>2. TypeOK'
  BY <1>1, LoopAssumption DEF LoopAssumption, Announce, loop
<1>3. LoopInv'
  <2>1. \A o \in 1 .. position : Settled(o)' <=> Settled(o)
    BY <1>1 DEF Settled
  <2>2. current # NoOffset => Key' = Key /\ position \in 1 .. position
    BY <1>1, LoopAssumption DEF LoopAssumption, Key, LoopInv, loop
  <2> QED
    BY <1>1, <2>1, <2>2, LoopAssumption DEF LoopAssumption, LoopInv, loop
<1> QED
  BY <1>2, <1>3

\* Fetching the next message: the one before was settled.
LEMMA PollKeeps == ASSUME IInv, Poll PROVE IInv'
<1> USE DEF IInv, TypeOK
<1>1. /\ current = NoOffset /\ current' = position /\ position' = position + 1
      /\ position' \in 1 .. Len(log) /\ log[position'] \in Keys
      /\ pc' = Target(log[position'])
      /\ UNCHANGED <<log, committed, explained, up, failed, faults>>
  BY DEF Poll
<1>2. pc' \in {"commit", "exit", "explain"} /\ Key' = log[position']
  BY <1>1 DEF Target, Key
<1>3. /\ pc' = "commit" => Key' = Keyless
      /\ pc' = "explain" => Key' # Keyless
  BY <1>1, <1>2 DEF Target
<1>4. TypeOK'
  BY <1>1, <1>2, LoopAssumption DEF LoopAssumption
<1>5. \A o \in 1 .. position : Settled(o)'
  BY <1>1, LoopAssumption DEF LoopAssumption, LoopInv, Settled
<1>6. pc' = "commit" => Settled(position)'
  BY <1>1, <1>2, <1>3 DEF Settled
<1> QED
  BY <1>1, <1>3, <1>4, <1>5, <1>6 DEF LoopInv

\* What the loop does with the message in hand.
LEMMA MessageKeeps ==
  ASSUME IInv, Explain \/ AttemptFails \/ CommitOffset \/ CommitOffsetFails
  PROVE  IInv'
<1> USE DEF IInv, TypeOK
<1>1. /\ current # NoOffset /\ current \in Nat /\ current = position - 1
      /\ position \in 1 .. Len(log) /\ Key = log[position]
  BY LoopAssumption DEF LoopAssumption, LoopInv, Explain, AttemptFails, CommitOffset,
                        CommitOffsetFails, Key
<1>2. CASE Explain
  <2>1. Settled(position)' /\ \A o \in 1 .. position : Settled(o) => Settled(o)'
    BY <1>1, <1>2 DEF Explain, Settled
  <2> QED
    BY <1>1, <1>2, <2>1 DEF Explain, LoopInv, Key
<1>3. CASE AttemptFails
  <2>1. Settled(position)' /\ \A o \in 1 .. position : Settled(o) => Settled(o)'
    BY <1>1, <1>3 DEF AttemptFails, Settled
  <2>2. faults' \in 0 .. MaxFaults
    BY <1>3, LoopAssumption DEF LoopAssumption, AttemptFails, Fault
  <2> QED
    BY <1>1, <1>3, <2>1, <2>2 DEF AttemptFails, NextMessage, LoopInv
<1>4. CASE CommitOffset
  <2>1. \A o \in 1 .. position : Settled(o)'
    BY <1>1, <1>4 DEF CommitOffset, LoopInv, Settled
  <2> QED
    BY <1>1, <1>4, <2>1 DEF CommitOffset, NextMessage, LoopInv
<1>5. CASE CommitOffsetFails
  <2>1. \A o \in 1 .. position : Settled(o)'
    BY <1>1, <1>5 DEF CommitOffsetFails, LoopInv, Settled
  <2>2. faults' \in 0 .. MaxFaults /\ committed' \in Nat /\ committed' <= position
    BY <1>1, <1>5, LoopAssumption DEF LoopAssumption, CommitOffsetFails, Fault
  <2>3. CASE Key = Keyless
    BY <1>1, <1>5, <2>1, <2>2, <2>3 DEF CommitOffsetFails, LoopInv, Key
  <2>4. CASE Key # Keyless
    BY <1>1, <1>5, <2>1, <2>2, <2>4 DEF CommitOffsetFails, NextMessage, LoopInv
  <2> QED
    BY <2>3, <2>4
<1> QED
  BY <1>2, <1>3, <1>4, <1>5

\* What is committed is settled.
LEMMA CommittedIsSettled == IInv => CommittedIsTried
<1> SUFFICES ASSUME IInv, NEW o \in 1 .. committed PROVE Settled(o)
  BY DEF CommittedIsTried, Settled
<1>1. o \in 1 .. position
  BY DEF IInv, TypeOK
<1>2. CASE current = o - 1
  <2>1. current # NoOffset /\ current \in Nat
    BY <1>1, <1>2, LoopAssumption DEF LoopAssumption
  <2>2. Key = log[o] /\ ~(committed <= current)
    BY <1>1, <1>2 DEF Key, IInv, TypeOK
  <2> QED
    BY <2>1, <2>2 DEF IInv, LoopInv, Settled
<1> QED
  BY <1>1, <1>2 DEF IInv, LoopInv

\* A process that goes down forgets what it fetched beyond the committed offset.
LEMMA DownKeeps == ASSUME IInv, Down, faults' \in 0 .. MaxFaults PROVE IInv'
<1>1. TypeOK'
  <2>1. /\ position' = committed /\ current' = NoOffset /\ pc' = "poll" /\ up' = FALSE
        /\ UNCHANGED <<log, committed, explained, failed>>
    BY DEF Down, NextMessage
  <2>2. log' \in Seq(Keys) /\ Len(log') <= MaxMessages /\ explained' \subseteq Alerts
    BY <2>1 DEF IInv, TypeOK
  <2>3. /\ committed' \in Nat /\ position' \in Nat
        /\ committed' <= position' /\ position' <= Len(log')
    BY <2>1 DEF IInv, TypeOK
  <2>4. failed' \subseteq 1 .. Len(log')
    BY <2>1 DEF IInv, TypeOK
  <2> QED
    BY <2>1, <2>2, <2>3, <2>4 DEF TypeOK
<1>2. \A o \in 1 .. position' : Settled(o)'
  BY CommittedIsSettled DEF CommittedIsTried, Settled, Down
<1> QED
  BY <1>1, <1>2 DEF IInv, LoopInv, Down, NextMessage

LEMMA Invariance == Spec => []IInv
<1>1. IInv /\ [Next]_vars => IInv'
  <2> SUFFICES ASSUME IInv, [Next]_vars PROVE IInv'
    OBVIOUS
  <2>1. ASSUME NEW k \in Keys, Announce(k) PROVE IInv'
    BY <2>1, AnnounceKeeps
  <2>2. CASE Poll
    BY <2>2, PollKeeps
  <2>3. CASE Explain \/ AttemptFails \/ CommitOffset \/ CommitOffsetFails
    BY <2>3, MessageKeeps
  <2>4. CASE Crash \/ Stop \/ Exit
    <3>1. faults' \in 0 .. MaxFaults
      BY <2>4, LoopAssumption DEF LoopAssumption, IInv, TypeOK, Crash, Stop, Exit, Fault
    <3> QED
      BY <2>4, <3>1, DownKeeps DEF Crash, Stop, Exit
  <2>5. CASE Restart
    BY <2>5 DEF IInv, TypeOK, LoopInv, Settled, Key, Restart, loop
  <2>6. CASE UNCHANGED vars
    BY <2>6 DEF IInv, TypeOK, LoopInv, Settled, Key, vars, loop
  <2> QED
    BY <2>1, <2>2, <2>3, <2>4, <2>5, <2>6 DEF Next, Loop
<1> QED
  BY InitIInv, <1>1, PTL DEF Spec

-----------------------------------------------------------------------------
(* The theorems                                                            *)

\* In every reachable state the loop's variables are well-typed, and the
\* committed offset is not beyond what was fetched.
THEOREM TypeCorrect == Spec => []TypeOK
BY Invariance, PTL DEF IInv

\* The explainer commits the offset of no message it has not tried, through any
\* number of crashes, stops and failed commits (explainer.py:53-98).
THEOREM NothingIsPassedOver == Spec => []CommittedIsTried
BY Invariance, CommittedIsSettled, PTL
=============================================================================
