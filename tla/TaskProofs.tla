----------------------------- MODULE TaskProofs -----------------------------
(***************************************************************************)
(* The proofs about what runs in the background.                           *)
(*                                                                         *)
(* Sagas of any number of steps, whatever steps, compensations and inserts *)
(* fail and wherever the process stops: a saga that returns has applied    *)
(* every step or compensated what it had applied, and the table claims     *)
(* nothing that did not happen.                                            *)
(*                                                                         *)
(* The lock, for any number of clients and failed commands and any lease:  *)
(* it is only taken from a client in its closure by the expiry of the key, *)
(* and with refreshes that come in time closures never overlap.            *)
(*                                                                         *)
(* The worker, for any jobs and any concurrency: it gives every permit     *)
(* back and returns only when nothing is waiting or in flight; and, for    *)
(* any number of workers, the totals of the load test add up.              *)
(*                                                                         *)
(* Cron, for any expression and any setting of the wall clock: its task    *)
(* runs only for the minutes it should, and again for one only after the   *)
(* clock was set back.                                                     *)
(***************************************************************************)
EXTENDS PersistentSaga, DistributedLock, Worker, LoadTest, Scheduler, InductionLemmas,
        FiniteSetTheorems, SequenceTheorems, TLAPS

-----------------------------------------------------------------------------
(* The saga alone *)

\* How far the effects have come, in each phase.
Forward ==
    /\ failed_step = 0 /\ errors = {}
    /\ \A i \in Steps : effect[i] = IF i <= completed THEN "applied" ELSE "none"

Backward ==
    /\ failed_step = completed + 1 /\ comp <= completed
    /\ \A i \in Steps :
         /\ i > completed => effect[i] = "none" /\ i \notin errors
         /\ i <= comp => effect[i] = "applied" /\ i \notin errors
         /\ comp < i /\ i <= completed =>
              effect[i] \in {"applied", "undone"} /\ (effect[i] = "applied" <=> i \in errors)

\* The inductive invariant of Saga: `failed_step` tells the two phases apart, in
\* a saga that has ended or crashed too.
SagaInv ==
    /\ SagaTypeOK
    /\ Forward \/ Backward
    /\ pc = "forward" => Forward
    /\ pc = "compensate" => Backward
    /\ pc = "ended" => (Forward /\ completed = N) \/ (Backward /\ comp = 0)

LEMMA SagaInvInit == SagaInit => SagaInv
BY NAssumption DEF SagaInit, SagaInv, SagaTypeOK, Steps, Attempts, Forward

LEMMA SagaInvStep == SagaInv /\ [SagaNext]_sagaVars => SagaInv'
<1> SUFFICES ASSUME SagaInv, [SagaNext]_sagaVars PROVE SagaInv'
  OBVIOUS
<1> USE NAssumption DEF SagaInv, SagaTypeOK, Steps, Attempts, Forward, Backward
<1>1. CASE StepOk
  BY <1>1 DEF StepOk
<1>2. CASE StepErr
  BY <1>2 DEF StepErr
<1>3. CASE CompensateOk
  BY <1>3 DEF CompensateOk
<1>4. CASE CompensateErr
  <2>1. Backward /\ pc' = "compensate" /\ UNCHANGED <<completed, failed_step, effect>>
    BY <1>4 DEF CompensateErr
  <2>3. CASE LastAttempt
    <3>1. errors' = errors \cup {comp} /\ comp' = comp - 1 /\ retry' = 0 /\ comp > 0
      BY <1>4, <2>3 DEF CompensateErr
    <3>2. SagaTypeOK'
      BY <2>1, <3>1
    <3> QED BY <2>1, <3>1, <3>2
  <2>4. CASE ~LastAttempt
    <3>1. retry' = retry + 1 /\ retry # 2 /\ UNCHANGED <<comp, errors>>
      BY <1>4, <2>4 DEF CompensateErr, LastAttempt
    <3>2. SagaTypeOK'
      BY <2>1, <3>1
    <3> QED BY <2>1, <3>1, <3>2
  <2> QED BY <2>3, <2>4
<1>5. CASE Return
  BY <1>5 DEF Return
<1>6. CASE Crash
  BY <1>6 DEF Crash
<1>7. CASE UNCHANGED sagaVars
  BY <1>7 DEF sagaVars
<1> QED
  BY <1>1, <1>2, <1>3, <1>4, <1>5, <1>6, <1>7 DEF SagaNext

LEMMA SagaInvMeans == SagaInv => AllOrCompensated
BY NAssumption DEF SagaInv, SagaTypeOK, Steps, Forward, Backward, AllOrCompensated

\* The plain saga's state is well typed.
THEOREM SagaTypeCorrect == SagaSpec => []SagaTypeOK
<1>1. SagaInv => SagaTypeOK
  BY DEF SagaInv
<1> QED BY <1>1, SagaInvInit, SagaInvStep, PTL DEF SagaSpec

\* "If any step fails, all previously completed steps are compensated": for any
\* number of steps, whichever of them and of their compensations fail.
THEOREM SagaAllOrCompensated == SagaSpec => []AllOrCompensated
BY SagaInvInit, SagaInvStep, SagaInvMeans, PTL DEF SagaSpec

-----------------------------------------------------------------------------
(* The persistent saga implements the saga *)

\* A step of the persistent saga is one of the saga, or an insert.
LEMMA PersistStepIsSagaStep == PersistNext => [SagaNext]_sagaVars
BY DEF PersistNext, Progress, Persist, PStepOk, PStepErr, PCompensateOk,
       PCompensateErr, PReturn, PCrash, SagaNext

\* PersistentSaga::execute runs and compensates the steps as Saga::execute does:
\* what it persists in between changes nothing of it.
THEOREM PersistentSagaIsASaga == PersistSafety => SagaSpec
<1>1. PersistInit => SagaInit
  BY DEF PersistInit
<1>2. [PersistNext]_persistVars => [SagaNext]_sagaVars
  BY PersistStepIsSagaStep DEF persistVars
<1> QED BY <1>1, <1>2, PTL DEF PersistSafety, SagaSpec

-----------------------------------------------------------------------------
(* What the table says *)

\* What a row claims about the saga as it is now.
Holds(r) ==
    /\ r.step \in Steps /\ r.state = "completed" => effect[r.step] # "none"
    /\ r.step \in Steps /\ r.state = "compensated" => effect[r.step] = "undone"
    /\ r.step = Whole /\ r.state = "completed" => failed_step = 0 /\ completed = N
    /\ r.step = Whole /\ r.state = "failed" => failed_step # 0 /\ comp = 0

\* What a restart concludes from row r when it is the latest one.
Tells(r) ==
    r.step # Whole =>
      /\ r.state = "running" => \A k \in Steps :
           (k < r.step => effect[k] = "applied") /\ (k > r.step => effect[k] = "none")
      /\ r.state = "completed" => \A k \in Steps :
           (k <= r.step => effect[k] = "applied") /\ (k > r.step => effect[k] = "none")
      /\ r.state = "failed" => \A k \in Steps :
           (k < r.step => effect[k] = "applied") /\ (k >= r.step => effect[k] = "none")
      /\ r.state \in {"compensated", "compensating"} => \A k \in Steps :
           /\ k < r.step - 1 => effect[k] = "applied"
           /\ k > r.step - 1 => effect[k] # "applied" \/ k \in errors

\* The last row of all those written and still to write, when none is lost.
Position(r) ==
    IF failed_step = 0 THEN r = Announce(completed + 1)
    ELSE IF comp = 0 THEN r = Rec(Whole, "failed")
    ELSE IF comp = completed THEN r = Rec(Whole, "compensating")
    ELSE r \in {Rec(comp + 1, "compensated"), Rec(comp + 1, "compensating")}

\* The inductive invariant of PersistentSaga.
PersistInv ==
    /\ SagaInv
    /\ PersistTypeOK
    /\ \A n \in 1..Len(records) : Holds(records[n])
    /\ \A n \in 1..Len(todo) : Holds(todo[n]) /\ Tells(todo[n])
    /\ ~lost => /\ Tells(LatestRecord)
                /\ Position(IF todo = <<>> THEN LatestRecord ELSE todo[Len(todo)])

\* The rows the code writes are rows of the table.
LEMMA RowsTyped ==
    /\ \A i \in Nat \ {0} : Announce(i) \in Records
    /\ \A i \in 0..N, st \in {"running", "compensating", "completed", "failed", "compensated"} :
         Rec(i, st) \in Records
BY NAssumption DEF Announce, Rec, Records, Steps, Whole

\* The sequences of rows that the code writes after a step.
LEMMA Rows1 == ASSUME NEW a \in Records
               PROVE <<a>> \in Seq(Records) /\ Len(<<a>>) = 1 /\ <<a>>[1] = a /\ <<a>> # <<>>
OBVIOUS

LEMMA Rows2 == ASSUME NEW a \in Records, NEW b \in Records
               PROVE /\ <<a, b>> \in Seq(Records) /\ Len(<<a, b>>) = 2 /\ <<a, b>> # <<>>
                     /\ <<a, b>>[1] = a /\ <<a, b>>[2] = b
OBVIOUS

LEMMA Rows3 == ASSUME NEW a \in Records, NEW b \in Records, NEW c \in Records
               PROVE LET t == <<a, b, c>>
                     IN  t \in Seq(Records) /\ Len(t) = 3 /\ t # <<>> /\ t[1] = a /\ t[2] = b /\ t[3] = c
OBVIOUS

LEMMA RowsConcat ==
    ASSUME NEW a \in Records, NEW b \in Records, NEW c \in Records
    PROVE  /\ <<a>> \o <<b>> = <<a, b>> /\ <<a, b>> \o <<c>> = <<a, b, c>>
           /\ <<a>> \o <<>> = <<a>> /\ <<a, b>> \o <<>> = <<a, b>>
<1>1. <<a>> \o <<b>> = <<a, b>>
  <2> DEFINE u == <<a>>
             v == <<b>>
             s == u \o v
             t == <<a, b>>
  <2>1. u \in Seq(Records) /\ v \in Seq(Records) /\ Len(u) = 1 /\ Len(v) = 1 /\ u[1] = a /\ v[1] = b
    OBVIOUS
  <2>2. t \in Seq(Records) /\ Len(t) = 2 /\ t[1] = a /\ t[2] = b
    OBVIOUS
  <2> HIDE DEF u, v, t
  <2>3. s \in Seq(Records) /\ Len(s) = 2 /\ s[1] = a /\ s[2] = b
    <3>1. s \in Seq(Records)
      BY <2>1, ConcatProperties
    <3>2. Len(s) = Len(u) + Len(v)
      BY <2>1, ConcatProperties
    <3>3. \A i \in 1 .. Len(u) + Len(v) : s[i] = IF i <= Len(u) THEN u[i] ELSE v[i - Len(u)]
      BY <2>1, ConcatProperties
    <3> HIDE DEF s
    <3> QED BY <2>1, <3>1, <3>2, <3>3
  <2> HIDE DEF s
  <2>4. s = t
    BY <2>2, <2>3, SeqEqual
  <2> QED BY <2>4 DEF s, t, u, v
<1>2. <<a, b>> \o <<c>> = <<a, b, c>>
  <2> DEFINE u == <<a, b>>
             v == <<c>>
             s == u \o v
             t == <<a, b, c>>
  <2>1. /\ u \in Seq(Records) /\ v \in Seq(Records) /\ Len(u) = 2 /\ Len(v) = 1
        /\ u[1] = a /\ u[2] = b /\ v[1] = c
    OBVIOUS
  <2>2. t \in Seq(Records) /\ Len(t) = 3 /\ t[1] = a /\ t[2] = b /\ t[3] = c
    OBVIOUS
  <2> HIDE DEF u, v, t
  <2>3. s \in Seq(Records) /\ Len(s) = 3 /\ s[1] = a /\ s[2] = b /\ s[3] = c
    <3>1. /\ s \in Seq(Records) /\ Len(s) = Len(u) + Len(v)
          /\ \A i \in 1..Len(u) + Len(v) : s[i] = IF i <= Len(u) THEN u[i] ELSE v[i - Len(u)]
      BY <2>1, ConcatProperties
    <3> HIDE DEF s
    <3>2. s[3] = v[1]
      BY <2>1, <3>1
    <3> QED BY <2>1, <3>1, <3>2
  <2> HIDE DEF s
  <2>4. s = t
    BY <2>2, <2>3, SeqEqual
  <2> QED BY <2>4 DEF s, t, u, v
<1>3. <<a>> \o <<>> = <<a>> /\ <<a, b>> \o <<>> = <<a, b>>
  OBVIOUS
<1> QED BY <1>1, <1>2, <1>3

LEMMA PersistInvInit == PersistInit => PersistInv
<1> SUFFICES ASSUME PersistInit PROVE PersistInv
  OBVIOUS
<1> USE NAssumption DEF PersistInit
<1>1. SagaInv
  BY SagaInvInit
<1>2. /\ todo = <<Rec(Whole, "running"), Announce(1)>> /\ records = <<>> /\ lost = FALSE
      /\ Len(todo) = 2 /\ todo # <<>> /\ Len(records) = 0
  OBVIOUS
<1>3. Rec(Whole, "running") \in Records /\ Announce(1) \in Records
  BY RowsTyped DEF Whole
<1>4. PersistTypeOK
  <2>1. SagaTypeOK
    BY <1>1 DEF SagaInv
  <2>2. todo \in Seq(Records) /\ records \in Seq(Records)
    BY <1>2, <1>3, Rows2
  <2> QED BY <1>2, <2>1, <2>2 DEF PersistTypeOK
<1>5. completed = 0 /\ failed_step = 0 /\ comp = 0 /\ effect = [i \in Steps |-> "none"]
  BY DEF SagaInit
<1>6. Holds(Rec(Whole, "running")) /\ Tells(Rec(Whole, "running"))
  BY DEF Holds, Tells, Rec, Whole, Steps
<1>7. Holds(Announce(1)) /\ Tells(Announce(1))
  BY <1>5 DEF Holds, Tells, Rec, Whole, Steps, Announce
<1>8. Tells(LatestRecord) /\ Position(todo[Len(todo)])
  BY <1>2, <1>5, <1>6 DEF LatestRecord, Position
<1> QED
  BY <1>1, <1>2, <1>4, <1>6, <1>7, <1>8 DEF PersistInv

\* A true row stays true: no step takes back what a row has claimed.
LEMMA HoldsStable ==
    ASSUME SagaInv, [SagaNext]_sagaVars, NEW r \in Records, Holds(r)
    PROVE  Holds(r)'
<1> USE NAssumption DEF SagaInv, SagaTypeOK, Steps, Forward, Backward, Holds, Records, Whole
<1>1. CASE StepOk
  BY <1>1 DEF StepOk
<1>2. CASE StepErr
  BY <1>2 DEF StepErr
<1>3. CASE CompensateOk
  BY <1>3 DEF CompensateOk
<1>4. CASE CompensateErr
  BY <1>4 DEF CompensateErr
<1>5. CASE Return \/ Crash \/ UNCHANGED sagaVars
  BY <1>5 DEF Return, Crash, sagaVars
<1> QED BY <1>1, <1>2, <1>3, <1>4, <1>5 DEF SagaNext

\* The rows the code is about to write after a step, and what the step leaves of
\* the latest row, are all that is left to show of that step.
LEMMA StepKeepsPersistInv ==
    ASSUME PersistInv, [SagaNext]_sagaVars, UNCHANGED <<records, lost>>,
           todo' \in Seq(Records),
           \A n \in 1..Len(todo') : (Holds(todo[n]) /\ Tells(todo[n]))',
           ~lost => /\ Tells(LatestRecord)'
                    /\ Position(IF todo = <<>> THEN LatestRecord ELSE todo[Len(todo)])'
    PROVE  PersistInv'
<1>1. SagaInv /\ SagaInv'
  BY SagaInvStep DEF PersistInv
<1>2. PersistTypeOK'
  BY <1>1 DEF PersistInv, PersistTypeOK, SagaInv
<1>3. ASSUME NEW n \in 1..Len(records') PROVE Holds(records[n])'
  <2>1. records[n] \in Records /\ Holds(records[n])
    BY DEF PersistInv, PersistTypeOK
  <2> QED BY <1>1, <2>1, HoldsStable DEF Holds
<1> QED BY <1>1, <1>2, <1>3 DEF PersistInv

LEMMA PersistKeepsInv == PersistInv /\ Persist => PersistInv'
<1> SUFFICES ASSUME PersistInv, Persist PROVE PersistInv'
  OBVIOUS
<1> DEFINE h == Head(todo)
<1>1. /\ todo \in Seq(Records) /\ records \in Seq(Records) /\ todo # <<>> /\ h \in Records
      /\ Len(todo) \in Nat /\ Len(todo) > 0 /\ h = todo[1]
  BY DEF PersistInv, PersistTypeOK, Persist
<1>2. /\ todo' = Tail(todo) /\ todo' \in Seq(Records) /\ Len(todo') = Len(todo) - 1
      /\ \A n \in 1..Len(todo') : todo'[n] = todo[n + 1]
  BY <1>1 DEF Persist
<1>3. SagaInv /\ SagaInv' /\ UNCHANGED sagaVars
  BY SagaInvStep DEF PersistInv, Persist
<1>4. \A r : (Holds(r) => Holds(r)') /\ (Tells(r) => Tells(r)') /\ (Position(r) => Position(r)')
  BY <1>3 DEF sagaVars, Holds, Tells, Position
<1>5. Holds(h) /\ Tells(h)
  BY <1>1 DEF PersistInv
<1>6. ASSUME NEW n \in 1..Len(todo') PROVE (Holds(todo[n]) /\ Tells(todo[n]))'
  <2>1. n + 1 \in 1..Len(todo) /\ todo'[n] = todo[n + 1]
    BY <1>1, <1>2
  <2>2. Holds(todo[n + 1]) /\ Tells(todo[n + 1])
    BY <2>1 DEF PersistInv
  <2> QED BY <2>1, <2>2, <1>4 DEF Holds, Tells
<1>7. CASE records' = Append(records, h) /\ UNCHANGED lost
  <2>1. /\ records' \in Seq(Records) /\ Len(records') = Len(records) + 1 /\ records' # <<>>
        /\ records'[Len(records')] = h
        /\ \A n \in 1..Len(records) : records'[n] = records[n]
    BY <1>1, <1>7
  <2>2. PersistTypeOK'
    BY <1>2, <1>3, <1>7, <2>1 DEF PersistTypeOK, SagaInv, PersistInv
  <2>3. ASSUME NEW n \in 1..Len(records') PROVE Holds(records[n])'
    <3>1. Holds(records'[n])
      BY <1>1, <1>5, <2>1 DEF PersistInv
    <3> QED BY <1>4, <3>1 DEF Holds
  <2>4. LatestRecord' = h
    BY <2>1 DEF LatestRecord
  <2>5. Tells(LatestRecord)'
    BY <1>4, <1>5, <2>4 DEF Tells
  <2>6. ASSUME ~lost PROVE Position(IF todo = <<>> THEN LatestRecord ELSE todo[Len(todo)])'
    <3>1. Position(todo[Len(todo)])
      BY <1>1, <2>6 DEF PersistInv
    <3>2. (IF todo = <<>> THEN LatestRecord ELSE todo[Len(todo)])' = todo[Len(todo)]
      BY <1>1, <1>2, <2>4
    <3> QED BY <1>4, <3>1, <3>2 DEF Position
  <2> QED BY <1>3, <1>6, <1>7, <2>2, <2>3, <2>5, <2>6 DEF PersistInv
<1>8. CASE lost' = TRUE /\ UNCHANGED records
  <2>1. PersistTypeOK'
    BY <1>2, <1>3, <1>8 DEF PersistTypeOK, SagaInv, PersistInv
  <2>2. ASSUME NEW n \in 1..Len(records') PROVE Holds(records[n])'
    BY <1>4, <1>8 DEF PersistInv, Holds
  <2> QED BY <1>3, <1>6, <1>8, <2>1, <2>2 DEF PersistInv
<1> QED BY <1>7, <1>8 DEF Persist

LEMMA PStepOkKeepsInv == PersistInv /\ PStepOk => PersistInv'
<1> SUFFICES ASSUME PersistInv, PStepOk PROVE PersistInv'
  OBVIOUS
<1> USE NAssumption
<1> DEFINE a == Rec(completed + 1, "completed")
           b == Announce(completed + 2)
<1>1. SagaInv /\ SagaInv' /\ [SagaNext]_sagaVars
  BY SagaInvStep DEF PersistInv, PStepOk, SagaNext
<1>2. /\ completed \in 0..N /\ completed < N /\ completed' = completed + 1
      /\ failed_step = 0 /\ failed_step' = 0
      /\ \A k \in Steps : effect[k] = IF k <= completed THEN "applied" ELSE "none"
      /\ \A k \in Steps : effect'[k] = IF k <= completed + 1 THEN "applied" ELSE "none"
  BY <1>1 DEF PStepOk, StepOk, SagaInv, SagaTypeOK, Forward
<1>3. a \in Records /\ b \in Records
  BY <1>2, RowsTyped
<1>4. todo' = <<a, b>> /\ todo = <<>> /\ UNCHANGED <<records, lost>>
  BY DEF PStepOk
<1>5. todo' \in Seq(Records) /\ Len(todo') = 2 /\ todo'[1] = a /\ todo'[2] = b /\ todo' # <<>>
  BY <1>3, <1>4, Rows2
<1>6. (\A r : r = a => Holds(r)' /\ Tells(r)') /\ (\A r : r = b => Holds(r)' /\ Tells(r)')
  BY <1>2 DEF Holds, Tells, Announce, Rec, Whole, Steps
<1>7. \A n \in 1..Len(todo') : (Holds(todo[n]) /\ Tells(todo[n]))'
  BY <1>5, <1>6 DEF Holds, Tells
<1>8. ASSUME ~lost PROVE Tells(LatestRecord)' /\ Position(todo[Len(todo)])'
  <2>1. LatestRecord = Rec(completed + 1, "running") /\ LatestRecord' = LatestRecord
    BY <1>2, <1>4, <1>8 DEF PersistInv, Position, Announce, LatestRecord
  <2>2. Tells(LatestRecord)'
    BY <1>2, <2>1 DEF Tells, Rec, Steps, Whole
  <2>3. Position(todo[Len(todo)])'
    BY <1>2, <1>5 DEF Position
  <2> QED BY <2>2, <2>3
<1> QED
  BY <1>1, <1>4, <1>5, <1>7, <1>8, StepKeepsPersistInv

\* The rows after a step of the compensation: r, and the row that ends the saga
\* when nothing is left.
LEMMA FailedEndRows ==
    ASSUME NEW r \in Records, NEW left \in Nat
    PROVE  LET t == <<r>> \o FailedEnd(left)
           IN  /\ t \in Seq(Records) /\ t # <<>> /\ t[1] = r
               /\ left = 0 => Len(t) = 2 /\ t[2] = Rec(Whole, "failed")
               /\ left # 0 => Len(t) = 1
<1> DEFINE e == Rec(Whole, "failed")
           t == <<r>> \o FailedEnd(left)
<1>1. e \in Records
  BY NAssumption, RowsTyped DEF Whole
<1>2. CASE left = 0
  <2>1. FailedEnd(left) = <<e>>
    BY <1>2 DEF FailedEnd
  <2> HIDE DEF e
  <2>2. t = <<r, e>>
    BY <1>1, <2>1, RowsConcat
  <2> HIDE DEF t
  <2>3. t \in Seq(Records) /\ t # <<>> /\ t[1] = r /\ Len(t) = 2 /\ t[2] = e
    BY <1>1, <2>2
  <2> QED BY <1>2, <2>3 DEF e, t
<1>3. CASE left # 0
  <2>1. <<r>> \o FailedEnd(left) = <<r>>
    BY <1>3 DEF FailedEnd
  <2> QED BY <1>3, <2>1, Rows1
<1> QED BY <1>2, <1>3

LEMMA PStepErrKeepsInv == PersistInv /\ PStepErr => PersistInv'
<1> SUFFICES ASSUME PersistInv, PStepErr PROVE PersistInv'
  OBVIOUS
<1> USE NAssumption
<1> DEFINE a == Rec(completed + 1, "failed")
           b == Rec(Whole, "compensating")
           e == Rec(Whole, "failed")
<1>1. SagaInv /\ SagaInv' /\ [SagaNext]_sagaVars
  BY SagaInvStep DEF PersistInv, PStepErr, SagaNext
<1>2. /\ completed \in 0..N /\ completed < N /\ completed' = completed
      /\ failed_step = 0 /\ failed_step' = completed + 1 /\ comp' = completed
      /\ \A k \in Steps : effect[k] = IF k <= completed THEN "applied" ELSE "none"
      /\ effect' = effect
  BY <1>1 DEF PStepErr, StepErr, SagaInv, SagaTypeOK, Forward
<1>3. a \in Records /\ b \in Records /\ e \in Records
  BY <1>2, RowsTyped DEF Whole
<1>4. todo' = <<a, b>> \o FailedEnd(completed) /\ todo = <<>> /\ UNCHANGED <<records, lost>>
  BY DEF PStepErr
<1>5. \A r : r \in {a, b} => Holds(r)' /\ Tells(r)'
  BY <1>2 DEF Holds, Tells, Rec, Whole, Steps
<1>6. completed = 0 => \A r : r = e => Holds(r)' /\ Tells(r)'
  BY <1>2 DEF Holds, Tells, Rec, Whole, Steps
<1>7. ASSUME ~lost PROVE Tells(LatestRecord)'
  <2>1. LatestRecord = Rec(completed + 1, "running") /\ LatestRecord' = LatestRecord
    BY <1>2, <1>4, <1>7 DEF PersistInv, Position, Announce, LatestRecord
  <2> QED BY <1>2, <2>1 DEF Tells, Rec, Steps, Whole
<1>8. CASE completed = 0
  <2>1. todo' = <<a, b, e>>
    <3>1. FailedEnd(completed) = <<e>>
      BY <1>8 DEF FailedEnd
    <3> HIDE DEF a, b, e
    <3> QED BY <1>3, <1>4, <3>1, RowsConcat
  <2>2. /\ todo' \in Seq(Records) /\ Len(todo') = 3 /\ todo' # <<>>
        /\ todo'[1] = a /\ todo'[2] = b /\ todo'[3] = e
    BY <1>3, <2>1, Rows3
  <2>3. \A n \in 1..Len(todo') : (Holds(todo[n]) /\ Tells(todo[n]))'
    BY <1>5, <1>6, <1>8, <2>2 DEF Holds, Tells
  <2>4. Position(todo[Len(todo)])'
    BY <1>2, <1>8, <2>2 DEF Position
  <2> QED BY <1>1, <1>4, <1>7, <2>2, <2>3, <2>4, StepKeepsPersistInv
<1>9. CASE completed # 0
  <2>1. todo' = <<a, b>>
    BY <1>4, <1>9 DEF FailedEnd
  <2>2. todo' \in Seq(Records) /\ Len(todo') = 2 /\ todo' # <<>> /\ todo'[1] = a /\ todo'[2] = b
    BY <1>3, <2>1, Rows2
  <2>3. \A n \in 1..Len(todo') : (Holds(todo[n]) /\ Tells(todo[n]))'
    BY <1>5, <2>2 DEF Holds, Tells
  <2>4. Position(todo[Len(todo)])'
    BY <1>2, <1>9, <2>2 DEF Position
  <2> QED BY <1>1, <1>4, <1>7, <2>2, <2>3, <2>4, StepKeepsPersistInv
<1> QED BY <1>8, <1>9

\* A compensation that is over, well or badly, and the row `state` about it.
LEMMA CompensatedKeepsInv ==
    ASSUME PersistInv, todo = <<>>, UNCHANGED <<records, lost>>, [SagaNext]_sagaVars,
           pc = "compensate", pc' = "compensate", comp > 0, comp' = comp - 1,
           UNCHANGED <<completed, failed_step>>,
           NEW state \in {"compensated", "compensating"},
           state = "compensated" => effect'[comp] = "undone",
           todo' = <<Rec(comp, state)>> \o FailedEnd(comp - 1)
    PROVE  PersistInv'
<1> USE NAssumption
<1> DEFINE a == Rec(comp, state)
           e == Rec(Whole, "failed")
<1>1. SagaInv /\ SagaInv'
  BY SagaInvStep DEF PersistInv
<1>2. /\ completed \in 0..N /\ failed_step = completed + 1 /\ completed < N
      /\ comp \in 1..completed /\ Backward /\ Backward'
  BY <1>1 DEF SagaInv, SagaTypeOK, Backward
<1>3. a \in Records
  BY <1>2, RowsTyped
<1>4. /\ todo' \in Seq(Records) /\ todo' # <<>> /\ todo'[1] = a
      /\ comp = 1 => Len(todo') = 2 /\ todo'[2] = e
      /\ comp # 1 => Len(todo') = 1
  <2>1. comp - 1 \in Nat /\ (comp = 1 <=> comp - 1 = 0)
    BY <1>2
  <2>2. todo' = <<a>> \o FailedEnd(comp - 1)
    BY DEF FailedEnd
  <2>3. LET t == <<a>> \o FailedEnd(comp - 1)
        IN  /\ t \in Seq(Records) /\ t # <<>> /\ t[1] = a
            /\ comp - 1 = 0 => Len(t) = 2 /\ t[2] = Rec(Whole, "failed")
            /\ comp - 1 # 0 => Len(t) = 1
    <3> HIDE DEF a
    <3> QED BY <1>3, <2>1, FailedEndRows
  <2> HIDE DEF a
  <2> QED BY <2>1, <2>2, <2>3
<1>5. \A r : r = a => Holds(r)' /\ Tells(r)'
  BY <1>2 DEF Holds, Tells, Rec, Whole, Steps, Backward
<1>6. comp = 1 => \A r : r = e => Holds(r)' /\ Tells(r)'
  BY <1>2 DEF Holds, Tells, Rec, Whole, Steps
<1>7. \A n \in 1..Len(todo') : (Holds(todo[n]) /\ Tells(todo[n]))'
  BY <1>4, <1>5, <1>6 DEF Holds, Tells
<1>8. Position(todo[Len(todo)])'
  BY <1>2, <1>4 DEF Position
<1>9. ASSUME ~lost PROVE Tells(LatestRecord)'
  <2>1. LatestRecord' = LatestRecord /\ Position(LatestRecord)
    BY <1>9 DEF PersistInv, LatestRecord
  <2>2. CASE comp = completed
    BY <1>2, <2>1, <2>2 DEF Position, Tells, Rec, Whole
  <2>3. CASE comp # completed
    <3>1. LatestRecord \in {Rec(comp + 1, "compensated"), Rec(comp + 1, "compensating")}
      BY <1>2, <2>1, <2>3 DEF Position
    <3> QED BY <1>2, <2>1, <3>1 DEF Tells, Rec, Whole, Steps, Backward
  <2> QED BY <2>2, <2>3
<1> QED BY <1>4, <1>7, <1>8, <1>9, StepKeepsPersistInv

\* A failed attempt that is tried again, and the ends of the saga, write nothing
\* and change nothing that a row speaks of.
LEMMA SilentKeepsInv ==
    ASSUME PersistInv, [SagaNext]_sagaVars, UNCHANGED <<records, todo, lost>>,
           UNCHANGED <<completed, failed_step, comp, errors, effect>>
    PROVE  PersistInv'
<1>1. \A r : (Holds(r) => Holds(r)') /\ (Tells(r) => Tells(r)') /\ (Position(r) => Position(r)')
  BY DEF Holds, Tells, Position
<1>2. todo' \in Seq(Records)
  BY DEF PersistInv, PersistTypeOK
<1>3. \A n \in 1..Len(todo') : (Holds(todo[n]) /\ Tells(todo[n]))'
  BY <1>1 DEF PersistInv, Holds, Tells
<1>4. LatestRecord' = LatestRecord
  BY DEF LatestRecord
<1>5. ASSUME ~lost
      PROVE  /\ Tells(LatestRecord)'
             /\ Position(IF todo = <<>> THEN LatestRecord ELSE todo[Len(todo)])'
  BY <1>1, <1>4, <1>5 DEF PersistInv, Tells, Position
<1> QED BY <1>2, <1>3, <1>5, StepKeepsPersistInv

LEMMA PersistInvStep == PersistInv /\ [PersistNext]_persistVars => PersistInv'
<1> SUFFICES ASSUME PersistInv, [PersistNext]_persistVars PROVE PersistInv'
  OBVIOUS
<1>0. [SagaNext]_sagaVars
  BY PersistStepIsSagaStep DEF persistVars
<1>1. CASE Persist
  BY <1>1, PersistKeepsInv
<1>2. CASE PStepOk
  BY <1>2, PStepOkKeepsInv
<1>3. CASE PStepErr
  BY <1>3, PStepErrKeepsInv
<1>4. CASE PCompensateOk
  <2>1. comp \in Steps /\ effect \in [Steps -> {"none", "applied", "undone"}]
    BY <1>4, NAssumption DEF PCompensateOk, CompensateOk, PersistInv, SagaInv, SagaTypeOK, Steps
  <2>2. effect'[comp] = "undone"
    BY <1>4, <2>1 DEF PCompensateOk, CompensateOk
  <2> QED BY <1>0, <1>4, <2>2, CompensatedKeepsInv DEF PCompensateOk, CompensateOk
<1>5. CASE PCompensateErr
  <2>1. CASE LastAttempt
    BY <1>0, <1>5, <2>1, CompensatedKeepsInv DEF PCompensateErr, CompensateErr
  <2>2. CASE ~LastAttempt
    BY <1>0, <1>5, <2>2, SilentKeepsInv DEF PCompensateErr, CompensateErr
  <2> QED BY <2>1, <2>2
<1>6. CASE PReturn
  BY <1>0, <1>6, SilentKeepsInv DEF PReturn, Return
<1>7. CASE PCrash
  BY <1>0, <1>7, SilentKeepsInv DEF PCrash, Crash
<1>8. CASE UNCHANGED persistVars
  BY <1>0, <1>8, SilentKeepsInv DEF persistVars, sagaVars
<1> QED
  BY <1>1, <1>2, <1>3, <1>4, <1>5, <1>6, <1>7, <1>8 DEF PersistNext, Progress

\* Rows that hold say what LogSound says.
LEMMA HoldingRowsAreSound == PersistInv => LogSound
<1> SUFFICES ASSUME PersistInv PROVE LogSound
  OBVIOUS
<1>1. ASSUME NEW i \in Steps PROVE /\ Logged(i, "completed") => effect[i] # "none"
                                   /\ Logged(i, "compensated") => effect[i] = "undone"
  BY DEF Logged, PersistInv, Holds, Rec
<1>2. Logged(Whole, "completed") => failed_step = 0 /\ completed = N
  BY DEF Logged, PersistInv, Holds, Rec
<1>3. Logged(Whole, "failed") => failed_step # 0 /\ comp = 0
  BY DEF Logged, PersistInv, Holds, Rec
<1>4. ASSUME failed_step = 0, completed = N, NEW i \in Steps PROVE effect[i] = "applied"
  BY <1>4, NAssumption DEF PersistInv, SagaInv, SagaTypeOK, Forward, Backward, Steps
<1>5. ASSUME failed_step # 0, comp = 0, NEW i \in Steps, effect[i] = "applied" PROVE i \in errors
  BY <1>5, NAssumption DEF PersistInv, SagaInv, SagaTypeOK, Forward, Backward, Steps
<1> QED BY <1>1, <1>2, <1>3, <1>4, <1>5 DEF LogSound

LEMMA TellingRowTells == PersistInv => LatestRecordTells
<1> SUFFICES ASSUME PersistInv, ~lost, LatestRecord.step # Whole PROVE LatestRecordTells
  BY DEF LatestRecordTells
<1>1. LatestRecord \in Records
  BY NAssumption, RowsTyped DEF LatestRecord, PersistInv, PersistTypeOK, Whole
<1>2. Tells(LatestRecord)
  BY DEF PersistInv
<1> DEFINE i == LatestRecord.step
           st == LatestRecord.state
<1>3. i \in 1..N /\ st \in {"running", "compensating", "completed", "failed", "compensated"}
  BY <1>1 DEF Records, Steps
<1>4. CASE st = "running"
  BY <1>2, <1>3, <1>4, NAssumption DEF Tells, LatestRecordTells, Steps
<1>5. CASE st = "completed"
  <2>1. \A k \in Steps : /\ k < i + 1 => effect[k] = "applied"
                         /\ k > i => effect[k] = "none"
    BY <1>2, <1>3, <1>5, NAssumption DEF Tells, Steps
  <2> QED BY <1>5, <2>1 DEF LatestRecordTells
<1>6. CASE st = "failed"
  <2>1. \A k \in Steps : /\ k < i => effect[k] = "applied"
                         /\ k > i - 1 => effect[k] = "none"
    BY <1>2, <1>3, <1>6, NAssumption DEF Tells, Steps
  <2> QED BY <1>6, <2>1 DEF LatestRecordTells
<1>7. CASE st \in {"compensated", "compensating"}
  <2>1. \A k \in Steps : /\ k < i - 1 => effect[k] = "applied"
                         /\ k > i - 1 => effect[k] # "applied" \/ k \in errors
    BY <1>2, <1>3, <1>7, NAssumption DEF Tells, Steps
  <2>2. CASE st = "compensated"
    BY <2>1, <2>2 DEF LatestRecordTells
  <2>3. CASE st = "compensating"
    BY <2>1, <2>3 DEF LatestRecordTells
  <2> QED BY <1>7, <2>2, <2>3
<1> QED BY <1>3, <1>4, <1>5, <1>6, <1>7

\* The saga, its table and the rows still to write are well typed.
THEOREM PersistTypeCorrect == PersistSafety => []PersistTypeOK
<1>1. PersistInv => PersistTypeOK
  BY DEF PersistInv
<1> QED BY <1>1, PersistInvInit, PersistInvStep, PTL DEF PersistSafety

\* The table of a persistent saga of any length claims nothing that did not
\* happen and, while no insert fails, its latest row tells a restart how far the
\* saga got, wherever the process stopped.
THEOREM RecordsTellTheTruthTheorem == PersistSafety => []RecordsTellTheTruth
<1>1. PersistInv => RecordsTellTheTruth
  BY HoldingRowsAreSound, TellingRowTells DEF RecordsTellTheTruth
<1> QED BY <1>1, PersistInvInit, PersistInvStep, PTL DEF PersistSafety

-----------------------------------------------------------------------------
(* The distributed lock *)

\* There is a TTL exactly while there is a key; a release is only spawned for a
\* client that has left its closure for good; the refresh task starts with the
\* closure, and its first tick is immediate.
LockInv ==
    /\ LockTypeOK
    /\ owner # None <=> ttlLeft > 0
    /\ \A c \in dropped : stage[c] \in {"done", "abandoned"}
    /\ \A c \in Clients : stage[c] = "idle" => due[c] = 0 /\ c \notin refresher

\* What keeps a closure of with_lock_auto_refresh alone: it has the key, its
\* refresh task is running, and acts again before the key expires.
Covered ==
    kind = "refresh" /\ ~late /\ failedCommands = 0 =>
        \A c \in Clients : stage[c] = "critical" =>
            owner = c /\ c \in refresher /\ ttlLeft > due[c]

LEMMA LockInvInit == LockInit => LockInv
<1> SUFFICES ASSUME LockInit PROVE LockInv
  OBVIOUS
<1>1. LockTypeOK
  <2>1. 0 \in 0..Lease /\ 0 \in 0..Interval /\ 0 \in 0..MaxErrors
    BY TimeAssumption, LockAssumption
  <2> QED BY <2>1 DEF LockInit, LockTypeOK, PCs
<1>2. owner = None /\ ttlLeft = 0 /\ dropped = {} /\ refresher = {} /\ \A c \in Clients : due[c] = 0
  BY DEF LockInit
<1> QED BY <1>1, <1>2 DEF LockInv

LEMMA LockInvStep == LockInv /\ [LockNext]_lockVars => LockInv'
<1> SUFFICES ASSUME LockInv, [LockNext]_lockVars PROVE LockInv'
  OBVIOUS
<1> USE TimeAssumption, LockAssumption DEF LockInv, LockTypeOK, PCs, RedisError
<1>1. ASSUME NEW c \in Clients, Acquire(c) PROVE LockInv'
  BY <1>1 DEF Acquire, SetNX
<1>2. ASSUME NEW c \in Clients, AcquireRedlock(c) PROVE LockInv'
  BY <1>2 DEF AcquireRedlock, SetNX
<1>3. ASSUME NEW c \in Clients, AcquireFails(c) PROVE LockInv'
  BY <1>3 DEF AcquireFails, SetNX
<1>4. ASSUME NEW c \in Clients, Extend(c) PROVE LockInv'
  BY <1>4 DEF Extend
<1>5. ASSUME NEW c \in Clients, ClosureEnds(c) PROVE LockInv'
  BY <1>5 DEF ClosureEnds
<1>6. ASSUME NEW c \in Clients, Release(c) PROVE LockInv'
  BY <1>6 DEF Release, Released, ReleaseScript, DropLock
<1>7. ASSUME NEW c \in Clients, ReleaseRedlock(c) PROVE LockInv'
  BY <1>7 DEF ReleaseRedlock, Released, ReleaseScript
<1>8. ASSUME NEW c \in Clients, Abandon(c) \/ AbandonRedlock(c) PROVE LockInv'
  BY <1>8 DEF Abandon, AbandonRedlock, DropLock
<1>9. ASSUME NEW c \in Clients, SpawnedRelease(c) PROVE LockInv'
  BY <1>9 DEF SpawnedRelease, Released, ReleaseScript
<1>10. ASSUME NEW c \in Clients, Refresh(c) PROVE LockInv'
  <2>1. UNCHANGED <<kind, owner, stage, dropped, late>> /\ c \in refresher
    BY <1>10 DEF Refresh
  <2>2. CASE owner = c /\ ttlLeft' = Lease /\ due' = [due EXCEPT ![c] = Interval]
             /\ stage[c] # "idle" /\ UNCHANGED <<refresher, failedCommands>>
    BY <2>1, <2>2
  <2>3. CASE refresher' = refresher \ {c} /\ UNCHANGED <<ttlLeft, due, failedCommands>>
    BY <2>1, <2>3
  <2>4. CASE RedisError /\ ttlLeft' \in {ttlLeft, IF owner = c THEN Lease ELSE ttlLeft}
             /\ refresher' = refresher \ {c} /\ UNCHANGED due
    BY <2>1, <2>4
  <2>5. stage[c] # "idle"
    BY <2>1
  <2> QED BY <1>10, <2>5, <2>1, <2>2, <2>3, <2>4 DEF Refresh
<1>11. CASE Tick
  BY <1>11 DEF Tick
<1>12. CASE UNCHANGED lockVars
  BY <1>12 DEF lockVars
<1> QED
  BY <1>1, <1>2, <1>3, <1>4, <1>5, <1>6, <1>7, <1>8, <1>9, <1>10, <1>11, <1>12
  DEF LockNext

\* The Redis key, the clients and their tasks are well typed.
THEOREM LockTypeCorrect == LockSafety => []LockTypeOK
<1>1. LockInv => LockTypeOK
  BY DEF LockInv
<1> QED BY <1>1, LockInvInit, LockInvStep, PTL DEF LockSafety

-----------------------------------------------------------------------------
(* The key is lost only by its expiry *)

\* A release that is not the client's own leaves its key alone.
LEMMA ReleaseSparesOthers ==
    ASSUME NEW c \in Clients, NEW d \in Clients, Released(d), owner = c, c # d
    PROVE  owner' = c /\ ttlLeft' = ttlLeft
BY LockAssumption DEF Released, ReleaseScript

\* The action of LostOnlyByExpiry.
Loss ==
    \A c \in Clients :
        /\ stage[c] = "critical" /\ stage'[c] = "critical"
        /\ owner = c /\ owner' # c
        => ttlLeft = 1 /\ owner' = None

LEMMA LossStep == LockInv /\ [LockNext]_lockVars => Loss
<1> SUFFICES ASSUME LockInv, [LockNext]_lockVars, NEW c \in Clients,
                    stage[c] = "critical", stage'[c] = "critical", owner = c, owner' # c
             PROVE  ttlLeft = 1 /\ owner' = None
  BY DEF Loss
<1> USE TimeAssumption, LockAssumption DEF LockInv, LockTypeOK
<1>1. ASSUME NEW d \in Clients, Acquire(d) \/ AcquireRedlock(d) \/ AcquireFails(d) PROVE FALSE
  BY <1>1 DEF Acquire, AcquireRedlock, AcquireFails, SetNX
<1>2. ASSUME NEW d \in Clients,
             Extend(d) \/ ClosureEnds(d) \/ Abandon(d) \/ AbandonRedlock(d) \/ Refresh(d)
      PROVE  FALSE
  BY <1>2 DEF Extend, ClosureEnds, Abandon, AbandonRedlock, Refresh
<1>3. ASSUME NEW d \in Clients, Release(d) \/ ReleaseRedlock(d) PROVE FALSE
  BY <1>3, ReleaseSparesOthers DEF Release, ReleaseRedlock
<1>4. ASSUME NEW d \in Clients, SpawnedRelease(d) PROVE FALSE
  BY <1>4, ReleaseSparesOthers DEF SpawnedRelease
<1>5. CASE Tick
  BY <1>5 DEF Tick
<1> QED BY <1>1, <1>2, <1>3, <1>4, <1>5 DEF LockNext, lockVars

\* "a lock is only released by the client that acquired it": whatever releases,
\* drops, refreshes and failed commands of other clients come late, a client in
\* its closure loses the key only to its expiry.
THEOREM LostOnlyByExpiryTheorem == LockSafety => LostOnlyByExpiry
<1>1. LockInv /\ [LockNext]_lockVars => [Loss]_lockVars
  BY LossStep
<1> QED BY <1>1, LockInvInit, LockInvStep, PTL DEF LockSafety, LostOnlyByExpiry, Loss

-----------------------------------------------------------------------------
(* Mutual exclusion *)

LEMMA CoveredStep ==
    ASSUME Interval < Lease, LockInv, Covered, [LockNext]_lockVars
    PROVE  Covered'
<1> SUFFICES ASSUME kind' = "refresh", ~late', failedCommands' = 0,
                    NEW c \in Clients, stage'[c] = "critical"
             PROVE  owner' = c /\ c \in refresher' /\ ttlLeft' > due'[c]
  BY DEF Covered
<1> USE TimeAssumption, LockAssumption DEF LockInv, LockTypeOK, PCs
<1>1. kind = "refresh" /\ ~late /\ failedCommands = 0
  BY DEF LockNext, lockVars, Acquire, AcquireRedlock, AcquireFails, Extend, ClosureEnds, Release,
         ReleaseRedlock, Abandon, AbandonRedlock, SpawnedRelease, Refresh, Tick, Released,
         RedisError
<1>2. stage[c] = "critical" => owner = c /\ c \in refresher /\ ttlLeft > due[c]
  BY <1>1 DEF Covered
<1>3. ASSUME NEW d \in Clients, Acquire(d)
      PROVE  owner' = c /\ c \in refresher' /\ ttlLeft' > due'[c]
  BY <1>1, <1>2, <1>3 DEF Acquire, SetNX
<1>4. ASSUME NEW d \in Clients, AcquireFails(d) \/ AcquireRedlock(d)
      PROVE  owner' = c /\ c \in refresher' /\ ttlLeft' > due'[c]
  BY <1>1, <1>2, <1>4 DEF AcquireFails, AcquireRedlock, SetNX, RedisError
<1>5. ASSUME NEW d \in Clients,
             Extend(d) \/ ClosureEnds(d) \/ Abandon(d) \/ AbandonRedlock(d)
      PROVE  owner' = c /\ c \in refresher' /\ ttlLeft' > due'[c]
  BY <1>1, <1>2, <1>5 DEF Extend, ClosureEnds, Abandon, AbandonRedlock
<1>6. ASSUME NEW d \in Clients, Release(d) \/ ReleaseRedlock(d)
      PROVE  owner' = c /\ c \in refresher' /\ ttlLeft' > due'[c]
  BY <1>1, <1>2, <1>6, ReleaseSparesOthers DEF Release, ReleaseRedlock
<1>7. ASSUME NEW d \in Clients, SpawnedRelease(d)
      PROVE  owner' = c /\ c \in refresher' /\ ttlLeft' > due'[c]
  BY <1>1, <1>2, <1>7, ReleaseSparesOthers DEF SpawnedRelease
<1>8. ASSUME NEW d \in Clients, Refresh(d)
      PROVE  owner' = c /\ c \in refresher' /\ ttlLeft' > due'[c]
  BY <1>1, <1>2, <1>8 DEF Refresh, RedisError
<1>9. CASE Tick
  <2>1. stage[c] = "critical" /\ ~Overdue(c)
    BY <1>9 DEF Tick
  <2>2. due[c] > 0 /\ ttlLeft > due[c]
    BY <1>2, <2>1 DEF Overdue
  <2> QED BY <1>2, <1>9, <2>1, <2>2 DEF Tick
<1>10. CASE UNCHANGED lockVars
  BY <1>2, <1>10 DEF lockVars
<1> QED
  BY <1>3, <1>4, <1>5, <1>6, <1>7, <1>8, <1>9, <1>10 DEF LockNext

\* with_lock_auto_refresh keeps closures of any length and of any number of
\* clients exclusive while refreshes come in time and no command fails, provided
\* that it is called with a refresh_interval shorter than the ttl: the code does
\* not check that it is.
THEOREM MutualExclusionTheorem ==
    ASSUME Interval < Lease
    PROVE  LockSafety => []MutualExclusion
<1>1. LockInit => Covered
  BY DEF LockInit, Covered
<1>2. LockInv /\ Covered /\ [LockNext]_lockVars => Covered'
  BY CoveredStep
<1>3. Covered => MutualExclusion
  BY DEF Covered, MutualExclusion
<1> QED BY <1>1, <1>2, <1>3, LockInvInit, LockInvStep, PTL DEF LockSafety

-----------------------------------------------------------------------------
(* The permits of the worker *)

\* The permits are those that the tasks do not hold.
PermitInv ==
    /\ job \in [Jobs -> JobStates]
    /\ permits \in Nat
    /\ IsFiniteSet(ActiveJobs)
    /\ PermitsConserved

\* Where the messages are: in the channel once, in the hand of the loop, or past
\* it; the loop drains only a closed and empty channel.
QueueInv ==
    /\ WorkerTypeOK
    /\ \A i \in 1..Len(channel) : job[channel[i]] = "sent"
    /\ \A i, j \in 1..Len(channel) : channel[i] = channel[j] => i = j
    /\ \A m \in Jobs : job[m] = "sent" => \E i \in 1..Len(channel) : channel[i] = m
    /\ \A m \in Jobs : job[m] = "held" <=> held = m
    /\ main = "acquire" <=> held # NoJob
    /\ main \in {"drain", "returned"} => closed /\ channel = <<>>
    /\ main = "returned" => ActiveJobs = {}

LEMMA QueueInvInit == WorkerInit => QueueInv
<1> SUFFICES ASSUME WorkerInit PROVE QueueInv
  OBVIOUS
<1>1. WorkerTypeOK
  <2>1. channel \in Seq(Jobs) /\ dlq \in SUBSET Jobs
    BY DEF WorkerInit
  <2>2. job \in [Jobs -> JobStates]
    BY DEF WorkerInit, JobStates
  <2>3. attempts \in [Jobs -> Nat] /\ permits \in Nat
    BY WorkerAssumption DEF WorkerInit
  <2> QED BY <2>1, <2>2, <2>3 DEF WorkerInit, WorkerTypeOK
<1>2. Len(channel) = 0 /\ \A m \in Jobs : job[m] = "unsent"
  BY DEF WorkerInit
<1>3. main = "recv" /\ held = NoJob
  BY DEF WorkerInit
<1> QED BY <1>1, <1>2, <1>3, WorkerAssumption DEF QueueInv

\* A step of a task is beyond the channel and the loop.
LEMMA TaskKeepsQueueInv ==
    ASSUME QueueInv, NEW m \in Jobs, job[m] \in Active, NEW st \in Active \cup Ended,
           job' = [job EXCEPT ![m] = st], UNCHANGED <<channel, closed, main, held>>,
           permits' \in Nat, attempts' \in [Jobs -> Nat], dlq' \subseteq Jobs
    PROVE  QueueInv'
<1>1. job \in [Jobs -> JobStates] /\ channel \in Seq(Jobs)
  BY DEF QueueInv, WorkerTypeOK
<1>2. WorkerTypeOK'
  BY <1>1 DEF QueueInv, WorkerTypeOK, JobStates
<1>3. main # "returned"
  BY DEF QueueInv, ActiveJobs
<1>4. job[m] \notin {"sent", "held"} /\ st \notin {"sent", "held"}
  BY DEF Active, Ended
<1>5. ASSUME NEW k \in Jobs PROVE (job'[k] = "sent" <=> job[k] = "sent") /\ (job'[k] = "held" <=> job[k] = "held")
  BY <1>1, <1>4
<1>6. \A i \in 1..Len(channel) : channel[i] \in Jobs
  BY <1>1
<1> QED BY <1>2, <1>3, <1>5, <1>6 DEF QueueInv

LEMMA SendKeepsQueueInv ==
    ASSUME QueueInv, NEW m \in Jobs, Send(m)
    PROVE  QueueInv'
<1>1. /\ channel \in Seq(Jobs) /\ job \in [Jobs -> JobStates] /\ job[m] = "unsent" /\ ~closed
      /\ channel' = Append(channel, m) /\ job' = [job EXCEPT ![m] = "sent"]
      /\ UNCHANGED <<closed, main, held, permits, attempts, dlq>>
  BY DEF QueueInv, WorkerTypeOK, Send
<1>2. /\ channel' \in Seq(Jobs) /\ Len(channel') = Len(channel) + 1 /\ Len(channel) \in Nat
      /\ channel'[Len(channel) + 1] = m
      /\ \A i \in 1..Len(channel) : channel'[i] = channel[i] /\ channel[i] \in Jobs
  BY <1>1
<1>3. \A i \in 1..Len(channel) : channel[i] # m
  BY <1>1 DEF QueueInv
<1>4. WorkerTypeOK'
  BY <1>1, <1>2 DEF QueueInv, WorkerTypeOK, JobStates
<1>5. \A k \in Jobs : job'[k] = IF k = m THEN "sent" ELSE job[k]
  BY <1>1
<1>6. \A i \in 1..Len(channel') : job'[channel'[i]] = "sent"
  BY <1>2, <1>5 DEF QueueInv
<1>7. \A i, j \in 1..Len(channel') : channel'[i] = channel'[j] => i = j
  BY <1>2, <1>3 DEF QueueInv
<1>8. ASSUME NEW k \in Jobs, job'[k] = "sent" PROVE \E i \in 1..Len(channel') : channel'[i] = k
  <2>1. CASE k = m
    BY <1>2, <2>1
  <2>2. CASE k # m
    <3>1. PICK i \in 1..Len(channel) : channel[i] = k
      BY <1>5, <1>8, <2>2 DEF QueueInv
    <3>2. i \in 1..Len(channel') /\ channel'[i] = k
      BY <1>2, <3>1
    <3> QED BY <3>2
  <2> QED BY <2>1, <2>2
<1>9. \A k \in Jobs : job'[k] = "held" <=> held' = k
  BY <1>1, <1>5 DEF QueueInv
<1>10. main \notin {"drain", "returned"}
  BY <1>1 DEF QueueInv
<1> QED BY <1>1, <1>4, <1>6, <1>7, <1>8, <1>9, <1>10 DEF QueueInv

LEMMA RecvKeepsQueueInv ==
    ASSUME QueueInv, Recv
    PROVE  QueueInv'
<1> DEFINE h == Head(channel)
<1>1. /\ channel \in Seq(Jobs) /\ channel # <<>> /\ job \in [Jobs -> JobStates] /\ main = "recv"
      /\ held' = h /\ channel' = Tail(channel) /\ job' = [job EXCEPT ![h] = "held"] /\ main' = "acquire"
      /\ UNCHANGED <<closed, permits, attempts, dlq>>
  BY DEF QueueInv, WorkerTypeOK, Recv
<1>2. /\ h \in Jobs /\ h = channel[1] /\ Len(channel) \in Nat \ {0}
      /\ channel' \in Seq(Jobs) /\ Len(channel') = Len(channel) - 1
      /\ \A i \in 1..Len(channel') : channel'[i] = channel[i + 1]
      /\ \A i \in 1..Len(channel) : channel[i] \in Jobs
  BY <1>1
<1> HIDE DEF h
<1>3. WorkerTypeOK'
  BY <1>1, <1>2 DEF QueueInv, WorkerTypeOK, JobStates
<1>4. \A k \in Jobs : job'[k] = IF k = h THEN "held" ELSE job[k]
  BY <1>1, <1>2
<1>5. ASSUME NEW i \in 1..Len(channel')
      PROVE  i + 1 \in 1..Len(channel) /\ channel'[i] = channel[i + 1] /\ channel'[i] # h
  <2>1. i + 1 \in 1..Len(channel) /\ i + 1 # 1 /\ 1 \in 1..Len(channel)
    BY <1>2
  <2> QED BY <1>2, <2>1 DEF QueueInv
<1>6. \A i \in 1..Len(channel') : job'[channel'[i]] = "sent"
  BY <1>2, <1>4, <1>5 DEF QueueInv
<1>7. ASSUME NEW i \in 1..Len(channel'), NEW j \in 1..Len(channel'), channel'[i] = channel'[j] PROVE i = j
  <2>1. i + 1 = j + 1
    BY <1>5, <1>7 DEF QueueInv
  <2> QED BY <1>2, <2>1
<1>8. ASSUME NEW k \in Jobs, job'[k] = "sent" PROVE \E i \in 1..Len(channel') : channel'[i] = k
  <2>1. k # h /\ job[k] = "sent"
    BY <1>4, <1>8
  <2>2. PICK i \in 1..Len(channel) : channel[i] = k
    BY <2>1 DEF QueueInv
  <2>3. i - 1 \in 1..Len(channel') /\ channel'[i - 1] = k
    BY <1>2, <2>1, <2>2
  <2> QED BY <2>3
<1>9. \A k \in Jobs : job[k] # "held"
  BY <1>1, WorkerAssumption DEF QueueInv
<1>10. \A k \in Jobs : job'[k] = "held" <=> held' = k
  BY <1>1, <1>4, <1>9
<1>11. held' # NoJob
  BY <1>1, <1>2, WorkerAssumption
<1> QED BY <1>1, <1>3, <1>6, <1>7, <1>8, <1>10, <1>11 DEF QueueInv

LEMMA SpawnKeepsQueueInv ==
    ASSUME QueueInv, Spawn
    PROVE  QueueInv'
<1>1. /\ channel \in Seq(Jobs) /\ job \in [Jobs -> JobStates] /\ main = "acquire" /\ main' = "recv"
      /\ held \in Jobs /\ job[held] = "held" /\ held' = NoJob
      /\ job' = [job EXCEPT ![held] = "handling"]
      /\ attempts \in [Jobs -> Nat] /\ attempts' = [attempts EXCEPT ![held] = attempts[held] + 1]
      /\ permits \in Nat /\ permits > 0 /\ permits' = permits - 1
      /\ UNCHANGED <<channel, closed, dlq>>
  BY DEF QueueInv, WorkerTypeOK, Spawn
<1>2. WorkerTypeOK'
  <2>1. job' \in [Jobs -> JobStates]
    BY <1>1 DEF JobStates, Active
  <2>2. attempts' \in [Jobs -> Nat] /\ permits' \in Nat
    BY <1>1
  <2> QED BY <1>1, <2>1, <2>2 DEF QueueInv, WorkerTypeOK
<1>3. \A k \in Jobs : job'[k] = IF k = held THEN "handling" ELSE job[k]
  BY <1>1
<1>4. \A i \in 1..Len(channel) : channel[i] \in Jobs /\ channel[i] # held
  BY <1>1 DEF QueueInv
<1>5. \A k \in Jobs : job'[k] # "held"
  BY <1>1, <1>3 DEF QueueInv
<1> QED BY <1>1, <1>2, <1>3, <1>4, <1>5, WorkerAssumption DEF QueueInv

LEMMA QueueInvStep == QueueInv /\ [WorkerNext]_workerVars => QueueInv'
<1> SUFFICES ASSUME QueueInv, [WorkerNext]_workerVars PROVE QueueInv'
  OBVIOUS
<1>0. /\ permits \in Nat /\ permits + 1 \in Nat /\ dlq \subseteq Jobs
      /\ attempts \in [Jobs -> Nat] /\ job \in [Jobs -> JobStates]
  BY DEF QueueInv, WorkerTypeOK
<1>1. CASE Close
  BY <1>1 DEF Close, QueueInv, WorkerTypeOK, ActiveJobs
<1>2. CASE Recv
  BY <1>2, RecvKeepsQueueInv
<1>3. CASE Spawn
  BY <1>3, SpawnKeepsQueueInv
<1>4. CASE Drain
  BY <1>4 DEF Drain, QueueInv, WorkerTypeOK
<1>5. CASE Finish
  BY <1>5 DEF Finish, QueueInv, WorkerTypeOK, ActiveJobs
<1>6. ASSUME NEW m \in Jobs, Send(m) PROVE QueueInv'
  BY <1>6, SendKeepsQueueInv
<1>7. ASSUME NEW m \in Jobs, HandlerOk(m) \/ HandlerPanic(m) PROVE QueueInv'
  BY <1>0, <1>7, TaskKeepsQueueInv DEF HandlerOk, HandlerPanic, EndTask, Active, Ended
<1>8. ASSUME NEW m \in Jobs, HandlerErr(m) PROVE QueueInv'
  <2> DEFINE st == IF attempts[m] - 1 < JobRetries THEN "backoff" ELSE "failed"
  <2>1. st \in Active /\ job[m] \in Active /\ job' = [job EXCEPT ![m] = st]
    BY <1>8 DEF HandlerErr, Active
  <2> HIDE DEF st
  <2> QED BY <1>0, <1>8, <2>1, TaskKeepsQueueInv DEF HandlerErr
<1>9. ASSUME NEW m \in Jobs, Retry(m) PROVE QueueInv'
  <2>1. attempts' \in [Jobs -> Nat]
    BY <1>0, <1>9 DEF Retry
  <2> QED BY <1>0, <1>9, <2>1, TaskKeepsQueueInv DEF Retry, Active
<1>10. ASSUME NEW m \in Jobs, Timeout(m) PROVE QueueInv'
  BY <1>0, <1>10, TaskKeepsQueueInv DEF Timeout, Active
<1>11. ASSUME NEW m \in Jobs, DeadLetter(m) PROVE QueueInv'
  <2>1. \E st \in Ended : EndTask(m, st) /\ dlq' \subseteq Jobs
    BY <1>0, <1>11 DEF DeadLetter, Ended
  <2> QED BY <1>0, <1>11, <2>1, TaskKeepsQueueInv DEF DeadLetter, EndTask, Active
<1>12. ASSUME NEW m \in Jobs, ReadDlq(m) PROVE QueueInv'
  BY <1>12 DEF ReadDlq, QueueInv, WorkerTypeOK, ActiveJobs
<1>13. CASE UNCHANGED workerVars
  BY <1>13 DEF workerVars, QueueInv, WorkerTypeOK, ActiveJobs
<1> QED
  BY <1>1, <1>2, <1>3, <1>4, <1>5, <1>6, <1>7, <1>8, <1>9, <1>10, <1>11, <1>12, <1>13
  DEF WorkerNext, Loop

LEMMA QueueInvAlways == WorkerSafety => []QueueInv
  BY QueueInvInit, QueueInvStep, PTL DEF WorkerSafety

\* The types of the worker's channels, loop, permits and jobs.
THEOREM WorkerTypeCorrect == WorkerSafety => []WorkerTypeOK
<1>1. QueueInv => WorkerTypeOK
  BY DEF QueueInv
<1> QED BY <1>1, QueueInvAlways, PTL

(***************************************************************************)
(* Whatever the handlers do (return, fail, hang, panic) and however many   *)
(* messages there are, run() returns only when no message that was sent is *)
(* in the channel, in the hand of the loop or in a task.                   *)
(***************************************************************************)
THEOREM ReturnsDrainedTheorem == WorkerSafety => []ReturnsDrained
<1>1. QueueInv => ReturnsDrained
  <2> SUFFICES ASSUME QueueInv, main = "returned", NEW m \in Jobs
               PROVE  job[m] \in Ended \cup {"unsent"}
    BY DEF ReturnsDrained
  <2>1. job[m] \in JobStates
    BY DEF QueueInv, WorkerTypeOK
  <2>2. job[m] # "sent"
    BY DEF QueueInv
  <2>3. job[m] # "held"
    BY WorkerAssumption DEF QueueInv
  <2>4. job[m] \notin Active
    BY DEF QueueInv, ActiveJobs
  <2> QED BY <2>1, <2>2, <2>3, <2>4 DEF JobStates
<1> QED BY <1>1, QueueInvAlways, PTL

\* A job that stays on its side of Active leaves the tasks as they are.
LEMMA SameTasks ==
    ASSUME PermitInv, NEW m \in Jobs, NEW st \in JobStates, job' = [job EXCEPT ![m] = st],
           job[m] \in Active <=> st \in Active, permits' = permits
    PROVE  PermitInv'
<1>1. job' \in [Jobs -> JobStates] /\ \A k \in Jobs : job'[k] = IF k = m THEN st ELSE job[k]
  BY DEF PermitInv
<1>2. ActiveJobs' = ActiveJobs
  BY <1>1 DEF ActiveJobs
<1> QED BY <1>1, <1>2 DEF PermitInv, PermitsConserved

\* The end of a task gives back the permit that the task held.
LEMMA EndTaskKeepsPermits ==
    ASSUME PermitInv, NEW m \in Jobs, NEW st \in Ended, job[m] \in Active, EndTask(m, st)
    PROVE  PermitInv'
<1>1. job' \in [Jobs -> JobStates] /\ \A k \in Jobs : job'[k] = IF k = m THEN st ELSE job[k]
  BY DEF PermitInv, EndTask, JobStates
<1>2. st \notin Active
  BY DEF Active, Ended
<1>3. ActiveJobs' = ActiveJobs \ {m} /\ m \in ActiveJobs
  BY <1>1, <1>2 DEF ActiveJobs
<1>4. IsFiniteSet(ActiveJobs) /\ permits \in Nat /\ permits' = permits + 1
  BY DEF PermitInv, EndTask
<1>5. IsFiniteSet(ActiveJobs') /\ Cardinality(ActiveJobs') = Cardinality(ActiveJobs) - 1
  BY <1>3, <1>4, FS_RemoveElement
<1>6. Cardinality(ActiveJobs) \in Nat
  BY <1>4, FS_CardinalityType
<1> QED BY <1>1, <1>4, <1>5, <1>6 DEF PermitInv, PermitsConserved

LEMMA SpawnKeepsPermits ==
    ASSUME QueueInv, PermitInv, Spawn
    PROVE  PermitInv'
<1>1. /\ held \in Jobs /\ job[held] = "held" /\ job' = [job EXCEPT ![held] = "handling"]
      /\ permits \in Nat /\ permits > 0 /\ permits' = permits - 1 /\ IsFiniteSet(ActiveJobs)
      /\ job \in [Jobs -> JobStates]
  BY DEF QueueInv, WorkerTypeOK, PermitInv, Spawn
<1>2. /\ job' \in [Jobs -> JobStates]
      /\ \A k \in Jobs : job'[k] = IF k = held THEN "handling" ELSE job[k]
  BY <1>1 DEF JobStates, Active
<1>3. ActiveJobs' = ActiveJobs \cup {held} /\ held \notin ActiveJobs
  BY <1>1, <1>2 DEF ActiveJobs, Active
<1>4. IsFiniteSet(ActiveJobs') /\ Cardinality(ActiveJobs') = Cardinality(ActiveJobs) + 1
  BY <1>1, <1>3, FS_AddElement
<1>5. Cardinality(ActiveJobs) \in Nat
  BY <1>1, FS_CardinalityType
<1> QED BY <1>1, <1>2, <1>4, <1>5 DEF PermitInv, PermitsConserved

LEMMA PermitInvInit == WorkerInit => PermitInv
<1> SUFFICES ASSUME WorkerInit PROVE PermitInv
  OBVIOUS
<1>1. job \in [Jobs -> JobStates] /\ permits \in Nat /\ permits = Concurrency
  BY WorkerAssumption DEF WorkerInit, JobStates
<1>2. ActiveJobs = {}
  BY DEF WorkerInit, ActiveJobs, Active
<1> QED BY <1>1, <1>2, FS_EmptySet DEF PermitInv, PermitsConserved

LEMMA PermitInvStep == QueueInv /\ PermitInv /\ [WorkerNext]_workerVars => PermitInv'
<1> SUFFICES ASSUME QueueInv, PermitInv, [WorkerNext]_workerVars PROVE PermitInv'
  OBVIOUS
<1>1. CASE UNCHANGED <<permits, job>>
  BY <1>1 DEF PermitInv, PermitsConserved, ActiveJobs
<1>2. CASE Recv
  <2>1. Head(channel) \in Jobs /\ job[Head(channel)] = "sent"
    BY <1>2 DEF Recv, QueueInv, WorkerTypeOK
  <2> QED BY <1>2, <2>1, SameTasks DEF Recv, JobStates, Active
<1>3. CASE Spawn
  BY <1>3, SpawnKeepsPermits
<1>4. ASSUME NEW m \in Jobs, Send(m) PROVE PermitInv'
  BY <1>4, SameTasks DEF Send, JobStates, Active
<1>5. ASSUME NEW m \in Jobs, HandlerOk(m) \/ HandlerPanic(m) \/ DeadLetter(m) PROVE PermitInv'
  <2>1. job[m] \in Active /\ \E st \in Ended : EndTask(m, st)
    BY <1>5 DEF HandlerOk, HandlerPanic, DeadLetter, Active, Ended
  <2> QED BY <2>1, EndTaskKeepsPermits
<1>6. ASSUME NEW m \in Jobs, HandlerErr(m) \/ Retry(m) \/ Timeout(m) PROVE PermitInv'
  <2>1. /\ job[m] \in Active /\ permits' = permits
        /\ \E st \in Active : job' = [job EXCEPT ![m] = st]
    BY <1>6 DEF HandlerErr, Retry, Timeout, Active
  <2>2. Active \subseteq JobStates
    BY DEF JobStates
  <2> QED BY <2>1, <2>2, SameTasks
<1>7. ASSUME Close \/ Drain \/ Finish \/ UNCHANGED workerVars \/ \E m \in Jobs : ReadDlq(m)
      PROVE  PermitInv'
  BY <1>1, <1>7 DEF Close, Drain, Finish, ReadDlq, workerVars
<1> QED BY <1>2, <1>3, <1>4, <1>5, <1>6, <1>7 DEF WorkerNext, Loop

(***************************************************************************)
(* A permit is either free or held by exactly one task, whichever way the  *)
(* tasks end: at most Concurrency of them exist, and none is ever lost.    *)
(***************************************************************************)
THEOREM PermitsConservedTheorem == WorkerSafety => []PermitsConserved
<1>1. WorkerInit => QueueInv /\ PermitInv
  BY QueueInvInit, PermitInvInit
<1>2. QueueInv /\ PermitInv /\ [WorkerNext]_workerVars => (QueueInv /\ PermitInv)'
  BY QueueInvStep, PermitInvStep
<1>3. PermitInv => PermitsConserved
  BY DEF PermitInv
<1> QED BY <1>1, <1>2, <1>3, PTL DEF WorkerSafety

-----------------------------------------------------------------------------
(* The load test *)

Answered == {w \in LtWorkers : lt[w] \in {"good", "bad"}}
Asking == {w \in LtWorkers : lt[w] = "request"}

\* Every answer is counted or about to be; a worker past the check of the total
\* is one of those by which the total may be exceeded; who stops has a reason.
LoadInv ==
    /\ sent \in Nat /\ good \in Nat /\ bad \in Nat
    /\ timed \in BOOLEAN /\ stop \in BOOLEAN /\ mainPc \in {"join", "await_progress", "reported"}
    /\ lt \in [LtWorkers -> {"top", "limit", "request", "good", "bad", "gone"}]
    /\ sent = good + bad + Cardinality(Answered)
    /\ Total > 0 => sent + Cardinality(Asking) <= Total + Cardinality(LtWorkers) - 1
    /\ (stop \/ \E w \in LtWorkers : lt[w] = "gone") => timed \/ sent >= Total
    /\ mainPc # "join" => \A w \in LtWorkers : lt[w] = "gone"

\* The workers split by where they are, before and after worker w goes to l.
LEMMA LoadSets ==
    ASSUME LoadInv, NEW w \in LtWorkers,
           NEW l \in {"top", "limit", "request", "good", "bad", "gone"}, LtGo(w, l)
    PROVE  /\ lt' \in [LtWorkers -> {"top", "limit", "request", "good", "bad", "gone"}]
           /\ \A v \in LtWorkers : lt'[v] = IF v = w THEN l ELSE lt[v]
           /\ Answered' = IF l \in {"good", "bad"} THEN Answered \cup {w} ELSE Answered \ {w}
           /\ Asking' = IF l = "request" THEN Asking \cup {w} ELSE Asking \ {w}
<1>1. /\ lt' \in [LtWorkers -> {"top", "limit", "request", "good", "bad", "gone"}]
      /\ \A v \in LtWorkers : lt'[v] = IF v = w THEN l ELSE lt[v]
  BY DEF LoadInv, LtGo
<1>2. Answered' = IF l \in {"good", "bad"} THEN Answered \cup {w} ELSE Answered \ {w}
  BY <1>1 DEF Answered
<1>3. Asking' = IF l = "request" THEN Asking \cup {w} ELSE Asking \ {w}
  BY <1>1 DEF Asking
<1> QED BY <1>1, <1>2, <1>3

LEMMA LoadSizes ==
    /\ IsFiniteSet(LtWorkers) /\ Cardinality(LtWorkers) \in Nat \ {0}
    /\ IsFiniteSet(Answered) /\ Cardinality(Answered) \in Nat
    /\ IsFiniteSet(Asking) /\ Cardinality(Asking) \in Nat /\ Cardinality(Asking) <= Cardinality(LtWorkers)
<1>1. IsFiniteSet(LtWorkers) /\ LtWorkers # {}
  BY LoadTestAssumption
<1>2. Answered \subseteq LtWorkers /\ Asking \subseteq LtWorkers
  BY DEF Answered, Asking
<1>3. Cardinality(LtWorkers) \in Nat \ {0}
  BY <1>1, FS_CardinalityType, FS_EmptySet
<1>4. IsFiniteSet(Answered) /\ IsFiniteSet(Asking) /\ Cardinality(Asking) <= Cardinality(LtWorkers)
  BY <1>1, <1>2, FS_Subset
<1>5. Cardinality(Answered) \in Nat /\ Cardinality(Asking) \in Nat
  BY <1>4, FS_CardinalityType
<1> QED BY <1>1, <1>3, <1>4, <1>5

LEMMA LoadInvInit == LoadInit => LoadInv
<1> SUFFICES ASSUME LoadInit PROVE LoadInv
  OBVIOUS
<1>1. Answered = {} /\ Asking = {}
  BY DEF LoadInit, Answered, Asking
<1>2. Cardinality(Answered) = 0 /\ Cardinality(Asking) = 0
  BY <1>1, FS_EmptySet
<1>3. \A w \in LtWorkers : lt[w] = "top"
  BY DEF LoadInit
<1>4. lt \in [LtWorkers -> {"top", "limit", "request", "good", "bad", "gone"}]
  BY DEF LoadInit
<1>5. timed \in BOOLEAN /\ Total \in Nat
  BY LoadTestAssumption DEF LoadInit
<1>6. sent = 0 /\ good = 0 /\ bad = 0 /\ stop = FALSE /\ mainPc = "join"
  BY DEF LoadInit
<1>7. sent = good + bad + Cardinality(Answered)
  BY <1>2, <1>6
<1>8. Total > 0 => sent + Cardinality(Asking) <= Total + Cardinality(LtWorkers) - 1
  BY <1>2, <1>5, <1>6, LoadSizes
<1>9. ~ (stop \/ \E w \in LtWorkers : lt[w] = "gone")
  BY <1>3, <1>6
<1>10. sent \in Nat /\ good \in Nat /\ bad \in Nat
  BY <1>6
<1>11. stop \in BOOLEAN /\ mainPc \in {"join", "await_progress", "reported"} /\ ~ (mainPc # "join")
  BY <1>6
<1> QED BY <1>4, <1>5, <1>7, <1>8, <1>9, <1>10, <1>11 DEF LoadInv

\* A worker that leaves before it asks: the stop flag, or enough requests.
LEMMA CheckKeepsLoadInv ==
    ASSUME LoadInv, NEW w \in LtWorkers, CheckStop(w) \/ CheckTotal(w)
    PROVE  LoadInv'
<1>1. PICK l \in {"limit", "request", "gone"} :
         /\ LtGo(w, l)
         /\ l = "gone" => stop \/ (Total > 0 /\ sent >= Total)
         /\ l = "request" => ~(Total > 0 /\ sent >= Total)
  BY DEF CheckStop, CheckTotal, Enough
<1>2. /\ UNCHANGED <<timed, sent, good, bad, stop, display, mainPc>>
      /\ lt[w] \in {"top", "limit"}
  BY DEF CheckStop, CheckTotal
<1>3. /\ lt' \in [LtWorkers -> {"top", "limit", "request", "good", "bad", "gone"}]
      /\ \A v \in LtWorkers : lt'[v] = IF v = w THEN l ELSE lt[v]
      /\ Answered' = Answered \ {w}
      /\ Asking' = IF l = "request" THEN Asking \cup {w} ELSE Asking \ {w}
  BY <1>1, LoadSets
<1>4. Answered' = Answered /\ w \notin Asking
  BY <1>2, <1>3 DEF Answered, Asking
<1>5. Total > 0 => sent + Cardinality(Asking') <= Total + Cardinality(LtWorkers) - 1
  <2>1. CASE l = "request"
    <3>1. Cardinality(Asking') \in Nat /\ Cardinality(Asking') <= Cardinality(LtWorkers)
      <4>1. Asking' \subseteq LtWorkers
        BY DEF Asking
      <4>2. IsFiniteSet(Asking') /\ Cardinality(Asking') <= Cardinality(LtWorkers)
        BY <4>1, LoadTestAssumption, FS_Subset
      <4> QED BY <4>2, FS_CardinalityType
    <3> QED BY <1>1, <2>1, <3>1, LoadSizes, LoadTestAssumption DEF LoadInv
  <2>2. CASE l # "request"
    <3>1. Asking' = Asking
      BY <1>3, <1>4, <2>2
    <3> QED BY <3>1 DEF LoadInv
  <2> QED BY <2>1, <2>2
<1>6. (stop \/ \E v \in LtWorkers : lt'[v] = "gone") => timed \/ sent >= Total
  BY <1>1, <1>3 DEF LoadInv
<1>7. mainPc = "join"
  BY <1>2 DEF LoadInv
<1> QED BY <1>2, <1>3, <1>4, <1>5, <1>6, <1>7 DEF LoadInv

LEMMA RespondKeepsLoadInv ==
    ASSUME LoadInv, NEW w \in LtWorkers, Respond(w)
    PROVE  LoadInv'
<1>1. PICK l \in {"good", "bad"} : LtGo(w, l)
  BY DEF Respond
<1>2. /\ UNCHANGED <<timed, good, bad, stop, display, mainPc>>
      /\ sent' = sent + 1 /\ lt[w] = "request"
  BY DEF Respond
<1>3. /\ lt' \in [LtWorkers -> {"top", "limit", "request", "good", "bad", "gone"}]
      /\ \A v \in LtWorkers : lt'[v] = IF v = w THEN l ELSE lt[v]
      /\ Answered' = Answered \cup {w} /\ Asking' = Asking \ {w}
  BY <1>1, LoadSets
<1>4. w \notin Answered /\ w \in Asking
  BY <1>2 DEF Answered, Asking
<1>5. Cardinality(Answered') = Cardinality(Answered) + 1
  BY <1>3, <1>4, LoadSizes, FS_AddElement
<1>6. Cardinality(Asking') = Cardinality(Asking) - 1
  BY <1>3, <1>4, LoadSizes, FS_RemoveElement
<1>7. sent \in Nat /\ good \in Nat /\ bad \in Nat /\ Total \in Nat
  BY LoadTestAssumption DEF LoadInv
<1>8. sent' = good + bad + Cardinality(Answered')
  BY <1>2, <1>5, <1>7, LoadSizes DEF LoadInv
<1>9. Total > 0 => sent' + Cardinality(Asking') <= Total + Cardinality(LtWorkers) - 1
  BY <1>2, <1>6, <1>7, LoadSizes DEF LoadInv
<1>10. (stop \/ \E v \in LtWorkers : lt'[v] = "gone") => timed \/ sent' >= Total
  BY <1>2, <1>3, <1>7 DEF LoadInv
<1>11. mainPc = "join"
  BY <1>2 DEF LoadInv
<1> QED BY <1>2, <1>3, <1>7, <1>8, <1>9, <1>10, <1>11 DEF LoadInv

LEMMA CountKeepsLoadInv ==
    ASSUME LoadInv, NEW w \in LtWorkers, CountResult(w)
    PROVE  LoadInv'
<1>1. /\ UNCHANGED <<timed, sent, stop, display, mainPc>>
      /\ lt[w] \in {"good", "bad"} /\ LtGo(w, "top")
      /\ good' = good + (IF lt[w] = "good" THEN 1 ELSE 0)
      /\ bad' = bad + (IF lt[w] = "bad" THEN 1 ELSE 0)
  BY DEF CountResult
<1>2. /\ lt' \in [LtWorkers -> {"top", "limit", "request", "good", "bad", "gone"}]
      /\ \A v \in LtWorkers : lt'[v] = IF v = w THEN "top" ELSE lt[v]
      /\ Answered' = Answered \ {w} /\ Asking' = Asking \ {w}
  BY <1>1, LoadSets
<1>3. w \in Answered /\ Asking' = Asking
  BY <1>1, <1>2 DEF Answered, Asking
<1>4. Cardinality(Answered') = Cardinality(Answered) - 1
  BY <1>2, <1>3, LoadSizes, FS_RemoveElement
<1>5. sent \in Nat /\ good \in Nat /\ bad \in Nat
  BY DEF LoadInv
<1>6. good' \in Nat /\ bad' \in Nat
  BY <1>1, <1>5
<1>7. sent = good' + bad' + Cardinality(Answered')
  <2>1. sent = good + bad + Cardinality(Answered) /\ Cardinality(Answered) \in Nat
    BY LoadSizes DEF LoadInv
  <2>2. (good' = good + 1 /\ bad' = bad) \/ (good' = good /\ bad' = bad + 1)
    BY <1>1, <1>5
  <2>3. CASE good' = good + 1 /\ bad' = bad
    BY <1>4, <1>5, <2>1, <2>3
  <2>4. CASE good' = good /\ bad' = bad + 1
    BY <1>4, <1>5, <2>1, <2>4
  <2> QED BY <2>2, <2>3, <2>4
<1>8. mainPc = "join"
  BY <1>1 DEF LoadInv
<1>9. \A v \in LtWorkers : lt'[v] = "gone" => lt[v] = "gone"
  BY <1>2
<1> QED BY <1>1, <1>2, <1>3, <1>5, <1>6, <1>7, <1>8, <1>9 DEF LoadInv

LEMMA LoadInvStep == LoadInv /\ [LoadNext]_loadVars => LoadInv'
<1> SUFFICES ASSUME LoadInv, [LoadNext]_loadVars PROVE LoadInv'
  OBVIOUS
<1>1. ASSUME NEW w \in LtWorkers, CheckStop(w) \/ CheckTotal(w) \/ Respond(w) \/ CountResult(w)
      PROVE  LoadInv'
  BY <1>1, CheckKeepsLoadInv, RespondKeepsLoadInv, CountKeepsLoadInv
<1>2. CASE SetStop
  <2>1. UNCHANGED <<timed, sent, good, bad, lt, mainPc>> /\ (timed \/ sent >= Total) /\ stop' = TRUE
    BY <1>2 DEF SetStop, Enough
  <2>2. UNCHANGED <<Answered, Asking>>
    BY <2>1 DEF Answered, Asking
  <2> QED BY <2>1, <2>2 DEF LoadInv
<1>3. CASE ShowProgress
  BY <1>3 DEF ShowProgress, LoadInv, Answered, Asking
<1>4. CASE JoinWorkers
  BY <1>4, LoadTestAssumption DEF JoinWorkers, LoadInv, Answered, Asking
<1>5. CASE Report
  BY <1>5 DEF Report, LoadInv, Answered, Asking
<1>6. CASE UNCHANGED loadVars
  BY <1>6 DEF loadVars, LoadInv, Answered, Asking
<1> QED BY <1>1, <1>2, <1>3, <1>4, <1>5, <1>6 DEF LoadNext, LoadWork

(***************************************************************************)
(* For any number of workers and any total: the counts add up once the     *)
(* workers are joined, no request is missing unless time ended the test,   *)
(* and the total is exceeded by less than one request for each worker.     *)
(***************************************************************************)
THEOREM LoadTotals == LoadSafety => []TotalsAddUp
<1>1. LoadInv => TotalsAddUp
  <2> SUFFICES ASSUME LoadInv PROVE TotalsAddUp
    OBVIOUS
  <2>1. sent \in Nat /\ good \in Nat /\ bad \in Nat /\ Total \in Nat
    BY LoadTestAssumption DEF LoadInv
  <2>2. good + bad <= sent
    BY <2>1, LoadSizes DEF LoadInv
  <2>3. ASSUME mainPc # "join" PROVE good + bad = sent /\ (~timed => sent >= Total)
    <3>1. \A w \in LtWorkers : lt[w] = "gone"
      BY <2>3 DEF LoadInv
    <3>2. Answered = {}
      BY <3>1 DEF Answered
    <3>3. Cardinality(Answered) = 0
      BY <3>2, FS_EmptySet
    <3> QED BY <2>1, <3>1, <3>3, LoadTestAssumption DEF LoadInv
  <2>4. Total > 0 => sent <= Total + Cardinality(LtWorkers) - 1
    BY <2>1, LoadSizes DEF LoadInv
  <2> QED BY <2>2, <2>3, <2>4 DEF TotalsAddUp
<1> QED BY <1>1, LoadInvInit, LoadInvStep, PTL DEF LoadSafety

-----------------------------------------------------------------------------
(* Cron: the invariant *)

Runs == [minute : Nat, asOf : Nat]

SchedTypeOK ==
    /\ clock \in Nat /\ wake \in Int /\ expr \in CronExprs /\ slot \in Nat \cup {-1} /\ ran \in Seq(Runs)
    /\ task \in [kind : {"every", "after", "at", "cron"},
                 pc : {"new", "select", "compute", "running", "pause", "done", "rejected"}]
    /\ offset \in Int /\ Wall \in Nat /\ backs \in Nat /\ asOf \in Nat

\* No minute of ran is ahead of the wall clock, except those of before it was set back.
RanIsPast == \A i \in DOMAIN ran : ran[i].minute * MinuteTicks <= Wall \/ ran[i].asOf < backs

\* What cron sleeps for is a match and is new; unless the wall clock is set back meanwhile,
\* the timer fires, and the task starts, less than a millisecond before that minute, and
\* when the pause after the task is over, it is past.
CronStageInv ==
    task.kind = "cron" =>
        /\ asOf <= backs /\ \A i \in DOMAIN ran : ran[i].asOf <= asOf
        /\ task.pc = "new" => ran = <<>>
        /\ task.pc = "compute" \/ (task.pc = "select" /\ slot = -1) => RanIsPast
        /\ task.pc = "select" /\ slot # -1 =>
             /\ Match(slot)
             /\ asOf = backs => slot * MinuteTicks < wake + offset + MilliTicks
             /\ \A i \in DOMAIN ran : ran[i].minute < slot \/ ran[i].asOf < asOf
        /\ task.pc \in {"running", "pause"} =>
             slot \in Nat /\ \A i \in DOMAIN ran : ran[i].minute <= slot \/ ran[i].asOf < asOf
        /\ task.pc = "running" => (asOf = backs => slot * MinuteTicks < Wall + MilliTicks)
        /\ task.pc = "pause" => (asOf = backs => slot * MinuteTicks <= wake + offset)

SchedInv == SchedTypeOK /\ CronStageInv /\ CronOncePerMinute

-----------------------------------------------------------------------------
(* Cron: the expression *)

LEMMA Division ==
    ASSUME NEW a \in Int, NEW m \in Nat \ {0}
    PROVE  /\ a \div m \in Int /\ (a \in Nat => a \div m \in Nat)
           /\ a % m \in 0 .. (m - 1) /\ a = m * (a \div m) + (a % m)
<1>1. a \div m \in Int /\ a % m \in 0 .. (m - 1)
  OBVIOUS
<1>2. a = m * (a \div m) + (a % m)
  OBVIOUS
<1>3. PICK q \in Int, r \in 0 .. (m - 1) : q = a \div m /\ r = a % m
  BY <1>1
<1>4. a \in Nat => q >= 0
  <2> SUFFICES ASSUME a \in Nat, q <= 0 - 1 PROVE FALSE
    OBVIOUS
  <2>1. m * q <= 0 - m
    OBVIOUS
  <2>2. a = m * q + r
    BY <1>2, <1>3
  <2> QED BY <2>1, <2>2
<1> QED BY <1>1, <1>2, <1>3, <1>4

LEMMA FieldDenotes ==
    ASSUME NEW f, NEW max, NEW v \in Nat, f.form \in {"any", "step", "list"},
           f.form = "step" => f.n \in Nat,
           v \in parse_field(f, max)
    PROVE  Denotes(f, v)
<1>0. v \notin Bad
  BY DEF Bad
<1>1. CASE f.form = "any"
  BY <1>1 DEF Denotes
<1>2. CASE f.form = "step"
  <2>1. parse_field(f, max) = IF f.n = 0 THEN Bad ELSE {u \in 0..max : u % f.n = 0}
    BY <1>2 DEF parse_field
  <2>2. PICK n \in Nat : n = f.n
    BY <1>2
  <2>3. n # 0 /\ v % n = 0
    BY <1>0, <2>1, <2>2
  <2>4. v = n * (v \div n) + (v % n) /\ v \div n \in Nat
    BY <2>3, Division
  <2>5. PICK k \in Nat : v = k * n
    BY <2>3, <2>4
  <2>6. k <= v
    BY <2>3, <2>5
  <2>7. k \in 0 .. v
    BY <2>6
  <2> QED BY <1>2, <2>2, <2>5, <2>7 DEF Denotes
<1>3. CASE f.form = "list"
  <2> DEFINE parsed == {parse_part(p, max) : p \in f.parts}
  <2>1. parse_field(f, max) = IF Bad \in parsed THEN Bad ELSE UNION parsed
    BY <1>3 DEF parse_field
  <2>2. Bad \notin parsed /\ v \in UNION parsed
    BY <1>0, <2>1
  <2>3. PICK p \in f.parts : v \in parse_part(p, max)
    BY <2>2
  <2>4. parse_part(p, max) = p.lo .. p.hi
    BY <2>2 DEF parse_part
  <2>5. p.lo <= v /\ v <= p.hi
    BY <2>3, <2>4
  <2> QED BY <1>3, <2>5 DEF Denotes
<1> QED BY <1>1, <1>2, <1>3

LEMMA MatchDenotes ==
    ASSUME expr \in CronExprs, NEW m \in Nat, Match(m)
    PROVE  Denotes(expr.minute, m % Minutes) /\ Denotes(expr.hour, (m \div Minutes) % Hours)
<1>1. Minutes \in Nat \ {0} /\ Hours \in Nat \ {0}
  BY SchedulerAssumption
<1>2. m % Minutes \in Nat /\ (m \div Minutes) % Hours \in Nat
  BY <1>1
<1>3. \A f \in {expr.minute, expr.hour} : f.form \in {"any", "step", "list"} /\ (f.form = "step" => f.n \in Nat)
  BY SchedulerAssumption
<1>4. Denotes(expr.minute, m % Minutes)
  BY <1>2, <1>3, FieldDenotes DEF Match
<1>5. Denotes(expr.hour, (m \div Minutes) % Hours)
  BY <1>2, <1>3, FieldDenotes DEF Match
<1> QED BY <1>4, <1>5

-----------------------------------------------------------------------------
(* Cron: the steps *)

LEMMA Monotone ==
    ASSUME NEW a \in Int, NEW b \in Int, NEW k \in Nat, a <= b
    PROVE  a * k <= b * k
OBVIOUS

LEMMA RunType ==
    ASSUME SchedTypeOK, NEW i \in DOMAIN ran
    PROVE  ran[i].minute \in Nat /\ ran[i].asOf \in Nat
<1>1. ran \in Seq(Runs)
  BY DEF SchedTypeOK
<1>2. ran[i] \in Runs
  BY <1>1
<1> QED BY <1>2 DEF Runs

\* The least minute of those found, which are all after this one.
LEMMA NextIsAhead ==
    ASSUME SchedTypeOK, next_after # -1
    PROVE  next_after \in Nat /\ Match(next_after) /\ Wall < next_after * MinuteTicks
<1> DEFINE found == {m \in (Now + 1)..(Now + Horizon) : Match(m)}
<1>1. Wall \in Nat /\ MinuteTicks \in Nat \ {0} /\ Horizon \in Nat
  BY SchedulerAssumption DEF SchedTypeOK
<1>2. Now \in Nat /\ Wall < (Now + 1) * MinuteTicks
  <2>1. /\ Wall \div MinuteTicks \in Nat /\ Wall % MinuteTicks \in 0 .. (MinuteTicks - 1)
        /\ Wall = MinuteTicks * (Wall \div MinuteTicks) + (Wall % MinuteTicks)
    <3>1. \A a \in Int, m \in Nat \ {0} : /\ (a \in Nat => a \div m \in Nat) /\ a % m \in 0 .. (m - 1)
                                           /\ a = m * (a \div m) + (a % m)
      BY Division
    <3>2. Wall \in Int
      BY <1>1
    <3> QED BY <1>1, <3>1, <3>2, Zenon
  <2>2. PICK q \in Nat : q = Wall \div MinuteTicks
    BY <2>1
  <2>3. (q + 1) * MinuteTicks = MinuteTicks * q + MinuteTicks
    BY <1>1
  <2> QED BY <1>1, <2>1, <2>2, <2>3 DEF Now
<1>3. found \in SUBSET Nat
  BY <1>1, <1>2
<1>4. next_after = IF found = {} THEN -1 ELSE CHOOSE m \in found : \A n \in found : m <= n
  BY DEF next_after
<1> HIDE DEF found
<1>5. next_after \in found
  <2>1. \E n \in found : \A m \in found : n <= m
    BY <1>3, <1>4, LeastNat
  <2> QED BY <1>4, <2>1
<1>6. PICK m \in Nat : m = next_after /\ m \in (Now + 1)..(Now + Horizon) /\ Match(m)
  BY <1>2, <1>3, <1>5 DEF found
<1>7. (Now + 1) * MinuteTicks <= m * MinuteTicks
  BY <1>1, <1>2, <1>6, Monotone
<1>8. m * MinuteTicks \in Int
  BY <1>1, <1>6
<1> QED BY <1>1, <1>2, <1>6, <1>7, <1>8

LEMMA SchedInvInit == SchedulerInit => SchedInv
<1> SUFFICES ASSUME SchedulerInit PROVE SchedInv
  OBVIOUS
<1>1. clock \in Nat
  BY SchedulerAssumption DEF SchedulerInit
<1>2. PICK k \in {"every", "after", "at", "cron"} : task = [kind |-> k, pc |-> "new"]
  BY DEF SchedulerInit
<1>3. ran = <<>> /\ ran \in Seq(Runs) /\ Len(ran) = 0
  BY DEF SchedulerInit
<1>4. SchedTypeOK
  BY <1>1, <1>2, <1>3 DEF SchedulerInit, SchedTypeOK, Wall
<1>5. CronStageInv
  BY <1>2, <1>3 DEF CronStageInv, SchedulerInit
<1>6. CronOncePerMinute
  BY <1>3 DEF CronOncePerMinute
<1> QED BY <1>4, <1>5, <1>6 DEF SchedInv

\* As long as ran and the expression stay, so does what they say.
LEMMA SameRuns ==
    ASSUME CronOncePerMinute, UNCHANGED <<expr, ran>>, task'.kind = task.kind
    PROVE  CronOncePerMinute' /\ \A m : Match(m)' <=> Match(m)
BY DEF CronOncePerMinute, Match, Denotes

\* Jobs that are not cron's keep no minutes.
LEMMA OtherKinds ==
    ASSUME SchedTypeOK', task'.kind # "cron"
    PROVE  SchedInv'
BY DEF SchedInv, CronStageInv, CronOncePerMinute

LEMMA PeriodType == Period \in Nat
BY SchedulerAssumption

LEMMA StartJobKeeps == ASSUME SchedInv, StartJob PROVE SchedInv'
<1>1. /\ task.pc = "new" /\ UNCHANGED <<clock, offset, expr, slot, handle, backs, asOf, ran>>
      /\ Wall' = Wall /\ SchedTypeOK
      /\ CronStageInv /\ CronOncePerMinute
  BY DEF StartJob, every, after, at, parse, Starts, SchedInv, Wall
<1>2. CASE every \/ after \/ at
  <2>1. /\ task' = [task EXCEPT !.pc = "select"] /\ wake' \in {clock, clock + Period} /\ task.kind # "cron"
    BY <1>2 DEF every, after, at, Starts, To
  <2>2. SchedTypeOK'
    <3>1. wake' \in Int
      BY <1>1, <2>1, PeriodType DEF SchedTypeOK
    <3> QED BY <1>1, <2>1, <3>1 DEF SchedTypeOK
  <2> QED BY <1>1, <2>1, <2>2, OtherKinds DEF SchedTypeOK
<1>3. CASE parse
  <2>1. PICK p \in {"rejected", "compute"} : task' = [task EXCEPT !.pc = p] /\ UNCHANGED wake
    BY <1>3 DEF parse, To
  <2>2. SchedTypeOK' /\ task'.pc = p /\ task'.kind = task.kind /\ task.kind = "cron"
    BY <1>1, <1>3, <2>1 DEF SchedTypeOK, parse, Starts
  <2>3. ran = <<>> /\ DOMAIN <<>> = {}
    BY <1>1, <2>2 DEF CronStageInv
  <2>4. CronStageInv'
    BY <1>1, <2>2, <2>3 DEF CronStageInv, RanIsPast
  <2> QED BY <1>1, <2>2, <2>4, SameRuns DEF SchedInv
<1> QED BY <1>2, <1>3 DEF StartJob

LEMMA ComputeKeeps == ASSUME SchedInv, Compute PROVE SchedInv'
<1>1. /\ task.kind = "cron" /\ task.pc = "compute" /\ task' = [task EXCEPT !.pc = "select"]
      /\ UNCHANGED <<clock, offset, expr, handle, backs, ran>> /\ slot' = next_after /\ asOf' = backs
      /\ wake' = IF next_after = -1 THEN clock + MinuteTicks
                 ELSE clock + MilliTicks * ((next_after * MinuteTicks - Wall) \div MilliTicks)
      /\ SchedTypeOK /\ CronStageInv /\ CronOncePerMinute
  BY DEF Compute, To, SchedInv
<1>2. /\ task'.pc = "select" /\ task'.kind = "cron" /\ clock \in Nat /\ offset \in Int /\ Wall \in Nat
      /\ Wall = clock + offset /\ Wall' = Wall
  BY <1>1 DEF SchedTypeOK, Wall
<1>3. MinuteTicks \in Nat \ {0} /\ MilliTicks \in Nat \ {0}
  BY SchedulerAssumption
<1>4. RanIsPast
  BY <1>1 DEF CronStageInv
<1>5. asOf' <= backs' /\ \A i \in DOMAIN ran' : ran'[i].asOf <= asOf'
  <2> SUFFICES ASSUME NEW i \in DOMAIN ran PROVE ran[i].asOf <= backs /\ backs <= backs
    BY <1>1 DEF SchedTypeOK
  <2>1. ran[i].asOf <= asOf /\ asOf <= backs
    BY <1>1 DEF CronStageInv
  <2>2. ran[i].asOf \in Nat
    BY <1>1, RunType
  <2> QED BY <1>1, <2>1, <2>2 DEF SchedTypeOK
<1>6. CASE next_after = -1
  <2>1. SchedTypeOK'
    BY <1>1, <1>2, <1>3, <1>6 DEF SchedTypeOK
  <2>2. CronStageInv'
    BY <1>1, <1>2, <1>4, <1>5, <1>6 DEF CronStageInv, RanIsPast
  <2> QED BY <1>1, <1>2, <2>1, <2>2, SameRuns DEF SchedInv
<1>7. CASE next_after # -1
  <2>1. PICK n \in Nat : n = next_after /\ Match(n) /\ Wall < n * MinuteTicks
    BY <1>1, <1>7, NextIsAhead
  <2>2. PICK a \in Int : a = n * MinuteTicks - Wall
    BY <1>2, <1>3
  <2>3. /\ a \div MilliTicks \in Int /\ a % MilliTicks \in 0 .. (MilliTicks - 1)
        /\ a = MilliTicks * (a \div MilliTicks) + (a % MilliTicks)
    <3>1. \A x \in Int, m \in Nat \ {0} : /\ x \div m \in Int /\ x % m \in 0 .. (m - 1)
                                           /\ x = m * (x \div m) + (x % m)
      BY Division
    <3> QED BY <1>3, <3>1, Zenon
  <2>4. PICK p \in Int : p = MilliTicks * (a \div MilliTicks)
    BY <1>3, <2>3
  <2>5. wake' = clock + p
    BY <1>1, <1>7, <2>1, <2>2, <2>4
  <2>6. a < p + MilliTicks
    BY <1>3, <2>3, <2>4
  <2>7. slot' = n /\ wake' \in Int /\ n * MinuteTicks < wake' + offset + MilliTicks
    <3>1. n * MinuteTicks \in Int
      BY <1>3
    <3> QED BY <1>1, <1>2, <1>3, <2>1, <2>2, <2>5, <2>6, <3>1
  <2>8. SchedTypeOK'
    BY <1>1, <1>2, <2>7 DEF SchedTypeOK
  <2>9. ASSUME NEW i \in DOMAIN ran PROVE ran[i].minute < n \/ ran[i].asOf < backs
    <3>1. ran[i].minute \in Nat /\ (ran[i].minute * MinuteTicks <= Wall \/ ran[i].asOf < backs)
      BY <1>1, <1>4, RunType DEF RanIsPast
    <3>2. PICK k \in Nat : k = ran[i].minute
      BY <3>1
    <3> SUFFICES ASSUME n <= k, k * MinuteTicks <= Wall PROVE FALSE
      BY <3>1, <3>2
    <3>3. n * MinuteTicks <= k * MinuteTicks
      BY <1>3, Monotone
    <3>4. n * MinuteTicks \in Int /\ k * MinuteTicks \in Int
      BY <1>3
    <3> QED BY <1>2, <2>1, <3>3, <3>4
  <2>10. Match(slot)'
    <3>1. Match(n)'
      BY <1>1, <1>2, <2>1, SameRuns
    <3> QED BY <2>7, <3>1 DEF Match
  <2>11. CronStageInv'
    BY <1>1, <1>2, <1>5, <2>7, <2>9, <2>10 DEF CronStageInv
  <2> QED BY <1>1, <1>2, <2>8, <2>11, SameRuns DEF SchedInv
<1> QED BY <1>6, <1>7

LEMMA FireKeeps == ASSUME SchedInv, Fire PROVE SchedInv'
<1>1. /\ task.pc = "select" /\ clock >= wake /\ UNCHANGED <<clock, offset, expr, slot, handle, backs, asOf>>
      /\ Wall' = Wall /\ SchedTypeOK /\ CronStageInv /\ CronOncePerMinute
  BY DEF Fire, SchedInv, Wall
<1>2. CASE task.kind # "cron"
  <2>1. /\ task' = [task EXCEPT !.pc = "running"] /\ UNCHANGED ran /\ wake' \in {wake, wake + Period}
    BY <1>2 DEF Fire, To
  <2>2. SchedTypeOK' /\ task'.kind # "cron"
    <3>1. wake' \in Int
      BY <1>1, <2>1, PeriodType DEF SchedTypeOK
    <3> QED BY <1>1, <1>2, <2>1, <3>1 DEF SchedTypeOK
  <2> QED BY <2>2, OtherKinds
<1>3. CASE task.kind = "cron" /\ slot = -1
  <2>1. /\ task' = [task EXCEPT !.pc = "compute"] /\ UNCHANGED <<ran, wake>>
    BY <1>3 DEF Fire, To
  <2>2. SchedTypeOK' /\ task'.kind = "cron" /\ task'.pc = "compute"
    BY <1>1, <1>3, <2>1 DEF SchedTypeOK
  <2>3. CronStageInv'
    BY <1>1, <1>3, <2>1, <2>2 DEF CronStageInv, RanIsPast
  <2> QED BY <1>1, <1>3, <2>1, <2>2, <2>3, SameRuns DEF SchedInv
<1>4. CASE task.kind = "cron" /\ slot # -1
  <2> DEFINE run == [minute |-> slot, asOf |-> asOf]
  <2>1. /\ task' = [task EXCEPT !.pc = "running"] /\ ran' = Append(ran, run) /\ UNCHANGED wake
    BY <1>4 DEF Fire, To
  <2>2. /\ Match(slot) /\ (asOf = backs => slot * MinuteTicks < wake + offset + MilliTicks)
        /\ \A i \in DOMAIN ran : ran[i].minute < slot \/ ran[i].asOf < asOf
        /\ asOf <= backs /\ \A i \in DOMAIN ran : ran[i].asOf <= asOf
    BY <1>1, <1>4 DEF CronStageInv
  <2>3. /\ task'.kind = "cron" /\ task'.pc = "running" /\ ran \in Seq(Runs) /\ slot \in Nat /\ Len(ran) \in Nat
        /\ run \in Runs /\ run.minute = slot /\ run.asOf = asOf /\ asOf \in Nat /\ backs \in Nat
    BY <1>1, <1>4, <2>1 DEF SchedTypeOK, Runs
  <2> HIDE DEF run
  <2>4. /\ ran' \in Seq(Runs) /\ Len(ran') = Len(ran) + 1 /\ ran'[Len(ran) + 1] = run
        /\ \A i \in 1 .. Len(ran) : ran'[i] = ran[i]
    BY <2>1, <2>3
  <2>5. SchedTypeOK'
    BY <1>1, <2>1, <2>4 DEF SchedTypeOK
  <2>6. \A i \in DOMAIN ran' : i \in 1 .. Len(ran) \/ i = Len(ran) + 1
    BY <2>3, <2>4
  <2>7. \A i \in 1 .. Len(ran) : /\ ran[i].minute < slot \/ ran[i].asOf < asOf
                                 /\ ran[i].asOf <= asOf /\ ran[i].minute \in Nat /\ ran[i].asOf \in Nat
    BY <1>1, <2>2, <2>3, RunType
  <2>8. \A i \in DOMAIN ran' : /\ ran'[i].minute <= slot \/ ran'[i].asOf < asOf
                               /\ ran'[i].asOf <= asOf
    <3> SUFFICES ASSUME NEW i \in DOMAIN ran'
                 PROVE  /\ ran'[i].minute <= slot \/ ran'[i].asOf < asOf
                        /\ ran'[i].asOf <= asOf
      OBVIOUS
    <3>1. CASE i \in 1 .. Len(ran)
      BY <2>3, <2>4, <2>7, <3>1
    <3>2. CASE i = Len(ran) + 1
      BY <2>3, <2>4, <3>2
    <3> QED BY <2>6, <3>1, <3>2
  <2>9. asOf = backs => slot * MinuteTicks < Wall + MilliTicks
    <3> SUFFICES ASSUME asOf = backs PROVE slot * MinuteTicks < Wall + MilliTicks
      OBVIOUS
    <3>1. PICK p \in Int : p = slot * MinuteTicks
      BY <2>3, SchedulerAssumption
    <3>2. MilliTicks \in Nat /\ p < wake + offset + MilliTicks
      BY <2>2, <3>1, SchedulerAssumption
    <3>3. p < Wall + MilliTicks
      BY <1>1, <3>2 DEF SchedTypeOK, Wall
    <3> QED BY <3>1, <3>3
  <2>10. CronStageInv'
    BY <1>1, <2>2, <2>3, <2>8, <2>9 DEF CronStageInv
  <2>11. CronOncePerMinute'
    <3>1. ASSUME NEW i \in 1 .. Len(ran')
          PROVE  /\ Denotes(expr.minute, ran'[i].minute % Minutes)
                 /\ Denotes(expr.hour, (ran'[i].minute \div Minutes) % Hours)
                 /\ \A j \in 1..(i - 1) :
                      ran'[j].minute < ran'[i].minute \/ ran'[j].asOf < ran'[i].asOf
      <4>1. CASE i \in 1 .. Len(ran)
        <5>1. \A j \in 1..(i - 1) : j \in 1 .. Len(ran)
          BY <2>3, <4>1
        <5>2. /\ Denotes(expr.minute, ran[i].minute % Minutes)
              /\ Denotes(expr.hour, (ran[i].minute \div Minutes) % Hours)
              /\ \A j \in 1..(i - 1) : ran[j].minute < ran[i].minute \/ ran[j].asOf < ran[i].asOf
          BY <1>1, <1>4, <4>1 DEF CronOncePerMinute
        <5> QED BY <2>4, <4>1, <5>1, <5>2
      <4>2. CASE i = Len(ran) + 1
        <5>1. \A j \in 1..(i - 1) : j \in 1 .. Len(ran)
          BY <2>3, <4>2
        <5>2. Denotes(expr.minute, slot % Minutes) /\ Denotes(expr.hour, (slot \div Minutes) % Hours)
          BY <1>1, <2>2, <2>3, MatchDenotes DEF SchedTypeOK
        <5> QED BY <2>3, <2>4, <2>7, <4>2, <5>1, <5>2
      <4> QED BY <2>3, <2>4, <4>1, <4>2
    <3>2. expr' = expr
      BY <1>1
    <3> QED BY <3>1, <3>2 DEF CronOncePerMinute, Denotes
  <2> QED BY <2>5, <2>10, <2>11 DEF SchedInv
<1> QED BY <1>2, <1>3, <1>4

LEMMA TaskEndsKeeps == ASSUME SchedInv, TaskEnds PROVE SchedInv'
<1>1. /\ task.pc = "running" /\ UNCHANGED <<clock, offset, expr, slot, handle, backs, asOf, ran>>
      /\ Wall' = Wall /\ SchedTypeOK /\ CronStageInv /\ CronOncePerMinute
  BY DEF TaskEnds, SchedInv, Wall
<1>2. CASE task.kind # "cron"
  <2>1. UNCHANGED wake /\ \E p \in {"select", "done"} : task' = [task EXCEPT !.pc = p]
    <3>1. CASE task.kind = "every"
      BY <3>1 DEF TaskEnds, To
    <3>2. CASE task.kind # "every"
      BY <1>2, <3>2 DEF TaskEnds, To
    <3> QED BY <3>1, <3>2
  <2>2. SchedTypeOK' /\ task'.kind # "cron"
    BY <1>1, <1>2, <2>1 DEF SchedTypeOK
  <2> QED BY <2>2, OtherKinds
<1>3. CASE task.kind = "cron"
  <2>1. task' = [task EXCEPT !.pc = "pause"] /\ wake' = clock + PauseTicks
    BY <1>3 DEF TaskEnds, To, Pause
  <2>2. /\ PauseTicks \in Nat /\ MilliTicks \in Nat /\ MilliTicks <= PauseTicks /\ MinuteTicks \in Nat
        /\ clock \in Nat /\ offset \in Int /\ Wall = clock + offset
    BY <1>1, SchedulerAssumption DEF SchedTypeOK, Wall
  <2>3. /\ slot \in Nat /\ (asOf = backs => slot * MinuteTicks < Wall + MilliTicks)
        /\ \A i \in DOMAIN ran : ran[i].minute <= slot \/ ran[i].asOf < asOf
        /\ asOf <= backs /\ \A i \in DOMAIN ran : ran[i].asOf <= asOf
    BY <1>1, <1>3 DEF CronStageInv
  <2>4. SchedTypeOK' /\ task'.kind = "cron" /\ task'.pc = "pause"
    BY <1>1, <1>3, <2>1, <2>2 DEF SchedTypeOK
  <2>5. asOf = backs => slot * MinuteTicks <= wake' + offset
    <3> SUFFICES ASSUME asOf = backs PROVE slot * MinuteTicks <= wake' + offset
      OBVIOUS
    <3>1. PICK p \in Int : p = slot * MinuteTicks
      BY <2>2, <2>3
    <3>2. p <= wake' + offset
      BY <2>1, <2>2, <2>3, <3>1
    <3> QED BY <3>1, <3>2
  <2>6. CronStageInv'
    BY <1>1, <2>3, <2>4, <2>5 DEF CronStageInv
  <2> QED BY <1>1, <1>3, <2>4, <2>6, SameRuns DEF SchedInv
<1> QED BY <1>2, <1>3

LEMMA PauseOverKeeps == ASSUME SchedInv, PauseOver PROVE SchedInv'
<1>1. /\ task.pc = "pause" /\ clock >= wake /\ task' = [task EXCEPT !.pc = "compute"]
      /\ UNCHANGED <<clock, offset, expr, wake, slot, handle, backs, asOf, ran>> /\ Wall' = Wall
      /\ SchedTypeOK /\ CronStageInv /\ CronOncePerMinute
  BY DEF PauseOver, To, SchedInv, Wall
<1>2. SchedTypeOK' /\ task'.kind = task.kind /\ task'.pc = "compute"
  BY <1>1 DEF SchedTypeOK
<1>3. CASE task.kind # "cron"
  BY <1>2, <1>3, OtherKinds
<1>4. CASE task.kind = "cron"
  <2>1. /\ slot \in Nat /\ (asOf = backs => slot * MinuteTicks <= wake + offset)
        /\ \A i \in DOMAIN ran : ran[i].minute <= slot \/ ran[i].asOf < asOf
        /\ asOf <= backs /\ \A i \in DOMAIN ran : ran[i].asOf <= asOf
    BY <1>1, <1>4 DEF CronStageInv
  <2>2. RanIsPast
    <3> SUFFICES ASSUME NEW i \in DOMAIN ran, ~(ran[i].asOf < backs)
                 PROVE  ran[i].minute * MinuteTicks <= Wall
      BY DEF RanIsPast
    <3>1. /\ ran[i].minute \in Nat /\ ran[i].asOf \in Nat /\ asOf \in Nat /\ backs \in Nat
          /\ MinuteTicks \in Nat /\ clock \in Nat /\ wake \in Int /\ offset \in Int
      BY <1>1, RunType, SchedulerAssumption DEF SchedTypeOK
    <3>2. asOf = backs /\ ran[i].minute <= slot
      BY <2>1, <3>1
    <3>3. ran[i].minute * MinuteTicks <= slot * MinuteTicks
      BY <2>1, <3>1, <3>2, Monotone
    <3>4. ran[i].minute * MinuteTicks \in Int /\ slot * MinuteTicks \in Int
      BY <2>1, <3>1
    <3> QED BY <1>1, <2>1, <3>1, <3>2, <3>3, <3>4 DEF Wall
  <2>3. CronStageInv'
    BY <1>1, <1>2, <2>1, <2>2 DEF CronStageInv, RanIsPast
  <2> QED BY <1>1, <1>2, <2>3, SameRuns DEF SchedInv
<1> QED BY <1>3, <1>4

LEMMA IsCancelledKeeps == ASSUME SchedInv, IsCancelled PROVE SchedInv'
<1>1. /\ task' = [task EXCEPT !.pc = "done"] /\ UNCHANGED <<clock, offset, expr, wake, slot, backs, asOf, ran>>
      /\ Wall' = Wall /\ SchedTypeOK /\ CronStageInv /\ CronOncePerMinute
  BY DEF IsCancelled, To, SchedInv, Wall
<1>2. SchedTypeOK' /\ task'.kind = task.kind /\ task'.pc = "done"
  BY <1>1 DEF SchedTypeOK
<1>3. CronStageInv'
  BY <1>1, <1>2 DEF CronStageInv
<1> QED BY <1>1, <1>2, <1>3, SameRuns DEF SchedInv

LEMMA Later ==
    ASSUME NEW c \in Int, NEW d \in Int, NEW o \in Int, NEW q \in Int, c <= d, o <= q
    PROVE  c + o <= d + q /\ d + q \in Int
OBVIOUS

LEMMA LaterThan ==
    ASSUME NEW a \in Int, NEW b \in Int, NEW p \in Int, NEW k \in Int, a <= b
    PROVE  (p < a + k => p < b + k) /\ (p <= a => p <= b)
OBVIOUS

LEMMA NatBelow == ASSUME NEW a \in Nat, NEW b \in Int, a <= b PROVE b \in Nat
OBVIOUS

\* Both clocks go on, or the wall clock is set forward, or nothing happens.
LEMMA TimeKeeps ==
    ASSUME SchedInv, clock' \in {clock, clock + 1}, offset' \in Int, offset <= offset',
           UNCHANGED <<expr, task, wake, slot, backs, asOf, ran>>
    PROVE  SchedInv'
<1>1. SchedTypeOK /\ CronStageInv /\ CronOncePerMinute
  BY DEF SchedInv
<1>2. /\ clock \in Nat /\ clock' \in Nat /\ clock <= clock' /\ MinuteTicks \in Nat /\ MilliTicks \in Nat
      /\ offset \in Int /\ wake \in Int /\ Wall \in Nat /\ Wall' \in Nat /\ Wall <= Wall'
  <2>1. /\ clock \in Nat /\ clock' \in Nat /\ clock <= clock' /\ MinuteTicks \in Nat /\ MilliTicks \in Nat
        /\ offset \in Int /\ wake \in Int /\ Wall \in Nat
    BY <1>1, SchedulerAssumption DEF SchedTypeOK
  <2>2. clock \in Int /\ clock' \in Int
    BY <2>1
  <2>3. clock + offset <= clock' + offset' /\ clock' + offset' \in Int
    BY <2>1, <2>2, Later, Zenon
  <2>4. Wall <= Wall' /\ Wall' \in Int
    BY <2>3, Zenon DEF Wall
  <2>5. Wall' \in Nat
    BY <2>1, <2>4, NatBelow, Zenon
  <2> QED BY <2>1, <2>4, <2>5, Zenon
<1>3. SchedTypeOK'
  BY <1>1, <1>2 DEF SchedTypeOK
<1>4. CronOncePerMinute' /\ \A m : Match(m)' <=> Match(m)
  BY <1>1, SameRuns
<1>5. RanIsPast => RanIsPast'
  <2> SUFFICES ASSUME RanIsPast, NEW i \in DOMAIN ran
               PROVE  ran[i].minute * MinuteTicks <= Wall' \/ ran[i].asOf < backs
    BY DEF RanIsPast
  <2>1. /\ ran[i].minute * MinuteTicks <= Wall \/ ran[i].asOf < backs
        /\ ran[i].minute * MinuteTicks \in Int
    BY <1>1, <1>2, RunType DEF RanIsPast
  <2> QED BY <1>2, <2>1
<1>6. ASSUME slot \in Nat
      PROVE  /\ slot * MinuteTicks < Wall + MilliTicks => slot * MinuteTicks < Wall' + MilliTicks
             /\ slot * MinuteTicks < wake + offset + MilliTicks
                  => slot * MinuteTicks < wake + offset' + MilliTicks
             /\ slot * MinuteTicks <= wake + offset => slot * MinuteTicks <= wake + offset'
  <2>1. PICK p \in Int : p = slot * MinuteTicks
    BY <1>2, <1>6
  <2>2. wake + offset <= wake + offset' /\ wake + offset \in Int /\ wake + offset' \in Int
    <3>1. wake <= wake /\ wake + offset \in Int
      BY <1>2
    <3> QED BY <1>2, <3>1, Later, Zenon
  <2>3. MilliTicks \in Int /\ Wall \in Int /\ Wall' \in Int
    BY <1>2
  <2>4. p < Wall + MilliTicks => p < Wall' + MilliTicks
    BY <1>2, <2>3, LaterThan, Zenon
  <2>5. /\ p < wake + offset + MilliTicks => p < wake + offset' + MilliTicks
        /\ p <= wake + offset => p <= wake + offset'
    BY <2>2, <2>3, LaterThan, Zenon
  <2> QED BY <2>1, <2>4, <2>5
<1>7. (Match(slot)' <=> Match(slot)) /\ slot \in Nat \cup {-1}
  BY <1>1 DEF Match, SchedTypeOK
<1>8. CronStageInv'
  BY <1>1, <1>5, <1>6, <1>7 DEF CronStageInv
<1> QED BY <1>3, <1>4, <1>8 DEF SchedInv

\* The wall clock is set back: what ran before does not count any more.
LEMMA BackKeeps ==
    ASSUME SchedInv, NEW jump \in Int, jump < 0, SetClock(jump)
    PROVE  SchedInv'
<1>1. /\ SchedTypeOK /\ CronStageInv /\ CronOncePerMinute
      /\ UNCHANGED <<clock, expr, task, wake, slot, asOf, ran>>
      /\ backs' = backs + 1 /\ offset' = offset + jump /\ Wall + jump \in 0..MaxClock
  BY DEF SchedInv, SetClock
<1>2. SchedTypeOK'
  <2>1. Wall' \in Nat /\ offset' \in Int
    BY <1>1 DEF SchedTypeOK, Wall
  <2> QED BY <1>1, <2>1 DEF SchedTypeOK
<1>3. CronOncePerMinute' /\ (Match(slot)' <=> Match(slot))
  BY <1>1, SameRuns DEF Match
<1>4. CASE task.kind = "cron"
  <2>1. /\ asOf \in Nat /\ backs \in Nat /\ asOf <= backs
        /\ \A i \in DOMAIN ran : ran[i].asOf <= asOf /\ ran[i].asOf \in Nat
    BY <1>1, <1>4, RunType DEF CronStageInv, SchedTypeOK
  <2>2. asOf <= backs' /\ asOf # backs' /\ \A i \in DOMAIN ran : ran[i].asOf < backs'
    BY <1>1, <2>1
  <2>3. RanIsPast'
    BY <1>1, <2>2 DEF RanIsPast
  <2>4. CronStageInv'
    BY <1>1, <1>3, <2>2, <2>3 DEF CronStageInv
  <2> QED BY <1>2, <1>3, <2>4 DEF SchedInv
<1>5. CASE task.kind # "cron"
  BY <1>1, <1>2, <1>5, OtherKinds
<1> QED BY <1>4, <1>5

LEMMA SchedInvStep == SchedInv /\ [SchedulerNext]_schedulerVars => SchedInv'
<1> SUFFICES ASSUME SchedInv, [SchedulerNext]_schedulerVars PROVE SchedInv'
  OBVIOUS
<1>0. offset \in Int /\ Jumps \subseteq Int
  BY SchedulerAssumption DEF SchedInv, SchedTypeOK
<1>1. CASE Cancel \/ SchedTick \/ UNCHANGED schedulerVars
  <2>1. /\ clock' \in {clock, clock + 1} /\ offset' = offset
        /\ UNCHANGED <<expr, task, wake, slot, backs, asOf, ran>>
    BY <1>1 DEF Cancel, SchedTick, schedulerVars
  <2> QED BY <1>0, <2>1, TimeKeeps
<1>2. ASSUME NEW jump \in Jumps, SetClock(jump) PROVE SchedInv'
  <2>1. CASE jump < 0
    BY <1>0, <1>2, <2>1, BackKeeps
  <2>2. CASE ~(jump < 0)
    <3>1. offset' = offset + jump /\ UNCHANGED <<clock, expr, task, wake, slot, backs, asOf, ran>>
      BY <1>2, <2>2 DEF SetClock
    <3>2. offset' \in Int /\ offset <= offset'
      BY <1>0, <2>2, <3>1
    <3> QED BY <3>1, <3>2, TimeKeeps
  <2> QED BY <2>1, <2>2
<1> QED BY <1>1, <1>2, StartJobKeeps, ComputeKeeps, FireKeeps, TaskEndsKeeps, PauseOverKeeps,
           IsCancelledKeeps
        DEF SchedulerNext

\* Whatever the expression, and however the wall clock is set while cron sleeps by the
\* other one: cron runs its task only for minutes the expression denotes, and for a minute
\* it has had, or an earlier one, only where the wall clock was set back in between,
\* although it may be up to a millisecond early.
THEOREM CronTheorem == SchedulerSafety => []CronOncePerMinute
<1>1. SchedInv => CronOncePerMinute
  BY DEF SchedInv
<1> QED BY <1>1, SchedInvInit, SchedInvStep, PTL DEF SchedulerSafety
=============================================================================
