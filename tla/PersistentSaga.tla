--------------------------- MODULE PersistentSaga ---------------------------
(***************************************************************************)
(* saga/persistence.rs: PersistentSaga::execute and the saga_records table.*)
(*                                                                         *)
(* The control is Saga's; around each of its steps the code inserts        *)
(* records into the table.  `todo` holds the records that the code inserts *)
(* before it goes on to the next step; an insert that fails is logged and  *)
(* ignored.  load_saga returns the last record of the table.               *)
(***************************************************************************)
EXTENDS Saga, Sequences

CONSTANT PersistFails   \* may an INSERT fail?

ASSUME PersistFailsAssumption == PersistFails \in BOOLEAN

VARIABLES
    records,   \* the rows of saga_records for this saga_id, by id
    todo,      \* rows still to be inserted before the next step
    lost       \* history: has an INSERT failed?

persistVars == <<sagaVars, records, todo, lost>>

Rec(step, state) == [step |-> step, state |-> state]

\* Numbers stand for the step names and Whole for the names __start__ (state
\* running), __compensate__ (compensating) and __end__ (completed or failed)
\* of the records about the saga as a whole.
Whole == 0

Records == [step : Steps \cup {Whole},
            state : {"running", "compensating", "completed", "failed",
                     "compensated"}]

\* Mutant: the step after is announced.
AnnounceNext(i) == IF i < N THEN Rec(i + 1, "running") ELSE Rec(Whole, "completed")

\* The record before step i is executed, or the one that ends a full run.
Announce(i) == IF i <= N THEN Rec(i, "running") ELSE Rec(Whole, "completed")

\* The record that ends a failed saga follows the last compensation.
FailedEnd(left) == IF left = 0 THEN <<Rec(Whole, "failed")>> ELSE <<>>

PersistInit ==
    /\ SagaInit
    /\ records = <<>>
    /\ todo = <<Rec(Whole, "running"), Announce(1)>>
    /\ lost = FALSE

\* record_step: the row is inserted, or the error is logged and ignored.
Persist ==
    /\ pc \in {"forward", "compensate"}
    /\ todo # <<>>
    /\ \/ records' = Append(records, Head(todo)) /\ UNCHANGED lost
       \/ PersistFails /\ lost' = TRUE /\ UNCHANGED records
    /\ todo' = Tail(todo)
    /\ UNCHANGED sagaVars

PStepOk ==
    /\ todo = <<>>
    /\ StepOk
    /\ todo' = <<Rec(completed + 1, "completed"), Announce(completed + 2)>>
    /\ UNCHANGED <<records, lost>>

PStepErr ==
    /\ todo = <<>>
    /\ StepErr
    /\ todo' = <<Rec(completed + 1, "failed"), Rec(Whole, "compensating")>>
                 \o FailedEnd(completed)
    /\ UNCHANGED <<records, lost>>

PCompensateOk ==
    /\ todo = <<>>
    /\ CompensateOk
    /\ todo' = <<Rec(comp, "compensated")>> \o FailedEnd(comp - 1)
    /\ UNCHANGED <<records, lost>>

\* Only the last failed attempt leaves a record.
PCompensateErr ==
    /\ todo = <<>>
    /\ CompensateErr
    /\ todo' = IF LastAttempt
                 THEN <<Rec(comp, "compensating")>> \o FailedEnd(comp - 1)
                 ELSE <<>>
    /\ UNCHANGED <<records, lost>>

PReturn ==
    /\ todo = <<>>
    /\ Return
    /\ UNCHANGED <<records, todo, lost>>

PCrash ==
    /\ Crash
    /\ UNCHANGED <<records, todo, lost>>

Progress == \/ Persist \/ PStepOk \/ PStepErr \/ PCompensateOk
            \/ PCompensateErr \/ PReturn

PersistNext == Progress \/ PCrash

PersistSafety == PersistInit /\ [][PersistNext]_persistVars

\* The task is polled again and the steps it awaits return.
PersistSpec == PersistSafety /\ WF_persistVars(Progress)

-----------------------------------------------------------------------------
(* Properties *)

\* The types of the saga's progress and of the rows written and still to write.
PersistTypeOK ==
    /\ SagaTypeOK
    /\ records \in Seq(Records)
    /\ todo \in Seq(Records)
    /\ lost \in BOOLEAN

Logged(step, state) == \E n \in 1..Len(records) : records[n] = Rec(step, state)

\* The table never claims what has not happened: a step is on record as
\* completed or compensated only after it was, the saga as completed only with
\* every step applied, and as failed only with every completed step undone or
\* given up.  True at every moment, a crash or a lost row notwithstanding.
LogSound ==
    /\ \A i \in Steps :
         /\ Logged(i, "completed") => effect[i] # "none"
         /\ Logged(i, "compensated") => effect[i] = "undone"
    /\ Logged(Whole, "completed") => \A i \in Steps : effect[i] = "applied"
    /\ Logged(Whole, "failed") =>
         \A i \in Steps : effect[i] = "applied" => i \in errors

\* load_saga (lines 197-222): what the latest row says of the saga.
LatestRecord == IF records = <<>> THEN Rec(Whole, "running")
                                  ELSE records[Len(records)]

\* "Guarantees that saga execution can resume after process restarts by
\* persisting step states" (lines 3-4), which holds as far as no insert has
\* failed: the latest row (what load_saga returns) tells a restart how far the
\* saga got, up to the one step in progress: every earlier step is applied and
\* no later one was started; while compensating, every later step is undone or
\* given up and none before the one in progress is.
LatestRecordTells ==
    LET i == LatestRecord.step
        Before(j, e) == \A k \in Steps : k < j => effect[k] = e
        After(j, P) == \A k \in Steps : k > j => P[k]
        Untouched == [k \in Steps |-> effect[k] = "none"]
        Cleared == [k \in Steps |-> effect[k] # "applied" \/ k \in errors]
    IN  ~lost /\ i # Whole =>
          CASE LatestRecord.state = "running"     -> Before(i, "applied") /\ After(i, Untouched)
            [] LatestRecord.state = "completed"   -> Before(i + 1, "applied") /\ After(i, Untouched)
            [] LatestRecord.state = "failed"      -> Before(i, "applied") /\ After(i - 1, Untouched)
            [] LatestRecord.state \in {"compensated", "compensating"}
                                                  -> Before(i - 1, "applied") /\ After(i - 1, Cleared)

\* What persist_step leaves in saga_records is true and, while no insert fails,
\* enough to resume from.
RecordsTellTheTruth == LogSound /\ LatestRecordTells

\* Every saga ends: it returns a SagaResult unless the process stops.
SagaEnds == <>(pc \in {"ended", "crashed"})
=============================================================================
