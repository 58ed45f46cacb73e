-------------------------------- MODULE Saga --------------------------------
(***************************************************************************)
(* saga/mod.rs: Saga::execute.  Steps 1..N run one after the other; when   *)
(* one fails, the completed ones are compensated in reverse order, each    *)
(* with up to Attempts tries.  The process may stop at any .await.         *)
(*                                                                         *)
(* What the steps do is external: `effect` is what each has left behind.   *)
(***************************************************************************)
EXTENDS Naturals

CONSTANT N    \* the number of steps

ASSUME NAssumption == N \in Nat

VARIABLES
    pc,            \* "forward", "compensate", "ended" or "crashed"
    completed,     \* completed.len(): steps 1..completed have succeeded
    failed_step,   \* the step that failed, or 0
    comp,          \* the step being compensated (0: none left)
    retry,         \* the loop variable `retry` of its compensation
    errors,        \* the steps in compensation_errors
    effect         \* what each step has left behind

sagaVars == <<pc, completed, failed_step, comp, retry, errors, effect>>

Steps == 1..N

\* for retry in 0..3
Attempts == 3

SagaInit ==
    /\ pc = "forward"
    /\ completed = 0
    /\ failed_step = 0
    /\ comp = 0
    /\ retry = 0
    /\ errors = {}
    /\ effect = [i \in Steps |-> "none"]

\* step.execute() returns Ok.
StepOk ==
    /\ pc = "forward" /\ completed < N
    /\ effect' = [effect EXCEPT ![completed + 1] = "applied"]
    /\ completed' = completed + 1
    /\ UNCHANGED <<pc, failed_step, comp, retry, errors>>

\* Mutant: the range of the compensation loop is one too short.
StepErrSkipsLast ==
    /\ pc = "forward" /\ completed < N
    /\ pc' = "compensate"
    /\ failed_step' = completed + 1
    /\ comp' = IF completed > 0 THEN completed - 1 ELSE 0
    /\ retry' = 0
    /\ UNCHANGED <<completed, errors, effect>>

\* step.execute() returns Err: the completed steps are compensated, the last
\* one first.
StepErr ==
    /\ pc = "forward" /\ completed < N
    /\ pc' = "compensate"
    /\ failed_step' = completed + 1
    /\ comp' = completed
    /\ retry' = 0
    /\ UNCHANGED <<completed, errors, effect>>

\* comp_step.compensate() returns Ok.
CompensateOk ==
    /\ pc = "compensate" /\ comp > 0
    /\ effect' = [effect EXCEPT ![comp] = "undone"]
    /\ comp' = comp - 1
    /\ retry' = 0
    /\ UNCHANGED <<pc, completed, failed_step, errors>>

\* retry == 2
LastAttempt == retry = Attempts - 1

\* Mutant: the compensation is tried for ever.
CompensateErrForever ==
    /\ pc = "compensate" /\ comp > 0
    /\ retry' = (retry + 1) % Attempts
    /\ UNCHANGED <<pc, completed, failed_step, comp, errors, effect>>

\* comp_step.compensate() returns Err: try again, or give this step up, note it
\* and go on with the one before.
CompensateErr ==
    /\ pc = "compensate" /\ comp > 0
    /\ IF LastAttempt
         THEN /\ errors' = errors \cup {comp}
              /\ comp' = comp - 1
              /\ retry' = 0
         ELSE /\ retry' = retry + 1
              /\ UNCHANGED <<comp, errors>>
    /\ UNCHANGED <<pc, completed, failed_step, effect>>

\* SagaResult is returned.
Return ==
    /\ \/ pc = "forward" /\ completed = N
       \/ pc = "compensate" /\ comp = 0
    /\ pc' = "ended"
    /\ UNCHANGED <<completed, failed_step, comp, retry, errors, effect>>

\* The process stops, or the future of execute() is dropped.
Crash ==
    /\ pc \in {"forward", "compensate"}
    /\ pc' = "crashed"
    /\ UNCHANGED <<completed, failed_step, comp, retry, errors, effect>>

SagaNext == StepOk \/ StepErr \/ CompensateOk \/ CompensateErr \/ Return \/ Crash

SagaSpec == SagaInit /\ [][SagaNext]_sagaVars

-----------------------------------------------------------------------------
(* Properties *)

\* The types of the progress of the saga and of the effects of its steps.
SagaTypeOK ==
    /\ pc \in {"forward", "compensate", "ended", "crashed"}
    /\ completed \in 0..N
    /\ failed_step \in 0..N
    /\ comp \in 0..N
    /\ retry \in 0..(Attempts - 1)
    /\ errors \in SUBSET Steps
    /\ effect \in [Steps -> {"none", "applied", "undone"}]

\* "If any step fails, all previously completed steps are compensated" (lines
\* 118-119): a saga that returns has either applied every step, or undone
\* exactly the steps before the failed one, save those it reports in
\* compensation_errors; what it reports is what is really left behind.
AllOrCompensated ==
    pc = "ended" =>
        IF failed_step = 0
          THEN \A i \in Steps : effect[i] = "applied"
          ELSE \A i \in Steps :
                 /\ effect[i] = "none" <=> i >= failed_step
                 /\ effect[i] = "applied" <=> i \in errors
=============================================================================
