------------------------------- MODULE Worker -------------------------------
(***************************************************************************)
(* worker/mod.rs: Worker::run and execute_with_retry.                      *)
(*                                                                         *)
(* The run loop takes a message from an mpsc channel, then waits for a     *)
(* permit of the semaphore, then spawns a task that runs the handler with  *)
(* retries under one timeout and, on failure, offers the message to the    *)
(* dead-letter channel with try_send.  When the channel is closed and      *)
(* empty the loop joins all tasks and returns.  A message is its job.      *)
(***************************************************************************)
EXTENDS Integers, FiniteSets, Sequences

CONSTANTS
    Jobs,          \* the messages that may be sent
    Concurrency,   \* config.concurrency (with_concurrency makes it >= 1)
    JobRetries,    \* config.max_retries
    HasDlq,        \* is a dead-letter sender configured?
    DlqCapacity,   \* capacity of the dead-letter channel
    NoJob

ASSUME WorkerAssumption ==
    /\ Concurrency \in Nat \ {0} /\ JobRetries \in Nat
    /\ HasDlq \in BOOLEAN /\ DlqCapacity \in Nat \ {0}
    /\ NoJob \notin Jobs

VARIABLES
    channel,    \* the messages waiting in the mpsc channel
    closed,     \* have all senders been dropped?
    main,       \* where the run loop stands
    held,       \* the message it has received and not yet spawned
    permits,    \* available permits of the semaphore
    job,        \* the state of each message
    attempts,   \* handler calls made for each message
    dlq         \* messages waiting in the dead-letter channel

workerVars == <<channel, closed, main, held, permits, job, attempts, dlq>>

Active == {"handling", "backoff", "failed", "timedout"}   \* the task exists
Ended == {"ok", "dead", "dropped", "panicked"}
JobStates == {"unsent", "sent", "held"} \cup Active \cup Ended

ActiveJobs == {m \in Jobs : job[m] \in Active}

WorkerInit ==
    /\ channel = <<>>
    /\ closed = FALSE
    /\ main = "recv"
    /\ held = NoJob
    /\ permits = Concurrency
    /\ job = [m \in Jobs |-> "unsent"]
    /\ attempts = [m \in Jobs |-> 0]
    /\ dlq = {}

\* The producers (external): they send, and at some time they are all gone.
Send(m) ==
    /\ ~closed /\ job[m] = "unsent"
    /\ channel' = Append(channel, m)
    /\ job' = [job EXCEPT ![m] = "sent"]
    /\ UNCHANGED <<closed, main, held, permits, attempts, dlq>>

Close ==
    /\ ~closed
    /\ closed' = TRUE
    /\ UNCHANGED <<channel, main, held, permits, job, attempts, dlq>>

-----------------------------------------------------------------------------
(* The run loop *)

\* rx.recv() returns a message.
Recv ==
    /\ main = "recv" /\ channel # <<>>
    /\ held' = Head(channel)
    /\ channel' = Tail(channel)
    /\ job' = [job EXCEPT ![Head(channel)] = "held"]
    /\ main' = "acquire"
    /\ UNCHANGED <<closed, permits, attempts, dlq>>

\* acquire_owned() returns a permit and the task is spawned with it.
Spawn ==
    /\ main = "acquire" /\ permits > 0
    /\ permits' = permits - 1
    /\ job' = [job EXCEPT ![held] = "handling"]
    /\ attempts' = [attempts EXCEPT ![held] = @ + 1]
    /\ held' = NoJob
    /\ main' = "recv"
    /\ UNCHANGED <<channel, closed, dlq>>

\* rx.recv() returns None.
Drain ==
    /\ main = "recv" /\ channel = <<>> /\ closed
    /\ main' = "drain"
    /\ UNCHANGED <<channel, closed, held, permits, job, attempts, dlq>>

\* Mutant: the tasks are not joined.
FinishAtOnce ==
    /\ main = "drain"
    /\ main' = "returned"
    /\ UNCHANGED <<channel, closed, held, permits, job, attempts, dlq>>

\* join_next() has returned None: every task has ended.
Finish ==
    /\ main = "drain" /\ ActiveJobs = {}
    /\ main' = "returned"
    /\ UNCHANGED <<channel, closed, held, permits, job, attempts, dlq>>

-----------------------------------------------------------------------------
(* The task of a message *)

\* Mutant: the permit is given back on success only.
EndTaskLeaks(m, how) ==
    /\ job' = [job EXCEPT ![m] = how]
    /\ permits' = IF how = "ok" THEN permits + 1 ELSE permits
    /\ UNCHANGED <<channel, closed, main, held, attempts>>

\* The task ends and its permit is given back.
EndTask(m, how) ==
    /\ job' = [job EXCEPT ![m] = how]
    /\ permits' = permits + 1
    /\ UNCHANGED <<channel, closed, main, held, attempts>>

\* execute_with_retry: the handler returns Ok.
HandlerOk(m) == job[m] = "handling" /\ EndTask(m, "ok") /\ UNCHANGED dlq

\* The handler returns Err: back off and retry while attempt < max_retries.
HandlerErr(m) ==
    /\ job[m] = "handling"
    /\ job' = [job EXCEPT ![m] =
                  IF attempts[m] - 1 < JobRetries THEN "backoff" ELSE "failed"]
    /\ UNCHANGED <<channel, closed, main, held, permits, attempts, dlq>>

Retry(m) ==
    /\ job[m] = "backoff"
    /\ job' = [job EXCEPT ![m] = "handling"]
    /\ attempts' = [attempts EXCEPT ![m] = @ + 1]
    /\ UNCHANGED <<channel, closed, main, held, permits, dlq>>

\* The handler panics: the task is gone, and nothing looks at its JoinError.
HandlerPanic(m) == job[m] = "handling" /\ EndTask(m, "panicked") /\ UNCHANGED dlq

\* The timeout is one for the whole retry loop.
Timeout(m) ==
    /\ job[m] \in {"handling", "backoff"}
    /\ job' = [job EXCEPT ![m] = "timedout"]
    /\ UNCHANGED <<channel, closed, main, held, permits, attempts, dlq>>

\* tx.try_send(msg), whose error is ignored.
DeadLetter(m) ==
    /\ job[m] \in {"failed", "timedout"}
    /\ IF HasDlq /\ Cardinality(dlq) < DlqCapacity
         THEN EndTask(m, "dead") /\ dlq' = dlq \cup {m}
         ELSE EndTask(m, "dropped") /\ UNCHANGED dlq

\* Whoever reads the dead-letter channel (external).
ReadDlq(m) ==
    /\ m \in dlq
    /\ dlq' = dlq \ {m}
    /\ UNCHANGED <<channel, closed, main, held, permits, job, attempts>>

Loop == Recv \/ Spawn \/ Drain \/ Finish

WorkerNext ==
    \/ Close \/ Loop
    \/ \E m \in Jobs :
          \/ Send(m) \/ HandlerOk(m) \/ HandlerErr(m) \/ Retry(m)
          \/ HandlerPanic(m) \/ Timeout(m) \/ DeadLetter(m) \/ ReadDlq(m)

WorkerSafety == WorkerInit /\ [][WorkerNext]_workerVars

\* The loop and the tasks are polled again and the timer fires; a handler need
\* not return and nobody need read the dead-letter channel.
WorkerFairness ==
    /\ WF_workerVars(Loop)
    /\ \A m \in Jobs : WF_workerVars(Timeout(m)) /\ WF_workerVars(DeadLetter(m))

WorkerSpec == WorkerSafety /\ WorkerFairness

-----------------------------------------------------------------------------
(* Properties *)

\* The types of the channels, the run loop, the permits and the jobs.
WorkerTypeOK ==
    /\ channel \in Seq(Jobs)
    /\ closed \in BOOLEAN
    /\ main \in {"recv", "acquire", "drain", "returned"}
    /\ held \in Jobs \cup {NoJob}
    /\ permits \in Nat
    /\ job \in [Jobs -> JobStates]
    /\ attempts \in [Jobs -> Nat]
    /\ dlq \in SUBSET Jobs

\* "Number of concurrent workers" (line 34): at most Concurrency tasks exist at
\* a time and every permit is either available or held by one of them: no way
\* for a task to end (success, failure, timeout, panic) leaks a permit.
PermitsConserved == permits + Cardinality(ActiveJobs) = Concurrency

\* "Wait for all in-flight tasks to complete before shutting down" (line 170):
\* when run() returns, no message that was sent is waiting or in flight.
ReturnsDrained ==
    main = "returned" => \A m \in Jobs : job[m] \in Ended \cup {"unsent"}

\* Once the senders are gone run() returns, though handlers hang and the
\* dead-letter channel is never read.
RunReturns == closed ~> main = "returned"
=============================================================================
