------------------------------ MODULE MCTasks ------------------------------
(* Model-checking instance of long-running work: a persisted saga, the        *)
(* distributed lock with three clients and every way to take it, the worker   *)
(* with more jobs than permits, a scheduled job, the configuration watcher,   *)
(* the store with its two background tasks, and the workers of the load test. *)
(* They share nothing: a behaviour is one of them (`part`).                   *)
EXTENDS PersistentSaga, DistributedLock, Worker, Scheduler, ConfigWatcher, Store, LoadTest

VARIABLE part

\* Cron fields: "*", "*/2", "1-2", "0,2-5", "*/0"; and "*", "1", "2-1".
Every == [form |-> "any", n |-> 0, parts |-> {}]
Step(n) == [form |-> "step", n |-> n, parts |-> {}]
List(S) == [form |-> "list", n |-> 0, parts |-> {[lo |-> p[1], hi |-> p[2]] : p \in S}]
MCExprs ==
    [minute : {Every, Step(2), List({<<1, 2>>}), List({<<0, 0>>, <<2, 5>>}), Step(0)},
     hour : {Every, List({<<1, 1>>}), List({<<2, 1>>})}]

\* The wall clock is set a minute forward, or more than a minute back, and stays within
\* two minutes of the other one.  Only a cron job that is not over looks at it.
MCJumps == {-5, 4}
ClockSetForCron ==
    /\ offset' \in -5..4
    /\ offset' # offset => task.kind = "cron" /\ task.pc \notin {"done", "rejected"}

\* What the parts that are not looked at start with.
Fixed ==
    /\ part # "lock" => kind = CHOOSE k \in Kinds : TRUE
    /\ part # "scheduler" => clock = 0 /\ task.kind = "every"
    /\ part # "loadtest" => timed

Init ==
    /\ part \in {"saga", "lock", "worker", "scheduler", "watcher", "store", "loadtest"}
    /\ PersistInit /\ LockInit /\ WorkerInit /\ SchedulerInit /\ WatcherInit
    /\ StoreInit /\ LoadInit
    /\ Fixed

Next ==
    /\ UNCHANGED part
    /\ \/ /\ part = "saga" /\ PersistNext
          /\ UNCHANGED <<lockVars, workerVars, schedulerVars, watcherVars, storeVars, loadVars>>
       \/ /\ part = "lock" /\ LockNext
          /\ UNCHANGED <<persistVars, workerVars, schedulerVars, watcherVars, storeVars, loadVars>>
       \/ /\ part = "worker" /\ WorkerNext
          /\ UNCHANGED <<persistVars, lockVars, schedulerVars, watcherVars, storeVars, loadVars>>
       \/ /\ part = "scheduler" /\ SchedulerNext /\ ClockSetForCron
          /\ UNCHANGED <<persistVars, lockVars, workerVars, watcherVars, storeVars, loadVars>>
       \/ /\ part = "watcher" /\ WatcherNext
          /\ UNCHANGED <<persistVars, lockVars, workerVars, schedulerVars, storeVars, loadVars>>
       \/ /\ part = "store" /\ StoreNext
          /\ UNCHANGED <<persistVars, lockVars, workerVars, schedulerVars, watcherVars, loadVars>>
       \/ /\ part = "loadtest" /\ LoadWork
          /\ UNCHANGED <<persistVars, lockVars, workerVars, schedulerVars, watcherVars, storeVars>>

Is(p) == part = p

Fairness ==
    /\ WF_persistVars(Is("saga") /\ Progress)
    /\ WF_lockVars(Is("lock") /\ Tick)
    /\ \A c \in Clients : /\ WF_lockVars(Is("lock") /\ SpawnedRelease(c))
                          /\ WF_lockVars(Is("lock") /\ Refresh(c))
                          /\ WF_lockVars(Is("lock") /\ (Release(c) \/ ReleaseRedlock(c)))
    /\ WF_workerVars(Is("worker") /\ Loop)
    /\ \A m \in Jobs : /\ WF_workerVars(Is("worker") /\ Timeout(m))
                       /\ WF_workerVars(Is("worker") /\ DeadLetter(m))
    /\ WF_schedulerVars(Is("scheduler") /\ StartJob)
    /\ WF_schedulerVars(Is("scheduler") /\ Compute)
    /\ WF_schedulerVars(Is("scheduler") /\ Fire)
    /\ WF_schedulerVars(Is("scheduler") /\ TaskEnds)
    /\ WF_schedulerVars(Is("scheduler") /\ PauseOver)
    /\ SF_schedulerVars(Is("scheduler") /\ IsCancelled)
    /\ WF_watcherVars(Is("watcher") /\ StartWatching)
    /\ WF_watcherVars(Is("watcher") /\ Notify)
    /\ WF_watcherVars(Is("watcher") /\ ReceiveEvent)
    /\ WF_watcherVars(Is("watcher") /\ Debounced)
    /\ WF_watcherVars(Is("watcher") /\ PublishConfig)
    /\ WF_watcherVars(Is("watcher") /\ RunCallbacks)
    /\ WF_storeVars(Is("store") /\ BackUp)
    /\ \A t \in Checkers : /\ WF_storeVars(Is("store") /\ Probe(t))
                           /\ WF_storeVars(Is("store") /\ ConnectAgain(t))
                           /\ WF_storeVars(Is("store") /\ Install(t))

allVars == <<part, persistVars, lockVars, workerVars, schedulerVars, watcherVars, storeVars, loadVars>>
Spec == Init /\ [][Next]_allVars /\ Fairness

\* Every saga ends: it returns a SagaResult unless the process stops.
EverySagaEnds == part = "saga" => SagaEnds
=============================================================================
