------------------------------- MODULE Store -------------------------------
(***************************************************************************)
(* The database store (store/mod.rs): the connection behind its RwLock,    *)
(* the two background tasks that ping it and replace it, a transaction.    *)
(* A pool of connections answers a ping when the database is up and the    *)
(* pool is not closed.                                                     *)
(***************************************************************************)
EXTENDS Integers

CONSTANTS
    MaxFaults,    \* bound on the outages of the database and on close()
    MaxTxns        \* bound on the transactions

ASSUME StoreAssumption == {MaxFaults, MaxTxns} \subseteq Nat

Checkers == {"health_check", "monitor"}

VARIABLES
    dbUp,
    faults,
    pool,          \* "open" or "closed": the pool the RwLock guards
    checker,       \* checker[t]: "tick", "ping", "connect" or "install"
    reported,      \* what monitor_health() told the Health tracker last
    txn,           \* [pc, commits]: "none", "open" or "broken"; how many were committed
    txns

storeVars == <<dbUp, faults, pool, checker, reported, txn, txns>>

StoreInit ==
    /\ dbUp = TRUE /\ faults = 0
    /\ pool = "open"
    /\ checker = [t \in Checkers |-> "tick"]
    /\ reported = "unknown"
    /\ txn = [pc |-> "none", commits |-> 0] /\ txns = 0

CheckGo(t, l) == checker' = [checker EXCEPT ![t] = l]

\* An outage breaks open transactions.
Outage ==
    /\ dbUp /\ faults < MaxFaults
    /\ dbUp' = FALSE /\ faults' = faults + 1
    /\ txn' = [txn EXCEPT !.pc = IF @ = "open" THEN "broken" ELSE @]
    /\ UNCHANGED <<pool, checker, reported, txns>>

BackUp ==
    /\ ~dbUp
    /\ dbUp' = TRUE
    /\ UNCHANGED <<faults, pool, checker, reported, txn, txns>>

\* close(): the background tasks know nothing of it.
ClosePool ==
    /\ pool = "open" /\ faults < MaxFaults
    /\ pool' = "closed" /\ faults' = faults + 1
    /\ UNCHANGED <<dbUp, checker, reported, txn, txns>>

ping == dbUp /\ pool = "open"

\* ticker.tick(), and self.ping(): a failure means reconnect().
Probe(t) ==
    /\ checker[t] = "tick"
    /\ CheckGo(t, IF ping THEN "tick" ELSE "connect")
    /\ reported' = IF t # "monitor" THEN reported ELSE IF ping THEN "Healthy" ELSE "Unhealthy"
    /\ UNCHANGED <<dbUp, faults, pool, txn, txns>>

\* reconnect(): a new pool, or an error and the next tick...
ConnectAgain(t) ==
    /\ checker[t] = "connect"
    /\ CheckGo(t, IF dbUp THEN "install" ELSE "tick")
    /\ UNCHANGED <<dbUp, faults, pool, reported, txn, txns>>

\* The wrong variant: the new pool is dropped.
MutantInstall(t) ==
    /\ checker[t] = "install"
    /\ CheckGo(t, "tick")
    /\ UNCHANGED <<dbUp, faults, pool, reported, txn, txns>>

\* ... put in the place of the old one under the write lock.
Install(t) ==
    /\ checker[t] = "install"
    /\ pool' = "open"
    /\ CheckGo(t, "tick")
    /\ UNCHANGED <<dbUp, faults, reported, txn, txns>>

\* transaction(): BEGIN on the present pool.
Begin ==
    /\ txn.pc = "none" /\ ping /\ txns < MaxTxns
    /\ txns' = txns + 1
    /\ txn' = [txn EXCEPT !.pc = "open"]
    /\ UNCHANGED <<dbUp, faults, pool, checker, reported>>

\* commit() consumes the transaction, and fails if it is broken; rollback() and drop()
\* undo it.
EndTxn ==
    /\ txn.pc # "none"
    /\ \E commit \in BOOLEAN :
          txn' = [pc |-> "none", commits |-> txn.commits + IF commit /\ txn.pc = "open" THEN 1 ELSE 0]
    /\ UNCHANGED <<dbUp, faults, pool, checker, reported, txns>>

StoreNext ==
    \/ Outage \/ BackUp \/ ClosePool \/ Begin \/ EndTxn
    \/ \E t \in Checkers : Probe(t) \/ ConnectAgain(t) \/ Install(t)

\* The tickers tick, and an outage ends; nobody has to call close() or end a transaction.
StoreFairness ==
    /\ WF_storeVars(BackUp)
    /\ \A t \in Checkers : WF_storeVars(Probe(t)) /\ WF_storeVars(ConnectAgain(t)) /\ WF_storeVars(Install(t))

StoreSpec == StoreInit /\ [][StoreNext]_storeVars /\ StoreFairness
------------------------------------------------------------------------------
(***************************************************************************)
(* Whatever happened to the database or the pool - an outage, a close(), a *)
(* reconnect that failed, two tasks that reconnect at once - the store     *)
(* serves again and is reported healthy after.                             *)
(***************************************************************************)
StoreRecovers == ~ping ~> (ping /\ reported = "Healthy")
=============================================================================
