------------------------- MODULE TransactionalQueue -------------------------
(***************************************************************************)
(* queue/transactional.rs: the outbox ("local message table").             *)
(*                                                                         *)
(* publish_reliable inserts a pending row and tries to publish at once;    *)
(* publish_reliable_in_txn only inserts, inside the caller's transaction;  *)
(* any number of sweepers (one per process that called start_sweeper)      *)
(* select unpublished rows without locking them and retry them one by one. *)
(* Every SQL statement and every push is a step of its own, fails while    *)
(* its service is down, and the process may stop between any two.          *)
(*                                                                         *)
(* The database and the broker are external.  A payload is its message;    *)
(* duplicates are not counted: `delivered` says that the broker has one.   *)
(***************************************************************************)
EXTENDS Naturals, Sequences

CONSTANTS
    Messages,     \* the messages published (their msg_id)
    Sweepers,     \* the sweeper tasks
    MaxRetries,   \* MessageTable.max_retries
    BatchLimit,   \* the LIMIT of the sweeper's query
    MaxOutages,   \* bound on the number of outages
    MaxAborts     \* bound on the number of sweeper crashes

ASSUME BoundsAssumption ==
    /\ MaxRetries \in Nat /\ BatchLimit \in Nat \ {0}
    /\ MaxOutages \in Nat /\ MaxAborts \in Nat

VARIABLES
    status,      \* the row's status column, or what stands for no row
    retry,       \* the row's retry_count column
    created,     \* the rows in created_at order
    delivered,   \* messages the broker has accepted
    pub,         \* where the publisher of each message stands
    batch,       \* rows each sweeper selected and has still to process
    step,        \* where each sweeper stands with the first of them
    down,        \* the services that are down
    outages,     \* number of outages so far
    aborts,      \* number of sweeper crashes so far
    failures     \* history: failed sweeps of each message, up to MaxRetries

table == <<status, retry, created>>
workers == <<pub, batch, step>>
outboxFaults == <<down, outages, aborts>>
outboxVars == <<table, delivered, workers, outboxFaults, failures>>

Services == {"db", "queue"}
Rows == {"pending", "published", "failed"}
NoRow == {"none", "uncommitted", "rolledback"}
Snapshot == [msg : Messages, retry : Nat]

Up(s) == s \notin down

OutboxInit ==
    /\ status = [m \in Messages |-> "none"]
    /\ retry = [m \in Messages |-> 0]
    /\ created = <<>>
    /\ delivered = {}
    /\ pub = [m \in Messages |-> "idle"]
    /\ batch = [s \in Sweepers |-> <<>>]
    /\ step = [s \in Sweepers |-> "idle"]
    /\ down = {} /\ outages = 0 /\ aborts = 0
    /\ failures = [m \in Messages |-> 0]

\* INSERT ... ('pending', 0), seen by others as st.
Insert(m, st) ==
    /\ status' = [status EXCEPT ![m] = st]
    /\ retry' = [retry EXCEPT ![m] = 0]
    /\ created' = Append(created, m)

\* publish_reliable: the INSERT; on an error the caller gets it and no row is
\* left behind.
PublishReliable(m) ==
    /\ pub[m] = "idle"
    /\ IF Up("db")
         THEN Insert(m, "pending") /\ pub' = [pub EXCEPT ![m] = "push"]
         ELSE pub' = [pub EXCEPT ![m] = "done"] /\ UNCHANGED table
    /\ UNCHANGED <<delivered, batch, step, outboxFaults, failures>>

\* publish_reliable_in_txn: the INSERT inside the caller's transaction...
PublishInTxn(m) ==
    /\ pub[m] = "idle"
    /\ Up("db")
    /\ Insert(m, "uncommitted")
    /\ pub' = [pub EXCEPT ![m] = "txn"]
    /\ UNCHANGED <<delivered, batch, step, outboxFaults, failures>>

\* ... which the caller commits or rolls back (external).
EndTxn(m) ==
    /\ pub[m] = "txn"
    /\ \/ Up("db") /\ status' = [status EXCEPT ![m] = "pending"]
       \/ status' = [status EXCEPT ![m] = "rolledback"]
    /\ pub' = [pub EXCEPT ![m] = "done"]
    /\ UNCHANGED <<retry, created, delivered, batch, step, outboxFaults, failures>>

\* queue.push: accepted while the broker is up; while it is down the push
\* fails, and the message may nevertheless have reached it (a lost answer).
PushOk(m) == Up("queue") /\ delivered' = delivered \cup {m}
PushErr(m) == ~Up("queue") /\ delivered' \in {delivered, delivered \cup {m}}

\* UPDATE ... SET status = 'published'.
MarkPublished(m) ==
    /\ Up("db")
    /\ status' = [status EXCEPT ![m] = "published"]
    /\ UNCHANGED <<retry, created>>
MarkErr == ~Up("db") /\ UNCHANGED table

\* try_publish of publish_reliable: the push, then the mark; an error is only
\* logged.
TryPush(m) ==
    /\ pub[m] = "push"
    /\ \/ PushOk(m) /\ pub' = [pub EXCEPT ![m] = "mark"]
       \/ PushErr(m) /\ pub' = [pub EXCEPT ![m] = "done"]
    /\ UNCHANGED <<table, batch, step, outboxFaults, failures>>

TryMark(m) ==
    /\ pub[m] = "mark"
    /\ MarkPublished(m) \/ MarkErr
    /\ pub' = [pub EXCEPT ![m] = "done"]
    /\ UNCHANGED <<delivered, batch, step, outboxFaults, failures>>

\* The publishing process stops (an open transaction is rolled back).
PublisherCrash(m) ==
    /\ pub[m] \in {"push", "mark", "txn"}
    /\ pub' = [pub EXCEPT ![m] = "done"]
    /\ status' = [status EXCEPT ![m] =
                     IF @ = "uncommitted" THEN "rolledback" ELSE @]
    /\ UNCHANGED <<retry, created, delivered, batch, step, outboxFaults, failures>>

-----------------------------------------------------------------------------
(* sweep() *)

\* The WHERE clause.
Eligible(m) == status[m] \in {"pending", "failed"} /\ retry[m] < MaxRetries

\* ORDER BY created_at
Older(m, n) == \E i, j \in DOMAIN created : i < j /\ created[i] = m /\ created[j] = n

\* The rows picked are eligible and in order, and what is left out is younger and
\* beyond the LIMIT.
Selected(picked) ==
    /\ \A i \in DOMAIN picked : Eligible(picked[i])
    /\ \A i, j \in DOMAIN picked : i < j => Older(picked[i], picked[j])
    /\ \A m \in Messages : Eligible(m) =>
          \/ \E i \in DOMAIN picked : picked[i] = m
          \/ Len(picked) = BatchLimit /\ \A i \in DOMAIN picked : Older(picked[i], m)

\* The SELECT: the oldest eligible rows with the retry_count they have now.  An
\* error ends this sweep and changes nothing.
Sweep(s) ==
    /\ step[s] = "idle"
    /\ Up("db")
    /\ \E n \in 1..BatchLimit : \E picked \in [1..n -> Messages] :
          /\ Selected(picked)
          /\ batch' = [batch EXCEPT ![s] =
                [i \in 1..n |-> [msg |-> picked[i], retry |-> retry[picked[i]]]]]
    /\ step' = [step EXCEPT ![s] = "push"]
    /\ UNCHANGED <<table, delivered, pub, outboxFaults, failures>>

Current(s) == Head(batch[s])

\* On to the next row of the batch, or back to the ticker.
Advance(s) ==
    /\ batch' = [batch EXCEPT ![s] = Tail(@)]
    /\ step' = [step EXCEPT ![s] = IF Len(batch[s]) = 1 THEN "idle" ELSE "push"]

SweepPush(s) ==
    /\ step[s] = "push"
    /\ LET m == Current(s).msg IN
        \/ PushOk(m) /\ step' = [step EXCEPT ![s] = "mark"]
        \/ PushErr(m) /\ step' = [step EXCEPT ![s] = "retry"]
    /\ UNCHANGED <<table, pub, batch, outboxFaults, failures>>

SweepMark(s) ==
    /\ step[s] = "mark"
    /\ \/ MarkPublished(Current(s).msg) /\ Advance(s)
       \/ MarkErr /\ step' = [step EXCEPT ![s] = "retry"] /\ UNCHANGED batch
    /\ UNCHANGED <<delivered, pub, outboxFaults, failures>>

\* Mutant: given up one retry early.
RetryStatusEarly(n) == IF n + 1 >= MaxRetries THEN "failed" ELSE "pending"

RetryStatus(n) == IF n >= MaxRetries THEN "failed" ELSE "pending"

\* The Err branch: retry_count and status are overwritten from the snapshot;
\* an error of this UPDATE is ignored.
SweepRetry(s) ==
    /\ step[s] = "retry"
    /\ LET m == Current(s).msg
           new_retry == Current(s).retry + 1
       IN /\ IF Up("db")
               THEN /\ retry' = [retry EXCEPT ![m] = new_retry]
                    /\ status' = [status EXCEPT ![m] = RetryStatus(new_retry)]
               ELSE UNCHANGED <<retry, status>>
          /\ failures' = [failures EXCEPT ![m] =
                              IF @ < MaxRetries THEN @ + 1 ELSE @]
    /\ Advance(s)
    /\ UNCHANGED <<created, delivered, pub, outboxFaults>>

\* The sweeper's process stops, or its handle is aborted, and it starts again.
SweeperAbort(s) ==
    /\ step[s] # "idle"
    /\ aborts < MaxAborts
    /\ aborts' = aborts + 1
    /\ batch' = [batch EXCEPT ![s] = <<>>]
    /\ step' = [step EXCEPT ![s] = "idle"]
    /\ UNCHANGED <<table, delivered, pub, down, outages, failures>>

-----------------------------------------------------------------------------
(* The database and the broker *)

Fail(sv) ==
    /\ Up(sv) /\ outages < MaxOutages
    /\ down' = down \cup {sv} /\ outages' = outages + 1
    /\ UNCHANGED <<table, delivered, workers, aborts, failures>>

Restore(sv) ==
    /\ ~Up(sv)
    /\ down' = down \ {sv}
    /\ UNCHANGED <<table, delivered, workers, outages, aborts, failures>>

PublisherStep(m) == EndTxn(m) \/ TryPush(m) \/ TryMark(m)
SweeperStep(s) == Sweep(s) \/ SweepPush(s) \/ SweepMark(s) \/ SweepRetry(s)

OutboxNext ==
    \/ \E m \in Messages : \/ PublishReliable(m) \/ PublishInTxn(m)
                           \/ PublisherStep(m) \/ PublisherCrash(m)
    \/ \E s \in Sweepers : SweeperStep(s) \/ SweeperAbort(s)
    \/ \E sv \in Services : Fail(sv) \/ Restore(sv)

OutboxSafety == OutboxInit /\ [][OutboxNext]_outboxVars

\* Tasks make progress, the ticker fires again and again, and a service that is
\* down comes back (the number of outages is bounded).
OutboxFairness ==
    /\ \A m \in Messages : WF_outboxVars(PublisherStep(m))
    /\ \A s \in Sweepers : WF_outboxVars(SweeperStep(s))
    /\ \A sv \in Services : WF_outboxVars(Restore(sv))

OutboxSpec == OutboxSafety /\ OutboxFairness

-----------------------------------------------------------------------------
(* Properties *)

\* The types of the table's columns and of what publishers and sweepers hold.
OutboxTypeOK ==
    /\ status \in [Messages -> Rows \cup NoRow]
    /\ retry \in [Messages -> Nat]
    /\ created \in Seq(Messages)
    /\ delivered \in SUBSET Messages
    /\ pub \in [Messages -> {"idle", "txn", "push", "mark", "done"}]
    /\ batch \in [Sweepers -> Seq(Snapshot)]
    /\ step \in [Sweepers -> {"idle", "push", "mark", "retry"}]
    /\ down \in SUBSET Services
    /\ outages \in Nat /\ aborts \in Nat
    /\ failures \in [Messages -> Nat]

\* The promise of the module as a whole, as Outbox states it: whatever is
\* interleaved, fails or crashes between the INSERT, the push and the UPDATE, a
\* message is delivered only if its row was committed, a row leaves the sweeper's
\* query only when the broker has the message or max_retries attempts failed, and
\* no committed message is left behind.
Fate(m) ==
    CASE m \in delivered /\ status[m] \in Rows -> "delivered"
      [] m \in delivered /\ status[m] \in NoRow -> "leaked"
      [] m \notin delivered /\ status[m] = "published" -> "dropped"
      [] m \notin delivered /\ status[m] = "pending" -> "committed"
      [] m \notin delivered /\ status[m] = "uncommitted" -> "open"
      [] m \notin delivered /\ status[m] = "rolledback" -> "withdrawn"
      [] OTHER -> status[m]

Abstract == INSTANCE Outbox WITH fate <- [m \in Messages |-> Fate(m)],
                                 tries <- failures

ImplementsOutbox == Abstract!Spec

\* 'published' is "successfully delivered", 'failed' is "delivery failed after
\* all retries" (lines 37 and 39): a row that says published never comes to say
\* failed.
PublishedNeverFails ==
    [][\A m \in Messages :
          status[m] = "published" => status'[m] # "failed"]_outboxVars
=============================================================================
