----------------------------- MODULE OutboxProofs ---------------------------
(***************************************************************************)
(* For any number of messages and sweepers, any LIMIT and max_retries, and *)
(* any outages and crashes: the outbox takes no step that Outbox does not  *)
(* allow.                                                                  *)
(***************************************************************************)
EXTENDS TransactionalQueue, TLAPS

\* Where the publisher stands tells what there is of the row.
PublisherInv ==
    \A m \in Messages :
        /\ pub[m] = "idle" => status[m] = "none"
        /\ pub[m] = "txn" <=> status[m] = "uncommitted"
        /\ pub[m] \in {"push", "mark"} => status[m] \in Rows
        /\ pub[m] = "mark" => m \in delivered

\* The broker has only messages with a row, and all that are marked published;
\* retry_count lags behind the failures, as it is overwritten from snapshots.
RowInv ==
    \A m \in Messages :
        /\ m \in delivered => status[m] \in Rows
        /\ status[m] = "published" => m \in delivered
        /\ retry[m] <= failures[m]

\* A sweeper's snapshots are of rows that are still there, taken when they were
\* eligible; it marks only what it has pushed.
SweeperInv ==
    \A s \in Sweepers :
        /\ \A i \in 1..Len(batch[s]) :
              /\ status[batch[s][i].msg] \in Rows
              /\ batch[s][i].retry < MaxRetries
              /\ batch[s][i].retry <= failures[batch[s][i].msg]
        /\ step[s] # "idle" => batch[s] # <<>>
        /\ step[s] = "mark" => batch[s][1].msg \in delivered

OutboxInv == OutboxTypeOK /\ PublisherInv /\ RowInv /\ SweeperInv

LEMMA OutboxInvInit == OutboxInit => OutboxInv
<1> SUFFICES ASSUME OutboxInit PROVE OutboxInv
  OBVIOUS
<1>1. OutboxTypeOK
  BY DEF OutboxInit, OutboxTypeOK, Rows, NoRow
<1>2. PublisherInv /\ RowInv
  BY DEF OutboxInit, PublisherInv, RowInv
<1>3. SweeperInv
  BY DEF OutboxInit, SweeperInv
<1> QED BY <1>1, <1>2, <1>3 DEF OutboxInv

-----------------------------------------------------------------------------
(* What the steps of others leave of a sweeper, and a sweeper's own batch *)

\* A row that is there stays, as does a delivered message, and failures add up:
\* that is all a sweeper needs from the others.
Monotone ==
    /\ \A m \in Messages : status[m] \in Rows => status'[m] \in Rows
    /\ delivered \subseteq delivered'
    /\ \A m \in Messages : failures[m] <= failures'[m]

LEMMA OthersKeepSweeperInv ==
    ASSUME OutboxTypeOK, OutboxTypeOK', SweeperInv, Monotone, UNCHANGED <<batch, step>>
    PROVE  SweeperInv'
<1> SUFFICES ASSUME NEW s \in Sweepers
             PROVE  /\ \A i \in 1..Len(batch[s]) :
                         /\ status'[batch[s][i].msg] \in Rows
                         /\ batch[s][i].retry < MaxRetries
                         /\ batch[s][i].retry <= failures'[batch[s][i].msg]
                    /\ step[s] # "idle" => batch[s] # <<>>
                    /\ step[s] = "mark" => batch[s][1].msg \in delivered'
  BY DEF SweeperInv
<1>1. batch[s] \in Seq(Snapshot)
  BY DEF OutboxTypeOK
<1>2. ASSUME NEW i \in 1..Len(batch[s])
      PROVE  /\ status'[batch[s][i].msg] \in Rows
             /\ batch[s][i].retry < MaxRetries
             /\ batch[s][i].retry <= failures'[batch[s][i].msg]
  <2>0. batch[s][i] \in Snapshot
    BY <1>1
  <2>1. batch[s][i].msg \in Messages /\ batch[s][i].retry \in Nat
    BY <2>0 DEF Snapshot
  <2>2. /\ failures[batch[s][i].msg] \in Nat /\ failures'[batch[s][i].msg] \in Nat
        /\ failures[batch[s][i].msg] <= failures'[batch[s][i].msg]
    BY <2>1 DEF OutboxTypeOK, Monotone
  <2> QED BY <2>1, <2>2 DEF SweeperInv, Monotone
<1>3. step[s] = "mark" => batch[s][1].msg \in delivered'
  BY DEF SweeperInv, Monotone
<1> QED BY <1>2, <1>3 DEF SweeperInv

\* The row a sweeper is busy with.
LEMMA CurrentRow ==
    ASSUME OutboxInv, NEW s \in Sweepers, step[s] # "idle"
    PROVE  /\ batch[s] \in Seq(Snapshot) /\ batch[s] # <<>> /\ Len(batch[s]) \in Nat \ {0}
           /\ Current(s) = batch[s][1]
           /\ Current(s).msg \in Messages /\ Current(s).retry \in Nat
           /\ status[Current(s).msg] \in Rows
           /\ Current(s).retry < MaxRetries /\ Current(s).retry <= failures[Current(s).msg]
           /\ step[s] = "mark" => Current(s).msg \in delivered
<1>1. batch[s] \in Seq(Snapshot) /\ batch[s] # <<>>
  BY DEF OutboxInv, OutboxTypeOK, SweeperInv
<1>2. Len(batch[s]) \in Nat \ {0} /\ Current(s) = batch[s][1] /\ batch[s][1] \in Snapshot
  BY <1>1 DEF Current
<1> QED BY <1>1, <1>2 DEF OutboxInv, SweeperInv, Snapshot

\* The end of a row: the rest of the batch is as good as it was.
LEMMA AdvanceKeepsSweeperInv ==
    ASSUME OutboxInv, Monotone, NEW s \in Sweepers, step[s] # "idle", Advance(s),
           failures' \in [Messages -> Nat]
    PROVE  /\ batch' \in [Sweepers -> Seq(Snapshot)]
           /\ step' \in [Sweepers -> {"idle", "push", "mark", "retry"}]
           /\ SweeperInv'
<1> DEFINE b == batch[s]
<1>1. b \in Seq(Snapshot) /\ b # <<>> /\ Len(b) \in Nat \ {0}
  BY CurrentRow
<1>2. /\ Tail(b) \in Seq(Snapshot) /\ Len(Tail(b)) = Len(b) - 1
      /\ \A i \in 1..Len(Tail(b)) : Tail(b)[i] = b[i + 1]
  BY <1>1
<1>3. batch' = [batch EXCEPT ![s] = Tail(b)]
      /\ step' = [step EXCEPT ![s] = IF Len(b) = 1 THEN "idle" ELSE "push"]
  BY DEF Advance
<1>4. /\ batch \in [Sweepers -> Seq(Snapshot)]
      /\ step \in [Sweepers -> {"idle", "push", "mark", "retry"}]
  BY DEF OutboxInv, OutboxTypeOK
<1>5. /\ batch' \in [Sweepers -> Seq(Snapshot)]
      /\ step' \in [Sweepers -> {"idle", "push", "mark", "retry"}]
  BY <1>2, <1>3, <1>4
<1>6. ASSUME NEW r \in Sweepers, NEW i \in 1..Len(batch[r])
      PROVE  /\ status'[batch[r][i].msg] \in Rows
             /\ batch[r][i].retry < MaxRetries
             /\ batch[r][i].retry <= failures'[batch[r][i].msg]
  <2>0. batch[r] \in Seq(Snapshot) /\ batch[r][i] \in Snapshot
    BY <1>4
  <2>1. batch[r][i].msg \in Messages /\ batch[r][i].retry \in Nat
    BY <2>0 DEF Snapshot
  <2>2. /\ failures[batch[r][i].msg] \in Nat /\ failures'[batch[r][i].msg] \in Nat
        /\ failures[batch[r][i].msg] <= failures'[batch[r][i].msg]
    BY <2>1 DEF OutboxInv, OutboxTypeOK, Monotone
  <2> QED BY <2>1, <2>2 DEF OutboxInv, SweeperInv, Monotone
<1>7. ASSUME NEW r \in Sweepers
      PROVE  /\ \A i \in 1..Len(batch'[r]) :
                   /\ status'[batch'[r][i].msg] \in Rows
                   /\ batch'[r][i].retry < MaxRetries
                   /\ batch'[r][i].retry <= failures'[batch'[r][i].msg]
             /\ step'[r] # "idle" => batch'[r] # <<>>
             /\ step'[r] = "mark" => batch'[r][1].msg \in delivered'
  <2>1. CASE r = s
    <3>1. batch'[r] = Tail(b) /\ step'[r] = IF Len(b) = 1 THEN "idle" ELSE "push"
      BY <1>3, <1>4, <2>1
    <3>2. ASSUME NEW i \in 1..Len(Tail(b))
          PROVE  i + 1 \in 1..Len(b) /\ batch'[r][i] = batch[s][i + 1]
      BY <1>1, <1>2, <3>1
    <3>3. step'[r] # "idle" => batch'[r] # <<>>
      <4> DEFINE t == Tail(b)
      <4>1. t \in Seq(Snapshot) /\ Len(t) = Len(b) - 1
        BY <1>2
      <4> HIDE DEF t
      <4>2. t = <<>> => Len(t) = 0
        OBVIOUS
      <4> QED BY <1>1, <3>1, <4>1, <4>2 DEF t
    <3> QED BY <1>6, <3>1, <3>2, <3>3
  <2>2. CASE r # s
    <3>1. batch'[r] = batch[r] /\ step'[r] = step[r]
      BY <1>3, <1>4, <2>2
    <3>2. step[r] = "mark" => batch[r][1].msg \in delivered'
      BY DEF OutboxInv, SweeperInv, Monotone
    <3> QED BY <1>6, <3>1, <3>2 DEF OutboxInv, SweeperInv
  <2> QED BY <2>1, <2>2
<1> QED BY <1>5, <1>7 DEF SweeperInv

-----------------------------------------------------------------------------
(* The publishers *)

PublisherAction(m) ==
    PublishReliable(m) \/ PublishInTxn(m) \/ PublisherStep(m) \/ PublisherCrash(m)

\* A publisher's step: its own message only, no sweeper, no failure counted.
LEMMA OwnMessageOnly ==
    ASSUME OutboxInv, NEW m \in Messages,
           NEW st \in Rows \cup NoRow, NEW p \in {"idle", "txn", "push", "mark", "done"},
           status' = [status EXCEPT ![m] = st], pub' = [pub EXCEPT ![m] = p],
           retry' \in {retry, [retry EXCEPT ![m] = 0]}, created' \in Seq(Messages),
           delivered' \in {delivered, delivered \cup {m}},
           UNCHANGED <<batch, step, outboxFaults, failures>>,
           status[m] \in Rows => st \in Rows,
           p = "idle" => st = "none", p = "txn" <=> st = "uncommitted",
           p \in {"push", "mark"} => st \in Rows, p = "mark" => m \in delivered',
           m \in delivered' => st \in Rows, st = "published" => m \in delivered'
    PROVE  OutboxInv'
<1>1. OutboxTypeOK'
  BY DEF OutboxInv, OutboxTypeOK, outboxFaults
<1>2. PublisherInv'
  BY DEF OutboxInv, OutboxTypeOK, PublisherInv
<1>3. RowInv'
  <2>1. ASSUME NEW k \in Messages PROVE /\ k \in delivered' => status'[k] \in Rows
                                        /\ status'[k] = "published" => k \in delivered'
    <3>1. CASE k = m
      <4>1. status'[k] = st
        BY <3>1 DEF OutboxInv, OutboxTypeOK
      <4> QED BY <3>1, <4>1
    <3>2. CASE k # m
      <4>1. status'[k] = status[k] /\ (k \in delivered' <=> k \in delivered)
        BY <3>2 DEF OutboxInv, OutboxTypeOK
      <4> QED BY <4>1 DEF OutboxInv, RowInv
    <3> QED BY <3>1, <3>2
  <2>2. ASSUME NEW k \in Messages PROVE retry'[k] <= failures'[k]
    <3>1. failures'[k] = failures[k] /\ failures[k] \in Nat /\ retry[k] <= failures[k]
      BY DEF OutboxInv, OutboxTypeOK, RowInv
    <3>2. retry'[k] \in {retry[k], 0}
      BY DEF OutboxInv, OutboxTypeOK
    <3> QED BY <3>1, <3>2
  <2> QED BY <2>1, <2>2 DEF RowInv
<1>4. Monotone
  BY DEF OutboxInv, OutboxTypeOK, Monotone
<1> QED BY <1>1, <1>2, <1>3, <1>4, OthersKeepSweeperInv DEF OutboxInv

LEMMA PublisherKeepsInv ==
    ASSUME OutboxInv, NEW m \in Messages, PublisherAction(m)
    PROVE  OutboxInv'
<1>0. /\ status \in [Messages -> Rows \cup NoRow] /\ retry \in [Messages -> Nat]
      /\ created \in Seq(Messages) /\ delivered \in SUBSET Messages
      /\ pub \in [Messages -> {"idle", "txn", "push", "mark", "done"}]
      /\ pub[m] = "idle" => status[m] = "none"
      /\ pub[m] = "txn" <=> status[m] = "uncommitted"
      /\ pub[m] \in {"push", "mark"} => status[m] \in Rows
      /\ pub[m] = "mark" => m \in delivered
      /\ m \in delivered => status[m] \in Rows
      /\ status[m] = "published" => m \in delivered
  BY DEF OutboxInv, OutboxTypeOK, PublisherInv, RowInv
<1>a. status = [status EXCEPT ![m] = status[m]]
  BY <1>0
<1>b. created \o <<m>> \in Seq(Messages) /\ Append(created, m) \in Seq(Messages)
  BY <1>0
<1> USE DEF table, Rows, NoRow
<1>1. CASE PublishReliable(m)
  <2>1. CASE Up("db")
    <3>1. /\ status' = [status EXCEPT ![m] = "pending"] /\ pub' = [pub EXCEPT ![m] = "push"]
          /\ retry' = [retry EXCEPT ![m] = 0] /\ created' \in Seq(Messages)
          /\ UNCHANGED <<delivered, batch, step, outboxFaults, failures>>
      BY <1>1, <1>b, <2>1 DEF PublishReliable, Insert
    <3> QED BY <1>0, <3>1, OwnMessageOnly
  <2>2. CASE ~Up("db")
    BY <1>0, <1>1, <1>a, <2>2, OwnMessageOnly DEF PublishReliable
  <2> QED BY <2>1, <2>2
<1>2. CASE PublishInTxn(m)
  BY <1>0, <1>2, <1>b, OwnMessageOnly DEF PublishInTxn, Insert
<1>3. CASE EndTxn(m)
  BY <1>0, <1>3, OwnMessageOnly DEF EndTxn
<1>4. CASE TryPush(m)
  <2>1. CASE PushOk(m) /\ pub' = [pub EXCEPT ![m] = "mark"]
    BY <1>0, <1>4, <1>a, <2>1, OwnMessageOnly DEF TryPush, PushOk
  <2>2. CASE PushErr(m) /\ pub' = [pub EXCEPT ![m] = "done"]
    BY <1>0, <1>4, <1>a, <2>2, OwnMessageOnly DEF TryPush, PushErr
  <2> QED BY <1>4, <2>1, <2>2 DEF TryPush
<1>5. CASE TryMark(m)
  <2>1. CASE MarkPublished(m)
    BY <1>0, <1>5, <2>1, OwnMessageOnly DEF TryMark, MarkPublished
  <2>2. CASE MarkErr
    BY <1>0, <1>5, <1>a, <2>2, OwnMessageOnly DEF TryMark, MarkErr
  <2> QED BY <1>5, <2>1, <2>2 DEF TryMark
<1>6. CASE PublisherCrash(m)
  <2>1. status' = [status EXCEPT ![m] = IF status[m] = "uncommitted" THEN "rolledback" ELSE status[m]]
    BY <1>6 DEF PublisherCrash
  <2> QED BY <1>0, <1>6, <2>1, OwnMessageOnly DEF PublisherCrash
<1> QED
  BY <1>1, <1>2, <1>3, <1>4, <1>5, <1>6 DEF PublisherAction, PublisherStep

-----------------------------------------------------------------------------
(* The sweepers *)

\* A SELECT takes snapshots of eligible rows.
LEMMA SweepKeepsInv ==
    ASSUME OutboxInv, NEW s \in Sweepers, Sweep(s)
    PROVE  OutboxInv'
<1> USE BoundsAssumption
<1>0. PICK n \in 1..BatchLimit : \E picked \in [1..n -> Messages] :
        /\ Selected(picked)
        /\ batch' = [batch EXCEPT ![s] =
              [i \in 1..n |-> [msg |-> picked[i], retry |-> retry[picked[i]]]]]
  BY DEF Sweep
<1>1. PICK picked \in [1..n -> Messages] :
        /\ Selected(picked)
        /\ batch' = [batch EXCEPT ![s] =
              [i \in 1..n |-> [msg |-> picked[i], retry |-> retry[picked[i]]]]]
  BY <1>0
<1> DEFINE b == [i \in 1..n |-> [msg |-> picked[i], retry |-> retry[picked[i]]]]
<1>2. /\ batch \in [Sweepers -> Seq(Snapshot)] /\ retry \in [Messages -> Nat] /\ n \in Nat
      /\ step \in [Sweepers -> {"idle", "push", "mark", "retry"}]
      /\ step' = [step EXCEPT ![s] = "push"]
      /\ UNCHANGED <<table, delivered, pub, outboxFaults, failures>>
  BY DEF OutboxInv, OutboxTypeOK, Sweep
<1>3. \A i \in 1..n : b[i] \in Snapshot /\ b[i].msg = picked[i] /\ b[i].retry = retry[picked[i]]
  BY <1>2 DEF Snapshot
<1>4. b \in [1..n -> Snapshot]
  BY <1>2 DEF Snapshot
<1>5. \A i \in 1..n : Eligible(picked[i])
  BY <1>1 DEF Selected
<1>6. batch' = [batch EXCEPT ![s] = b]
  BY <1>1
<1> HIDE DEF b
<1>7. b \in Seq(Snapshot) /\ Len(b) = n /\ b # <<>>
  BY <1>2, <1>4
<1>8. OutboxTypeOK'
  <2>1. batch' \in [Sweepers -> Seq(Snapshot)]
    BY <1>2, <1>6, <1>7
  <2>2. step' \in [Sweepers -> {"idle", "push", "mark", "retry"}]
    BY <1>2
  <2> QED BY <1>2, <2>1, <2>2 DEF OutboxInv, OutboxTypeOK, table, outboxFaults
<1>9. PublisherInv' /\ RowInv'
  BY <1>2 DEF OutboxInv, PublisherInv, RowInv, table
<1>10. SweeperInv'
  <2> SUFFICES ASSUME NEW r \in Sweepers
               PROVE  /\ \A i \in 1..Len(batch'[r]) :
                            /\ status[batch'[r][i].msg] \in Rows
                            /\ batch'[r][i].retry < MaxRetries
                            /\ batch'[r][i].retry <= failures[batch'[r][i].msg]
                      /\ step'[r] # "idle" => batch'[r] # <<>>
                      /\ step'[r] = "mark" => batch'[r][1].msg \in delivered
    BY <1>2 DEF SweeperInv, table
  <2>1. CASE r = s
    <3>1. batch'[r] = b /\ step'[r] = "push"
      BY <1>2, <1>6, <2>1
    <3>2. ASSUME NEW i \in 1..n
          PROVE  status[b[i].msg] \in Rows /\ b[i].retry < MaxRetries /\ b[i].retry <= failures[b[i].msg]
      BY <1>3, <1>5 DEF Eligible, Rows, OutboxInv, RowInv
    <3> QED BY <1>7, <3>1, <3>2
  <2>2. CASE r # s
    <3>1. batch'[r] = batch[r] /\ step'[r] = step[r]
      BY <1>2, <1>6, <2>2
    <3> QED BY <3>1 DEF OutboxInv, SweeperInv
  <2> QED BY <2>1, <2>2
<1> QED BY <1>8, <1>9, <1>10 DEF OutboxInv

LEMMA SweepPushKeepsInv ==
    ASSUME OutboxInv, NEW s \in Sweepers, SweepPush(s)
    PROVE  OutboxInv'
<1> DEFINE m == Current(s).msg
<1>1. /\ m \in Messages /\ status[m] \in Rows /\ Current(s) = batch[s][1]
      /\ step[s] = "push" /\ batch[s] # <<>>
  BY CurrentRow DEF SweepPush
<1>2. /\ delivered' \in {delivered, delivered \cup {m}}
      /\ \/ step' = [step EXCEPT ![s] = "mark"] /\ m \in delivered'
         \/ step' = [step EXCEPT ![s] = "retry"]
      /\ UNCHANGED <<status, retry, created, pub, batch, down, outages, aborts, failures>>
  BY DEF SweepPush, PushOk, PushErr, table, outboxFaults
<1> HIDE DEF m
<1>3. OutboxTypeOK'
  BY <1>1, <1>2 DEF OutboxInv, OutboxTypeOK
<1>4. PublisherInv' /\ RowInv'
  BY <1>1, <1>2 DEF OutboxInv, PublisherInv, RowInv
<1>5. SweeperInv'
  <2> SUFFICES ASSUME NEW r \in Sweepers
               PROVE  /\ step'[r] # "idle" => batch[r] # <<>>
                      /\ step'[r] = "mark" => batch[r][1].msg \in delivered'
    BY <1>2 DEF SweeperInv, OutboxInv
  <2>1. CASE r = s
    BY <1>1, <1>2, <2>1 DEF OutboxInv, OutboxTypeOK, m
  <2>2. CASE r # s
    <3>1. step'[r] = step[r]
      BY <1>2, <2>2 DEF OutboxInv, OutboxTypeOK
    <3> QED BY <1>2, <3>1 DEF OutboxInv, SweeperInv
  <2> QED BY <2>1, <2>2
<1> QED BY <1>3, <1>4, <1>5 DEF OutboxInv

LEMMA SweepMarkKeepsInv ==
    ASSUME OutboxInv, NEW s \in Sweepers, SweepMark(s)
    PROVE  OutboxInv'
<1> DEFINE m == Current(s).msg
<1>1. m \in Messages /\ status[m] \in Rows /\ m \in delivered /\ step[s] = "mark" /\ batch[s] # <<>>
  BY CurrentRow DEF SweepMark
<1>2. UNCHANGED <<retry, created, delivered, pub, down, outages, aborts, failures>>
  BY DEF SweepMark, MarkPublished, MarkErr, table, outboxFaults
<1>3. CASE MarkPublished(m) /\ Advance(s)
  <2>1. status' = [status EXCEPT ![m] = "published"]
    BY <1>3 DEF MarkPublished
  <2> HIDE DEF m
  <2>2. Monotone
    BY <1>1, <1>2, <2>1 DEF Monotone, OutboxInv, OutboxTypeOK, Rows
  <2>3. /\ SweeperInv' /\ batch' \in [Sweepers -> Seq(Snapshot)]
        /\ step' \in [Sweepers -> {"idle", "push", "mark", "retry"}]
    BY <1>1, <1>2, <1>3, <2>2, AdvanceKeepsSweeperInv DEF OutboxInv, OutboxTypeOK
  <2>4. OutboxTypeOK'
    BY <1>1, <1>2, <2>1, <2>3 DEF OutboxInv, OutboxTypeOK, Rows
  <2>5. PublisherInv' /\ RowInv'
    BY <1>1, <1>2, <2>1 DEF OutboxInv, OutboxTypeOK, PublisherInv, RowInv, Rows, NoRow
  <2> QED BY <2>3, <2>4, <2>5 DEF OutboxInv
<1>4. CASE MarkErr /\ step' = [step EXCEPT ![s] = "retry"] /\ UNCHANGED batch
  <2>1. status' = status
    BY <1>4 DEF MarkErr, table
  <2>2. OutboxTypeOK' /\ PublisherInv' /\ RowInv'
    BY <1>2, <1>4, <2>1 DEF OutboxInv, OutboxTypeOK, PublisherInv, RowInv
  <2>3. SweeperInv'
    BY <1>1, <1>2, <1>4, <2>1 DEF OutboxInv, OutboxTypeOK, SweeperInv
  <2> QED BY <2>2, <2>3 DEF OutboxInv
<1> QED BY <1>3, <1>4 DEF SweepMark

\* What the Err branch writes: retry_count from the snapshot never gets ahead of
\* the failures, so a row that is given up has failed max_retries times.
LEMMA RetryFacts ==
    ASSUME OutboxInv, NEW s \in Sweepers, SweepRetry(s)
    PROVE  LET m == Current(s).msg
               n == Current(s).retry + 1
           IN  /\ m \in Messages /\ status[m] \in Rows /\ n \in Nat
               /\ failures' = [failures EXCEPT ![m] = IF failures[m] < MaxRetries THEN failures[m] + 1
                                                                                 ELSE failures[m]]
               /\ failures' \in [Messages -> Nat] /\ n <= failures'[m] /\ failures[m] <= failures'[m]
               /\ \/ UNCHANGED <<retry, status>>
                  \/ /\ retry' = [retry EXCEPT ![m] = n]
                     /\ status' = [status EXCEPT ![m] = RetryStatus(n)]
               /\ step[s] = "retry" /\ batch[s] # <<>> /\ Advance(s)
               /\ UNCHANGED <<created, delivered, pub, down, outages, aborts>>
<1> DEFINE m == Current(s).msg
           n == Current(s).retry + 1
<1>1. step[s] = "retry"
  BY DEF SweepRetry
<1>2. /\ m \in Messages /\ status[m] \in Rows /\ Current(s).retry \in Nat /\ batch[s] # <<>>
      /\ Current(s).retry < MaxRetries /\ Current(s).retry <= failures[m]
  BY <1>1, CurrentRow
<1>3. /\ failures' = [failures EXCEPT ![m] = IF failures[m] < MaxRetries THEN failures[m] + 1
                                                                        ELSE failures[m]]
      /\ \/ UNCHANGED <<retry, status>>
         \/ /\ retry' = [retry EXCEPT ![m] = n]
            /\ status' = [status EXCEPT ![m] = RetryStatus(n)]
      /\ Advance(s) /\ UNCHANGED <<created, delivered, pub, down, outages, aborts>>
  BY DEF SweepRetry, outboxFaults
<1> HIDE DEF m
<1>4. failures \in [Messages -> Nat] /\ MaxRetries \in Nat
  BY BoundsAssumption DEF OutboxInv, OutboxTypeOK
<1>5. failures' \in [Messages -> Nat] /\ n <= failures'[m] /\ failures[m] <= failures'[m]
  BY <1>2, <1>3, <1>4
<1> QED BY <1>1, <1>2, <1>3, <1>5 DEF m

LEMMA SweepRetryKeepsInv ==
    ASSUME OutboxInv, NEW s \in Sweepers, SweepRetry(s)
    PROVE  OutboxInv'
<1> DEFINE m == Current(s).msg
           n == Current(s).retry + 1
<1>1. /\ m \in Messages /\ status[m] \in Rows /\ n \in Nat
      /\ failures' \in [Messages -> Nat] /\ n <= failures'[m] /\ failures[m] <= failures'[m]
      /\ \A k \in Messages \ {m} : failures'[k] = failures[k]
      /\ \/ UNCHANGED <<retry, status>>
         \/ /\ retry' = [retry EXCEPT ![m] = n]
            /\ status' = [status EXCEPT ![m] = RetryStatus(n)]
      /\ step[s] = "retry" /\ Advance(s)
      /\ UNCHANGED <<created, delivered, pub, down, outages, aborts>>
  BY RetryFacts DEF OutboxInv, OutboxTypeOK
<1>2. RetryStatus(n) \in {"failed", "pending"}
  BY DEF RetryStatus
<1> HIDE DEF m, n
<1>3. ASSUME NEW k \in Messages
      PROVE  failures[k] \in Nat /\ failures'[k] \in Nat /\ failures[k] <= failures'[k]
  <2>1. failures[k] \in Nat /\ failures'[k] \in Nat
    BY <1>1 DEF OutboxInv, OutboxTypeOK
  <2>2. CASE k = m
    BY <1>1, <2>1, <2>2
  <2>3. CASE k # m
    BY <1>1, <2>1, <2>3
  <2> QED BY <2>1, <2>2, <2>3
<1>4. Monotone
  BY <1>1, <1>2, <1>3 DEF Monotone, OutboxInv, OutboxTypeOK, Rows
<1>5. /\ SweeperInv' /\ batch' \in [Sweepers -> Seq(Snapshot)]
      /\ step' \in [Sweepers -> {"idle", "push", "mark", "retry"}]
  BY <1>1, <1>4, AdvanceKeepsSweeperInv
<1>6. /\ status \in [Messages -> Rows \cup NoRow] /\ retry \in [Messages -> Nat]
      /\ status' \in [Messages -> Rows \cup NoRow] /\ retry' \in [Messages -> Nat]
      /\ \A k \in Messages \ {m} : status'[k] = status[k]
      /\ status'[m] \in {status[m], "failed", "pending"}
  BY <1>1, <1>2 DEF OutboxInv, OutboxTypeOK, Rows
<1>a. OutboxTypeOK'
  BY <1>1, <1>5, <1>6 DEF OutboxInv, OutboxTypeOK
<1>7. PublisherInv'
  <2>1. ASSUME NEW k \in Messages
        PROVE  /\ pub[k] = "idle" => status'[k] = "none"
               /\ pub[k] = "txn" <=> status'[k] = "uncommitted"
               /\ pub[k] \in {"push", "mark"} => status'[k] \in Rows
               /\ pub[k] = "mark" => k \in delivered
    <3>1. CASE k # m
      BY <1>6, <3>1 DEF OutboxInv, PublisherInv
    <3>2. CASE k = m
      BY <1>1, <1>6, <3>2 DEF OutboxInv, PublisherInv, Rows
    <3> QED BY <3>1, <3>2
  <2> QED BY <1>1, <2>1 DEF PublisherInv
<1>8. RowInv'
  <2>1. ASSUME NEW k \in Messages PROVE retry'[k] <= failures'[k]
    <3>1. retry[k] \in Nat /\ retry[k] <= failures[k]
      BY DEF OutboxInv, OutboxTypeOK, RowInv
    <3>2. k # m => retry'[k] = retry[k]
      BY <1>1 DEF OutboxInv, OutboxTypeOK
    <3>3. retry'[m] = retry[m] \/ retry'[m] = n
      BY <1>1 DEF OutboxInv, OutboxTypeOK
    <3> QED BY <1>1, <1>3, <3>1, <3>2, <3>3
  <2>2. ASSUME NEW k \in Messages PROVE /\ k \in delivered => status'[k] \in Rows
                                        /\ status'[k] = "published" => k \in delivered
    BY <1>1, <1>2 DEF OutboxInv, OutboxTypeOK, RowInv, Rows
  <2> QED BY <1>1, <2>1, <2>2 DEF RowInv
<1> QED BY <1>5, <1>a, <1>7, <1>8 DEF OutboxInv

LEMMA SweeperAbortKeepsInv ==
    ASSUME OutboxInv, NEW s \in Sweepers, SweeperAbort(s)
    PROVE  OutboxInv'
<1>1. /\ batch' = [batch EXCEPT ![s] = <<>>] /\ step' = [step EXCEPT ![s] = "idle"]
      /\ aborts' = aborts + 1
      /\ UNCHANGED <<status, retry, created, delivered, pub, down, outages, failures>>
  BY DEF SweeperAbort, table
<1>2. OutboxTypeOK'
  BY <1>1 DEF OutboxInv, OutboxTypeOK
<1>3. PublisherInv' /\ RowInv'
  BY <1>1 DEF OutboxInv, PublisherInv, RowInv
<1>4. SweeperInv'
  <2> SUFFICES ASSUME NEW r \in Sweepers
               PROVE  /\ \A i \in 1..Len(batch'[r]) :
                            /\ status[batch'[r][i].msg] \in Rows
                            /\ batch'[r][i].retry < MaxRetries
                            /\ batch'[r][i].retry <= failures[batch'[r][i].msg]
                      /\ step'[r] # "idle" => batch'[r] # <<>>
                      /\ step'[r] = "mark" => batch'[r][1].msg \in delivered
    BY <1>1 DEF SweeperInv
  <2>1. CASE r = s
    <3>1. batch'[r] = <<>> /\ step'[r] = "idle"
      BY <1>1, <2>1 DEF OutboxInv, OutboxTypeOK
    <3> QED BY <3>1
  <2>2. CASE r # s
    <3>1. batch'[r] = batch[r] /\ step'[r] = step[r]
      BY <1>1, <2>2 DEF OutboxInv, OutboxTypeOK
    <3> QED BY <3>1 DEF OutboxInv, SweeperInv
  <2> QED BY <2>1, <2>2
<1> QED BY <1>2, <1>3, <1>4 DEF OutboxInv

LEMMA OutboxInvStep == OutboxInv /\ [OutboxNext]_outboxVars => OutboxInv'
<1> SUFFICES ASSUME OutboxInv, [OutboxNext]_outboxVars PROVE OutboxInv'
  OBVIOUS
<1>1. ASSUME NEW m \in Messages, PublisherAction(m) PROVE OutboxInv'
  BY <1>1, PublisherKeepsInv
<1>2. ASSUME NEW s \in Sweepers, SweeperStep(s) PROVE OutboxInv'
  BY <1>2, SweepKeepsInv, SweepPushKeepsInv, SweepMarkKeepsInv, SweepRetryKeepsInv DEF SweeperStep
<1>3. ASSUME NEW s \in Sweepers, SweeperAbort(s) PROVE OutboxInv'
  BY <1>3, SweeperAbortKeepsInv
<1>4. ASSUME NEW sv \in Services, Fail(sv) \/ Restore(sv) PROVE OutboxInv'
  BY <1>4 DEF Fail, Restore, OutboxInv, OutboxTypeOK, PublisherInv, RowInv, SweeperInv,
              table, workers
<1>5. CASE UNCHANGED outboxVars
  BY <1>5 DEF outboxVars, OutboxInv, OutboxTypeOK, PublisherInv, RowInv, SweeperInv,
              table, workers, outboxFaults
<1> QED BY <1>1, <1>2, <1>3, <1>4, <1>5 DEF OutboxNext, PublisherAction

\* The table, the publishers and the sweepers are well typed.
THEOREM OutboxTypeCorrect == OutboxSafety => []OutboxTypeOK
<1>1. OutboxInv => OutboxTypeOK
  BY DEF OutboxInv
<1> QED BY <1>1, OutboxInvInit, OutboxInvStep, PTL DEF OutboxSafety

-----------------------------------------------------------------------------
(* The refinement *)

fates == [m \in Messages |-> Fate(m)]

\* The fate of a message in a state that satisfies the invariant: nothing leaks
\* and nothing is dropped.
SoundFate(m) ==
    IF m \in delivered THEN "delivered"
    ELSE IF status[m] = "pending" THEN "committed"
    ELSE IF status[m] = "uncommitted" THEN "open"
    ELSE IF status[m] = "rolledback" THEN "withdrawn"
    ELSE status[m]

LEMMA FateOf ==
    ASSUME OutboxInv, OutboxInv', NEW m \in Messages
    PROVE  Fate(m) = SoundFate(m) /\ Fate(m)' = SoundFate(m)'
<1>1. Fate(m) = SoundFate(m)
  BY DEF OutboxInv, OutboxTypeOK, RowInv, Fate, SoundFate, Rows, NoRow
<1>2. Fate(m)' = SoundFate(m)'
  BY DEF OutboxInv, OutboxTypeOK, RowInv, Fate, SoundFate, Rows, NoRow
<1> QED BY <1>1, <1>2

\* A step of which at most the fate of m notices something.
LEMMA OneFate ==
    ASSUME OutboxInv, OutboxInv', NEW m \in Messages,
           \A k \in Messages \ {m} : status'[k] = status[k] /\ (k \in delivered' <=> k \in delivered)
    PROVE  fates' = [fates EXCEPT ![m] = Fate(m)']
<1>1. ASSUME NEW k \in Messages, k # m PROVE Fate(k)' = Fate(k)
  BY <1>1 DEF Fate
<1> QED BY <1>1 DEF fates

LEMMA SameFates ==
    ASSUME UNCHANGED <<status, delivered>>
    PROVE  UNCHANGED fates
BY DEF fates, Fate

\* How the fate of a message changes is what makes a step one of Outbox.
LEMMA FateChangeIsAStep ==
    ASSUME NEW m \in Messages, fates' = [fates EXCEPT ![m] = Fate(m)'], UNCHANGED failures,
           \/ Fate(m)' = Fate(m)
           \/ Fate(m) = "none" /\ Fate(m)' \in {"open", "committed"}
           \/ Fate(m) = "open" /\ Fate(m)' \in {"withdrawn", "committed"}
           \/ Fate(m) \in {"committed", "failed"} /\ Fate(m)' = "delivered"
    PROVE  Abstract!Next \/ UNCHANGED <<fates, failures>>
<1>1. fates[m] = Fate(m)
  BY DEF fates
<1>2. CASE Fate(m)' = Fate(m)
  BY <1>1, <1>2 DEF fates
<1>3. CASE Fate(m) = "none" /\ Fate(m)' = "open"
  BY <1>1, <1>3 DEF Abstract!Next, Abstract!Begin, Abstract!Becomes, fates
<1>4. CASE Fate(m) \in {"none", "open"} /\ Fate(m)' = "committed"
  BY <1>1, <1>4 DEF Abstract!Next, Abstract!Commit, Abstract!Becomes, fates
<1>5. CASE Fate(m) = "open" /\ Fate(m)' = "withdrawn"
  BY <1>1, <1>5 DEF Abstract!Next, Abstract!Withdraw, Abstract!Becomes, fates
<1>6. CASE Fate(m) \in {"committed", "failed"} /\ Fate(m)' = "delivered"
  BY <1>1, <1>6 DEF Abstract!Next, Abstract!Deliver, Abstract!Becomes, fates
<1> QED BY <1>2, <1>3, <1>4, <1>5, <1>6

LEMMA PublisherRefines ==
    ASSUME OutboxInv, OutboxInv', NEW m \in Messages, PublisherAction(m)
    PROVE  Abstract!Next \/ UNCHANGED <<fates, failures>>
<1> USE DEF table, Rows, NoRow
<1>0. /\ status \in [Messages -> Rows \cup NoRow] /\ delivered \subseteq Messages
      /\ pub[m] = "idle" => status[m] = "none"
      /\ pub[m] = "txn" <=> status[m] = "uncommitted"
      /\ pub[m] \in {"push", "mark"} => status[m] \in Rows
      /\ pub[m] = "mark" => m \in delivered
      /\ m \in delivered => status[m] \in Rows
      /\ status[m] = "published" => m \in delivered
  BY DEF OutboxInv, OutboxTypeOK, PublisherInv, RowInv
<1>1. Fate(m) = SoundFate(m) /\ Fate(m)' = SoundFate(m)' /\ UNCHANGED failures
  BY FateOf DEF PublisherAction, PublisherStep, PublishReliable, PublishInTxn, EndTxn, TryPush,
                TryMark, PublisherCrash
<1> HIDE DEF Rows, NoRow
<1>2. \A k \in Messages \ {m} : status'[k] = status[k] /\ (k \in delivered' <=> k \in delivered)
  BY <1>0 DEF PublisherAction, PublisherStep, PublishReliable, PublishInTxn, EndTxn, TryPush,
              TryMark, PublisherCrash, Insert, MarkPublished, MarkErr, PushOk, PushErr
<1>3. fates' = [fates EXCEPT ![m] = Fate(m)']
  BY <1>2, OneFate
<1> USE DEF Rows, NoRow
<1> DEFINE Allowed == \/ Fate(m)' = Fate(m)
                      \/ Fate(m) = "none" /\ Fate(m)' \in {"open", "committed"}
                      \/ Fate(m) = "open" /\ Fate(m)' \in {"withdrawn", "committed"}
                      \/ Fate(m) \in {"committed", "failed"} /\ Fate(m)' = "delivered"
<1>4. CASE PublishReliable(m) \/ PublishInTxn(m)
  <2>1. Allowed
    BY <1>0, <1>1, <1>4 DEF PublishReliable, PublishInTxn, Insert, SoundFate
  <2> QED BY <1>1, <1>3, <2>1, FateChangeIsAStep
<1>5. CASE EndTxn(m) \/ PublisherCrash(m)
  <2>1. Allowed
    BY <1>0, <1>1, <1>5 DEF EndTxn, PublisherCrash, SoundFate
  <2> QED BY <1>1, <1>3, <2>1, FateChangeIsAStep
<1>6. CASE TryPush(m)
  <2>1. Allowed
    BY <1>0, <1>1, <1>6 DEF TryPush, PushOk, PushErr, SoundFate
  <2> QED BY <1>1, <1>3, <2>1, FateChangeIsAStep
<1>7. CASE TryMark(m)
  <2>1. Allowed
    BY <1>0, <1>1, <1>7 DEF TryMark, MarkPublished, MarkErr, SoundFate
  <2> QED BY <1>1, <1>3, <2>1, FateChangeIsAStep
<1> QED BY <1>4, <1>5, <1>6, <1>7 DEF PublisherAction, PublisherStep

\* A push is a delivery, or nothing; a mark changes no fate.
LEMMA SweepRefines ==
    ASSUME OutboxInv, OutboxInv', NEW s \in Sweepers, SweepPush(s) \/ SweepMark(s)
    PROVE  Abstract!Next \/ UNCHANGED <<fates, failures>>
<1>1. PICK m \in Messages :
        m = Current(s).msg /\ status[m] \in Rows /\ (step[s] = "mark" => m \in delivered)
  BY CurrentRow DEF SweepPush, SweepMark
<1>2. /\ delivered' \in {delivered, delivered \cup {m}} /\ UNCHANGED failures
      /\ status' = status \/ (m \in delivered /\ status' = [status EXCEPT ![m] = "published"])
  BY <1>1 DEF SweepPush, SweepMark, PushOk, PushErr, MarkPublished, MarkErr, table
<1>3. Fate(m) = SoundFate(m) /\ Fate(m)' = SoundFate(m)'
  BY <1>1, FateOf
<1>4. status \in [Messages -> Rows \cup NoRow] /\ (status[m] = "published" => m \in delivered)
  BY <1>1 DEF OutboxInv, OutboxTypeOK, RowInv
<1>5. \A k \in Messages \ {m} : status'[k] = status[k] /\ (k \in delivered' <=> k \in delivered)
  BY <1>2, <1>4
<1>6. fates' = [fates EXCEPT ![m] = Fate(m)']
  BY <1>1, <1>5, OneFate
<1>7. Fate(m)' = Fate(m) \/ (Fate(m) \in {"committed", "failed"} /\ Fate(m)' = "delivered")
  <2>1. CASE m \in delivered
    BY <1>2, <1>3, <2>1 DEF SoundFate
  <2>2. CASE m \notin delivered
    <3>1. status[m] \in {"pending", "failed"} /\ status' = status
      BY <1>1, <1>2, <1>4, <2>2 DEF Rows
    <3>2. Fate(m) = IF status[m] = "pending" THEN "committed" ELSE "failed"
      BY <1>3, <2>2, <3>1 DEF SoundFate
    <3>3. Fate(m)' = IF m \in delivered' THEN "delivered" ELSE Fate(m)
      BY <1>3, <3>1, <3>2 DEF SoundFate
    <3> QED BY <3>2, <3>3
  <2> QED BY <2>1, <2>2
<1> QED BY <1>1, <1>2, <1>6, <1>7, FateChangeIsAStep

\* A failed sweep is a failed attempt, and gives up only what has failed often
\* enough, though it writes what a snapshot says.
LEMMA RetryRefines ==
    ASSUME OutboxInv, OutboxInv', NEW s \in Sweepers, SweepRetry(s)
    PROVE  Abstract!Next
<1>1. PICK m \in Messages, n \in Nat :
      /\ status[m] \in Rows
      /\ failures' = [failures EXCEPT ![m] = IF failures[m] < MaxRetries THEN failures[m] + 1
                                                                        ELSE failures[m]]
      /\ failures' \in [Messages -> Nat] /\ n <= failures'[m]
      /\ \/ status' = status
         \/ status' = [status EXCEPT ![m] = RetryStatus(n)]
      /\ delivered' = delivered
  <2>1. Current(s).msg \in Messages /\ Current(s).retry + 1 \in Nat
    BY RetryFacts
  <2> QED BY <2>1, RetryFacts
<1>2. RetryStatus(n) = IF n >= MaxRetries THEN "failed" ELSE "pending"
  BY DEF RetryStatus
<1>3. Fate(m) = SoundFate(m) /\ Fate(m)' = SoundFate(m)'
  BY <1>1, FateOf
<1>4. status \in [Messages -> Rows \cup NoRow] /\ (status[m] = "published" => m \in delivered)
  BY <1>1 DEF OutboxInv, OutboxTypeOK, RowInv
<1>5. fates' = [fates EXCEPT ![m] = Fate(m)']
  <2>1. \A k \in Messages \ {m} : status'[k] = status[k] /\ (k \in delivered' <=> k \in delivered)
    BY <1>1, <1>4
  <2> QED BY <1>1, <2>1, OneFate
<1>6. Fate(m) \in {"committed", "delivered", "failed"}
  BY <1>1, <1>3, <1>4 DEF SoundFate, Rows
<1>7. \/ Fate(m)' = Fate(m)
      \/ Fate(m) = "committed" /\ Fate(m)' = "failed" /\ n >= MaxRetries
      \/ Fate(m) = "failed" /\ Fate(m)' = "committed"
  BY <1>1, <1>2, <1>3, <1>4 DEF SoundFate, Rows
<1>8. Abstract!Attempt(m)
  <2>1. fates[m] = Fate(m) /\ fates \in [Messages -> {Fate(k) : k \in Messages}]
    BY <1>1 DEF fates
  <2>2. fates[m] \in {"committed", "delivered", "failed"}
    BY <1>6, <2>1
  <2>3. CASE Fate(m)' = Fate(m)
    <3>1. UNCHANGED fates
      BY <1>5, <2>1, <2>3
    <3> QED BY <1>1, <2>2, <3>1 DEF Abstract!Attempt, fates
  <2>4. CASE Fate(m) = "committed" /\ Fate(m)' = "failed" /\ n >= MaxRetries
    <3>1. failures'[m] >= MaxRetries
      BY <1>1, <2>4, BoundsAssumption
    <3> QED BY <1>1, <1>5, <2>1, <2>2, <2>4, <3>1 DEF Abstract!Attempt, Abstract!Becomes, fates
  <2>5. CASE Fate(m) = "failed" /\ Fate(m)' = "committed"
    BY <1>1, <1>5, <2>1, <2>2, <2>5 DEF Abstract!Attempt, Abstract!Becomes, fates
  <2> QED BY <1>7, <2>3, <2>4, <2>5
<1> QED BY <1>1, <1>8 DEF Abstract!Next

LEMMA OutboxStepRefines ==
    OutboxInv /\ OutboxInv' /\ [OutboxNext]_outboxVars => [Abstract!Next]_<<fates, failures>>
<1> SUFFICES ASSUME OutboxInv, OutboxInv', [OutboxNext]_outboxVars
             PROVE  Abstract!Next \/ UNCHANGED <<fates, failures>>
  OBVIOUS
<1>1. ASSUME NEW m \in Messages, PublisherAction(m) PROVE Abstract!Next \/ UNCHANGED <<fates, failures>>
  BY <1>1, PublisherRefines
<1>2. ASSUME NEW s \in Sweepers, SweepPush(s) \/ SweepMark(s) \/ SweepRetry(s)
      PROVE  Abstract!Next \/ UNCHANGED <<fates, failures>>
  BY <1>2, SweepRefines, RetryRefines
<1>3. ASSUME NEW s \in Sweepers, Sweep(s) \/ SweeperAbort(s) PROVE UNCHANGED <<status, delivered, failures>>
  BY <1>3 DEF Sweep, SweeperAbort, table
<1>4. ASSUME NEW sv \in Services, Fail(sv) \/ Restore(sv) PROVE UNCHANGED <<status, delivered, failures>>
  BY <1>4 DEF Fail, Restore, table
<1>5. CASE UNCHANGED outboxVars
  BY <1>5, SameFates DEF outboxVars, table
<1> QED
  BY <1>1, <1>2, <1>3, <1>4, <1>5, SameFates DEF OutboxNext, PublisherAction, SweeperStep

\* The outbox implements the safety part of Outbox: however publishers, sweepers,
\* outages and crashes interleave, a message is delivered only if its row was
\* committed, delivery is final, and a row is given up only after max_retries
\* failed attempts.
THEOREM OutboxRefines == OutboxSafety => Abstract!Safety
<1>1. OutboxInit => Abstract!Init
  BY DEF OutboxInit, Abstract!Init, Fate, Rows, NoRow
<1>2. OutboxInv /\ OutboxInv' /\ [OutboxNext]_outboxVars
        => [Abstract!Next]_<<[m \in Messages |-> Fate(m)], failures>>
  BY OutboxStepRefines DEF fates
<1> QED BY <1>1, <1>2, OutboxInvInit, OutboxInvStep, PTL DEF OutboxSafety, Abstract!Safety
=============================================================================
