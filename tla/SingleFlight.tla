---------------------------- MODULE SingleFlight ----------------------------
(***************************************************************************)
(* concurrent/singleflight.rs: Group::work, the single-flight group.       *)
(*                                                                         *)
(* The group is one map `inflight` behind a tokio RwLock.  A call that     *)
(* finds an entry subscribes to its broadcast channel; a call that finds   *)
(* none inserts its own channel, runs f, broadcasts the result and removes *)
(* the entry.  Every .await is an interleaving point and a point where the *)
(* caller may drop the future.                                             *)
(*                                                                         *)
(* A call creates at most one channel and runs f at most once, so a        *)
(* channel and the result of an execution are both named by the call.      *)
(* Read guards are held only across synchronous code and are one step;     *)
(* the write guard is held across an .await in one place only (SlowRecv).  *)
(***************************************************************************)
EXTENDS FiniteSets, Naturals

CONSTANTS
    Calls,        \* the calls of work() made on one group
    Keys,         \* the keys they are made for
    NoCall,       \* absence of a call (of a channel, of a result)
    AllowCancel   \* may a caller drop the future of work()?

ASSUME NoCallAssumption == NoCall \notin Calls
ASSUME CancelAssumption == AllowCancel \in BOOLEAN

VARIABLES
    key,        \* the key each call was made for (never changes)
    pc,         \* where each call stands in work()
    inflight,   \* the map: key -> the channel whose Sender it holds
    writer,     \* the call that holds the write guard across an .await
    sub,        \* the channel each call subscribed to
    mailbox,    \* the message waiting in each call's Receiver
    sent,       \* the channels on which the result has been sent
    result,     \* what each call returned
    sentBefore  \* history: executions already broadcast when the call began

vars == <<key, pc, inflight, writer, sub, mailbox, sent, result, sentBefore>>

Maybe == Calls \cup {NoCall}

PCs == {"idle", "fast", "fastRecv", "slow", "slowRecv", "exec", "remove",
        "done", "cancelled"}

\* A call that is inside work() and has created a channel holds a Sender of it
\* until work() returns or its future is dropped.
HoldsSender(c) == pc[c] \in {"exec", "remove"}

\* A Receiver sees RecvError::Closed when its buffer is empty and no Sender of
\* the channel is left, neither the leader's nor the clone kept in the map.
Closed(ch) == ~HoldsSender(ch) /\ \A k \in Keys : inflight[k] # ch

RecvReady(c) == mailbox[c] # NoCall \/ Closed(sub[c])

Init ==
    /\ key \in [Calls -> Keys]
    /\ pc = [c \in Calls |-> "idle"]
    /\ inflight = [k \in Keys |-> NoCall]
    /\ writer = NoCall
    /\ sub = [c \in Calls |-> NoCall]
    /\ mailbox = [c \in Calls |-> NoCall]
    /\ sent = {}
    /\ result = [c \in Calls |-> NoCall]
    /\ sentBefore = [c \in Calls |-> {}]

\* work() is called.
Begin(c) ==
    /\ pc[c] = "idle"
    /\ pc' = [pc EXCEPT ![c] = "fast"]
    /\ sentBefore' = [sentBefore EXCEPT ![c] = sent]
    /\ UNCHANGED <<key, inflight, writer, sub, mailbox, sent, result>>

\* Mutant: a channel that replays its last message to a new subscriber.
SubscribeReplays(c, ch) ==
    /\ sub' = [sub EXCEPT ![c] = ch]
    /\ mailbox' = [mailbox EXCEPT ![c] = IF ch \in sent THEN ch ELSE NoCall]

\* broadcast::Sender::subscribe: the new Receiver has an empty buffer, what
\* was sent before is not replayed.
Subscribe(c, ch) ==
    /\ sub' = [sub EXCEPT ![c] = ch]
    /\ mailbox' = [mailbox EXCEPT ![c] = NoCall]

\* Fast path: under the read guard, subscribe to the channel in flight.
FastPath(c) ==
    /\ pc[c] = "fast"
    /\ writer = NoCall
    /\ IF inflight[key[c]] = NoCall
         THEN /\ pc' = [pc EXCEPT ![c] = "slow"]
              /\ UNCHANGED <<sub, mailbox>>
         ELSE /\ pc' = [pc EXCEPT ![c] = "fastRecv"]
              /\ Subscribe(c, inflight[key[c]])
    /\ UNCHANGED <<key, inflight, writer, sent, result, sentBefore>>

\* rx.recv() of the fast path: the result, or Closed and the slow path.
FastRecv(c) ==
    /\ pc[c] = "fastRecv"
    /\ RecvReady(c)
    /\ IF mailbox[c] # NoCall
         THEN /\ pc' = [pc EXCEPT ![c] = "done"]
              /\ result' = [result EXCEPT ![c] = mailbox[c]]
         ELSE /\ pc' = [pc EXCEPT ![c] = "slow"]
              /\ UNCHANGED result
    /\ UNCHANGED <<key, inflight, writer, sub, mailbox, sent, sentBefore>>

\* Mutant: no second look at the map under the write guard.
SlowPathNoRecheck(c) ==
    /\ pc[c] = "slow"
    /\ writer = NoCall
    /\ inflight' = [inflight EXCEPT ![key[c]] = c]
    /\ pc' = [pc EXCEPT ![c] = "exec"]
    /\ UNCHANGED <<key, writer, sub, mailbox, sent, result, sentBefore>>

\* Slow path, the write guard is acquired: with no entry the call inserts its
\* own channel and releases the guard; with an entry it subscribes and goes on
\* to wait for the message with the guard still held.
SlowPath(c) ==
    /\ pc[c] = "slow"
    /\ writer = NoCall
    /\ IF inflight[key[c]] = NoCall
         THEN /\ inflight' = [inflight EXCEPT ![key[c]] = c]
              /\ pc' = [pc EXCEPT ![c] = "exec"]
              /\ UNCHANGED <<writer, sub, mailbox>>
         ELSE /\ Subscribe(c, inflight[key[c]])
              /\ pc' = [pc EXCEPT ![c] = "slowRecv"]
              /\ writer' = c
              /\ UNCHANGED inflight
    /\ UNCHANGED <<key, sent, result, sentBefore>>

\* rx.recv() under the write guard.
SlowRecv(c) ==
    /\ pc[c] = "slowRecv"
    /\ RecvReady(c)
    /\ writer' = NoCall
    /\ IF mailbox[c] # NoCall
         THEN /\ pc' = [pc EXCEPT ![c] = "done"]
              /\ result' = [result EXCEPT ![c] = mailbox[c]]
              /\ UNCHANGED inflight
         ELSE /\ inflight' = [inflight EXCEPT ![key[c]] = c]
              /\ pc' = [pc EXCEPT ![c] = "exec"]
              /\ UNCHANGED result
    /\ UNCHANGED <<key, sub, mailbox, sent, sentBefore>>

\* f() completes and its result is broadcast to the Receivers of the moment.
Finish(c) ==
    /\ pc[c] = "exec"
    /\ pc' = [pc EXCEPT ![c] = "remove"]
    /\ mailbox' = [d \in Calls |->
                     IF pc[d] \in {"fastRecv", "slowRecv"} /\ sub[d] = c
                       THEN c ELSE mailbox[d]]
    /\ sent' = sent \cup {c}
    /\ UNCHANGED <<key, inflight, writer, sub, result, sentBefore>>

\* Mutant of Remove: the entry is left in the map.
RemoveForgotten(c) ==
    /\ pc[c] = "remove"
    /\ writer = NoCall
    /\ pc' = [pc EXCEPT ![c] = "done"]
    /\ result' = [result EXCEPT ![c] = c]
    /\ UNCHANGED <<key, inflight, writer, sub, mailbox, sent, sentBefore>>

\* inflight.write().await.remove(key); work() returns its own result.
Remove(c) ==
    /\ pc[c] = "remove"
    /\ writer = NoCall
    /\ inflight' = [inflight EXCEPT ![key[c]] = NoCall]
    /\ pc' = [pc EXCEPT ![c] = "done"]
    /\ result' = [result EXCEPT ![c] = c]
    /\ UNCHANGED <<key, writer, sub, mailbox, sent, sentBefore>>

\* The caller drops the future of work() at one of its .await points (a
\* timeout, a disconnected client): locals and a held guard are dropped, the
\* map is not touched.
Cancel(c) ==
    /\ AllowCancel
    /\ pc[c] \in {"fast", "fastRecv", "slow", "slowRecv", "exec", "remove"}
    /\ pc' = [pc EXCEPT ![c] = "cancelled"]
    /\ writer' = IF writer = c THEN NoCall ELSE writer
    /\ UNCHANGED <<key, inflight, sub, mailbox, sent, result, sentBefore>>

Step(c) == \/ FastPath(c) \/ FastRecv(c) \/ SlowPath(c) \/ SlowRecv(c)
           \/ Finish(c) \/ Remove(c)

Next == \E c \in Calls : Begin(c) \/ Step(c) \/ Cancel(c)

Spec == Init /\ [][Next]_vars

\* Fairness.  A task that can run is polled again, and f() completes.  Nobody is
\* obliged to call work() or to drop a future.  A call takes finitely many steps,
\* so weak fairness is enough for the tokio RwLock's waiters too.
Fairness == \A c \in Calls : WF_vars(Step(c))

FairSpec == Spec /\ Fairness

-----------------------------------------------------------------------------
(* Properties *)

\* The types of the group's map, the write guard and each call's locals.
TypeOK ==
    /\ key \in [Calls -> Keys]
    /\ pc \in [Calls -> PCs]
    /\ inflight \in [Keys -> Maybe]
    /\ writer \in Maybe
    /\ sub \in [Calls -> Maybe]
    /\ mailbox \in [Calls -> Maybe]
    /\ sent \in SUBSET Calls
    /\ result \in [Calls -> Maybe]
    /\ sentBefore \in [Calls -> SUBSET Calls]

\* "only one concurrent call executes the expensive operation" (line 3): two
\* calls of work() for one key are never both between the insertion of their
\* channel and its removal, whatever futures are dropped on the way.
AtMostOneExecutor ==
    \A c, d \in Calls :
        HoldsSender(c) /\ HoldsSender(d) /\ key[c] = key[d] => c = d

\* "other waiters receive the same result" (line 4): whatever work() returns
\* was computed for the caller's own key, by an execution that really took
\* place and whose result was not yet out when this call began: a waiter is
\* never served a leftover of an earlier flight.
ResultOfThisFlight ==
    \A c \in Calls :
        result[c] # NoCall =>
            /\ key[result[c]] = key[c]
            /\ result[c] \in sent \ sentBefore[c]

\* The write guard is held across an .await only by a call that waits for a
\* message, and the map still holds the channel it waits on: remove() cannot
\* run meanwhile, so the Closed branch of the slow path is dead code.
GuardedWaitKeepsEntry ==
    \A c \in Calls :
        pc[c] = "slowRecv" => writer = c /\ inflight[key[c]] = sub[c]

\* An entry of the map belongs to the one call that inserted it, for that key,
\* and that call is between insert and remove or had its future dropped there:
\* a group whose calls have all returned has an empty map.
EntriesAreLive ==
    \A k \in Keys :
        inflight[k] # NoCall =>
            /\ key[inflight[k]] = k
            /\ HoldsSender(inflight[k]) \/ pc[inflight[k]] = "cancelled"

\* A call that holds the write guard while it waits on a channel whose result
\* has already been sent: nothing will ever arrive there.
Wedged == \E c \in Calls : /\ pc[c] = "slowRecv"
                           /\ mailbox[c] = NoCall
                           /\ sub[c] \in sent

InWork(c) == pc[c] \notin {"idle", "done", "cancelled"}

\* "waits for that result" (line 49): every call of work() returns.
WorkReturns == \A c \in Calls : InWork(c) ~> ~InWork(c)

\* An entry whose leader is gone: its waiters wait for ever, since the Sender
\* kept in the map keeps the channel open.
Orphaned == \E k \in Keys : /\ inflight[k] # NoCall
                            /\ pc[inflight[k]] = "cancelled"

\* These two are the only ways to hang: as long as nobody waits under the write
\* guard for a result already sent, and no leader's future is dropped, every
\* call of work() returns, whatever other futures are dropped.
WorkReturnsUnlessWedged == [](~Wedged /\ ~Orphaned) => WorkReturns
=============================================================================
