-------------------------- MODULE DistributedLock --------------------------
(***************************************************************************)
(* cache/lock.rs (with_lock, with_lock_auto_refresh, DistributedLock and   *)
(* its Drop) and cache/redlock.rs (with_redlock, RedlockManager): locks on *)
(* one Redis key with an owner token and a TTL.                            *)
(*                                                                         *)
(* Each client makes one call, with a token of its own, so a token is its  *)
(* client.  Redis is external: the key, its owner and its remaining TTL;   *)
(* a command may fail, with or without having been executed.  Time passes  *)
(* in ticks.                                                               *)
(***************************************************************************)
EXTENDS Naturals

CONSTANTS
    Clients,    \* the callers, one token each
    Kinds,      \* of "lock", "refresh" and "redlock": the functions considered
    Lease,      \* the TTL given to Redis, in ticks
    Interval,   \* refresh_interval, in ticks
    MaxErrors,  \* bound on the number of failed Redis commands
    None

ASSUME KindAssumption == Kinds \subseteq {"lock", "refresh", "redlock"}
ASSUME TimeAssumption == Lease \in Nat \ {0} /\ Interval \in Nat \ {0}
ASSUME LockAssumption ==
    MaxErrors \in Nat /\ None \notin Clients

VARIABLES
    kind,       \* which function all users of the key call (never changes)
    owner,      \* the token stored under the key
    ttlLeft,    \* ticks until Redis removes the key
    stage,         \* where each client stands
    refresher,  \* clients whose refresh task is running
    due,        \* ticks until the refresh task of a client acts again
    dropped,    \* clients for which Drop has spawned a release
    failedCommands, \* failed commands so far
    late        \* history: has time passed while a refresh was due?

lockVars == <<kind, owner, ttlLeft, stage, refresher, due, dropped, failedCommands, late>>

PCs == {"idle", "critical", "releasing", "done", "abandoned"}

LockInit ==
    /\ kind \in Kinds
    /\ owner = None
    /\ ttlLeft = 0
    /\ stage = [c \in Clients |-> "idle"]
    /\ refresher = {}
    /\ due = [c \in Clients |-> 0]
    /\ dropped = {}
    /\ failedCommands = 0
    /\ late = FALSE

\* A command fails.
RedisError == failedCommands < MaxErrors /\ failedCommands' = failedCommands + 1

\* Mutant: DEL without comparing the token.
ReleaseAnyOwner(c) == c \in Clients /\ owner' = None /\ ttlLeft' = 0

\* RELEASE_SCRIPT: delete the key if it holds the caller's token.
ReleaseScript(c) ==
    IF owner = c THEN owner' = None /\ ttlLeft' = 0
                 ELSE UNCHANGED <<owner, ttlLeft>>

\* Mutant: SET without NX.
SetWithoutNX(c) == owner' = c /\ ttlLeft' = Lease

\* SET key token NX EX: set if there is no key.
SetNX(c) == owner = None /\ owner' = c /\ ttlLeft' = Lease

\* try_acquire() succeeds and the closure starts; with_lock_auto_refresh first
\* spawns its refresh task, whose first tick is immediate.
Acquire(c) ==
    /\ kind # "redlock" /\ stage[c] = "idle"
    /\ SetNX(c)
    /\ stage' = [stage EXCEPT ![c] = "critical"]
    /\ refresher' = IF kind = "refresh" THEN refresher \cup {c} ELSE refresher
    /\ UNCHANGED <<kind, due, dropped, failedCommands, late>>

\* RedlockManager::acquire() succeeds and the closure of with_redlock starts.
AcquireRedlock(c) ==
    /\ kind = "redlock" /\ stage[c] = "idle"
    /\ SetNX(c)
    /\ stage' = [stage EXCEPT ![c] = "critical"]
    /\ UNCHANGED <<kind, refresher, due, dropped, failedCommands, late>>

\* The key exists, or the command fails (the key may then be set with a token
\* that nobody knows any more): the caller gets an error.
AcquireFails(c) ==
    /\ stage[c] = "idle"
    /\ \/ owner # None /\ UNCHANGED <<owner, ttlLeft, failedCommands>>
       \/ RedisError /\ (SetNX(c) \/ UNCHANGED <<owner, ttlLeft>>)
    /\ stage' = [stage EXCEPT ![c] = "done"]
    /\ UNCHANGED <<kind, refresher, due, dropped, late>>

\* The closure completes; the refresh task is aborted and awaited.
ClosureEnds(c) ==
    /\ stage[c] = "critical"
    /\ stage' = [stage EXCEPT ![c] = "releasing"]
    /\ refresher' = refresher \ {c}
    /\ UNCHANGED <<kind, owner, ttlLeft, due, dropped, failedCommands, late>>

\* Drop of a DistributedLock spawns a release.
DropLock(c) == dropped' = dropped \cup {c}

\* A command that runs the release script, with its errors.
Released(c) ==
    \/ ReleaseScript(c) /\ UNCHANGED failedCommands
    \/ RedisError /\ (ReleaseScript(c) \/ UNCHANGED <<owner, ttlLeft>>)

\* release(), whose error ends the call early; then the lock is dropped.
Release(c) ==
    /\ kind # "redlock" /\ stage[c] = "releasing"
    /\ Released(c)
    /\ stage' = [stage EXCEPT ![c] = "done"]
    /\ DropLock(c)
    /\ UNCHANGED <<kind, refresher, due, late>>

\* RedlockManager::release(): an error is logged, and that is all.
ReleaseRedlock(c) ==
    /\ kind = "redlock" /\ stage[c] = "releasing"
    /\ Released(c)
    /\ stage' = [stage EXCEPT ![c] = "done"]
    /\ UNCHANGED <<kind, refresher, due, dropped, late>>

\* DistributedLock::refresh(), called by whoever holds the lock itself.
Extend(c) ==
    /\ kind = "lock" /\ stage[c] = "critical"
    /\ \/ UNCHANGED failedCommands /\ owner = c /\ ttlLeft' = Lease
       \/ RedisError /\ ttlLeft' \in {ttlLeft, IF owner = c THEN Lease ELSE ttlLeft}
    /\ UNCHANGED <<kind, owner, stage, refresher, due, dropped, late>>

\* The closure panics or the caller drops the future: the lock is dropped, the
\* refresh task's JoinHandle too, which detaches the task.
Abandon(c) ==
    /\ kind # "redlock" /\ stage[c] \in {"critical", "releasing"}
    /\ stage' = [stage EXCEPT ![c] = "abandoned"]
    /\ DropLock(c)
    /\ UNCHANGED <<kind, owner, ttlLeft, refresher, due, failedCommands, late>>

\* The same with with_redlock: a RedlockGuard has no Drop, the key has to expire.
AbandonRedlock(c) ==
    /\ kind = "redlock" /\ stage[c] \in {"critical", "releasing"}
    /\ stage' = [stage EXCEPT ![c] = "abandoned"]
    /\ UNCHANGED <<kind, owner, ttlLeft, refresher, due, dropped, failedCommands, late>>

\* The release spawned by Drop; its error is ignored.
SpawnedRelease(c) ==
    /\ c \in dropped
    /\ dropped' = dropped \ {c}
    /\ Released(c)
    /\ UNCHANGED <<kind, stage, refresher, due, late>>

\* The refresh task: extend the key if it is still ours; stop if it is not, and
\* on any error.
Refresh(c) ==
    /\ c \in refresher /\ due[c] = 0
    /\ \/ /\ IF owner = c
               THEN /\ ttlLeft' = Lease
                    /\ due' = [due EXCEPT ![c] = Interval]
                    /\ UNCHANGED refresher
               ELSE /\ refresher' = refresher \ {c}
                    /\ UNCHANGED <<ttlLeft, due>>
          /\ UNCHANGED failedCommands
       \/ /\ RedisError
          /\ ttlLeft' \in {ttlLeft, IF owner = c THEN Lease ELSE ttlLeft}
          /\ refresher' = refresher \ {c}
          /\ UNCHANGED due
    /\ UNCHANGED <<kind, owner, stage, dropped, late>>

\* A refresh task that should have acted.
Overdue(c) == c \in refresher /\ due[c] = 0

\* Mutant: SET without EX, the key does not expire.
TickWithoutExpiry ==
    /\ ttlLeft > 0 \/ \E c \in refresher : due[c] > 0
    /\ ttlLeft' = IF ttlLeft > 0 THEN ttlLeft - 1 ELSE 0
    /\ due' = [c \in Clients |-> IF due[c] > 0 THEN due[c] - 1 ELSE 0]
    /\ UNCHANGED <<kind, owner, stage, refresher, dropped, failedCommands, late>>

\* A tick: Redis removes the key when its TTL is over.
Tick ==
    /\ ttlLeft > 0 \/ \E c \in refresher : due[c] > 0
    /\ ttlLeft' = IF ttlLeft > 0 THEN ttlLeft - 1 ELSE 0
    /\ owner' = IF ttlLeft > 1 THEN owner ELSE None
    /\ due' = [c \in Clients |-> IF due[c] > 0 THEN due[c] - 1 ELSE 0]
    /\ late' = (late \/ \E c \in Clients : Overdue(c))
    /\ UNCHANGED <<kind, stage, refresher, dropped, failedCommands>>

LockNext ==
    \/ \E c \in Clients :
          \/ Acquire(c) \/ AcquireRedlock(c) \/ AcquireFails(c) \/ Extend(c) \/ ClosureEnds(c)
          \/ Release(c) \/ ReleaseRedlock(c) \/ Abandon(c) \/ AbandonRedlock(c)
          \/ SpawnedRelease(c) \/ Refresh(c)
    \/ Tick

LockSafety == LockInit /\ [][LockNext]_lockVars

\* Time passes, spawned tasks run; closures may take for ever.
LockFairness ==
    /\ WF_lockVars(Tick)
    /\ \A c \in Clients : /\ WF_lockVars(SpawnedRelease(c)) /\ WF_lockVars(Refresh(c))
                          /\ WF_lockVars(Release(c) \/ ReleaseRedlock(c))

LockSpec == LockSafety /\ LockFairness

-----------------------------------------------------------------------------
(* Properties *)

\* The types of the Redis key, of the clients and of their refresh tasks.
LockTypeOK ==
    /\ kind \in Kinds
    /\ owner \in Clients \cup {None}
    /\ ttlLeft \in 0..Lease
    /\ stage \in [Clients -> PCs]
    /\ refresher \in SUBSET Clients
    /\ due \in [Clients -> 0..Interval]
    /\ dropped \in SUBSET Clients
    /\ failedCommands \in 0..MaxErrors
    /\ late \in BOOLEAN

\* "ensuring a lock is only released by the client that acquired it" (lines
\* 3-4): a client in its closure loses the key only to its expiry, never to the
\* late release, drop or refresh of a client that held it before.
LostOnlyByExpiry ==
    [][\A c \in Clients :
          /\ stage[c] = "critical" /\ stage'[c] = "critical"
          /\ owner = c /\ owner' # c
          => ttlLeft = 1 /\ owner' = None]_lockVars

\* with_lock_auto_refresh (lines 178-181) keeps closures of any length
\* exclusive, as long as the refreshes come in time and Redis does not fail.
MutualExclusion ==
    kind = "refresh" /\ ~late /\ failedCommands = 0 =>
        \A c, d \in Clients : stage[c] = "critical" /\ stage[d] = "critical" => c = d

\* A key whose holder is gone does not stay for ever: it is released or expires,
\* whatever commands fail.  Not so with with_lock_auto_refresh once a command
\* has failed: its detached refresh task can then keep the key of nobody alive.
Gone(c) == stage[c] \in {"done", "abandoned"}
LockFreed ==
    [](kind = "refresh" => failedCommands = 0) =>
        \A c \in Clients : (owner = c /\ Gone(c)) ~> owner # c
=============================================================================
