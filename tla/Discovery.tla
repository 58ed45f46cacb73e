----------------------------- MODULE Discovery -----------------------------
(***************************************************************************)
(* discovery/mod.rs (register, its keep-alive task, deregister, discover)  *)
(* and the life of rpc/server.rs's RpcServer, for one service name.        *)
(*                                                                         *)
(* An instance is its address.  Those of Own are programs that call        *)
(* register() and keep the handle; those of Served run                     *)
(* RpcServer::start_with_service; those of Foreign are put into etcd by    *)
(* something else than register(), with all fields of ServiceInstance.     *)
(* etcd is external: the key of each instance with what its value holds,   *)
(* and the time left of its lease.                                         *)
(***************************************************************************)
EXTENDS Integers, FiniteSets, Sequences

CONSTANTS
    Own, Served, Foreign,
    KeyOrder,         \* the instances in the order of their etcd keys
    LeaseTicks,       \* lease_grant(10), in ticks
    KeepAliveTicks,   \* the keep-alive interval of 5 s, in ticks
    MaxErrors,        \* bound on the number of etcd commands that fail
    MaxStarts         \* bound on the number of starts of a server

Registering == Own \cup Served
Instances == Registering \cup Foreign

ASSUME DiscoveryAssumption ==
    /\ Own \cap Served = {} /\ Registering \cap Foreign = {}
    /\ IsFiniteSet(Instances) /\ KeyOrder \in Seq(Instances)
    /\ \A i \in Instances : \E n \in 1..Len(KeyOrder) : KeyOrder[n] = i
    /\ \A m, n \in 1..Len(KeyOrder) : m # n => KeyOrder[m] # KeyOrder[n]
    /\ LeaseTicks \in Nat \ {0} /\ KeepAliveTicks \in Nat \ {0}
    /\ KeepAliveTicks < LeaseTicks    \* 5 s and 10 s, both fixed in the code
    /\ MaxErrors \in Nat /\ MaxStarts \in Nat

VARIABLES
    server,    \* where each registering program stands
    starts,    \* how often it was started
    ready,     \* the readiness flag of its Health
    entry,     \* the etcd value of each instance: none, bare or full
    lease,     \* ticks until the lease of its key expires
    granted,   \* ticks until a lease granted but not yet used expires
    handles,   \* instances whose RegistrationHandle is alive
    keeper,    \* instances whose keep-alive task is running
    due,       \* ticks until that task acts again
    pinned,    \* instances whose lease a task of keep_alive() renews
    pinDue,    \* ticks until that task acts again
    errors,    \* failed etcd commands so far
    removed,   \* history: instances deregistered while the handle is held
    late       \* history: has time passed while a keep-alive was due?

discVars == <<server, starts, ready, entry, lease, granted, handles, keeper, due,
              pinned, pinDue, errors, removed, late>>

pins == <<pinned, pinDue>>

DiscInit ==
    /\ server = [i \in Registering |-> "off"]
    /\ starts = [i \in Registering |-> 0]
    /\ ready = [i \in Registering |-> TRUE]
    /\ entry = [i \in Instances |-> "none"]
    /\ lease = [i \in Registering |-> 0]
    /\ granted = [i \in Registering |-> 0]
    /\ handles = {} /\ keeper = {}
    /\ due = [i \in Registering |-> 0]
    /\ pinned = {} /\ pinDue = [i \in Own |-> 0]
    /\ errors = 0 /\ removed = {} /\ late = FALSE

Err == errors < MaxErrors /\ errors' = errors + 1

Enter(i, at) == server' = [server EXCEPT ![i] = at]

\* Where a program goes when register() fails.
Unregistered(i) == IF i \in Served THEN "up" ELSE "down"

-----------------------------------------------------------------------------
(* register() *)

\* The program starts (RpcServer sets ready first), and register() connects to
\* etcd; an error ends it, and an RpcServer goes on without.
Connect(i) ==
    /\ server[i] = "off" /\ starts[i] < MaxStarts
    /\ starts' = [starts EXCEPT ![i] = @ + 1]
    /\ ready' = [ready EXCEPT ![i] = TRUE]
    /\ \/ Enter(i, "connected") /\ UNCHANGED errors
       \/ Err /\ Enter(i, Unregistered(i))
    /\ UNCHANGED <<entry, lease, granted, handles, keeper, due, removed, late, pins>>

\* lease_grant, whose error ends register() too.
LeaseGrant(i) ==
    /\ server[i] = "connected"
    /\ \/ /\ granted' = [granted EXCEPT ![i] = LeaseTicks]
          /\ Enter(i, "granted") /\ UNCHANGED errors
       \/ Err /\ Enter(i, Unregistered(i)) /\ UNCHANGED granted
    /\ UNCHANGED <<starts, ready, entry, lease, handles, keeper, due, removed, late, pins>>

\* RpcServer::start(), or start_with_service() without an etcd configuration:
\* the server is up and ready, and not registered.
Start(i) ==
    /\ i \in Served /\ server[i] = "off" /\ starts[i] < MaxStarts
    /\ starts' = [starts EXCEPT ![i] = @ + 1]
    /\ ready' = [ready EXCEPT ![i] = TRUE]
    /\ Enter(i, "up")
    /\ UNCHANGED <<entry, lease, granted, handles, keeper, due, errors, removed,
                   late, pins>>

\* The key is put under lease l.
PutKey(i, l) == /\ entry' = [entry EXCEPT ![i] = "bare"]
                /\ lease' = [lease EXCEPT ![i] = l]

\* The key is put under the new lease, with a value that has no "metadata", and
\* the keep-alive task is spawned; its first tick is at once.  RpcServer does not
\* keep the handle.  If the lease is gone, or on an error, the put fails; in the
\* second case the key may be there all the same.
Put(i) ==
    /\ server[i] = "granted"
    /\ \/ /\ granted[i] > 0
          /\ PutKey(i, granted[i])
          /\ keeper' = keeper \cup {i}
          /\ handles' = handles \cup ({i} \cap Own)
          /\ Enter(i, "up") /\ UNCHANGED errors
       \/ /\ \/ /\ granted[i] = 0
                /\ UNCHANGED <<entry, lease, errors>>
             \/ /\ granted[i] > 0 /\ Err
                /\ PutKey(i, granted[i]) \/ UNCHANGED <<entry, lease>>
          /\ Enter(i, Unregistered(i))
          /\ UNCHANGED <<handles, keeper>>
    /\ granted' = [granted EXCEPT ![i] = 0]
    /\ due' = [due EXCEPT ![i] = 0]
    /\ removed' = removed \ {i}
    /\ UNCHANGED <<starts, ready, late, pins>>

Renewed(i) == [lease EXCEPT ![i] = IF @ > 0 THEN LeaseTicks ELSE 0]

\* Mutant: the keep-alive interval is the length of the lease.
KeepAliveSlow(i) ==
    /\ i \in keeper /\ due[i] = 0
    /\ lease' = Renewed(i)
    /\ due' = [due EXCEPT ![i] = LeaseTicks]
    /\ UNCHANGED <<server, starts, ready, entry, granted, handles, keeper, errors,
                   removed, late, pins>>

\* The keep-alive task: renew the lease; an error of lease_keep_alive is passed
\* over, an error of keep_alive ends the task.  When the handle is gone too,
\* select! may still choose the tick, and stops the next time.
KeepAlive(i) ==
    /\ i \in keeper /\ due[i] = 0
    /\ \/ lease' = Renewed(i) /\ UNCHANGED <<keeper, errors>>
       \/ Err /\ keeper' \in {keeper, keeper \ {i}} /\ UNCHANGED lease
    /\ due' = [due EXCEPT ![i] = KeepAliveTicks]
    /\ UNCHANGED <<server, starts, ready, entry, granted, handles, removed, late, pins>>

\* The program calls keep_alive(): the lease of its last register() is renewed at
\* once, and by a task of its own from then on.
KeepLease(i) ==
    /\ i \in Own \ pinned /\ server[i] = "up" /\ lease[i] > 0
    /\ lease' = Renewed(i)
    /\ pinned' = pinned \cup {i}
    /\ pinDue' = [pinDue EXCEPT ![i] = KeepAliveTicks]
    /\ UNCHANGED <<server, starts, ready, entry, granted, handles, keeper, due,
                   errors, removed, late>>

\* That task, which nothing cancels: only an error ends it.
RenewLease(i) ==
    /\ i \in pinned /\ pinDue[i] = 0
    /\ \/ lease' = Renewed(i) /\ UNCHANGED <<pinned, errors>>
       \/ Err /\ pinned' = pinned \ {i} /\ UNCHANGED lease
    /\ pinDue' = [pinDue EXCEPT ![i] = KeepAliveTicks]
    /\ UNCHANGED <<server, starts, ready, entry, granted, handles, keeper, due,
                   removed, late>>

\* The program drops the handle.
DropHandle(i) ==
    /\ i \in handles
    /\ handles' = handles \ {i}
    /\ UNCHANGED <<server, starts, ready, entry, lease, granted, keeper, due,
                   errors, removed, late, pins>>

\* Mutant: the task looks at the channel only while the program is going down.
CancelledLate(i) ==
    /\ i \in keeper \ handles /\ server[i] = "draining"
    /\ keeper' = keeper \ {i}
    /\ UNCHANGED <<server, starts, ready, entry, lease, granted, handles, due,
                   errors, removed, late, pins>>

\* The keep-alive task sees that the sender in the handle is gone, and stops.
Cancelled(i) ==
    /\ i \in keeper \ handles
    /\ keeper' = keeper \ {i}
    /\ UNCHANGED <<server, starts, ready, entry, lease, granted, handles, due,
                   errors, removed, late, pins>>

\* deregister() deletes the key; the handle and its task are left alone.
Deregister(i) ==
    /\ i \in handles /\ entry[i] = "bare"
    /\ \/ entry' = [entry EXCEPT ![i] = "none"] /\ UNCHANGED errors
       \/ Err /\ entry' \in {entry, [entry EXCEPT ![i] = "none"]}
    /\ removed' = removed \cup {i}
    /\ UNCHANGED <<server, starts, ready, lease, granted, handles, keeper, due,
                   late, pins>>

-----------------------------------------------------------------------------
(* RpcServer, the programs and etcd *)

\* Ctrl-C: the server future is dropped, the server is not ready any more, and
\* sleeps for graceful_timeout.  It does not deregister.
Shutdown(i) ==
    /\ i \in Served /\ server[i] = "up"
    /\ ready' = [ready EXCEPT ![i] = FALSE]
    /\ Enter(i, "draining")
    /\ UNCHANGED <<starts, entry, lease, granted, handles, keeper, due, errors,
                   removed, late, pins>>

\* The program ends: after the sleep, by an error of the server (which leaves
\* the readiness flag as it is) or by a crash.
Stop(i) ==
    /\ server[i] \in {"connected", "granted", "up", "draining"}
    /\ Enter(i, "down")
    /\ handles' = handles \ {i} /\ keeper' = keeper \ {i} /\ pinned' = pinned \ {i}
    /\ granted' = [granted EXCEPT ![i] = 0]
    /\ pinDue' = IF i \in Own THEN [pinDue EXCEPT ![i] = 0] ELSE pinDue
    /\ UNCHANGED <<starts, ready, entry, lease, due, errors, removed, late>>

Restart(i) ==
    /\ server[i] = "down"
    /\ Enter(i, "off")
    /\ UNCHANGED <<starts, ready, entry, lease, granted, handles, keeper, due, errors,
                   removed, late, pins>>

\* Instances registered by something else come and go.
Join(i) == /\ i \in Foreign /\ entry[i] = "none"
           /\ entry' = [entry EXCEPT ![i] = "full"]
           /\ UNCHANGED <<server, starts, ready, lease, granted, handles, keeper,
                          due, errors, removed, late, pins>>
Leave(i) == /\ i \in Foreign /\ entry[i] = "full"
            /\ entry' = [entry EXCEPT ![i] = "none"]
            /\ UNCHANGED <<server, starts, ready, lease, granted, handles, keeper,
                           due, errors, removed, late, pins>>

\* A tick: a lease that expires takes its key with it.
Less(n) == IF n > 0 THEN n - 1 ELSE 0

Tick ==
    /\ \E i \in Registering : lease[i] > 0 \/ granted[i] > 0
    /\ lease' = [i \in Registering |-> Less(lease[i])]
    /\ granted' = [i \in Registering |-> Less(granted[i])]
    /\ entry' = [i \in Instances |->
                   IF i \in Registering /\ lease[i] = 1 THEN "none" ELSE entry[i]]
    /\ due' = [i \in Registering |-> Less(due[i])]
    /\ pinDue' = [i \in Own |-> Less(pinDue[i])]
    /\ late' = (late \/ \E i \in keeper : due[i] = 0)
    /\ UNCHANGED <<server, starts, ready, handles, keeper, errors, removed, pinned>>

DiscNext ==
    \/ \E i \in Registering :
          \/ Connect(i) \/ LeaseGrant(i) \/ Start(i) \/ Put(i) \/ KeepAlive(i)
          \/ KeepLease(i) \/ RenewLease(i)
          \/ DropHandle(i) \/ Cancelled(i) \/ Deregister(i)
          \/ Shutdown(i) \/ Stop(i) \/ Restart(i)
    \/ \E i \in Foreign : Join(i) \/ Leave(i)
    \/ Tick

-----------------------------------------------------------------------------
(* discover() *)

\* A value is returned if serde can make a ServiceInstance of it: "metadata" has
\* no default, so a bare value is left out.
Parses(i) == entry[i] = "full"

\* The instances returned.  etcd answers in the order of the keys, so the list is
\* known by what is on it: its entry at place n is the one that has n before it.
Discovered == {i \in Instances : Parses(i)}

Before(i, j) ==
    \E m, n \in 1..Len(KeyOrder) : m < n /\ KeyOrder[m] = i /\ KeyOrder[n] = j

Place(list, i) == Cardinality({j \in list : Before(j, i)})

-----------------------------------------------------------------------------
(* Properties *)

\* The types of the programs, of etcd's keys and leases, and of the keep-alive tasks.
DiscTypeOK ==
    /\ server \in [Registering -> {"off", "connected", "granted", "up", "draining", "down"}]
    /\ starts \in [Registering -> 0..MaxStarts]
    /\ ready \in [Registering -> BOOLEAN]
    /\ entry \in [Instances -> {"none", "bare", "full"}]
    /\ lease \in [Registering -> 0..LeaseTicks]
    /\ granted \in [Registering -> 0..LeaseTicks]
    /\ removed \in SUBSET Own /\ handles \in SUBSET Own /\ keeper \in SUBSET Registering
    /\ due \in [Registering -> 0..KeepAliveTicks]
    /\ pinned \in SUBSET Own /\ pinDue \in [Own -> 0..KeepAliveTicks]
    /\ errors \in 0..MaxErrors
    /\ late \in BOOLEAN

\* "keeps the lease alive in the background" (line 98): while the handle is
\* held, etcd does not fail, the task runs in time and nobody deregisters it, the
\* instance stays registered, whatever an earlier life of the program left behind.
RegisteredWhileHeld ==
    ~late /\ errors = 0 => \A i \in handles \ removed : entry[i] = "bare"

\* "automatic lease-based TTL" (line 4), "When dropped, the keep-alive task is
\* cancelled" (line 42): an instance whose handle is gone (RpcServer's always
\* is) disappears from etcd in the end, unless it is registered again or a task of
\* keep_alive(), which has no handle, holds its lease.
LapsesWithoutHandle ==
    \A i \in Registering :
        (entry[i] = "bare" /\ i \notin handles)
            ~> (entry[i] = "none" \/ i \in handles \cup pinned)

\* docs/rpc-guide.md, lines 228-232: after "discovery.register(...)", the loop over
\* "discovery.discover(...)" prints "Found: ..." for the service.
RegisteredIsDiscovered ==
    \A i \in handles : entry[i] # "none" => i \in Discovered

DiscSafety == DiscInit /\ [][DiscNext]_discVars

DiscSpec ==
    /\ DiscSafety
    /\ WF_discVars(Tick)
    /\ \A i \in Registering : WF_discVars(Cancelled(i)) /\ WF_discVars(KeepAlive(i))
=============================================================================
