------------------------------ MODULE RpcClient ------------------------------
(***************************************************************************)
(* rpc/client.rs: RpcClient::call, which finds an instance through         *)
(* discovery/mod.rs's select() and then tries it up to max_retries + 1     *)
(* times, and the load balancing of select().                              *)
(*                                                                         *)
(* Callers share one client.  The closure that makes the gRPC request is   *)
(* external: an attempt is answered, fails or is cut off by the timeout.   *)
(* Time itself (the timeout, the backoff) is left out: what matters here   *)
(* is what other callers and the registry do meanwhile.                    *)
(***************************************************************************)
EXTENDS Discovery

CONSTANTS
    Callers,
    Strategies,    \* the LoadBalanceStrategy values to look at
    MaxRetries,    \* max_retries
    MaxCalls,      \* bound on the number of calls
    None

ASSUME RpcClientAssumption ==
    /\ Strategies \subseteq {"RoundRobin", "Random", "First"}
    /\ MaxRetries \in Nat /\ MaxCalls \in Nat /\ None \notin Instances

VARIABLES
    load_balance,  \* the strategy of this client
    shared,        \* is `discovery` set, or made anew for every call?
    counter,       \* round_robin_counter of the shared ServiceDiscovery
    pc,            \* where each call stands
    list,          \* the list discover() returned to the call, by what is on it
    target,        \* addr: the instance the call is for
    attempt,       \* attempts that have failed
    calls,         \* calls begun so far
    seen,          \* history: instances there between its begin and discover()
    run,           \* history: the list of the last selections, and how often
    picks          \*          each instance was selected from it in a row

clientVars == <<load_balance, shared, counter, pc, list, target, attempt, calls,
                seen, run, picks>>
rpcVars == <<clientVars, discVars>>

RpcInit ==
    /\ DiscInit
    /\ load_balance \in Strategies /\ shared \in BOOLEAN
    /\ counter = 0
    /\ pc = [c \in Callers |-> "idle"]
    /\ list = [c \in Callers |-> {}]
    /\ target = [c \in Callers |-> None]
    /\ attempt = [c \in Callers |-> 0]
    /\ calls = 0
    /\ seen = [c \in Callers |-> {}]
    /\ run = {} /\ picks = [i \in Instances |-> 0]

Goto(c, at) == pc' = [pc EXCEPT ![c] = at]

\* The call returns; what it held is gone.
Return(c, how) ==
    /\ Goto(c, how)
    /\ list' = [list EXCEPT ![c] = {}]
    /\ target' = [target EXCEPT ![c] = None]
    /\ attempt' = [attempt EXCEPT ![c] = 0]
    /\ seen' = [seen EXCEPT ![c] = {}]

-----------------------------------------------------------------------------
(* The steps of a call *)

Call(c) ==
    /\ pc[c] \in {"idle", "ok", "failed"} /\ calls < MaxCalls
    /\ calls' = calls + 1
    /\ Goto(c, "discover")
    /\ seen' = [seen EXCEPT ![c] = Discovered]
    /\ UNCHANGED <<load_balance, shared, counter, list, target, attempt, run, picks,
                   discVars>>

\* discover(), on the shared ServiceDiscovery or on a new one that is connected
\* first.  An error of etcd is the error of the call.
Discover(c) ==
    /\ pc[c] = "discover"
    /\ \/ /\ list' = [list EXCEPT ![c] = Discovered]
          /\ Goto(c, "select") /\ UNCHANGED <<target, attempt, seen, errors>>
       \/ Err /\ Return(c, "failed")
    /\ UNCHANGED <<load_balance, shared, counter, calls, run, picks, server, starts,
                   ready, entry, lease, granted, handles, keeper, due, removed,
                   late, pins>>

\* Mutant: the counter is used before it is reduced to a place in the list.
SelectedClamped(l, n) ==
    LET last == Cardinality(l) - 1 IN
    CASE load_balance = "RoundRobin" -> {i \in l : Place(l, i) = IF n < last THEN n ELSE last}
      [] load_balance = "Random" -> l
      [] load_balance = "First" -> {i \in l : Place(l, i) = 0}

\* The instances select() may return from list l when the counter is n.
Selected(l, n) ==
    CASE load_balance = "RoundRobin" -> {i \in l : Place(l, i) = n % Cardinality(l)}
      [] load_balance = "Random" -> l
      [] load_balance = "First" -> {i \in l : Place(l, i) = 0}

\* select() holds the lock of the counter while it reads and increments it.  The
\* counter of a temporary ServiceDiscovery is 0 and is dropped with it.
Select(c) ==
    /\ pc[c] = "select"
    /\ \/ /\ list[c] = {}
          /\ Return(c, "failed")
          /\ UNCHANGED <<counter, run, picks>>
       \/ /\ list[c] # {}
          /\ \E i \in Selected(list[c], IF shared THEN counter ELSE 0) :
                /\ target' = [target EXCEPT ![c] = i]
                /\ picks' = [j \in Instances |->
                               (IF run = list[c] THEN picks[j] ELSE 0)
                                  + (IF j = i THEN 1 ELSE 0)]
          /\ run' = list[c] /\ list' = [list EXCEPT ![c] = {}]
          /\ counter' = IF shared /\ load_balance = "RoundRobin"
                        THEN counter + 1 ELSE counter
          /\ Goto(c, "attempt")
          /\ UNCHANGED <<attempt, seen>>
    /\ UNCHANGED <<load_balance, shared, calls, discVars>>

Answered(c) ==
    /\ pc[c] = "attempt"
    /\ Return(c, "ok")
    /\ UNCHANGED <<load_balance, shared, counter, calls, run, picks, discVars>>

\* An attempt failed: wait and try again, or return the last error.
AfterFailure(c) ==
    IF attempt[c] < MaxRetries
    THEN /\ attempt' = [attempt EXCEPT ![c] = @ + 1]
         /\ Goto(c, "backoff") /\ UNCHANGED <<list, target, seen>>
    ELSE Return(c, "failed")

Refused(c) ==
    /\ pc[c] = "attempt"
    /\ AfterFailure(c)
    /\ UNCHANGED <<load_balance, shared, counter, calls, run, picks, discVars>>

\* Mutant: no timeout, the attempt waits for an answer.
TimedOutNever(c) == FALSE /\ UNCHANGED rpcVars

TimedOut(c) ==
    /\ pc[c] = "attempt"
    /\ AfterFailure(c)
    /\ UNCHANGED <<load_balance, shared, counter, calls, run, picks, discVars>>

\* The sleep is over: the same address is tried again.
Backoff(c) ==
    /\ pc[c] = "backoff"
    /\ Goto(c, "attempt")
    /\ UNCHANGED <<load_balance, shared, counter, list, target, attempt, calls, seen,
                   run, picks, discVars>>

\* The registry changes under the calls.
Registry ==
    /\ DiscNext
    /\ seen' = [c \in Callers |->
                  IF pc[c] # "discover" THEN seen[c]
                  ELSE seen[c] \cup {i \in Instances : entry'[i] = "full"}]
    /\ UNCHANGED <<load_balance, shared, counter, pc, list, target, attempt, calls,
                   run, picks>>

RpcNext ==
    \/ \E c \in Callers : \/ Call(c) \/ Discover(c) \/ Select(c) \/ Answered(c)
                          \/ Refused(c) \/ TimedOut(c) \/ Backoff(c)
    \/ Registry

RpcSafety == RpcInit /\ [][RpcNext]_rpcVars

\* etcd answers, the timeout and the sleep elapse.  That a request is answered is
\* not assumed.
RpcSpec ==
    /\ RpcSafety
    /\ \A c \in Callers :
          WF_rpcVars(Discover(c)) /\ WF_rpcVars(Select(c) \/ TimedOut(c) \/ Backoff(c))

-----------------------------------------------------------------------------
(* Properties *)

\* The types of the client and of its calls; no call fails more than MaxRetries
\* times and goes on.
RpcTypeOK ==
    /\ DiscTypeOK
    /\ load_balance \in Strategies /\ shared \in BOOLEAN
    /\ counter \in 0..MaxCalls /\ calls \in 0..MaxCalls
    /\ pc \in [Callers -> {"idle", "discover", "select", "attempt", "backoff",
                           "ok", "failed"}]
    /\ list \in [Callers -> SUBSET Foreign] /\ run \in SUBSET Foreign
    /\ target \in [Callers -> Instances \cup {None}]
    /\ attempt \in [Callers -> 0..MaxRetries]
    /\ seen \in [Callers -> SUBSET Instances]
    /\ picks \in [Instances -> 0..MaxCalls]

\* "Round-robin selection" (discovery/mod.rs, line 14), on one ServiceDiscovery:
\* calls that select from the same list, one after the other but otherwise
\* interleaved in any way, are spread over its instances to within one.
SpreadEvenly ==
    shared /\ load_balance = "RoundRobin" =>
        \A i, j \in run : picks[i] <= picks[j] + 1

\* "The client handles service discovery" (client.rs, line 136): a call goes to
\* an instance that was registered at some moment since the call began, whatever
\* came and went meanwhile, and whatever earlier calls of this client found.
TargetSeen ==
    \A c \in Callers : target[c] # None => target[c] \in seen[c]

\* Whatever instances come and go while callers share the client, its calls go
\* where they should.
CallsWellPlaced == SpreadEvenly /\ TargetSeen

\* A call returns, with an answer or an error, even if no instance ever answers.
CallReturns ==
    \A c \in Callers : pc[c] = "discover" ~> pc[c] \in {"ok", "failed"}
=============================================================================
