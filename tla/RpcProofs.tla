----------------------------- MODULE RpcProofs -----------------------------
(***************************************************************************)
(* Proofs about Discovery and RpcClient: a registration lasts while its    *)
(* handle is held, and the calls of a shared client go where they should,  *)
(* for any instances, callers, interleavings and length of the lease that  *)
(* is longer than the keep-alive interval.                                 *)
(***************************************************************************)
EXTENDS RpcClient, FiniteSetTheorems, TLAPS

-----------------------------------------------------------------------------
(* Registration *)

\* Whoever holds a handle has come to the end of register() and has not stopped.
Holding == \A i \in handles : server[i] = "up"

\* The keep-alive task of a handle runs, and will act before the lease ends.
KeptAlive ==
    ~late /\ errors = 0 =>
        \A i \in handles : /\ i \in keeper /\ lease[i] > due[i]
                           /\ i \notin removed => entry[i] = "bare"

DiscInv == DiscTypeOK /\ Holding /\ KeptAlive

LEMMA TickRanges ==
    /\ {0, LeaseTicks} \subseteq 0..LeaseTicks /\ {0, KeepAliveTicks} \subseteq 0..KeepAliveTicks
    /\ 0 \in 0..MaxStarts /\ 0 \in 0..MaxErrors
    /\ \A n \in 0..LeaseTicks : Less(n) \in 0..LeaseTicks
    /\ \A n \in 0..KeepAliveTicks : Less(n) \in 0..KeepAliveTicks
  BY DiscoveryAssumption DEF Less

LEMMA EntersTyped ==
    ASSUME DiscTypeOK, NEW i \in Registering,
           NEW at \in {"off", "connected", "granted", "up", "draining", "down"}, Enter(i, at)
    PROVE  /\ server' \in [Registering -> {"off", "connected", "granted", "up", "draining", "down"}]
           /\ \A j \in Registering : server'[j] = IF j = i THEN at ELSE server[j]
  BY DEF DiscTypeOK, Enter

LEMMA ErrTyped == DiscTypeOK /\ Err => errors' \in 0..MaxErrors /\ errors' # 0
  BY DiscoveryAssumption DEF DiscTypeOK, Err

LEMMA RenewedTyped ==
    ASSUME DiscTypeOK, NEW i \in Registering
    PROVE  /\ Renewed(i) \in [Registering -> 0..LeaseTicks]
           /\ \A j \in Registering : Renewed(i)[j] = IF j = i THEN IF lease[i] > 0 THEN LeaseTicks ELSE 0 ELSE lease[j]
  BY DiscoveryAssumption DEF DiscTypeOK, Renewed

LEMMA DiscInvInit == DiscInit => DiscInv
<1> SUFFICES ASSUME DiscInit PROVE DiscInv
  OBVIOUS
<1>1. DiscTypeOK
  BY TickRanges DEF DiscInit, DiscTypeOK
<1>2. Holding /\ KeptAlive
  BY DEF DiscInit, Holding, KeptAlive
<1> QED BY <1>1, <1>2 DEF DiscInv

LEMMA DiscTypeStep == DiscTypeOK /\ [DiscNext]_discVars => DiscTypeOK'
<1> SUFFICES ASSUME DiscTypeOK, [DiscNext]_discVars PROVE DiscTypeOK'
  OBVIOUS
<1> USE DEF DiscTypeOK
<1>1. ASSUME NEW i \in Registering, Connect(i) \/ Start(i) PROVE DiscTypeOK'
  <2>1. starts' \in [Registering -> 0..MaxStarts]
    <3>1. starts[i] < MaxStarts /\ starts[i] \in 0..MaxStarts /\ starts' = [starts EXCEPT ![i] = @ + 1]
      BY <1>1 DEF Connect, Start
    <3>2. starts[i] + 1 \in 0..MaxStarts
      BY <3>1, DiscoveryAssumption
    <3> QED BY <3>1, <3>2
  <2>2. server' \in [Registering -> {"off", "connected", "granted", "up", "draining", "down"}]
    BY <1>1, EntersTyped DEF Connect, Start, Unregistered
  <2>3. errors' \in 0..MaxErrors /\ ready' \in [Registering -> BOOLEAN]
    BY <1>1, ErrTyped DEF Connect, Start
  <2> QED BY <1>1, <2>1, <2>2, <2>3 DEF Connect, Start, pins
<1>2. ASSUME NEW i \in Registering, LeaseGrant(i) PROVE DiscTypeOK'
  <2>1. server' \in [Registering -> {"off", "connected", "granted", "up", "draining", "down"}]
    BY <1>2, EntersTyped DEF LeaseGrant, Unregistered
  <2>2. errors' \in 0..MaxErrors
    BY <1>2, ErrTyped DEF LeaseGrant
  <2>3. granted' \in [Registering -> 0..LeaseTicks]
    BY <1>2, TickRanges DEF LeaseGrant
  <2> QED BY <1>2, <2>1, <2>2, <2>3 DEF LeaseGrant, pins
<1>3. ASSUME NEW i \in Registering, Put(i) PROVE DiscTypeOK'
  <2>1. server' \in [Registering -> {"off", "connected", "granted", "up", "draining", "down"}]
    BY <1>3, EntersTyped DEF Put, Unregistered
  <2>2. errors' \in 0..MaxErrors
    BY <1>3, ErrTyped DEF Put
  <2>3. lease' \in [Registering -> 0..LeaseTicks] /\ entry' \in [Instances -> {"none", "bare", "full"}]
    BY <1>3 DEF Put, PutKey
  <2>4. granted' \in [Registering -> 0..LeaseTicks] /\ due' \in [Registering -> 0..KeepAliveTicks]
    BY <1>3, DiscoveryAssumption DEF Put
  <2>5. handles' \in SUBSET Own /\ keeper' \in SUBSET Registering /\ removed' \in SUBSET Own
    BY <1>3 DEF Put
  <2> QED BY <1>3, <2>1, <2>2, <2>3, <2>4, <2>5 DEF Put, pins
<1>4. ASSUME NEW i \in Registering, KeepAlive(i) PROVE DiscTypeOK'
  <2>1. errors' \in 0..MaxErrors
    BY <1>4, ErrTyped DEF KeepAlive
  <2>2. lease' \in [Registering -> 0..LeaseTicks] /\ keeper' \in SUBSET Registering
    BY <1>4, RenewedTyped DEF KeepAlive
  <2>3. due' \in [Registering -> 0..KeepAliveTicks]
    BY <1>4, DiscoveryAssumption DEF KeepAlive
  <2> QED BY <1>4, <2>1, <2>2, <2>3 DEF KeepAlive, pins
<1>5. ASSUME NEW i \in Registering, KeepLease(i) \/ RenewLease(i) PROVE DiscTypeOK'
  <2>1. errors' \in 0..MaxErrors
    BY <1>5, ErrTyped DEF KeepLease, RenewLease
  <2>2. lease' \in [Registering -> 0..LeaseTicks] /\ pinned' \in SUBSET Own
    BY <1>5, RenewedTyped DEF KeepLease, RenewLease
  <2>3. pinDue' \in [Own -> 0..KeepAliveTicks]
    BY <1>5, TickRanges DEF KeepLease, RenewLease
  <2> QED BY <1>5, <2>1, <2>2, <2>3 DEF KeepLease, RenewLease
<1>6. ASSUME NEW i \in Registering, DropHandle(i) \/ Cancelled(i) PROVE DiscTypeOK'
  BY <1>6 DEF DropHandle, Cancelled, pins
<1>7. ASSUME NEW i \in Registering, Deregister(i) PROVE DiscTypeOK'
  <2>1. errors' \in 0..MaxErrors
    BY <1>7, ErrTyped DEF Deregister
  <2>2. entry' \in [Instances -> {"none", "bare", "full"}] /\ removed' \in SUBSET Own
    BY <1>7 DEF Deregister
  <2> QED BY <1>7, <2>1, <2>2 DEF Deregister, pins
<1>8. ASSUME NEW i \in Registering, Shutdown(i) \/ Restart(i) PROVE DiscTypeOK'
  <2>1. server' \in [Registering -> {"off", "connected", "granted", "up", "draining", "down"}]
    BY <1>8, EntersTyped DEF Shutdown, Restart
  <2>2. ready' \in [Registering -> BOOLEAN]
    BY <1>8 DEF Shutdown, Restart
  <2> QED BY <1>8, <2>1, <2>2 DEF Shutdown, Restart, pins
<1>9. ASSUME NEW i \in Registering, Stop(i) PROVE DiscTypeOK'
  <2>1. server' \in [Registering -> {"off", "connected", "granted", "up", "draining", "down"}]
    BY <1>9, EntersTyped DEF Stop
  <2>2. granted' \in [Registering -> 0..LeaseTicks] /\ pinDue' \in [Own -> 0..KeepAliveTicks]
    BY <1>9, DiscoveryAssumption DEF Stop
  <2> QED BY <1>9, <2>1, <2>2 DEF Stop
<1>10. ASSUME NEW i \in Foreign, Join(i) \/ Leave(i) PROVE DiscTypeOK'
  BY <1>10 DEF Join, Leave, pins
<1>11. CASE Tick
  <2>1. /\ lease' \in [Registering -> 0..LeaseTicks] /\ granted' \in [Registering -> 0..LeaseTicks]
        /\ due' \in [Registering -> 0..KeepAliveTicks] /\ pinDue' \in [Own -> 0..KeepAliveTicks]
    BY <1>11, TickRanges DEF Tick
  <2>2. entry' \in [Instances -> {"none", "bare", "full"}]
    BY <1>11 DEF Tick
  <2>3. late' \in BOOLEAN
    BY <1>11 DEF Tick
  <2> QED BY <1>11, <2>1, <2>2, <2>3 DEF Tick
<1>12. CASE UNCHANGED discVars
  BY <1>12 DEF discVars
<1> QED BY <1>1, <1>2, <1>3, <1>4, <1>5, <1>6, <1>7, <1>8, <1>9, <1>10, <1>11, <1>12 DEF DiscNext

LEMMA DiscInvStep == DiscInv /\ [DiscNext]_discVars => DiscInv'
<1> SUFFICES ASSUME DiscInv, [DiscNext]_discVars PROVE DiscInv'
  OBVIOUS
<1>0. DiscTypeOK /\ DiscTypeOK' /\ Holding /\ KeptAlive
  BY DiscTypeStep DEF DiscInv
<1>a. /\ handles \in SUBSET Own /\ Own \subseteq Registering /\ Registering \subseteq Instances
      /\ Own \cap Served = {} /\ Registering \cap Foreign = {} /\ removed \in SUBSET Own
      /\ DOMAIN entry = Instances /\ DOMAIN lease = Registering /\ DOMAIN due = Registering
      /\ DOMAIN server = Registering
  BY <1>0, DiscoveryAssumption DEF DiscTypeOK, Registering, Instances
<1>b. \A j \in Registering : lease[j] \in Nat /\ due[j] \in 0..KeepAliveTicks
  BY <1>0, DiscoveryAssumption DEF DiscTypeOK
<1> SUFFICES Holding' /\ KeptAlive'
  BY <1>0 DEF DiscInv
<1>1. ASSUME NEW i \in Registering, Connect(i) \/ LeaseGrant(i) \/ Start(i) \/ Shutdown(i) \/ Restart(i)
      PROVE  Holding' /\ KeptAlive'
  <2>1. i \notin handles
    BY <1>0, <1>1, <1>a DEF Connect, LeaseGrant, Start, Shutdown, Restart, Holding
  <2>2. /\ UNCHANGED <<entry, lease, handles, keeper, due, removed, late>> /\ (errors' = errors \/ errors' # 0)
        /\ \E at : Enter(i, at)
    BY <1>0, <1>1, ErrTyped DEF Connect, LeaseGrant, Start, Shutdown, Restart
  <2>3. \A j \in Registering : j # i => server'[j] = server[j]
    BY <1>a, <2>2 DEF Enter
  <2> QED BY <1>0, <1>a, <2>1, <2>2, <2>3 DEF Holding, KeptAlive
<1>2. ASSUME NEW i \in Registering, Put(i) PROVE Holding' /\ KeptAlive'
  <2>1. i \notin handles /\ server[i] = "granted"
    BY <1>0, <1>2 DEF Put, Holding
  <2>2. /\ \A j \in Registering : j # i => server'[j] = server[j] /\ lease'[j] = lease[j] /\ due'[j] = due[j]
        /\ \A j \in Instances : j # i => entry'[j] = entry[j]
        /\ keeper \subseteq keeper' /\ removed' = removed \ {i} /\ late' = late
        /\ errors' = errors \/ errors' # 0
    BY <1>0, <1>2, <1>a, ErrTyped DEF Put, PutKey, Enter
  <2>3. CASE i \in handles'
    <3>1. granted[i] > 0 /\ PutKey(i, granted[i]) /\ i \in keeper' /\ Enter(i, "up") /\ handles' = handles \cup {i}
      BY <1>2, <2>1, <2>3 DEF Put
    <3>2. server'[i] = "up" /\ entry'[i] = "bare" /\ lease'[i] = granted[i] /\ due'[i] = 0
      BY <1>2, <1>a, <3>1 DEF Put, PutKey, Enter
    <3>3. lease'[i] > due'[i]
      BY <3>1, <3>2
    <3> QED BY <1>0, <1>a, <2>1, <2>2, <3>1, <3>2, <3>3 DEF Holding, KeptAlive
  <2>4. CASE i \notin handles'
    <3>1. handles' = handles
      BY <1>2, <2>4, <2>1 DEF Put
    <3> QED BY <1>0, <1>a, <2>1, <2>2, <3>1 DEF Holding, KeptAlive
  <2> QED BY <2>3, <2>4
<1>3. ASSUME NEW i \in Registering, KeepAlive(i) PROVE Holding' /\ KeptAlive'
  <2>1. UNCHANGED <<server, entry, handles, removed, late>>
    BY <1>3 DEF KeepAlive
  <2>2. CASE errors' # 0
    BY <1>0, <2>1, <2>2 DEF Holding, KeptAlive
  <2>3. CASE errors' = 0
    <3>1. lease' = Renewed(i) /\ UNCHANGED <<keeper, errors>> /\ due' = [due EXCEPT ![i] = KeepAliveTicks]
      BY <1>0, <1>3, <2>3, ErrTyped DEF KeepAlive
    <3>2. ASSUME NEW j \in handles, lease[j] > due[j] PROVE lease'[j] > due'[j]
      <4>1. CASE j = i
        <5>1. lease[j] > 0
          BY <1>a, <1>b, <3>2
        <5>2. lease'[j] = LeaseTicks /\ due'[j] = KeepAliveTicks
          BY <1>0, <1>a, <3>1, <4>1, <5>1, RenewedTyped
        <5> QED BY <5>2, DiscoveryAssumption
      <4>2. CASE j # i
        BY <1>0, <1>a, <3>1, <3>2, <4>2, RenewedTyped
      <4> QED BY <4>1, <4>2
    <3> QED BY <1>0, <2>1, <3>1, <3>2 DEF Holding, KeptAlive
  <2> QED BY <2>2, <2>3
<1>4. ASSUME NEW i \in Registering, KeepLease(i) \/ RenewLease(i) PROVE Holding' /\ KeptAlive'
  <2>1. UNCHANGED <<server, entry, handles, keeper, due, removed, late>>
    BY <1>4 DEF KeepLease, RenewLease
  <2>2. CASE errors' # 0
    BY <1>0, <2>1, <2>2 DEF Holding, KeptAlive
  <2>3. CASE errors' = 0
    <3>1. lease' = Renewed(i) /\ UNCHANGED errors
      BY <1>0, <1>4, <2>3, ErrTyped DEF KeepLease, RenewLease
    <3>2. ASSUME NEW j \in handles, lease[j] > due[j] PROVE lease'[j] > due[j]
      <4>1. CASE j = i
        <5>1. lease[j] > 0 /\ due[j] <= KeepAliveTicks
          BY <1>a, <1>b, <3>2, DiscoveryAssumption
        <5>2. lease'[j] = LeaseTicks
          BY <1>0, <1>a, <3>1, <4>1, <5>1, RenewedTyped
        <5> QED BY <1>a, <1>b, <5>1, <5>2, DiscoveryAssumption
      <4>2. CASE j # i
        BY <1>0, <1>a, <3>1, <3>2, <4>2, RenewedTyped
      <4> QED BY <4>1, <4>2
    <3> QED BY <1>0, <2>1, <3>1, <3>2 DEF Holding, KeptAlive
  <2> QED BY <2>2, <2>3
<1>5. ASSUME NEW i \in Registering, DropHandle(i) \/ Cancelled(i) PROVE Holding' /\ KeptAlive'
  BY <1>0, <1>5 DEF DropHandle, Cancelled, Holding, KeptAlive
<1>6. ASSUME NEW i \in Registering, Deregister(i) PROVE Holding' /\ KeptAlive'
  <2>1. /\ UNCHANGED <<server, lease, handles, keeper, due, late>> /\ removed' = removed \cup {i}
        /\ \A j \in Instances : j # i => entry'[j] = entry[j]
        /\ errors' = errors \/ errors' # 0
    BY <1>0, <1>6, <1>a, ErrTyped DEF Deregister
  <2> QED BY <1>0, <1>a, <2>1 DEF Holding, KeptAlive
<1>7. ASSUME NEW i \in Registering, Stop(i) PROVE Holding' /\ KeptAlive'
  <2>1. /\ UNCHANGED <<entry, lease, due, errors, removed, late>> /\ handles' = handles \ {i} /\ keeper' = keeper \ {i}
        /\ \A j \in Registering : j # i => server'[j] = server[j]
    BY <1>7, <1>a DEF Stop, Enter
  <2> QED BY <1>0, <1>a, <2>1 DEF Holding, KeptAlive
<1>8. ASSUME NEW i \in Foreign, Join(i) \/ Leave(i) PROVE Holding' /\ KeptAlive'
  <2>1. /\ UNCHANGED <<server, lease, handles, keeper, due, errors, removed, late>>
        /\ \A j \in Instances : j # i => entry'[j] = entry[j]
    BY <1>8, <1>a DEF Join, Leave
  <2> QED BY <1>0, <1>a, <2>1 DEF Holding, KeptAlive
<1>9. CASE Tick
  <2>1. /\ UNCHANGED <<server, handles, keeper, errors, removed>>
        /\ \A j \in Registering : lease'[j] = Less(lease[j]) /\ due'[j] = Less(due[j])
        /\ \A j \in Registering : lease[j] # 1 => entry'[j] = entry[j]
    BY <1>9, <1>a DEF Tick
  <2>2. Holding'
    BY <1>0, <2>1 DEF Holding
  <2>3. ASSUME ~late', errors = 0, NEW j \in handles
        PROVE  j \in keeper' /\ lease'[j] > due'[j] /\ (j \notin removed => entry'[j] = "bare")
    <3>1. ~late /\ \A k \in keeper : due[k] # 0
      BY <1>9, <2>3 DEF Tick
    <3>2. j \in keeper /\ lease[j] > due[j] /\ (j \notin removed => entry[j] = "bare")
      BY <1>0, <2>3, <3>1 DEF KeptAlive
    <3>3. due[j] # 0 /\ j \in Registering /\ lease[j] \in Nat /\ due[j] \in Nat
      BY <1>a, <1>b, <3>1, <3>2, DiscoveryAssumption
    <3>4. lease[j] # 1 /\ Less(lease[j]) > Less(due[j])
      BY <3>2, <3>3 DEF Less
    <3> QED BY <2>1, <3>2, <3>3, <3>4
  <2> QED BY <2>1, <2>2, <2>3 DEF KeptAlive
<1>10. CASE UNCHANGED discVars
  BY <1>0, <1>10 DEF discVars, Holding, KeptAlive
<1> QED BY <1>1, <1>2, <1>3, <1>4, <1>5, <1>6, <1>7, <1>8, <1>9, <1>10 DEF DiscNext

(***************************************************************************)
(* Of discovery/mod.rs: an instance whose RegistrationHandle is held stays *)
(* in etcd, as long as etcd commands succeed, the keep-alive task is not   *)
(* late and nobody deregisters it - whatever an earlier life of the        *)
(* program or a task of keep_alive() left behind.  It rests on the         *)
(* keep-alive interval being shorter than the lease.                       *)
(***************************************************************************)
THEOREM HeldMeansRegistered == DiscSafety => []RegisteredWhileHeld
<1>1. DiscInit => DiscInv
  BY DiscInvInit
<1>2. DiscInv /\ [DiscNext]_discVars => DiscInv'
  BY DiscInvStep
<1>3. DiscInv => RegisteredWhileHeld
  BY DEF DiscInv, KeptAlive, RegisteredWhileHeld
<1> QED BY <1>1, <1>2, <1>3, PTL DEF DiscSafety

(***************************************************************************)
(* The programs, their leases and their keep-alive tasks are well typed,   *)
(* for any instances; no lease is longer than lease_grant's.               *)
(***************************************************************************)
THEOREM DiscTypeCorrect == DiscSafety => []DiscTypeOK
<1>1. DiscInv => DiscTypeOK
  BY DEF DiscInv
<1> QED BY <1>1, DiscInvInit, DiscInvStep, PTL DEF DiscSafety

-----------------------------------------------------------------------------
(* Calls *)

RpcTypes ==
    /\ load_balance \in Strategies
    /\ counter \in Nat /\ picks \in [Instances -> Nat] /\ run \in SUBSET Instances
    /\ pc \in [Callers -> {"idle", "discover", "select", "attempt", "backoff", "ok", "failed"}]
    /\ list \in [Callers -> SUBSET Instances]
    /\ target \in [Callers -> Instances \cup {None}]
    /\ seen \in [Callers -> SUBSET Instances]

\* What a call has found was registered since it began.
FoundInv ==
    \A c \in Callers :
        /\ pc[c] \in {"idle", "ok", "failed"} => list[c] = {} /\ target[c] = None
        /\ pc[c] = "discover" => Discovered \subseteq seen[c]
        /\ list[c] \subseteq seen[c]
        /\ target[c] # None => target[c] \in seen[c]

\* On list l, when the counter is n, i's turn comes before j's.
Sooner(l, n, i, j) ==
    LET next == n % Cardinality(l) IN
    \/ Place(l, i) >= next /\ Place(l, j) < next
    \/ (Place(l, i) >= next <=> Place(l, j) >= next) /\ Place(l, i) < Place(l, j)

\* Who waits longer has been picked as often, or once more.
InTurn(l, n, p) ==
    \A i, j \in l : Sooner(l, n, i, j) => p[i] <= p[j] /\ p[j] <= p[i] + 1

TurnInv == shared /\ load_balance = "RoundRobin" => InTurn(run, counter, picks)

RpcInv == RpcTypes /\ FoundInv /\ TurnInv

-----------------------------------------------------------------------------
(* The order of a list *)

LEMMA BeforeOrders ==
    /\ \A i \in Instances : ~Before(i, i)
    /\ \A i, j \in Instances : i # j => Before(i, j) \/ Before(j, i)
    /\ \A i, j, k \in Instances : Before(i, j) /\ Before(j, k) => Before(i, k)
<1>1. /\ Len(KeyOrder) \in Nat
      /\ \A i \in Instances : \E n \in 1..Len(KeyOrder) : KeyOrder[n] = i
      /\ \A m, n \in 1..Len(KeyOrder) : m # n => KeyOrder[m] # KeyOrder[n]
  BY DiscoveryAssumption
<1>2. \A i \in Instances : ~Before(i, i)
  BY <1>1 DEF Before
<1>3. ASSUME NEW i \in Instances, NEW j \in Instances, i # j PROVE Before(i, j) \/ Before(j, i)
  <2>1. PICK m \in 1..Len(KeyOrder) : KeyOrder[m] = i
    BY <1>1
  <2>2. PICK n \in 1..Len(KeyOrder) : KeyOrder[n] = j
    BY <1>1
  <2>3. m < n \/ n < m
    BY <1>1, <1>3, <2>1, <2>2
  <2> QED BY <2>1, <2>2, <2>3 DEF Before
<1>4. ASSUME NEW i \in Instances, NEW j \in Instances, NEW k \in Instances, Before(i, j), Before(j, k)
      PROVE  Before(i, k)
  <2>1. PICK a \in 1..Len(KeyOrder), b \in 1..Len(KeyOrder) : a < b /\ KeyOrder[a] = i /\ KeyOrder[b] = j
    BY <1>4 DEF Before
  <2>2. PICK d \in 1..Len(KeyOrder), e \in 1..Len(KeyOrder) : d < e /\ KeyOrder[d] = j /\ KeyOrder[e] = k
    BY <1>4 DEF Before
  <2>3. b = d
    BY <1>1, <2>1, <2>2
  <2>4. a < e
    BY <1>1, <2>1, <2>2, <2>3
  <2> QED BY <2>1, <2>2, <2>4 DEF Before
<1> QED BY <1>2, <1>3, <1>4

\* The places of a list are different numbers below its length.
LEMMA PlacesDiffer ==
    ASSUME NEW l \in SUBSET Instances
    PROVE  /\ Cardinality(l) \in Nat
           /\ \A i \in l : Place(l, i) \in Nat /\ Place(l, i) < Cardinality(l)
           /\ \A i, j \in l : i # j => Place(l, i) # Place(l, j)
<1> DEFINE Ahead(i) == {j \in l : Before(j, i)}
<1>1. IsFiniteSet(l) /\ Cardinality(l) \in Nat
  <2>1. IsFiniteSet(l)
    BY FS_Subset, DiscoveryAssumption
  <2> QED BY <2>1, FS_CardinalityType
<1>2. ASSUME NEW S \in SUBSET l, NEW T \in SUBSET S, T # S
      PROVE  Cardinality(T) \in Nat /\ Cardinality(S) \in Nat /\ Cardinality(T) < Cardinality(S)
  <2>1. IsFiniteSet(S)
    BY <1>1, FS_Subset
  <2>2. IsFiniteSet(T) /\ Cardinality(T) <= Cardinality(S) /\ Cardinality(S) # Cardinality(T)
    BY <1>2, <2>1, FS_Subset
  <2>3. Cardinality(S) \in Nat /\ Cardinality(T) \in Nat
    BY <2>1, <2>2, FS_CardinalityType
  <2> QED BY <2>2, <2>3
<1>3. ASSUME NEW i \in l PROVE Place(l, i) \in Nat /\ Place(l, i) < Cardinality(l)
  <2>1. Ahead(i) \in SUBSET l /\ i \notin Ahead(i)
    BY BeforeOrders
  <2> HIDE DEF Ahead
  <2>2. Cardinality(Ahead(i)) \in Nat /\ Cardinality(Ahead(i)) < Cardinality(l)
    BY <1>2, <2>1
  <2> QED BY <2>2 DEF Ahead, Place
<1>4. ASSUME NEW i \in l, NEW j \in l, Before(i, j) PROVE Place(l, i) # Place(l, j)
  <2>1. Ahead(j) \in SUBSET l /\ Ahead(i) \in SUBSET Ahead(j) /\ i \in Ahead(j) /\ i \notin Ahead(i)
    BY <1>4, BeforeOrders
  <2> HIDE DEF Ahead
  <2>2. /\ Cardinality(Ahead(i)) \in Nat /\ Cardinality(Ahead(j)) \in Nat
        /\ Cardinality(Ahead(i)) < Cardinality(Ahead(j))
    BY <1>2, <2>1
  <2>3. Cardinality(Ahead(i)) # Cardinality(Ahead(j))
    BY <2>2
  <2> QED BY <2>3 DEF Ahead, Place
<1>5. \A i, j \in l : i # j => Place(l, i) # Place(l, j)
  BY <1>4, BeforeOrders
<1> QED BY <1>1, <1>3, <1>5

LEMMA Quotient ==
    ASSUME NEW L \in Nat, L > 0, NEW n \in Nat
    PROVE  \E d \in Int : n - (n % L) = L * d
  OBVIOUS

\* The counter goes round.
LEMMA NextTurn ==
    ASSUME NEW L \in Nat, L > 0, NEW n \in Nat
    PROVE  /\ (n % L) \in Nat /\ (n % L) < L
           /\ (n + 1) % L = IF (n % L) + 1 = L THEN 0 ELSE (n % L) + 1
<1> DEFINE x == n % L
           y == (n + 1) % L
<1>1. x \in Nat /\ x < L /\ y \in Nat /\ y < L
  OBVIOUS
<1>2. PICK d \in Int : n - x = L * d
  BY Quotient
<1>3. PICK e \in Int : (n + 1) - y = L * e
  <2>1. n + 1 \in Nat
    OBVIOUS
  <2> QED BY <2>1, Quotient
<1> HIDE DEF x, y
<1>4. \A f \in Int : (f >= 2 => L * f >= 2 * L) /\ (f <= 0 - 1 => L * f <= 0 - L) /\ L * 0 = 0 /\ L * 1 = L
  OBVIOUS
<1>5. PICK f \in Int : f = e - d /\ L * f = x + 1 - y
  <2>1. e - d \in Int /\ L * (e - d) = L * e - L * d
    OBVIOUS
  <2>2. L * e - L * d = x + 1 - y
    BY <1>1, <1>2, <1>3
  <2> QED BY <2>1, <2>2
<1>6. f = 0 \/ f = 1
  <2>1. L * f > 0 - L /\ L * f < 2 * L
    BY <1>1, <1>5
  <2> QED BY <1>4, <2>1
<1>7. y = x + 1 \/ y = x + 1 - L
  BY <1>1, <1>4, <1>5, <1>6
<1>8. y = IF x + 1 = L THEN 0 ELSE x + 1
  BY <1>1, <1>7
<1> QED BY <1>1, <1>8 DEF x, y

\* Picking the instance whose turn it is keeps everybody in turn.
LEMMA PickInTurn ==
    ASSUME NEW l \in SUBSET Instances, NEW n \in Nat, NEW p \in [Instances -> Nat], InTurn(l, n, p),
           NEW i \in l, Place(l, i) = n % Cardinality(l), NEW q,
           \A j \in Instances : q[j] = p[j] + (IF j = i THEN 1 ELSE 0)
    PROVE  InTurn(l, n + 1, q)
<1> DEFINE L == Cardinality(l)
           x == n % L
           y == (n + 1) % L
<1>1. L \in Nat /\ L > 0 /\ \A j \in l : Place(l, j) \in Nat /\ Place(l, j) < L
  <2>1. L \in Nat /\ \A j \in l : Place(l, j) \in Nat /\ Place(l, j) < L
    BY PlacesDiffer
  <2> QED BY <2>1
<1>2. x \in Nat /\ x < L /\ y = IF x + 1 = L THEN 0 ELSE x + 1
  BY <1>1, NextTurn
<1>3. Place(l, i) = x /\ \A j \in l : j # i => Place(l, j) # x
  BY PlacesDiffer
<1>4. \A j, k \in l : Sooner(l, n, j, k) <=> \/ Place(l, j) >= x /\ Place(l, k) < x
                                             \/ (Place(l, j) >= x <=> Place(l, k) >= x) /\ Place(l, j) < Place(l, k)
  BY DEF Sooner
<1>5. \A j, k \in l : Sooner(l, n + 1, j, k) <=> \/ Place(l, j) >= y /\ Place(l, k) < y
                                                 \/ (Place(l, j) >= y <=> Place(l, k) >= y) /\ Place(l, j) < Place(l, k)
  BY DEF Sooner
<1>6. \A j \in l : p[j] \in Nat /\ q[j] = p[j] + (IF j = i THEN 1 ELSE 0)
  OBVIOUS
<1> HIDE DEF L, x, y
<1> SUFFICES ASSUME NEW j \in l, NEW k \in l, Sooner(l, n + 1, j, k) PROVE q[j] <= q[k] /\ q[k] <= q[j] + 1
  BY DEF InTurn
<1>7. CASE j = i
  BY <1>1, <1>2, <1>3, <1>5, <1>7
<1>8. CASE j # i /\ k = i
  <2>1. Sooner(l, n, i, j)
    BY <1>1, <1>2, <1>3, <1>4, <1>8
  <2>2. p[i] <= p[j] /\ p[j] <= p[i] + 1
    BY <2>1 DEF InTurn
  <2> QED BY <1>6, <1>8, <2>2
<1>9. CASE j # i /\ k # i
  <2>1. Sooner(l, n, j, k)
    BY <1>1, <1>2, <1>3, <1>4, <1>5, <1>9
  <2>2. p[j] <= p[k] /\ p[k] <= p[j] + 1
    BY <2>1 DEF InTurn
  <2> QED BY <1>6, <1>9, <2>2
<1> QED BY <1>7, <1>8, <1>9

-----------------------------------------------------------------------------
(* The steps of calls *)

LEMMA RpcInvInit == RpcInit => RpcInv
<1> SUFFICES ASSUME RpcInit PROVE RpcInv
  OBVIOUS
<1>1. RpcTypes
  <2>1. /\ counter = 0 /\ picks = [i \in Instances |-> 0] /\ run = {} /\ load_balance \in Strategies
        /\ pc = [c \in Callers |-> "idle"] /\ list = [c \in Callers |-> {}]
        /\ target = [c \in Callers |-> None] /\ seen = [c \in Callers |-> {}]
    BY DEF RpcInit
  <2> QED BY <2>1 DEF RpcTypes
<1>2. FoundInv
  BY DEF RpcInit, FoundInv
<1>3. TurnInv
  BY DEF RpcInit, TurnInv, InTurn
<1> QED BY <1>1, <1>2, <1>3 DEF RpcInv

\* A call returns and forgets what it found.
LEMMA ReturnKeepsFound ==
    ASSUME RpcInv, NEW c \in Callers, NEW how \in {"ok", "failed"}, Return(c, how), UNCHANGED entry
    PROVE  FoundInv' /\ (UNCHANGED <<load_balance, counter, picks, run>> => RpcTypes')
<1>1. /\ \A d \in Callers : d # c => pc'[d] = pc[d] /\ list'[d] = list[d] /\ target'[d] = target[d] /\ seen'[d] = seen[d]
      /\ pc'[c] = how /\ list'[c] = {} /\ target'[c] = None /\ seen'[c] = {}
  BY DEF RpcInv, RpcTypes, Return, Goto
<1>2. Discovered' = Discovered
  BY DEF Discovered, Parses
<1>3. FoundInv'
  BY <1>1, <1>2 DEF RpcInv, FoundInv
<1>4. UNCHANGED <<load_balance, counter, picks, run>> => RpcTypes'
  BY DEF RpcInv, RpcTypes, Return, Goto
<1> QED BY <1>3, <1>4

LEMMA SelectKeepsInv ==
    ASSUME RpcInv, NEW c \in Callers, Select(c)
    PROVE  RpcInv'
<1>1. RpcTypes /\ FoundInv /\ TurnInv /\ UNCHANGED <<load_balance, shared, entry>>
  BY DEF RpcInv, Select, discVars
<1>2. CASE list[c] = {}
  <2>1. Return(c, "failed") /\ UNCHANGED <<counter, run, picks>>
    BY <1>2 DEF Select
  <2>2. FoundInv' /\ RpcTypes'
    BY <1>1, <2>1, ReturnKeepsFound
  <2> QED BY <1>1, <2>1, <2>2 DEF RpcInv, TurnInv, InTurn, Sooner
<1>3. CASE list[c] # {}
  <2> DEFINE n == IF shared THEN counter ELSE 0
             base == [j \in Instances |-> IF run = list[c] THEN picks[j] ELSE 0]
  <2>1. PICK i \in Selected(list[c], n) :
            /\ target' = [target EXCEPT ![c] = i]
            /\ picks' = [j \in Instances |-> (IF run = list[c] THEN picks[j] ELSE 0) + (IF j = i THEN 1 ELSE 0)]
    BY <1>3 DEF Select
  <2>2. /\ run' = list[c] /\ list' = [list EXCEPT ![c] = {}] /\ pc' = [pc EXCEPT ![c] = "attempt"] /\ seen' = seen
        /\ counter' = IF shared /\ load_balance = "RoundRobin" THEN counter + 1 ELSE counter
    BY <1>3 DEF Select, Goto
  <2>3. /\ list[c] \in SUBSET Instances /\ counter \in Nat /\ n \in Nat
        /\ \A j \in Instances : picks[j] \in Nat
    BY <1>1 DEF RpcTypes
  <2>4. i \in list[c] \/ load_balance \notin {"RoundRobin", "Random", "First"}
    BY <2>1 DEF Selected
  <2>5. load_balance \in {"RoundRobin", "Random", "First"}
    BY <1>1, RpcClientAssumption DEF RpcInv, RpcTypes
  <2>6. i \in list[c] /\ i \in Instances
    BY <2>3, <2>4, <2>5
  <2>7. base \in [Instances -> Nat] /\ \A j \in Instances : picks'[j] = base[j] + (IF j = i THEN 1 ELSE 0)
    BY <2>1, <2>3
  <2>8. picks' \in [Instances -> Nat]
    BY <2>1, <2>3
  <2>9. RpcTypes'
    BY <1>1, <2>1, <2>2, <2>3, <2>6, <2>8 DEF RpcTypes
  <2>10. FoundInv'
    <3>1. /\ \A d \in Callers : d # c => pc'[d] = pc[d] /\ list'[d] = list[d] /\ target'[d] = target[d]
          /\ pc'[c] = "attempt" /\ list'[c] = {} /\ target'[c] = i
      BY <1>1, <2>1, <2>2 DEF RpcTypes
    <3>2. Discovered' = Discovered
      BY <1>1 DEF Discovered, Parses
    <3> QED BY <1>1, <2>2, <2>6, <3>1, <3>2 DEF FoundInv
  <2>11. ASSUME shared, load_balance = "RoundRobin" PROVE InTurn(run', counter', picks')
    <3>1. Place(list[c], i) = counter % Cardinality(list[c]) /\ counter' = counter + 1
      BY <2>1, <2>2, <2>11 DEF Selected
    <3>2. InTurn(list[c], counter, base)
      <4>1. CASE run = list[c]
        <5>1. \A j \in list[c] : base[j] = picks[j]
          BY <2>3, <4>1
        <5> QED BY <1>1, <2>11, <4>1, <5>1 DEF TurnInv, InTurn
      <4>2. CASE run # list[c]
        <5>1. \A j \in list[c] : base[j] = 0
          BY <2>3, <4>2
        <5> HIDE DEF base
        <5> QED BY <5>1 DEF InTurn
      <4> QED BY <4>1, <4>2
    <3> HIDE DEF base
    <3> QED BY <2>2, <2>3, <2>6, <2>7, <3>1, <3>2, PickInTurn
  <2> QED BY <1>1, <2>9, <2>10, <2>11 DEF RpcInv, TurnInv
<1> QED BY <1>2, <1>3

LEMMA RpcInvStep == RpcInv /\ [RpcNext]_rpcVars => RpcInv'
<1> SUFFICES ASSUME RpcInv, [RpcNext]_rpcVars PROVE RpcInv'
  OBVIOUS
<1>0. RpcTypes /\ FoundInv /\ TurnInv
  BY DEF RpcInv
<1>a. ASSUME UNCHANGED <<load_balance, shared, counter, run, picks>> PROVE TurnInv'
  BY <1>0, <1>a DEF TurnInv, InTurn, Sooner
<1>b. ASSUME UNCHANGED entry PROVE Discovered' = Discovered
  BY <1>b DEF Discovered, Parses
<1>c. Discovered \subseteq Instances
  BY DEF Discovered
<1>1. ASSUME NEW c \in Callers, Call(c) PROVE RpcInv'
  <2>1. /\ pc[c] \in {"idle", "ok", "failed"} /\ UNCHANGED <<load_balance, shared, counter, list, target, run, picks, entry>>
        /\ pc' = [pc EXCEPT ![c] = "discover"] /\ seen' = [seen EXCEPT ![c] = Discovered]
    BY <1>1 DEF Call, Goto, discVars
  <2>2. RpcTypes'
    BY <1>0, <1>c, <2>1 DEF RpcTypes
  <2>3. /\ \A d \in Callers : d # c => pc'[d] = pc[d] /\ seen'[d] = seen[d]
        /\ pc'[c] = "discover" /\ seen'[c] = Discovered
    BY <1>0, <2>1 DEF RpcTypes
  <2>4. FoundInv'
    BY <1>0, <1>b, <2>1, <2>3 DEF FoundInv
  <2> QED BY <1>a, <2>1, <2>2, <2>4 DEF RpcInv
<1>2. ASSUME NEW c \in Callers, Discover(c) PROVE RpcInv'
  <2>1. pc[c] = "discover" /\ UNCHANGED <<load_balance, shared, counter, run, picks, entry>>
    BY <1>2 DEF Discover
  <2>2. CASE Return(c, "failed")
    BY <1>a, <2>1, <2>2, ReturnKeepsFound DEF RpcInv
  <2>3. CASE ~Return(c, "failed")
    <3>1. /\ list' = [list EXCEPT ![c] = Discovered] /\ pc' = [pc EXCEPT ![c] = "select"]
          /\ UNCHANGED <<target, seen>>
      BY <1>2, <2>3 DEF Discover, Goto
    <3>2. RpcTypes'
      BY <1>0, <1>c, <2>1, <3>1 DEF RpcTypes
    <3>3. /\ \A d \in Callers : d # c => pc'[d] = pc[d] /\ list'[d] = list[d]
          /\ pc'[c] = "select" /\ list'[c] = Discovered
      BY <1>0, <3>1 DEF RpcTypes
    <3>4. FoundInv'
      BY <1>0, <1>b, <2>1, <3>1, <3>3 DEF FoundInv
    <3> QED BY <1>a, <2>1, <3>2, <3>4 DEF RpcInv
  <2> QED BY <2>2, <2>3
<1>3. ASSUME NEW c \in Callers, Answered(c) PROVE RpcInv'
  <2>1. Return(c, "ok") /\ UNCHANGED <<load_balance, shared, counter, run, picks, entry>>
    BY <1>3 DEF Answered, discVars
  <2> QED BY <1>a, <2>1, ReturnKeepsFound DEF RpcInv
<1>4. ASSUME NEW c \in Callers, Refused(c) \/ TimedOut(c) \/ Backoff(c) PROVE RpcInv'
  <2>1. pc[c] \in {"attempt", "backoff"} /\ UNCHANGED <<load_balance, shared, counter, run, picks, entry>>
    BY <1>4 DEF Refused, TimedOut, Backoff, discVars
  <2>2. CASE Return(c, "failed")
    BY <1>a, <2>1, <2>2, ReturnKeepsFound DEF RpcInv
  <2>3. CASE ~Return(c, "failed")
    <3>1. UNCHANGED <<list, target, seen>> /\ \E l \in {"attempt", "backoff"} : pc' = [pc EXCEPT ![c] = l]
      BY <1>4, <2>3 DEF Refused, TimedOut, Backoff, AfterFailure, Goto
    <3>2. RpcTypes'
      BY <1>0, <2>1, <3>1 DEF RpcTypes
    <3>3. /\ \A d \in Callers : d # c => pc'[d] = pc[d]
          /\ pc'[c] \in {"attempt", "backoff"}
      BY <1>0, <3>1 DEF RpcTypes
    <3>4. FoundInv'
      BY <1>0, <1>b, <2>1, <3>1, <3>3 DEF FoundInv
    <3> QED BY <1>a, <2>1, <3>2, <3>4 DEF RpcInv
  <2> QED BY <2>2, <2>3
<1>5. CASE Registry
  <2>1. /\ UNCHANGED <<load_balance, shared, counter, pc, list, target, run, picks>>
        /\ seen' = [c \in Callers |-> IF pc[c] # "discover" THEN seen[c]
                                      ELSE seen[c] \cup {i \in Instances : entry'[i] = "full"}]
    BY <1>5 DEF Registry
  <2>2. RpcTypes'
    BY <1>0, <2>1 DEF RpcTypes
  <2>3. /\ \A c \in Callers : seen[c] \subseteq seen'[c]
        /\ \A c \in Callers : pc[c] = "discover" => Discovered' \subseteq seen'[c]
    BY <2>1 DEF Discovered, Parses
  <2>4. FoundInv'
    BY <1>0, <2>1, <2>3 DEF FoundInv
  <2> QED BY <1>a, <2>1, <2>2, <2>4 DEF RpcInv
<1>6. CASE UNCHANGED rpcVars
  <2>1. UNCHANGED <<load_balance, shared, counter, pc, list, target, seen, run, picks, entry>>
    BY <1>6 DEF rpcVars, clientVars, discVars
  <2> QED BY <1>0, <1>a, <1>b, <2>1 DEF RpcInv, RpcTypes, FoundInv
<1> QED BY <1>1, <1>2, <1>3, <1>4, <1>5, <1>6, SelectKeepsInv DEF RpcNext

(***************************************************************************)
(* Of rpc/client.rs and select(): for any instances and callers, in any    *)
(* interleaving of calls and registrations, a call is only for an instance *)
(* that was registered at some moment since it began, and calls that       *)
(* select round robin from the same list are spread over it to within one. *)
(***************************************************************************)
THEOREM CallsPlaced == RpcSafety => []CallsWellPlaced
<1>1. RpcInit => RpcInv
  BY RpcInvInit
<1>2. RpcInv /\ [RpcNext]_rpcVars => RpcInv'
  BY RpcInvStep
<1>3. RpcInv => CallsWellPlaced
  <2> SUFFICES ASSUME RpcInv PROVE CallsWellPlaced
    OBVIOUS
  <2>1. TargetSeen
    BY DEF RpcInv, FoundInv, TargetSeen
  <2>2. ASSUME shared, load_balance = "RoundRobin", NEW i \in run, NEW j \in run PROVE picks[i] <= picks[j] + 1
    <3>1. run \in SUBSET Instances /\ picks[i] \in Nat /\ picks[j] \in Nat
      BY DEF RpcInv, RpcTypes
    <3>2. CASE i = j
      BY <3>1, <3>2
    <3>3. CASE i # j
      <4>1. /\ Place(run, i) \in Nat /\ Place(run, j) \in Nat /\ Place(run, i) # Place(run, j)
            /\ Cardinality(run) \in Nat /\ Place(run, i) < Cardinality(run) /\ counter \in Nat
        BY <3>1, <3>3, PlacesDiffer DEF RpcInv, RpcTypes
      <4>a. counter % Cardinality(run) \in Nat
        <5>1. Cardinality(run) > 0
          BY <4>1
        <5> QED BY <4>1, <5>1, NextTurn
      <4>2. Sooner(run, counter, i, j) \/ Sooner(run, counter, j, i)
        <5> DEFINE next == counter % Cardinality(run)
        <5>1. next \in Nat
          BY <4>a
        <5> HIDE DEF next
        <5>2. \/ Place(run, i) >= next /\ Place(run, j) < next
              \/ Place(run, j) >= next /\ Place(run, i) < next
              \/ (Place(run, i) >= next <=> Place(run, j) >= next) /\ Place(run, i) < Place(run, j)
              \/ (Place(run, j) >= next <=> Place(run, i) >= next) /\ Place(run, j) < Place(run, i)
          BY <4>1, <5>1
        <5> QED BY <5>2 DEF Sooner, next
      <4>3. \/ picks[i] <= picks[j]
            \/ picks[i] <= picks[j] + 1
        BY <2>2, <4>2 DEF RpcInv, TurnInv, InTurn
      <4> QED BY <3>1, <4>3
    <3> QED BY <3>2, <3>3
  <2> QED BY <2>1, <2>2 DEF CallsWellPlaced, SpreadEvenly
<1> QED BY <1>1, <1>2, <1>3, PTL DEF RpcSafety
=============================================================================
