----------------------------- MODULE CacheAside -----------------------------
(***************************************************************************)
(* The in-process cache (cache/memcache.rs) and the three cache-aside      *)
(* functions over it (cache/aside.rs).  Every operation on the DashMap is  *)
(* atomic; set_with_ttl() makes several.  The application writes to the    *)
(* database and then deletes the key.                                      *)
(***************************************************************************)
EXTENDS Naturals, FiniteSets

CONSTANTS
    CacheKeys, Callers,
    Capacity,     \* capacity of the cache
    Ttl,          \* ticks an entry lives
    MaxVersion,   \* bound on the writes per key
    MaxGets       \* bound on the calls

ASSUME CacheAssumption ==
    /\ {Capacity, Ttl, MaxVersion, MaxGets} \subseteq Nat /\ Capacity > 0
    /\ IsFiniteSet(CacheKeys) /\ IsFiniteSet(Callers)

Calls == {"plain", "on_miss", "singleflight", "set"}

VARIABLES
    db,           \* db[k]: the version in the database
    writing,      \* the keys that have been written and not deleted yet
    entries,      \* key -> [version, left, raced]; left is the rest of its TTL
    call,         \* call[c]: [pc, kind, key, version, raced, victim]
    gets,         \* calls so far
    overlaps      \* history: sets that overlapped with another one, and sets without TTL

cacheVars == <<db, writing, entries, call, gets, overlaps>>

NoTtl == Ttl + 2
AtRest == [pc |-> "idle"]

CacheInit ==
    /\ db = [k \in CacheKeys |-> 0] /\ writing = {}
    /\ entries = <<>>
    /\ call = [c \in Callers |-> AtRest]
    /\ gets = 0 /\ overlaps = 0

Expired(k) == entries[k].left = 0
Without(S) == [k \in DOMAIN entries \ S |-> entries[k]]
Step(c, l) == call' = [call EXCEPT ![c].pc = l]

\* get(): an expired entry is removed under the same lock that finds it expired.
\* A hit ends the call.  (A plain set() starts with a value instead.)
Get(c, kind, k) ==
    /\ call[c] = AtRest /\ gets < MaxGets
    /\ gets' = gets + 1
    /\ entries' = IF kind \in {"plain", "on_miss"} /\ k \in DOMAIN entries /\ Expired(k)
                  THEN Without({k}) ELSE entries
    /\ IF kind # "set" /\ k \in DOMAIN entries /\ ~ Expired(k) THEN UNCHANGED call
       ELSE call' = [call EXCEPT ![c] = [pc |-> "load", kind |-> kind, key |-> k, version |-> 0,
                                         raced |-> FALSE, victim |-> k]]
    /\ UNCHANGED <<db, writing, overlaps>>

\* loader().await: it fails, or reads the database at some point.
LoadValue(c) ==
    /\ call[c].pc = "load"
    /\ \/ call' = [call EXCEPT ![c].pc = IF call[c].kind = "on_miss" THEN "callback" ELSE "check",
                               ![c].version = db[call[c].key]]
       \/ call' = [call EXCEPT ![c] = AtRest]
    /\ UNCHANGED <<db, writing, entries, gets, overlaps>>

\* on_miss(&value).await of cache_aside_with_invalidate()
OnMiss(c) ==
    /\ call[c].pc = "callback"
    /\ Step(c, "check")
    /\ UNCHANGED <<db, writing, entries, gets, overlaps>>

\* cache_aside_singleflight() works on a clone of the cache, and cloning a DashMap
\* copies it: what it sets there nobody sees.
SetOnClone(c) ==
    /\ call[c].pc = "check" /\ call[c].kind = "singleflight"
    /\ call' = [call EXCEPT ![c] = AtRest]
    /\ UNCHANGED <<db, writing, entries, gets, overlaps>>

\* From the check in set_with_ttl() to its insert.
Setting == {"contains", "expired", "oldest", "evict", "insert"}

InSet(c) == call[c].pc \in Setting

\* The wrong variant: room is made only when the capacity has been exceeded.
MutantCrowded == Cardinality(DOMAIN entries) > Capacity

Crowded == Cardinality(DOMAIN entries) >= Capacity

\* set_with_ttl(): is the cache full...
CheckLen(c) ==
    /\ call[c].pc = "check" /\ call[c].kind # "singleflight"
    /\ Step(c, IF Crowded THEN "contains" ELSE "insert")
    /\ overlaps' = overlaps + Cardinality({d \in Callers : InSet(d)})
                            + IF call[c].kind = "set" THEN 1 ELSE 0
    /\ UNCHANGED <<db, writing, entries, gets>>

\* ... and the key not in it...
CheckKey(c) ==
    /\ call[c].pc = "contains"
    /\ Step(c, IF call[c].key \in DOMAIN entries THEN "insert" ELSE "expired")
    /\ UNCHANGED <<db, writing, entries, gets, overlaps>>

\* Entries without expiry are never chosen.
Timed == {k \in DOMAIN entries : entries[k].left # NoTtl}

Dead == {k \in Timed : Expired(k)}

Oldest == {k \in Timed : \A j \in Timed : entries[k].left <= entries[j].left}

\* One pass over the map: it finds a victim, or the call goes on without.
Scan(c, S, l) ==
    /\ \/ \E v \in S : call' = [call EXCEPT ![c].pc = "evict", ![c].victim = v]
       \/ S = {} /\ Step(c, l)
    /\ UNCHANGED <<db, writing, entries, gets, overlaps>>

\* ... then look for an expired entry, or else for the one closest to its expiry...
FindExpired(c) == call[c].pc = "expired" /\ Scan(c, Dead, "oldest")

FindOldest(c) == call[c].pc = "oldest" /\ Scan(c, Oldest, "insert")

\* ... remove what is by now under that key...
Evict(c) ==
    /\ call[c].pc = "evict"
    /\ entries' = Without({call[c].victim})
    /\ Step(c, "insert")
    /\ UNCHANGED <<db, writing, gets, overlaps>>

\* ... and insert.
Insert(c) ==
    /\ call[c].pc = "insert"
    /\ entries' = [k \in DOMAIN entries \cup {call[c].key} |->
          IF k # call[c].key THEN entries[k]
          ELSE [version |-> call[c].version, raced |-> call[c].raced,
                left |-> IF call[c].kind = "set" THEN NoTtl ELSE Ttl + 1]]
    /\ call' = [call EXCEPT ![c] = AtRest]
    /\ UNCHANGED <<db, writing, gets, overlaps>>

\* The application changes a row...
Write(k) ==
    /\ k \notin writing /\ db[k] < MaxVersion
    /\ db' = [db EXCEPT ![k] = @ + 1]
    /\ writing' = writing \cup {k}
    /\ call' = [c \in Callers |->
          IF call[c].pc \in {"callback", "check"} \cup Setting /\ call[c].key = k
          THEN [call[c] EXCEPT !.raced = TRUE] ELSE call[c]]
    /\ UNCHANGED <<entries, gets, overlaps>>

\* ... and invalidates its key.
Delete(k) ==
    /\ k \in writing
    /\ entries' = Without({k})
    /\ writing' = writing \ {k}
    /\ UNCHANGED <<db, call, gets, overlaps>>

Clear ==
    /\ entries # <<>>
    /\ entries' = <<>>
    /\ UNCHANGED <<db, writing, call, gets, overlaps>>

CacheTick ==
    /\ \E k \in DOMAIN entries : entries[k].left \in 1..(Ttl + 1)
    /\ entries' = [k \in DOMAIN entries |->
          [entries[k] EXCEPT !.left = IF @ \in 1..(Ttl + 1) THEN @ - 1 ELSE @]]
    /\ UNCHANGED <<db, writing, call, gets, overlaps>>

CacheNext ==
    \/ \E c \in Callers, kind \in Calls, k \in CacheKeys : Get(c, kind, k)
    \/ \E c \in Callers :
          \/ LoadValue(c) \/ OnMiss(c) \/ SetOnClone(c)
          \/ CheckLen(c) \/ CheckKey(c) \/ FindExpired(c) \/ FindOldest(c) \/ Evict(c) \/ Insert(c)
    \/ \E k \in CacheKeys : Write(k) \/ Delete(k)
    \/ Clear \/ CacheTick

CacheSpec == CacheInit /\ [][CacheNext]_cacheVars
------------------------------------------------------------------------------
(***************************************************************************)
(* The cache holds more than its capacity only by as many entries as there *)
(* were calls of set_with_ttl() between whose check and insert another one *)
(* came, or that set a value without expiry, which is never evicted.       *)
(***************************************************************************)
CapacityRespected == Cardinality(DOMAIN entries) <= Capacity + overlaps

(***************************************************************************)
(* Once a write and its delete() are through, the cache holds an old       *)
(* version only if the load that brought it read the database before the   *)
(* write and set its value after: then it stays until the TTL ends.        *)
(***************************************************************************)
StaleOnlyByRace ==
    \A k \in DOMAIN entries \ writing : entries[k].version = db[k] \/ entries[k].raced

\* memcache.rs and aside.rs: neither the capacity nor the data is wrong for any
\* other reason than these races.
CacheAsideSound == CapacityRespected /\ StaleOnlyByRace
=============================================================================
