----------------------------- MODULE RestProofs -----------------------------
(***************************************************************************)
(* Proofs about RestServer: for any requests, any builder scripts, any     *)
(* TTLs and any interleaving, what a request is answered with is sound,    *)
(* and a duplicate within the TTL does not run the handler again.  And     *)
(* about Upload: for any fields and any names, what is saved is allowed,   *)
(* is in the directory, and is there.  And about WsManager: for any        *)
(* clients, a message is given up only after its retries.                  *)
(***************************************************************************)
EXTENDS RestServer, Upload, WsManager, InductionLemmas, SequenceTheorems, TLAPS

-----------------------------------------------------------------------------
(* The invariant *)

Ids(in) ==
    Requests \cup {NoReq} \cup {in[r].rid : r \in Requests} \cup {in[r].trace : r \in Requests}

Tenants(in) == {"none", "default"} \cup {in[r].tenant : r \in Requests}

Contexts(in) == [rid : Ids(in), trace : Ids(in), tenant : Tenants(in), canary : BOOLEAN]

Bodies == {"none", "gate", "own", "hit", "replay", "canonical"}

Responses(in) == [status : Nat, src : Requests \cup {NoReq}, body : Bodies,
                  rid : Ids(in), trace : Ids(in)]

Entries == [status : Nat, src : Requests \cup {NoReq}, since : Nat]

KeyEntries == [status : Nat, since : Nat]

RestTypes ==
    /\ \A p \in DOMAIN layersOf : layersOf[p] \in Seq(Layers)
    /\ now \in Nat /\ now <= MaxTime
    /\ pc \in [Requests -> {"new", "down", "handler", "up", "sent", "gone"}]
    /\ at \in [Requests -> Nat]
    /\ ctx \in [Requests -> Contexts(input)] /\ resp \in [Requests -> Responses(input)]
    /\ \A k \in DOMAIN keys : keys[k] \in KeyEntries
    /\ \A k \in DOMAIN cached : cached[k] \in Entries
    /\ began \in [Requests -> Nat] /\ entered \in [Requests -> Nat]
    /\ earlier \in [Requests -> SUBSET Requests]

\* Where a request is, and which gates are behind it.
PathOf(r) ==
    /\ pc[r] # "new" => input[r].route \in DOMAIN layersOf /\ began[r] <= now
    /\ pc[r] = "down" => at[r] \in 1..(Len(Stack(r)) + 1) /\ Behind(r, at[r] - 1)
    /\ pc[r] = "handler" => at[r] = Len(Stack(r)) + 1 /\ r \in ran
    /\ pc[r] = "up" => at[r] \in 0..Len(Stack(r))
    /\ pc[r] = "sent" => at[r] = 0
    /\ r \in ran => pc[r] \in {"handler", "up", "sent", "gone"} /\ Behind(r, Len(Stack(r)))
    /\ pc[r] \in {"new", "down", "handler"} => resp[r].body = "none"
    /\ pc[r] = "up" => resp[r].body # "none"
    /\ resp[r].body \in {"hit", "replay"} /\ pc[r] = "up" => Behind(r, at[r])

PathInv == \A r \in Requests : PathOf(r)

\* Somebody with key k was answered with status s, and not for a known key.
Witness(k, s) ==
    \E a \in Requests :
        input[a].key = k /\ resp[a].status = s /\ resp[a].body \notin {"none", "replay"}

\* Whose work is in a response.  A 200 that is not work for its own URI has come out of the
\* key store, outside all caches.
WorkOf(r) ==
    /\ resp[r].src # NoReq => resp[r].src \in ran
    /\ resp[r].body = "hit" => /\ resp[r].status = 200 /\ resp[r].src # NoReq
                               /\ CacheKey(input[resp[r].src]) = CacheKey(input[r])
    /\ resp[r].body = "replay" => resp[r].src = NoReq /\ Witness(input[r].key, resp[r].status)
    /\ /\ pc[r] = "up" /\ resp[r].status = 200
       /\ resp[r].src = NoReq \/ CacheKey(input[resp[r].src]) # CacheKey(input[r])
       => \A i \in 1..at[r] : Stack(r)[i] # "cache"

OwnIds(r) ==
    /\ resp[r].rid \in {NoReq, RequestId(r)} /\ resp[r].trace \in {NoReq, TraceId(r)}
    /\ ctx[r].rid \in {NoReq, RequestId(r)} /\ ctx[r].trace \in {NoReq, TraceId(r)}

\* Where what is in the stores has come from.
KeysInv == \A k \in DOMAIN keys : Witness(k, keys[k].status)

CachedInv ==
    \A k \in DOMAIN cached :
        cached[k].status = 200 /\ cached[k].src \in ran /\ CacheKey(input[cached[k].src]) = k

CachesInside ==
    \A p \in DOMAIN layersOf : \A i, j \in 1..Len(layersOf[p]) :
        layersOf[p][i] = "cache" /\ layersOf[p][j] = "idempotency" => j < i

WorkInv ==
    /\ \A r \in Requests : WorkOf(r) /\ OwnIds(r)
    /\ KeysInv /\ CachedInv /\ CachesInside

\* The key of a has been stored since it arrived, unless that is too long ago.
Kept(a) ==
    \/ input[a].key \in DOMAIN keys /\ began[a] <= keys[input[a].key].since
    \/ began[a] + KeyTtl <= now

\* r has passed a layer that looks for its key: on the way up, or down.
Outside(r, n) == \E i \in 1..Len(Stack(r)) : i > n /\ Stack(r)[i] = "idempotency"
Inside(r, n) == \E i \in 1..Len(Stack(r)) : i < n /\ Stack(r)[i] = "idempotency"

SameKey(a, b) == input[a].key # "none" /\ input[a].key = input[b].key /\ Outside(a, 0)

KeptInv ==
    \A a \in ran : pc[a] \in {"up", "sent"} /\ input[a].key # "none" /\ Outside(a, at[a]) => Kept(a)

EarlierInv ==
    \A b \in Requests : earlier[b] # {} => pc[b] # "new" /\ \A a \in earlier[b] : pc[a] = "sent"

\* Behind the layer that looks for its key, b knows that the keys of earlier requests are too old.
TooOldInv ==
    \A b \in Requests : \A a \in earlier[b] \cap ran : SameKey(a, b) =>
        /\ pc[b] = "down" /\ Inside(b, at[b]) => began[a] + KeyTtl <= now
        /\ b \in ran /\ Outside(b, 0) => began[a] + KeyTtl <= entered[b]

DuplicateInv == KeptInv /\ EarlierInv /\ TooOldInv

-----------------------------------------------------------------------------
(* What the pieces of the steps do *)

\* A gate passes a request or refuses it; the stores are no gates.
LEMMA GateKinds ==
    ASSUME NEW l, NEW q
    PROVE  /\ Gate(l, q) \in {0, 400, 401, 413}
           /\ l \in {"idempotency", "cache"} => Gate(l, q) = 0
  BY SMT DEF Gate, SignatureGate, JwtGate, ValidationGate, LimitGate, SchemaGate

\* A layer that passes a request on adds its own ids to the context at most.
LEMMA PassEffect ==
    ASSUME RestTypes, NEW r \in Requests, Pass(r), input' = input
    PROVE  /\ pc' = pc /\ resp' = resp
           /\ at' = [at EXCEPT ![r] = at[r] + 1]
           /\ ctx' \in [Requests -> Contexts(input')]
           /\ \A x \in Requests : x # r => ctx'[x] = ctx[x]
           /\ ctx'[r].rid \in {ctx[r].rid, RequestId(r)}
           /\ ctx'[r].trace \in {ctx[r].trace, TraceId(r)}
  <1>1. PICK c \in Annotate(Layer(r), r) : ctx' = [ctx EXCEPT ![r] = c]
    BY DEF Pass
  <1>2. ctx \in [Requests -> Contexts(input)] /\ ctx[r] \in Contexts(input)
    BY DEF RestTypes
  <1>3. /\ RequestId(r) \in Ids(input) /\ TraceId(r) \in Ids(input)
        /\ extract_tenant(input[r]) \in Tenants(input)
    BY DEF RequestId, TraceId, extract_tenant, Ids, Tenants
  <1>4. is_canary(input[r]) \subseteq BOOLEAN
    BY DEF is_canary
  <1>5. /\ c \in Contexts(input)
        /\ c.rid \in {ctx[r].rid, RequestId(r)}
        /\ c.trace \in {ctx[r].trace, TraceId(r)}
    <2>1. CASE c = [ctx[r] EXCEPT !.rid = RequestId(r)]
      BY <1>2, <1>3, <2>1 DEF Contexts
    <2>2. CASE c = [ctx[r] EXCEPT !.trace = TraceId(r)]
      BY <1>2, <1>3, <2>2 DEF Contexts
    <2>3. CASE c = [ctx[r] EXCEPT !.tenant = extract_tenant(input[r])]
      BY <1>2, <1>3, <2>3 DEF Contexts
    <2>4. CASE \E v \in BOOLEAN : c = [ctx[r] EXCEPT !.canary = v]
      BY <1>2, <2>4 DEF Contexts
    <2>5. CASE c = ctx[r]
      BY <1>2, <2>5
    <2> QED
      BY <1>1, <1>4, <2>1, <2>2, <2>3, <2>4, <2>5 DEF Annotate
  <1> QED
    BY <1>1, <1>2, <1>5 DEF Pass, RestTypes

\* An answer is a new response without ids.
LEMMA AnswerEffect ==
    ASSUME RestTypes, NEW r \in Requests, input' = input,
           NEW s \in Nat, NEW src \in Requests \cup {NoReq}, NEW b \in Bodies,
           Answer(r, s, src, b)
    PROVE  /\ ctx' = ctx /\ pc' = [pc EXCEPT ![r] = "up"]
           /\ at' = [at EXCEPT ![r] = at[r] - 1]
           /\ resp' \in [Requests -> Responses(input')]
           /\ \A x \in Requests : x # r => resp'[x] = resp[x]
           /\ resp'[r].status = s /\ resp'[r].src = src /\ resp'[r].body = b
           /\ resp'[r].rid = NoReq /\ resp'[r].trace = NoReq
  <1> DEFINE p == [NoResp EXCEPT !.status = s, !.src = src, !.body = b]
  <1>1. /\ p \in Responses(input)
        /\ p.status = s /\ p.src = src /\ p.body = b /\ p.rid = NoReq /\ p.trace = NoReq
    BY DEF NoResp, Responses, Ids
  <1>2. resp' = [resp EXCEPT ![r] = p]
    BY DEF Answer
  <1> HIDE DEF p
  <1>3. resp \in [Requests -> Responses(input)]
    BY DEF RestTypes
  <1> QED
    BY <1>1, <1>2, <1>3 DEF Answer

\* On the way up a response keeps its status and whose work it is.
LEMMA UpEffect ==
    ASSUME RestTypes, NEW r \in Requests, Up(r), input' = input
    PROVE  /\ resp' \in [Requests -> Responses(input')]
           /\ \A x \in Requests : x # r => resp'[x] = resp[x]
           /\ resp'[r].status = resp[r].status /\ resp'[r].src = resp[r].src
           /\ resp'[r].body \in {resp[r].body, "canonical"}
           /\ resp'[r].rid \in {NoReq, resp[r].rid, ctx[r].rid}
           /\ resp'[r].trace \in {NoReq, resp[r].trace, ctx[r].trace}
  <1> DEFINE p == CASE Layer(r) = "error" /\ resp[r].status >= 400 -> Canonical(resp[r])
                    [] Layer(r) = "request_id" -> [resp[r] EXCEPT !.rid = ctx[r].rid]
                    [] Layer(r) = "trace" -> [resp[r] EXCEPT !.trace = ctx[r].trace]
                    [] OTHER -> resp[r]
  <1>1. /\ resp \in [Requests -> Responses(input)] /\ resp[r] \in Responses(input)
        /\ ctx[r] \in Contexts(input)
    BY DEF RestTypes
  <1>2. resp' = [resp EXCEPT ![r] = p]
    BY <1>1 DEF Up
  <1>3. /\ p \in Responses(input)
        /\ p.status = resp[r].status /\ p.src = resp[r].src
        /\ p.body \in {resp[r].body, "canonical"}
        /\ p.rid \in {NoReq, resp[r].rid, ctx[r].rid}
        /\ p.trace \in {NoReq, resp[r].trace, ctx[r].trace}
    <2>1. CASE p = Canonical(resp[r])
      <3> HIDE DEF p
      <3> QED  BY <1>1, <2>1 DEF Canonical, NoResp, Responses, Ids, Bodies
    <2>2. CASE p = [resp[r] EXCEPT !.rid = ctx[r].rid]
      <3> HIDE DEF p
      <3> QED  BY <1>1, <2>2 DEF Responses, Contexts
    <2>3. CASE p = [resp[r] EXCEPT !.trace = ctx[r].trace]
      <3> HIDE DEF p
      <3> QED  BY <1>1, <2>3 DEF Responses, Contexts
    <2>4. CASE p = resp[r]
      <3> HIDE DEF p
      <3> QED  BY <1>1, <2>4
    <2> QED
      BY <2>1, <2>2, <2>3, <2>4
  <1> HIDE DEF p
  <1> QED
    BY <1>1, <1>2, <1>3

\* The four things that may happen to a request at a layer on the way down.
LEMMA DownCases ==
    ASSUME RestTypes, PathInv, NEW r \in Requests, Down(r)
    PROVE  \/ /\ \E s \in {400, 401, 413} : Answer(r, s, NoReq, "gate")
              /\ keys' = keys
           \/ /\ Layer(r) = "idempotency" /\ input[r].key # "none"
              /\ input[r].key \in DOMAIN keys
              /\ keys' = [k \in LiveKeys |-> keys[k]]
              /\ Answer(r, keys[input[r].key].status, NoReq, "replay")
           \/ /\ Layer(r) = "cache" /\ CacheKey(input[r]) \in DOMAIN cached
              /\ keys' = keys
              /\ Answer(r, cached[CacheKey(input[r])].status, cached[CacheKey(input[r])].src, "hit")
           \/ /\ Pass(r) /\ Gate(Layer(r), input[r]) = 0
              /\ keys' \in {keys, [k \in LiveKeys |-> keys[k]]}
              /\ Layer(r) = "idempotency" /\ input[r].key # "none" =>
                    input[r].key \notin LiveKeys /\ keys' = [k \in LiveKeys |-> keys[k]]
  <1>1. CASE Gate(Layer(r), input[r]) # 0
    BY <1>1, GateKinds DEF Down
  <1>2. CASE Gate(Layer(r), input[r]) = 0 /\ Layer(r) = "idempotency" /\ input[r].key # "none"
    <2>1. Replay(r)
      BY <1>2 DEF Down
    <2> QED
      BY <1>2, <2>1 DEF Replay, LiveKeys
  <1>3. CASE Gate(Layer(r), input[r]) = 0 /\ Layer(r) = "cache" /\ is_cacheable_request(input[r])
    <2>1. Lookup(r) /\ keys' = keys
      BY <1>3 DEF Down
    <2> QED
      BY <1>3, <2>1 DEF Lookup, Fresh
  <1>4. CASE /\ Gate(Layer(r), input[r]) = 0
             /\ ~(Layer(r) = "idempotency" /\ input[r].key # "none")
             /\ ~(Layer(r) = "cache" /\ is_cacheable_request(input[r]))
    BY <1>4 DEF Down
  <1> QED
    BY <1>1, <1>2, <1>3, <1>4

-----------------------------------------------------------------------------
(* Types *)

LEMMA RestTypesInit ==
    RestInit => RestTypes
  <1> SUFFICES ASSUME RestInit PROVE RestTypes
    OBVIOUS
  <1>1. \A p \in DOMAIN layersOf : layersOf[p] \in Seq(Layers)
    BY SetupAssumption DEF RestInit
  <1>2. NoCtx \in Contexts(input) /\ NoResp \in Responses(input)
    BY DEF NoCtx, NoResp, Contexts, Responses, Ids, Tenants, Bodies
  <1>3. keys = <<>> /\ cached = <<>> /\ DOMAIN keys = {} /\ DOMAIN cached = {}
    BY DEF RestInit
  <1> QED
    BY <1>1, <1>2, <1>3, RestAssumption DEF RestInit, RestTypes, Never

\* A store to which one entry is added holds entries.
LEMMA PutTypes ==
    ASSUME NEW S, NEW f, \A k \in DOMAIN f : f[k] \in S, NEW k, NEW e \in S
    PROVE  \A x \in DOMAIN Put(f, k, e) : Put(f, k, e)[x] \in S
  BY DEF Put

LEMMA RestTypesStep ==
    RestTypes /\ PathInv /\ [RestNext]_restVars => RestTypes'
  <1> SUFFICES ASSUME RestTypes, PathInv, [RestNext]_restVars PROVE RestTypes'
    OBVIOUS
  <1> USE RestAssumption
  <1>1. ASSUME NEW r \in Requests, Arrive(r) PROVE RestTypes'
    BY <1>1 DEF Arrive, rest, RestTypes
  <1>2. ASSUME NEW r \in Requests, Down(r) PROVE RestTypes'
    <2>1. UNCHANGED <<input, layersOf, server, now, healthy, cached, began, entered, earlier>>
      BY <1>2 DEF Down, rest
    <2>2. at[r] \in Nat \ {0} /\ pc[r] = "down"
      BY <1>2 DEF Down, PathInv, PathOf, RestTypes
    <2>3. \A k \in DOMAIN keys' : keys'[k] \in KeyEntries
      <3>1. keys' \in {keys, [k \in LiveKeys |-> keys[k]]}
        BY <1>2, DownCases
      <3> QED
        BY <3>1 DEF RestTypes, LiveKeys
    <2>4. CASE Pass(r)
      <3>1. /\ pc' = pc /\ resp' = resp
            /\ at' = [at EXCEPT ![r] = at[r] + 1]
            /\ ctx' \in [Requests -> Contexts(input')]
        BY <2>1, <2>4, PassEffect
      <3> QED
        BY <2>1, <2>2, <2>3, <3>1 DEF RestTypes
    <2>5. ASSUME NEW s \in Nat, NEW src \in Requests \cup {NoReq}, NEW b \in Bodies, Answer(r, s, src, b)
          PROVE  RestTypes'
      <3>1. /\ ctx' = ctx /\ pc' = [pc EXCEPT ![r] = "up"]
            /\ at' = [at EXCEPT ![r] = at[r] - 1]
            /\ resp' \in [Requests -> Responses(input')]
        BY <2>1, <2>5, AnswerEffect
      <3>2. pc' \in [Requests -> {"new", "down", "handler", "up", "sent", "gone"}] /\ at' \in [Requests -> Nat]
        BY <2>2, <3>1 DEF RestTypes
      <3> QED
        BY <2>1, <2>3, <3>1, <3>2 DEF RestTypes
    <2>6. CASE \E s \in {400, 401, 413} : Answer(r, s, NoReq, "gate")
      BY <2>5, <2>6 DEF Bodies
    <2>7. CASE /\ input[r].key \in DOMAIN keys
               /\ Answer(r, keys[input[r].key].status, NoReq, "replay")
      BY <2>5, <2>7 DEF Bodies, RestTypes, KeyEntries
    <2>8. CASE /\ CacheKey(input[r]) \in DOMAIN cached
               /\ Answer(r, cached[CacheKey(input[r])].status, cached[CacheKey(input[r])].src, "hit")
      BY <2>5, <2>8 DEF Bodies, RestTypes, Entries
    <2> QED
      BY <1>2, DownCases, <2>4, <2>6, <2>7, <2>8
  <1>3. ASSUME NEW r \in Requests, Enter(r) PROVE RestTypes'
    BY <1>3 DEF Enter, rest, RestTypes
  <1>4. ASSUME NEW r \in Requests, Handle(r) PROVE RestTypes'
    <2>1. PICK s \in {200, 500, 503} : Answer(r, s, r, "own")
      BY <1>4 DEF Handle, HealthStatus
    <2>2. /\ ctx' = ctx /\ pc' = [pc EXCEPT ![r] = "up"]
          /\ at' = [at EXCEPT ![r] = at[r] - 1]
          /\ resp' \in [Requests -> Responses(input')]
      BY <1>4, <2>1, AnswerEffect DEF Handle, rest, Bodies
    <2>3. at[r] \in Nat \ {0}
      <3>1. Len(Stack(r)) \in Nat
        BY <1>4 DEF Handle, PathInv, PathOf, RestTypes, Stack
      <3> QED
        BY <1>4, <3>1 DEF Handle, PathInv, PathOf
    <2> QED
      BY <1>4, <2>2, <2>3 DEF Handle, rest, RestTypes
  <1>5. ASSUME NEW r \in Requests, Up(r) PROVE RestTypes'
    <2>1. UNCHANGED <<input, layersOf, server, now, healthy, pc, ctx, began, entered, earlier>>
      BY <1>5 DEF Up, rest
    <2>2. resp' \in [Requests -> Responses(input')]
      BY <1>5, <2>1, UpEffect
    <2>3. at' \in [Requests -> Nat]
      BY <1>5 DEF Up, RestTypes
    <2>4. Entry(resp[r]) \in Entries /\ KeyEntry(resp[r]) \in KeyEntries
      BY DEF RestTypes, Responses, Entry, Entries, KeyEntry, KeyEntries
    <2>5. /\ keys' = keys \/ keys' = Put(keys, input[r].key, KeyEntry(resp[r]))
          /\ cached' = cached \/ cached' = Put(cached, CacheKey(input[r]), Entry(resp[r]))
      BY <1>5 DEF Up, Remember, Store
    <2>6. \A k \in DOMAIN keys' : keys'[k] \in KeyEntries
      BY <2>4, <2>5, PutTypes DEF RestTypes
    <2>7. \A k \in DOMAIN cached' : cached'[k] \in Entries
      BY <2>4, <2>5, PutTypes DEF RestTypes
    <2> QED
      BY <2>1, <2>2, <2>3, <2>6, <2>7 DEF RestTypes
  <1>6. ASSUME NEW r \in Requests, Send(r) PROVE RestTypes'
    BY <1>6 DEF Send, rest, RestTypes
  <1>7. ASSUME NEW r \in Requests, Disconnect(r) PROVE RestTypes'
    <2>1. Entry(resp[r]) \in Entries
      BY DEF RestTypes, Responses, Entry, Entries
    <2>2. cached' = cached \/ cached' = Put(cached, CacheKey(input[r]), Entry(resp[r]))
      BY <1>7 DEF Disconnect, Store
    <2>3. \A k \in DOMAIN cached' : cached'[k] \in Entries
      BY <2>1, <2>2, PutTypes DEF RestTypes
    <2> QED
      BY <1>7, <2>3 DEF Disconnect, rest, RestTypes
  <1>8. CASE Report \/ Signal \/ Drained
    BY <1>8 DEF Report, Signal, Drained, RestTypes
  <1>9. CASE Timer
    BY <1>9 DEF Timer, InFlight, RestTypes
  <1>10. CASE RestTick
    BY <1>10 DEF RestTick, RestTypes
  <1>11. CASE UNCHANGED restVars
    BY <1>11 DEF restVars, rest, RestTypes
  <1> QED
    BY <1>1, <1>2, <1>3, <1>4, <1>5, <1>6, <1>7, <1>8, <1>9, <1>10, <1>11 DEF RestNext

-----------------------------------------------------------------------------
(* The way of a request through its layers *)

\* A stack is a sequence, and stays what it is.
LEMMA Stacks ==
    ASSUME RestTypes, PathInv, NEW r \in Requests, pc[r] # "new"
    PROVE  Stack(r) \in Seq(Layers) /\ Len(Stack(r)) \in Nat
  BY DEF RestTypes, PathInv, PathOf, Stack

\* A step down moves the request one layer in, or turns it round.
LEMMA DownMoves ==
    ASSUME RestTypes, PathInv, NEW r \in Requests, Down(r)
    PROVE  /\ UNCHANGED <<input, layersOf, server, now, healthy, cached, began, entered, earlier>>
           /\ pc[r] = "down" /\ at[r] \in 1..Len(Stack(r))
           /\ \A x \in Requests : x # r => resp'[x] = resp[x]
           /\ \/ /\ Gate(Layer(r), input[r]) = 0 /\ Pass(r)
                 /\ at' = [at EXCEPT ![r] = at[r] + 1] /\ pc' = pc /\ resp' = resp
              \/ /\ at' = [at EXCEPT ![r] = at[r] - 1] /\ pc' = [pc EXCEPT ![r] = "up"]
                 /\ resp'[r].body \in {"gate", "replay", "hit"}
  <1>1. UNCHANGED <<input, layersOf, server, now, healthy, cached, began, entered, earlier>>
    BY DEF Down, rest
  <1>2. pc[r] = "down" /\ at[r] \in 1..Len(Stack(r))
    BY Stacks DEF Down, PathInv, PathOf
  <1>3. CASE Pass(r) /\ Gate(Layer(r), input[r]) = 0
    BY <1>1, <1>2, <1>3, PassEffect
  <1>4. ASSUME NEW s \in Nat, NEW src \in Requests \cup {NoReq}, NEW b \in Bodies, Answer(r, s, src, b)
        PROVE  /\ at' = [at EXCEPT ![r] = at[r] - 1] /\ pc' = [pc EXCEPT ![r] = "up"]
               /\ resp'[r].body = b
               /\ \A x \in Requests : x # r => resp'[x] = resp[x]
    BY <1>1, <1>4, AnswerEffect
  <1>5. CASE \E s \in {400, 401, 413} : Answer(r, s, NoReq, "gate")
    BY <1>1, <1>2, <1>4, <1>5 DEF Bodies
  <1>6. CASE /\ input[r].key \in DOMAIN keys
             /\ Answer(r, keys[input[r].key].status, NoReq, "replay")
    BY <1>1, <1>2, <1>4, <1>6 DEF Bodies, RestTypes, KeyEntries
  <1>7. CASE /\ CacheKey(input[r]) \in DOMAIN cached
             /\ Answer(r, cached[CacheKey(input[r])].status, cached[CacheKey(input[r])].src, "hit")
    BY <1>1, <1>2, <1>4, <1>7 DEF Bodies, RestTypes, Entries
  <1> QED
    BY DownCases, <1>3, <1>5, <1>6, <1>7

\* The handler's answer turns the request round behind the last layer.
LEMMA HandleMoves ==
    ASSUME RestTypes, PathInv, NEW r \in Requests, Handle(r)
    PROVE  /\ UNCHANGED <<input, layersOf, server, now, healthy, keys, cached, began, entered, earlier>>
           /\ pc[r] = "handler" /\ at[r] = Len(Stack(r)) + 1 /\ Len(Stack(r)) \in Nat /\ r \in ran
           /\ at' = [at EXCEPT ![r] = at[r] - 1] /\ pc' = [pc EXCEPT ![r] = "up"]
           /\ ctx' = ctx
           /\ \A x \in Requests : x # r => resp'[x] = resp[x]
           /\ resp'[r].src = r /\ resp'[r].body = "own"
           /\ resp'[r].rid = NoReq /\ resp'[r].trace = NoReq
  <1>1. PICK s \in {200, 500, 503} : Answer(r, s, r, "own")
    BY DEF Handle, HealthStatus
  <1>2. UNCHANGED <<input, layersOf, server, now, healthy, keys, cached, began, entered, earlier>>
    BY DEF Handle, rest
  <1>3. pc[r] = "handler" /\ at[r] = Len(Stack(r)) + 1 /\ Len(Stack(r)) \in Nat /\ r \in ran
    BY Stacks DEF Handle, PathInv, PathOf
  <1>4. s \in Nat /\ "own" \in Bodies /\ input' = input
    BY <1>2 DEF Bodies
  <1>5. /\ ctx' = ctx /\ pc' = [pc EXCEPT ![r] = "up"]
        /\ at' = [at EXCEPT ![r] = at[r] - 1]
        /\ \A x \in Requests : x # r => resp'[x] = resp[x]
        /\ resp'[r].src = r /\ resp'[r].body = "own"
        /\ resp'[r].rid = NoReq /\ resp'[r].trace = NoReq
    BY <1>1, <1>4, AnswerEffect
  <1> QED
    BY <1>2, <1>3, <1>5

\* What a request carries, its layers and, once it has arrived, its past stay.
KeepsPast ==
    /\ input' = input /\ layersOf' = layersOf /\ now <= now'
    /\ \A x \in Requests :
          /\ pc[x] # "new" => pc'[x] # "new" /\ began'[x] = began[x] /\ earlier'[x] = earlier[x]
          /\ pc[x] = "sent" => pc'[x] = "sent" /\ at'[x] = at[x]
          /\ x \in ran => x \in ran' /\ entered'[x] = entered[x]
          /\ x \in ran' /\ x \notin ran => pc[x] = "down"

\* Every step keeps the past.
LEMMA PastKept ==
    ASSUME RestTypes, PathInv, [RestNext]_restVars
    PROVE  KeepsPast
  <1> USE DEF RestTypes, ran, KeepsPast
  <1>1. ASSUME NEW r \in Requests, Arrive(r) PROVE KeepsPast
    BY <1>1 DEF Arrive, rest
  <1>2. ASSUME NEW r \in Requests, Down(r) PROVE KeepsPast
    <2>1. /\ UNCHANGED <<input, layersOf, server, now, healthy, cached, began, entered, earlier>>
          /\ pc[r] = "down"
          /\ \/ at' = [at EXCEPT ![r] = at[r] + 1] /\ pc' = pc
             \/ at' = [at EXCEPT ![r] = at[r] - 1] /\ pc' = [pc EXCEPT ![r] = "up"]
      BY <1>2, DownMoves
    <2> QED
      BY <2>1
  <1>3. ASSUME NEW r \in Requests, Enter(r) PROVE KeepsPast
    <2>1. r \notin ran
      BY <1>3 DEF PathInv, PathOf, Enter
    <2> QED  BY <1>3, <2>1 DEF Enter, rest
  <1>4. ASSUME NEW r \in Requests, Handle(r) PROVE KeepsPast
    BY <1>4, HandleMoves
  <1>5. ASSUME NEW r \in Requests, Up(r) PROVE KeepsPast
    BY <1>5 DEF Up, rest
  <1>6. ASSUME NEW r \in Requests, Send(r) \/ Disconnect(r) PROVE KeepsPast
    BY <1>6 DEF Send, Disconnect, Waits, rest
  <1>7. CASE Report \/ Signal \/ Drained \/ RestTick
    BY <1>7 DEF Report, Signal, Drained, RestTick
  <1>8. CASE Timer
    BY <1>8 DEF Timer, InFlight
  <1>9. CASE UNCHANGED restVars
    BY <1>9 DEF restVars, rest
  <1> QED
    BY <1>1, <1>2, <1>3, <1>4, <1>5, <1>6, <1>7, <1>8, <1>9 DEF RestNext

LEMMA PathInit ==
    RestInit => PathInv
  BY RestAssumption DEF RestInit, PathInv, PathOf, NoResp, ran, Never

\* A request that a step leaves where it was, or ends.
Stays(x) ==
    /\ pc'[x] = pc[x] \/ (pc'[x] = "gone" /\ pc[x] # "new")
    /\ at'[x] = at[x] /\ ctx'[x] = ctx[x] /\ resp'[x] = resp[x]
    /\ entered'[x] = entered[x] /\ began'[x] = began[x] /\ earlier'[x] = earlier[x]

\* A step of one request leaves all others where they were.
LEMMA OthersStay ==
    ASSUME RestTypes, PathInv, NEW r \in Requests, NEW x \in Requests \ {r},
           Arrive(r) \/ Down(r) \/ Enter(r) \/ Handle(r) \/ Up(r) \/ Send(r) \/ Disconnect(r)
    PROVE  Stays(x)
  <1> USE DEF RestTypes
  <1>1. CASE Arrive(r)
    BY <1>1 DEF Stays, Arrive
  <1>2. CASE Down(r)
    <2>1. /\ UNCHANGED <<began, entered, earlier>> /\ input' = input
          /\ \A y \in Requests : y # r => resp'[y] = resp[y]
          /\ \/ at' = [at EXCEPT ![r] = at[r] + 1] /\ pc' = pc
             \/ at' = [at EXCEPT ![r] = at[r] - 1] /\ pc' = [pc EXCEPT ![r] = "up"]
      BY <1>2, DownMoves
    <2>2. ctx'[x] = ctx[x]
      <3>1. CASE Pass(r)
        BY <2>1, <3>1, PassEffect
      <3>2. CASE ctx' = ctx
        BY <3>2
      <3> QED
        BY <1>2, <3>1, <3>2, DownCases DEF Answer
    <2> QED
      BY <2>1, <2>2 DEF Stays
  <1>3. CASE Enter(r)
    BY <1>3 DEF Stays, Enter
  <1>4. CASE Handle(r)
    <2>1. /\ UNCHANGED <<began, entered, earlier, ctx>>
          /\ \A y \in Requests : y # r => resp'[y] = resp[y]
          /\ at' = [at EXCEPT ![r] = at[r] - 1] /\ pc' = [pc EXCEPT ![r] = "up"]
      BY <1>4, HandleMoves
    <2> QED
      BY <2>1 DEF Stays
  <1>5. CASE Up(r)
    <2>1. /\ UNCHANGED <<pc, began, entered, earlier, ctx>> /\ input' = input
          /\ at' = [at EXCEPT ![r] = at[r] - 1]
      BY <1>5 DEF Up, rest
    <2>2. resp'[x] = resp[x]
      BY <1>5, <2>1, UpEffect
    <2> QED
      BY <2>1, <2>2 DEF Stays
  <1>6. CASE Send(r) \/ Disconnect(r)
    BY <1>6 DEF Stays, Send, Disconnect
  <1> QED
    BY <1>1, <1>2, <1>3, <1>4, <1>5, <1>6

\* The steps of the server leave all requests where they are, or end them.
LEMMA AllStay ==
    ASSUME RestTypes, NEW x \in Requests,
           Report \/ Signal \/ Drained \/ Timer \/ RestTick \/ UNCHANGED restVars
    PROVE  Stays(x)
  BY DEF Stays, Report, Signal, Drained, Timer, RestTick, restVars, InFlight, RestTypes

\* A request that stays where it was keeps its part of the invariant.
LEMMA PathOfOthers ==
    ASSUME RestTypes, PathInv, [RestNext]_restVars, NEW x \in Requests, Stays(x)
    PROVE  PathOf(x)'
  <1>1. input' = input /\ layersOf' = layersOf /\ now <= now'
    BY PastKept DEF KeepsPast
  <1>2. now \in Nat /\ began[x] \in Nat /\ now' \in Nat
    BY RestTypesStep DEF RestTypes
  <1> QED
    BY <1>1, <1>2 DEF Stays, PathInv, PathOf, Behind, Stack, ran

LEMMA PathStep ==
    RestTypes /\ PathInv /\ [RestNext]_restVars => PathInv'
  <1> SUFFICES ASSUME RestTypes, PathInv, [RestNext]_restVars, NEW x \in Requests PROVE PathOf(x)'
    BY DEF PathInv
  <1>0. RestTypes'
    BY RestTypesStep
  <1>a. PathOf(x) /\ x \in Requests
    BY DEF PathInv
  <1>1. CASE Arrive(x)
    <2>1. Len(Stack(x)) \in Nat /\ x \notin ran /\ input' = input /\ layersOf' = layersOf
      BY <1>1, <1>a DEF Arrive, RestTypes, Stack, PathOf, rest
    <2>2. /\ pc'[x] = "down" /\ at'[x] = 1 /\ began'[x] = now' /\ entered' = entered
          /\ pc[x] = "new" /\ resp' = resp /\ input[x].route \in DOMAIN layersOf /\ now' \in Nat
      BY <1>1 DEF Arrive, rest, RestTypes
    <2> QED
      BY <1>a, <2>1, <2>2 DEF PathOf, Behind, Stack, ran
  <1>2. CASE Down(x)
    <2>0. /\ UNCHANGED <<input, layersOf, now, began, entered>>
          /\ pc[x] = "down" /\ at[x] \in 1..Len(Stack(x)) /\ Len(Stack(x)) \in Nat
      BY <1>2, DownMoves, Stacks
    <2>1. CASE /\ Gate(Layer(x), input[x]) = 0
               /\ at' = [at EXCEPT ![x] = at[x] + 1] /\ pc' = pc /\ resp' = resp
      <3>1. Behind(x, at[x])
        BY <1>a, <2>0, <2>1 DEF PathOf, Behind, Layer
      <3>2. at'[x] = at[x] + 1 /\ pc'[x] = "down"
        BY <2>0, <2>1 DEF RestTypes
      <3> QED
        BY <1>a, <2>0, <2>1, <3>1, <3>2 DEF PathOf, Behind, Stack, ran
    <2>2. CASE /\ at' = [at EXCEPT ![x] = at[x] - 1] /\ pc' = [pc EXCEPT ![x] = "up"]
               /\ resp'[x].body \in {"gate", "replay", "hit"}
      <3>1. at'[x] = at[x] - 1 /\ pc'[x] = "up"
        BY <2>0, <2>2 DEF RestTypes
      <3> QED
        BY <1>a, <2>0, <2>2, <3>1 DEF PathOf, Behind, Stack, ran
    <2> QED
      BY <1>2, <2>1, <2>2, DownMoves
  <1>3. CASE Enter(x)
    <2>1. Len(Stack(x)) \in Nat /\ pc[x] = "down"
      BY <1>3, Stacks DEF Enter
    <2>2. at[x] = Len(Stack(x)) + 1 /\ Behind(x, Len(Stack(x))) /\ x \notin ran
      BY <1>3, <1>a, <2>1 DEF Enter, PathOf
    <2>3. now # Never
      BY RestAssumption DEF RestTypes, Never
    <2>4. /\ UNCHANGED <<input, layersOf, now, began, at, resp>>
          /\ pc'[x] = "handler" /\ entered'[x] = now
      BY <1>3 DEF Enter, rest, RestTypes
    <2> QED
      BY <1>a, <2>1, <2>2, <2>3, <2>4 DEF PathOf, Behind, Stack, ran
  <1>4. CASE Handle(x)
    <2>1. /\ UNCHANGED <<input, layersOf, now, began, entered>>
          /\ pc[x] = "handler" /\ at[x] = Len(Stack(x)) + 1 /\ Len(Stack(x)) \in Nat /\ x \in ran
          /\ at' = [at EXCEPT ![x] = at[x] - 1] /\ pc' = [pc EXCEPT ![x] = "up"]
          /\ resp'[x].body = "own"
      BY <1>4, HandleMoves
    <2>2. at'[x] = Len(Stack(x)) /\ pc'[x] = "up"
      BY <2>1 DEF RestTypes
    <2> QED
      BY <1>a, <2>1, <2>2 DEF PathOf, Behind, Stack, ran
  <1>5. CASE Up(x)
    <2>1. /\ UNCHANGED <<input, layersOf, now, pc, began, entered>>
          /\ at'[x] = at[x] - 1
      BY <1>5 DEF Up, rest, RestTypes
    <2>2. pc[x] = "up" /\ at[x] \in 1..Len(Stack(x)) /\ Len(Stack(x)) \in Nat
      BY <1>5, <1>a, Stacks DEF Up, PathOf
    <2>3. resp'[x].body \in {resp[x].body, "canonical"}
      BY <1>5, <2>1, UpEffect
    <2> QED
      BY <1>a, <2>1, <2>2, <2>3 DEF PathOf, Behind, Stack, ran
  <1>6. CASE Send(x)
    <2>1. /\ UNCHANGED <<input, layersOf, now, at, resp, began, entered>>
          /\ pc[x] = "up" /\ pc'[x] = "sent" /\ at[x] = 0
      BY <1>6 DEF Send, rest, RestTypes
    <2> QED
      BY <1>a, <2>1 DEF PathOf, Behind, Stack, ran
  <1>7. CASE Disconnect(x)
    <2>1. /\ UNCHANGED <<input, layersOf, now, at, resp, began, entered>>
          /\ pc[x] # "new" /\ pc'[x] = "gone"
      BY <1>7 DEF Disconnect, Waits, rest, RestTypes
    <2> QED
      BY <1>a, <2>1 DEF PathOf, Behind, Stack, ran
  <1>8. CASE Stays(x)
    BY <1>8, PathOfOthers
  <1> QED
    BY <1>1, <1>2, <1>3, <1>4, <1>5, <1>6, <1>7, <1>8, OthersStay, AllStay DEF RestNext

\* Where requests are and whose types hold is an invariant by itself.
PathsInv == RestTypes /\ PathInv

LEMMA PathsInvariance ==
    RestSafety => []PathsInv
  <1>1. RestInit => PathsInv
    BY RestTypesInit, PathInit DEF PathsInv
  <1>2. PathsInv /\ [RestNext]_restVars => PathsInv'
    BY RestTypesStep, PathStep DEF PathsInv
  <1> QED
    BY <1>1, <1>2, PTL DEF RestSafety

-----------------------------------------------------------------------------
(* Duplicates *)

\* The key store forgets what is too old, and stores what comes up with the present time.
LEMMA KeysChange ==
    ASSUME PathsInv, [RestNext]_restVars
    PROVE  \/ keys' = keys
           \/ keys' = [k \in LiveKeys |-> keys[k]] /\ now' = now
           \/ \E r \in Requests : /\ Up(r) /\ now' = now
                                  /\ Layer(r) = "idempotency" /\ input[r].key # "none"
                                  /\ keys' = Put(keys, input[r].key, KeyEntry(resp[r]))
  <1>1. ASSUME NEW r \in Requests, Down(r)
        PROVE  keys' = keys \/ (keys' = [k \in LiveKeys |-> keys[k]] /\ now' = now)
    BY <1>1, DownCases DEF PathsInv, Down, rest
  <1>2. ASSUME NEW r \in Requests, Up(r)
        PROVE  keys' = keys \/ (/\ Layer(r) = "idempotency" /\ input[r].key # "none" /\ now' = now
                                /\ keys' = Put(keys, input[r].key, KeyEntry(resp[r])))
    BY <1>2 DEF Up, Remember, rest
  <1>3. ASSUME NEW r \in Requests, Arrive(r) \/ Enter(r) \/ Handle(r) \/ Send(r) \/ Disconnect(r)
        PROVE  keys' = keys
    BY <1>3 DEF Arrive, Enter, Handle, Send, Disconnect
  <1>4. CASE Report \/ Signal \/ Drained \/ Timer \/ RestTick \/ UNCHANGED restVars
    BY <1>4 DEF Report, Signal, Drained, Timer, RestTick, restVars
  <1> QED
    BY <1>1, <1>2, <1>3, <1>4 DEF RestNext

\* Once stored, a key stays for the TTL after the request arrived.
LEMMA KeptStays ==
    ASSUME PathsInv, PathsInv', [RestNext]_restVars, NEW a \in Requests, pc[a] # "new", Kept(a)
    PROVE  Kept(a)'
  <1>1. /\ input' = input /\ began'[a] = began[a] /\ now <= now'
        /\ now \in Nat /\ now' \in Nat /\ began[a] \in Nat /\ KeyTtl \in Nat /\ began[a] <= now
    BY PastKept, RestAssumption DEF KeepsPast, PathsInv, RestTypes, PathInv, PathOf
  <1>2. CASE began[a] + KeyTtl <= now
    BY <1>1, <1>2 DEF Kept
  <1>3. CASE input[a].key \in DOMAIN keys /\ began[a] <= keys[input[a].key].since
    <2> DEFINE k == input[a].key
    <2>1. keys[k].since \in Nat
      BY <1>3 DEF PathsInv, RestTypes, KeyEntries
    <2>2. CASE keys' = keys
      BY <1>1, <1>3, <2>2 DEF Kept
    <2>3. CASE keys' = [x \in LiveKeys |-> keys[x]] /\ now' = now
      <3>1. CASE k \in LiveKeys
        BY <1>1, <1>3, <2>3, <3>1 DEF Kept
      <3>2. CASE k \notin LiveKeys
        BY <1>1, <1>3, <2>1, <2>3, <3>2 DEF Kept, LiveKeys
      <3> QED  BY <3>1, <3>2
    <2>4. ASSUME NEW r \in Requests, keys' = Put(keys, input[r].key, KeyEntry(resp[r])), now' = now
          PROVE  Kept(a)'
      <3>1. k \in DOMAIN keys' /\ keys'[k].since \in {now, keys[k].since}
        BY <1>3, <2>4 DEF Put, KeyEntry
      <3> QED
        BY <1>1, <1>3, <3>1 DEF Kept
    <2> QED
      BY <2>2, <2>3, <2>4, KeysChange
  <1> QED
    BY <1>2, <1>3 DEF Kept

LEMMA KeptStep ==
    PathsInv /\ PathsInv' /\ KeptInv /\ [RestNext]_restVars => KeptInv'
  <1> SUFFICES ASSUME PathsInv, PathsInv', KeptInv, [RestNext]_restVars,
                      NEW a \in Requests, a \in ran', pc'[a] \in {"up", "sent"},
                      (input[a].key # "none" /\ Outside(a, at[a]))'
               PROVE  Kept(a)'
    BY DEF KeptInv, ran
  <1>0. RestTypes /\ PathInv /\ RestTypes' /\ PathInv'
    BY DEF PathsInv
  <1>1. /\ input' = input /\ layersOf' = layersOf
        /\ Stack(a)' = Stack(a) /\ input[a].key # "none"
    BY <1>0, PastKept DEF KeepsPast, Stack
  <1>2. ASSUME a \in ran, pc[a] \in {"up", "sent"}, Outside(a, at[a]) PROVE Kept(a)'
    <2>1. Kept(a) /\ pc[a] # "new"
      BY <1>1, <1>2 DEF KeptInv
    <2> QED
      BY <2>1, KeptStays
  <1>3. CASE Stays(a)
    BY <1>1, <1>2, <1>3 DEF Stays, ran, Outside
  <1>4. CASE Up(a)
    <2>1. /\ UNCHANGED <<now, pc, began, entered>> /\ at'[a] = at[a] - 1 /\ pc[a] = "up" /\ at[a] \in Nat
      BY <1>0, <1>4 DEF Up, rest, RestTypes
    <2>2. a \in ran
      BY <2>1 DEF ran
    <2>3. CASE Outside(a, at[a])
      BY <1>2, <2>1, <2>2, <2>3
    <2>4. CASE ~Outside(a, at[a])
      <3>1. Len(Stack(a)) \in Nat
        BY <1>0, <2>1, Stacks
      <3>2. PICK i \in 1..Len(Stack(a)) : i > at[a] - 1 /\ Stack(a)[i] = "idempotency"
        BY <1>1, <2>1 DEF Outside
      <3>3. i = at[a]
        BY <2>1, <2>4, <3>1, <3>2 DEF Outside
      <3>4. keys' = Put(keys, input[a].key, KeyEntry(resp[a]))
        BY <1>1, <1>4, <3>2, <3>3 DEF Up, Remember, Layer
      <3>5. input[a].key \in DOMAIN keys' /\ keys'[input[a].key].since = now
        BY <3>4 DEF Put, KeyEntry
      <3>6. began[a] <= now
        BY <1>0, <2>1 DEF PathInv, PathOf
      <3> QED
        BY <1>1, <2>1, <3>5, <3>6 DEF Kept
    <2> QED  BY <2>3, <2>4
  <1>5. CASE Handle(a)
    <2>1. at' = [at EXCEPT ![a] = at[a] - 1] /\ at[a] = Len(Stack(a)) + 1 /\ Len(Stack(a)) \in Nat
      BY <1>0, <1>5, HandleMoves
    <2>2. at'[a] = Len(Stack(a))
      BY <1>0, <2>1 DEF RestTypes
    <2> QED
      BY <1>1, <2>1, <2>2 DEF Outside
  <1>6. CASE Down(a)
    <2>1. pc[a] = "down" /\ entered' = entered
      BY <1>6 DEF Down
    <2> QED
      BY <1>0, <2>1 DEF PathInv, PathOf, ran
  <1>7. CASE Arrive(a) \/ Enter(a) \/ Disconnect(a)
    BY <1>0, <1>7 DEF Arrive, Enter, Disconnect, RestTypes
  <1>8. CASE Send(a)
    <2>1. a \in ran /\ pc[a] = "up" /\ at' = at
      BY <1>8 DEF Send, ran
    <2> QED
      BY <1>1, <1>2, <2>1 DEF Outside
  <1> QED
    BY <1>0, <1>3, <1>4, <1>5, <1>6, <1>7, <1>8, OthersStay, AllStay DEF RestNext

LEMMA EarlierStep ==
    PathsInv /\ EarlierInv /\ [RestNext]_restVars => EarlierInv'
  <1> SUFFICES ASSUME PathsInv, EarlierInv, [RestNext]_restVars, NEW b \in Requests, (earlier[b] # {})'
               PROVE  (pc[b] # "new" /\ \A a \in earlier[b] : pc[a] = "sent")'
    BY DEF EarlierInv
  <1>0. RestTypes /\ PathInv /\ KeepsPast
    BY PastKept DEF PathsInv
  <1>1. CASE Arrive(b)
    BY <1>0, <1>1 DEF Arrive, RestTypes
  <1>2. CASE earlier'[b] = earlier[b]
    BY <1>0, <1>2 DEF EarlierInv, KeepsPast, RestTypes
  <1>3. earlier'[b] = earlier[b] \/ Arrive(b)
    <2>1. ASSUME NEW r \in Requests, Down(r) \/ Enter(r) \/ Handle(r) \/ Up(r) \/ Send(r) \/ Disconnect(r)
          PROVE  earlier' = earlier
      BY <2>1 DEF Down, Enter, Handle, Up, Send, Disconnect
    <2> QED
      BY <1>0, <2>1, OthersStay, AllStay DEF RestNext, Stays
  <1> QED
    BY <1>1, <1>2, <1>3

LEMMA TooOldStep ==
    PathsInv /\ PathsInv' /\ DuplicateInv /\ [RestNext]_restVars => TooOldInv'
  <1> SUFFICES ASSUME PathsInv, PathsInv', DuplicateInv, [RestNext]_restVars,
                      NEW b \in Requests, NEW a \in Requests, a \in earlier'[b], a \in ran',
                      SameKey(a, b)'
               PROVE  (/\ pc[b] = "down" /\ Inside(b, at[b]) => began[a] + KeyTtl <= now
                       /\ b \in ran /\ Outside(b, 0) => began[a] + KeyTtl <= entered[b])'
    BY DEF TooOldInv, ran
  <1> DEFINE G == /\ pc[b] = "down" /\ Inside(b, at[b]) => began[a] + KeyTtl <= now
                  /\ b \in ran /\ Outside(b, 0) => began[a] + KeyTtl <= entered[b]
  <1>0. RestTypes /\ PathInv /\ RestTypes' /\ PathInv' /\ KeepsPast /\ KeptInv /\ EarlierInv /\ TooOldInv
    BY PastKept DEF PathsInv, DuplicateInv
  <1>1. /\ input' = input /\ layersOf' = layersOf
        /\ Stack(a)' = Stack(a) /\ Stack(b)' = Stack(b) /\ SameKey(a, b)
    BY <1>0 DEF KeepsPast, Stack, SameKey, Outside
  <1>2. CASE Arrive(b)
    <2>1. at'[b] = 1 /\ b \notin ran'
      BY <1>0, <1>2 DEF Arrive, RestTypes, PathInv, PathOf, ran
    <2>2. ~Inside(b, 1)
      BY DEF Inside
    <2> QED
      BY <1>1, <2>1, <2>2 DEF Inside
  <1>3. CASE earlier'[b] = earlier[b] /\ pc[b] # "new"
    <2>1. pc[a] = "sent" /\ a \in earlier[b] /\ a \in ran /\ at[a] = 0 /\ began'[a] = began[a]
      BY <1>0, <1>3 DEF EarlierInv, KeepsPast, PathInv, PathOf
    <2>2. G
      BY <1>0, <1>1, <2>1 DEF TooOldInv
    <2>3. /\ now \in Nat /\ now' \in Nat /\ now <= now' /\ began[a] \in Nat /\ KeyTtl \in Nat
          /\ entered[b] \in Nat
      BY <1>0, RestAssumption DEF RestTypes, KeepsPast
    <2>4. CASE Stays(b)
      BY <1>1, <2>1, <2>2, <2>3, <2>4 DEF Stays, Inside, Outside, ran
    <2>5. CASE Down(b)
      <3>1. /\ pc[b] = "down" /\ at[b] \in 1..Len(Stack(b)) /\ now' = now /\ entered' = entered
            /\ Len(Stack(b)) \in Nat
        BY <1>0, <2>5, DownMoves, Stacks
      <3>2. b \notin ran'
        BY <1>0, <3>1 DEF PathInv, PathOf, ran
      <3>3. CASE pc'[b] # "down"
        BY <3>2, <3>3
      <3>4. CASE pc'[b] = "down" /\ ~Inside(b, at[b])
        <4>1. at' = [at EXCEPT ![b] = at[b] + 1] /\ Pass(b)
          <5>1. ~(pc' = [pc EXCEPT ![b] = "up"])
            BY <1>0, <3>4 DEF RestTypes
          <5> QED
            BY <1>0, <2>5, <5>1, DownMoves
        <4>2. at'[b] = at[b] + 1
          BY <1>0, <4>1 DEF RestTypes
        <4>3. ASSUME Inside(b, at[b])'
              PROVE  began[a] + KeyTtl <= now
          <5>1. PICK i \in 1..Len(Stack(b)) : i < at[b] + 1 /\ Stack(b)[i] = "idempotency"
            BY <1>1, <4>2, <4>3 DEF Inside
          <5>2. i = at[b]
            BY <3>1, <3>4, <5>1 DEF Inside
          <5>3. Layer(b) = "idempotency" /\ input[b].key # "none"
            BY <1>1, <5>1, <5>2 DEF Layer, SameKey
          <5>4. input[b].key \notin LiveKeys
            <6>1. \A s, src, body : ~Answer(b, s, src, body)
              BY <1>0, <3>4 DEF Answer, RestTypes
            <6> QED
              BY <1>0, <2>5, <5>3, <6>1, DownCases
          <5>5. Kept(a)
            BY <1>1, <2>1 DEF SameKey, DuplicateInv, KeptInv
          <5>6. CASE input[a].key \in DOMAIN keys /\ began[a] <= keys[input[a].key].since
            <6>1. keys[input[a].key].since \in Nat
              BY <1>0, <5>6 DEF RestTypes, KeyEntries
            <6>2. input[a].key = input[b].key
              BY <1>1 DEF SameKey
            <6> QED
              BY <2>3, <5>4, <5>6, <6>1, <6>2 DEF LiveKeys
          <5> QED
            BY <5>5, <5>6 DEF Kept
        <4> QED
          BY <2>1, <3>1, <3>2, <4>3
      <3>5. CASE Inside(b, at[b])
        BY <2>1, <2>2, <3>1, <3>2, <3>5
      <3> QED
        BY <3>3, <3>4, <3>5
    <2>6. CASE Enter(b)
      <3>1. pc[b] = "down" /\ pc'[b] = "handler" /\ entered'[b] = now /\ Len(Stack(b)) \in Nat /\ at[b] > Len(Stack(b))
        BY <1>0, <2>6, Stacks DEF Enter, RestTypes
      <3>2. Outside(b, 0)' => Inside(b, at[b])
        BY <1>0, <1>1, <3>1 DEF Outside, Inside, RestTypes
      <3> QED
        BY <2>1, <2>2, <3>1, <3>2
    <2>7. CASE Handle(b) \/ Up(b) \/ Send(b) \/ Disconnect(b)
      <3>1. entered' = entered /\ pc'[b] # "down"
        <4>1. CASE Handle(b)
          <5>1. entered' = entered /\ pc' = [pc EXCEPT ![b] = "up"]
            BY <1>0, <4>1, HandleMoves
          <5> QED
            BY <1>0, <5>1 DEF RestTypes
        <4>2. CASE Up(b) \/ Send(b) \/ Disconnect(b)
          BY <1>0, <4>2 DEF Up, Send, Disconnect, RestTypes
        <4> QED
          BY <2>7, <4>1, <4>2
      <3> QED
        BY <1>1, <2>1, <2>2, <3>1 DEF Outside, ran
    <2>8. ~Arrive(b)
      BY <1>3 DEF Arrive
    <2> QED
      BY <1>0, <2>4, <2>5, <2>6, <2>7, <2>8, OthersStay, AllStay DEF RestNext
  <1>4. Arrive(b) \/ (earlier'[b] = earlier[b] /\ pc[b] # "new")
    <2>1. ASSUME NEW r \in Requests, Down(r) \/ Enter(r) \/ Handle(r) \/ Up(r) \/ Send(r) \/ Disconnect(r)
          PROVE  earlier' = earlier
      BY <2>1 DEF Down, Enter, Handle, Up, Send, Disconnect
    <2>2. Arrive(b) \/ earlier'[b] = earlier[b]
      BY <1>0, <2>1, OthersStay, AllStay DEF RestNext, Stays
    <2> QED
      BY <1>0, <2>2 DEF EarlierInv
  <1> QED
    BY <1>2, <1>3, <1>4

(***************************************************************************)
(* A duplicate within the TTL does not run its handler: a request that     *)
(* arrives after the answer to an executed one of its key, behind a layer  *)
(* that looks for keys, is answered from the store.                        *)
(***************************************************************************)
THEOREM DuplicatesTheorem ==
    RestSafety => []DuplicatesReplayed
  <1>1. RestInit => DuplicateInv
    BY RestAssumption DEF RestInit, DuplicateInv, KeptInv, EarlierInv, TooOldInv, ran, Never
  <1>2. PathsInv /\ PathsInv' /\ DuplicateInv /\ [RestNext]_restVars => DuplicateInv'
    BY KeptStep, EarlierStep, TooOldStep DEF DuplicateInv
  <1>3. PathsInv /\ DuplicateInv => DuplicatesReplayed
    <2> SUFFICES ASSUME PathsInv, DuplicateInv, NEW b \in ran, NEW a \in earlier[b] \cap ran,
                        input[a].key # "none", input[a].key = input[b].key,
                        "idempotency" \in Range(Stack(a)), "idempotency" \in Range(Stack(b))
                 PROVE  ~(entered[b] - began[a] < KeyTtl)
      BY DEF DuplicatesReplayed
    <2>0. RestTypes /\ PathInv /\ a \in Requests /\ b \in Requests
      BY DEF PathsInv, ran
    <2>1. pc[a] # "new" /\ pc[b] # "new"
      BY <2>0 DEF PathInv, PathOf
    <2>2. /\ Stack(a) \in Seq(Layers) /\ Len(Stack(a)) \in Nat
          /\ Stack(b) \in Seq(Layers) /\ Len(Stack(b)) \in Nat
      BY <2>0, <2>1, Stacks
    <2>3. Outside(a, 0) /\ Outside(b, 0)
      BY <2>2 DEF Range, Outside
    <2>4. began[a] + KeyTtl <= entered[b]
      BY <2>0, <2>3 DEF DuplicateInv, TooOldInv, SameKey
    <2> QED
      BY <2>0, <2>4, RestAssumption DEF RestTypes
  <1> QED
    BY <1>1, <1>2, <1>3, PathsInvariance, PTL DEF RestSafety

-----------------------------------------------------------------------------
(* Answers *)

\* What somebody was answered he stays answered, whatever is done to the response.
LEMMA WitnessStays ==
    ASSUME PathsInv, [RestNext]_restVars, NEW k, NEW s, Witness(k, s)
    PROVE  \E a \in Requests :
               input'[a].key = k /\ resp'[a].status = s /\ resp'[a].body \notin {"none", "replay"}
  <1>0. RestTypes /\ PathInv /\ input' = input
    BY PastKept DEF PathsInv, KeepsPast
  <1>1. PICK a \in Requests : input[a].key = k /\ resp[a].status = s /\ resp[a].body \notin {"none", "replay"}
    BY DEF Witness
  <1>2. SUFFICES resp'[a].status = resp[a].status /\ resp'[a].body \in {resp[a].body, "canonical"}
    BY <1>0, <1>1
  <1>3. CASE Stays(a)
    BY <1>3 DEF Stays
  <1>4. CASE Up(a)
    BY <1>0, <1>4, UpEffect
  <1>5. pc[a] \notin {"down", "handler"}
    BY <1>0, <1>1 DEF PathInv, PathOf
  <1>6. CASE Down(a) \/ Handle(a)
    BY <1>5, <1>6 DEF Down, Handle
  <1>7. CASE Arrive(a) \/ Enter(a) \/ Send(a) \/ Disconnect(a)
    BY <1>7 DEF Arrive, Enter, Send, Disconnect
  <1> QED
    BY <1>0, <1>3, <1>4, <1>6, <1>7, OthersStay, AllStay DEF RestNext

\* A response that a step leaves as it is, on its way or no longer, keeps its part.
LEMMA WorkOfOthers ==
    ASSUME PathsInv, [RestNext]_restVars, NEW x \in Requests, WorkOf(x),
           resp'[x].status = resp[x].status, resp'[x].src = resp[x].src,
           resp'[x].body \in {resp[x].body, "canonical"},
           pc'[x] = "up" => pc[x] = "up" /\ at'[x] \in Nat /\ at[x] \in Nat /\ at'[x] <= at[x]
    PROVE  WorkOf(x)'
  <1>1. /\ input' = input /\ layersOf' = layersOf
        /\ \A y \in Requests : y \in ran => y \in ran'
    BY PastKept DEF KeepsPast, PathsInv
  <1>2. ran \subseteq Requests
    BY DEF ran
  <1>3. resp[x].body = "replay" => Witness(input[x].key, resp[x].status)'
    <2> SUFFICES ASSUME resp[x].body = "replay"
                 PROVE  Witness(input[x].key, resp[x].status)'
      OBVIOUS
    <2>1. Witness(input[x].key, resp[x].status)
      BY DEF WorkOf
    <2>2. \E a \in Requests : /\ input'[a].key = input[x].key /\ resp'[a].status = resp[x].status
                               /\ resp'[a].body \notin {"none", "replay"}
      BY <2>1, WitnessStays
    <2> QED
      BY <1>1, <2>2 DEF Witness
  <1>4. resp'[x].src # NoReq => resp'[x].src \in ran'
    BY <1>1, <1>2 DEF WorkOf
  <1>5. resp'[x].body = "replay" => resp'[x].src = NoReq /\ Witness(input[x].key, resp[x].status)'
    BY <1>3 DEF WorkOf
  <1>6. resp'[x].body = "hit" => /\ resp'[x].status = 200 /\ resp'[x].src # NoReq
                                 /\ CacheKey(input'[resp'[x].src]) = CacheKey(input'[x])
    BY <1>1 DEF WorkOf
  <1>7. ASSUME pc'[x] = "up", resp'[x].status = 200,
               resp'[x].src = NoReq \/ CacheKey(input'[resp'[x].src]) # CacheKey(input'[x]),
               NEW i \in 1..at'[x]
        PROVE  Stack(x)'[i] # "cache"
    <2>1. i \in 1..at[x] /\ Stack(x)' = Stack(x)
      BY <1>1, <1>7 DEF Stack
    <2>2. pc[x] = "up" /\ resp[x].status = 200
          /\ (resp[x].src = NoReq \/ CacheKey(input[resp[x].src]) # CacheKey(input[x]))
      BY <1>1, <1>7
    <2> QED
      BY <2>1, <2>2 DEF WorkOf
  <1> QED
    BY <1>4, <1>5, <1>6, <1>7 DEF WorkOf

LEMMA WorkStep ==
    PathsInv /\ WorkInv /\ [RestNext]_restVars => WorkInv'
  <1> SUFFICES ASSUME PathsInv, WorkInv, [RestNext]_restVars PROVE WorkInv'
    OBVIOUS
  <1>0. RestTypes /\ PathInv /\ KeepsPast
    BY PastKept DEF PathsInv
  <1>1. /\ input' = input /\ layersOf' = layersOf
        /\ ran \subseteq ran' /\ ran \subseteq Requests
    BY <1>0 DEF KeepsPast, ran
  <1>2. CachesInside'
    BY <1>1 DEF WorkInv, CachesInside
  <1>3. ASSUME NEW x \in Requests PROVE (WorkOf(x) /\ OwnIds(x))'
    <2>0. WorkOf(x) /\ OwnIds(x) /\ KeysInv /\ CachedInv /\ CachesInside
      BY DEF WorkInv
    <2>1. CASE Stays(x)
      <3>1. WorkOf(x)'
        <4>1. /\ resp'[x].status = resp[x].status /\ resp'[x].src = resp[x].src
              /\ resp'[x].body = resp[x].body
              /\ pc'[x] = "up" => pc[x] = "up"
              /\ at'[x] \in Nat /\ at[x] \in Nat /\ at'[x] <= at[x]
          BY <1>0, <2>1 DEF Stays, RestTypes
        <4> QED
          BY <2>0, <4>1, WorkOfOthers
      <3> QED
        BY <1>1, <2>0, <2>1, <3>1 DEF Stays, OwnIds, RequestId, TraceId
    <2>2. CASE Arrive(x) \/ Enter(x) \/ Send(x) \/ Disconnect(x)
      <3>1. resp' = resp /\ ctx' = ctx /\ pc'[x] # "up"
        BY <1>0, <2>2 DEF Arrive, Enter, Send, Disconnect, RestTypes
      <3>2. WorkOf(x)'
        BY <1>0, <2>0, <3>1, WorkOfOthers
      <3> QED
        BY <1>1, <2>0, <3>1, <3>2 DEF OwnIds, RequestId, TraceId
    <2>3. CASE Handle(x)
      <3>1. /\ x \in ran /\ ctx' = ctx
            /\ resp'[x].src = x /\ resp'[x].body = "own" /\ resp'[x].rid = NoReq /\ resp'[x].trace = NoReq
        BY <1>0, <2>3, HandleMoves
      <3>2. x # NoReq
        BY RestAssumption
      <3> QED
        BY <1>1, <2>0, <3>1, <3>2 DEF WorkOf, OwnIds, RequestId, TraceId
    <2>4. CASE Up(x)
      <3>1. /\ resp'[x].status = resp[x].status /\ resp'[x].src = resp[x].src
            /\ resp'[x].body \in {resp[x].body, "canonical"}
            /\ resp'[x].rid \in {NoReq, resp[x].rid, ctx[x].rid}
            /\ resp'[x].trace \in {NoReq, resp[x].trace, ctx[x].trace}
        BY <1>0, <1>1, <2>4, UpEffect
      <3>2. pc' = pc /\ ctx' = ctx /\ at'[x] = at[x] - 1 /\ at[x] \in Nat /\ at[x] > 0
        BY <1>0, <2>4 DEF Up, RestTypes
      <3>3. OwnIds(x)'
        BY <1>1, <2>0, <3>1, <3>2 DEF OwnIds, RequestId, TraceId
      <3>4. at'[x] \in Nat /\ at'[x] <= at[x]
        BY <3>2
      <3>5. WorkOf(x)'
        BY <2>0, <3>1, <3>2, <3>4, WorkOfOthers
      <3> QED  BY <3>3, <3>5
    <2>5. CASE Down(x)
      <3>0. /\ pc[x] = "down" /\ at[x] \in 1..Len(Stack(x)) /\ Len(Stack(x)) \in Nat
            /\ input[x].route \in DOMAIN layersOf
        BY <1>0, <2>5, DownMoves, Stacks DEF PathInv, PathOf
      <3>1. CASE Pass(x)
        <4>1. /\ pc' = pc /\ resp' = resp
              /\ ctx'[x].rid \in {ctx[x].rid, RequestId(x)}
              /\ ctx'[x].trace \in {ctx[x].trace, TraceId(x)}
          BY <1>0, <1>1, <3>1, PassEffect
        <4>2. WorkOf(x)'
          BY <2>0, <3>0, <4>1, WorkOfOthers
        <4> QED
          BY <1>1, <2>0, <4>1, <4>2 DEF OwnIds, RequestId, TraceId
      <3>2. ASSUME NEW s \in Nat, NEW src \in Requests \cup {NoReq}, NEW b \in Bodies, Answer(x, s, src, b)
            PROVE  /\ OwnIds(x)'
                   /\ at'[x] = at[x] - 1
                   /\ resp'[x].status = s /\ resp'[x].src = src /\ resp'[x].body = b
        <4>1. /\ ctx' = ctx /\ at' = [at EXCEPT ![x] = at[x] - 1]
              /\ resp'[x].status = s /\ resp'[x].src = src /\ resp'[x].body = b
              /\ resp'[x].rid = NoReq /\ resp'[x].trace = NoReq
          BY <1>0, <1>1, <3>2, AnswerEffect
        <4> QED
          BY <1>0, <1>1, <2>0, <4>1 DEF RestTypes, OwnIds, RequestId, TraceId
      <3>3. CASE \E s \in {400, 401, 413} : Answer(x, s, NoReq, "gate")
        <4>1. PICK s \in {400, 401, 413} : Answer(x, s, NoReq, "gate")
          BY <3>3
        <4>2. OwnIds(x)' /\ resp'[x].status = s /\ resp'[x].src = NoReq /\ resp'[x].body = "gate"
          BY <4>1, <3>2 DEF Bodies
        <4> QED
          BY <4>2 DEF WorkOf
      <3>4. CASE /\ Layer(x) = "idempotency" /\ input[x].key \in DOMAIN keys
                 /\ Answer(x, keys[input[x].key].status, NoReq, "replay")
        <4> DEFINE e == keys[input[x].key]
        <4>1. e.status \in Nat
          BY <1>0, <3>4 DEF RestTypes, KeyEntries
        <4>2. /\ OwnIds(x)' /\ at'[x] = at[x] - 1
              /\ resp'[x].status = e.status /\ resp'[x].src = NoReq /\ resp'[x].body = "replay"
          BY <3>2, <3>4, <4>1 DEF Bodies
        <4>3. \E a \in Requests : /\ input'[a].key = input[x].key /\ resp'[a].status = e.status
                                   /\ resp'[a].body \notin {"none", "replay"}
          BY <2>0, <3>4, WitnessStays DEF KeysInv
        <4>4. \A i \in 1..(at[x] - 1) : Stack(x)[i] # "cache"
          BY <2>0, <3>0, <3>4 DEF CachesInside, Layer, Stack
        <4>5. Stack(x)' = Stack(x) /\ Witness(input[x].key, resp[x].status)'
          BY <1>1, <4>2, <4>3 DEF Stack, Witness
        <4> HIDE DEF e
        <4> QED
          BY <4>2, <4>4, <4>5 DEF WorkOf
      <3>5. CASE /\ CacheKey(input[x]) \in DOMAIN cached
                 /\ Answer(x, cached[CacheKey(input[x])].status, cached[CacheKey(input[x])].src, "hit")
        <4> DEFINE e == cached[CacheKey(input[x])]
        <4>1. e.status \in Nat /\ e.src \in Requests \cup {NoReq}
          BY <1>0, <3>5 DEF RestTypes, Entries
        <4>2. /\ OwnIds(x)'
              /\ resp'[x].status = e.status /\ resp'[x].src = e.src /\ resp'[x].body = "hit"
          BY <3>2, <3>5, <4>1 DEF Bodies
        <4>3. e.status = 200 /\ e.src \in ran /\ CacheKey(input[e.src]) = CacheKey(input[x])
          BY <2>0, <3>5 DEF CachedInv
        <4>4. e.src # NoReq
          BY <1>1, <4>3, RestAssumption
        <4> HIDE DEF e
        <4> QED
          BY <1>1, <4>2, <4>3, <4>4 DEF WorkOf, CacheKey
      <3> QED
        BY <1>0, <2>5, <3>1, <3>3, <3>4, <3>5, DownCases
    <2> QED
      BY <1>0, <2>1, <2>2, <2>3, <2>4, <2>5, OthersStay, AllStay DEF RestNext
  <1>4. KeysInv'
    <2>0. KeysInv
      BY DEF WorkInv
    <2>1. ASSUME NEW k \in DOMAIN keys', NEW s, Witness(k, s), keys'[k].status = s
          PROVE  Witness(k, keys[k].status)'
      <3>1. \E a \in Requests : /\ input'[a].key = k /\ resp'[a].status = s
                                 /\ resp'[a].body \notin {"none", "replay"}
        BY <2>1, WitnessStays
      <3> QED
        BY <2>1, <3>1 DEF Witness
    <2>2. ASSUME NEW k \in DOMAIN keys' PROVE Witness(k, keys[k].status)'
      <3>1. CASE k \in DOMAIN keys /\ keys'[k] = keys[k]
        BY <2>0, <2>1, <2>2, <3>1 DEF KeysInv
      <3>2. ASSUME NEW r \in Requests, Up(r), k = input[r].key, keys'[k].status = resp[r].status
            PROVE  Witness(k, keys[k].status)'
        <4>1. pc[r] = "up" /\ resp[r].body # "none" /\ WorkOf(r)
          BY <1>0, <3>2 DEF Up, PathInv, PathOf, WorkInv
        <4>2. Witness(k, resp[r].status)
          BY <3>2, <4>1 DEF WorkOf, Witness
        <4> QED
          BY <2>1, <2>2, <3>2, <4>2
      <3>3. CASE keys' = [x \in LiveKeys |-> keys[x]]
        BY <2>2, <3>1, <3>3 DEF LiveKeys
      <3>4. ASSUME NEW r \in Requests, Up(r), keys' = Put(keys, input[r].key, KeyEntry(resp[r]))
            PROVE  Witness(k, keys[k].status)'
        <4>1. \/ k \in DOMAIN keys /\ keys'[k] = keys[k]
              \/ k = input[r].key /\ keys'[k].status = resp[r].status
          BY <2>2, <3>4 DEF Put, KeyEntry
        <4> QED
          BY <3>1, <3>2, <3>4, <4>1
      <3> QED
        BY <2>2, <3>1, <3>3, <3>4, KeysChange
    <2> QED
      BY <2>2 DEF KeysInv
  <1>5. CachedInv'
    <2>0. CachedInv
      BY DEF WorkInv
    <2>1. CASE cached' = cached
      BY <1>1, <2>0, <2>1 DEF CachedInv, CacheKey
    <2>2. ASSUME NEW r \in Requests, pc[r] = "up", at[r] > 0, Layer(r) = "cache", resp[r].status = 200,
                 cached' = Put(cached, CacheKey(input[r]), Entry(resp[r]))
          PROVE  CachedInv'
      <3>1. WorkOf(r)
        BY DEF WorkInv
      <3>2. pc[r] = "up" /\ at[r] \in 1..at[r] /\ Stack(r)[at[r]] = "cache"
        BY <1>0, <2>2 DEF Layer, RestTypes
      <3>3. resp[r].src \in ran /\ CacheKey(input[resp[r].src]) = CacheKey(input[r])
        BY <2>2, <3>1, <3>2 DEF WorkOf
      <3>4. ASSUME NEW k \in DOMAIN cached'
            PROVE  /\ k \in DOMAIN cached \/ k = CacheKey(input[r])
                   /\ k # CacheKey(input[r]) => cached'[k] = cached[k]
                   /\ k = CacheKey(input[r]) => cached'[k].src = resp[r].src /\ cached'[k].status = 200
        <4> DEFINE key == CacheKey(input[r])
        <4> HIDE DEF key
        <4> SUFFICES ASSUME cached' = Put(cached, key, Entry(resp[r]))
                     PROVE  /\ k \in DOMAIN cached \/ k = key
                            /\ k # key => cached'[k] = cached[k]
                            /\ k = key => cached'[k].src = resp[r].src /\ cached'[k].status = 200
          BY <2>2 DEF key
        <4> QED
          BY <2>2, <3>4 DEF Put, Entry
      <3> QED
        BY <1>1, <2>0, <3>3, <3>4 DEF CachedInv
    <2>3. ASSUME NEW r \in Requests, Up(r) \/ Disconnect(r)
          PROVE  cached' = cached \/ (/\ pc[r] = "up" /\ at[r] > 0 /\ Layer(r) = "cache" /\ resp[r].status = 200
                                      /\ cached' = Put(cached, CacheKey(input[r]), Entry(resp[r])))
      BY <2>3 DEF Up, Disconnect, Store, is_cacheable_response
    <2>4. ASSUME NEW r \in Requests, Arrive(r) \/ Down(r) \/ Enter(r) \/ Handle(r) \/ Send(r)
          PROVE  cached' = cached
      BY <2>4 DEF Arrive, Down, Enter, Handle, Send
    <2>5. CASE Report \/ Signal \/ Drained \/ Timer \/ RestTick \/ UNCHANGED restVars
      BY <2>1, <2>5 DEF Report, Signal, Drained, Timer, RestTick, restVars
    <2> QED
      BY <2>1, <2>2, <2>3, <2>4, <2>5 DEF RestNext
  <1> QED
    BY <1>2, <1>3, <1>4, <1>5 DEF WorkInv

(***************************************************************************)
(* Whoever is answered may be, and with what is his: from the cache the    *)
(* 200 and the work of a handler for his method and URI, for a known key   *)
(* the status that somebody with the key was answered and no work of any   *)
(* handler, and never the ids of another request.  For all routers that    *)
(* look for keys outside their caches.                                     *)
(***************************************************************************)
THEOREM AnswersTheorem ==
    ASSUME KeysOutsideCaches
    PROVE  RestSafety => []AnswersAreSound
  <1>1. RestInit => WorkInv
    <2> SUFFICES ASSUME RestInit PROVE WorkInv
      OBVIOUS
    <2>1. CachesInside
      BY KeysOutsideCaches DEF RestInit, CachesInside, KeysOutsideCaches
    <2>2. keys = <<>> /\ cached = <<>> /\ DOMAIN keys = {} /\ DOMAIN cached = {}
      BY DEF RestInit
    <2>3. \A r \in Requests : WorkOf(r) /\ OwnIds(r)
      BY DEF RestInit, WorkOf, OwnIds, NoResp, NoCtx
    <2> QED
      BY <2>1, <2>2, <2>3 DEF WorkInv, KeysInv, CachedInv
  <1>2. PathsInv /\ WorkInv /\ [RestNext]_restVars => WorkInv'
    BY WorkStep
  <1>3. PathsInv /\ WorkInv => AnswersAreSound
    BY DEF PathsInv, PathInv, PathOf, WorkInv, WorkOf, OwnIds, Witness, AnswersAreSound
  <1> QED
    BY <1>1, <1>2, <1>3, PathsInvariance, PTL DEF RestSafety

-----------------------------------------------------------------------------
(* Uploads: the invariant *)

DiskChars == NameChars \cup Uploaders \cup {"upload"}
Names == Seq(DiskChars)
Pieces == Uploaders \X Nat

UploadTypeOK ==
    /\ upConfig \in UpConfigs /\ form \in [Uploaders -> Forms]
    /\ upPc \in [Uploaders -> {"next", "read", "write", "done"}]
    /\ upField \in [Uploaders -> Nat] /\ upData \in [Uploaders -> Nat]
    /\ upAnswer \in [Uploaders -> {"none", "ok", "400", "413", "415", "500"}]
    /\ saved \in [Uploaders -> SUBSET (Names \X Nat)]
    /\ disk \in [DOMAIN disk -> Seq(Pieces)]
    /\ opened \subseteq Names \X Uploaders \X Nat

\* The name is a file's of the directory.
Flat(name) ==
    /\ name \notin {<<>>, <<".">>, <<".", ".">>}
    /\ \A i \in DOMAIN name : name[i] # "/"

\* Only the upload of field n of r has opened the file.
OpenedOnlyBy(name, r, n) == \A o \in opened : o[1] = name => o = <<name, r, n>>

\* What is being read or written is an allowed file, and no longer than allowed.
ReadInv ==
    \A r \in Uploaders : upPc[r] \in {"read", "write"} =>
        /\ upField[r] \in DOMAIN form[r] /\ Part(r).name # NoName
        /\ ~Refused(Part(r)) /\ upData[r] <= upConfig.max_size

\* What is being written has all been read, into a file that holds nothing unless
\* another upload has opened it too.
WriteInv ==
    \A r \in Uploaders : upPc[r] = "write" =>
        /\ upData[r] = Part(r).size
        /\ SafeName(r) \in DOMAIN disk /\ <<SafeName(r), r, upField[r]>> \in opened
        /\ OpenedOnlyBy(SafeName(r), r, upField[r]) => disk[SafeName(r)] = <<>>

\* What is saved is of an earlier field, and its file has been opened.
SavedInv ==
    \A r \in Uploaders : \A s \in saved[r] :
        /\ s[1] \in DOMAIN disk /\ <<s[1], r, s[2]>> \in opened
        /\ s[2] <= upField[r] /\ (upPc[r] \in {"read", "write"} => s[2] < upField[r])

\* The files of the directory.
DiskInv ==
    \A name \in DOMAIN disk :
        /\ Flat(name) /\ Len(disk[name]) <= upConfig.max_size
        /\ \A i \in DOMAIN disk[name] : ~Refused(form[disk[name][i][1]][disk[name][i][2]])

UploadInv == /\ UploadTypeOK /\ ReadInv /\ WriteInv /\ SavedInv /\ DiskInv /\ SavedIsThere

-----------------------------------------------------------------------------
(* Uploads: the names *)

\* The names without two dots side by side.
Apart == {s \in Seq(NameChars) : \A i \in 1 .. Len(s) - 1 : ~(s[i] = "." /\ s[i + 1] = ".")}

LEMMA AddCharApart ==
    ASSUME NEW d \in Apart, NEW c \in NameChars
    PROVE  AddChar(d, c) \in Apart
<1>1. /\ d \in Seq(NameChars) /\ Len(d) \in Nat
      /\ \A i \in 1 .. Len(d) - 1 : ~(d[i] = "." /\ d[i + 1] = ".")
  BY DEF Apart
<1>2. CASE c = "." /\ d # <<>> /\ d[Len(d)] = "."
  <2> DEFINE e == [d EXCEPT ![Len(d)] = "_"]
  <2> DEFINE bar == "_"
  <2>a. bar \in NameChars
    BY UploadAssumption, Zenon
  <2>1. Len(d) \in 1 .. Len(d)
    <3>1. Len(d) # 0
      BY <1>1, <1>2, EmptySeq
    <3> QED BY <1>1, <3>1
  <2>2. e \in Seq(NameChars) /\ Len(e) = Len(d) /\ \A i \in 1 .. Len(d) : e[i] = IF i = Len(d) THEN "_" ELSE d[i]
    <3> HIDE DEF bar
    <3>1. [d EXCEPT ![Len(d)] = bar] \in Seq(NameChars) /\ Len([d EXCEPT ![Len(d)] = bar]) = Len(d)
          /\ \A i \in 1 .. Len(d) : [d EXCEPT ![Len(d)] = bar][i] = IF i = Len(d) THEN bar ELSE d[i]
      BY <1>1, <2>a, <2>1, ExceptSeq
    <3> QED BY <3>1, Zenon DEF bar
  <2>3. AddChar(d, c) = e
    BY <1>2 DEF AddChar
  <2> HIDE DEF e
  <2>4. \A i \in 1 .. Len(e) - 1 : ~(e[i] = "." /\ e[i + 1] = ".")
    <3>1. \A i \in 1 .. Len(d) - 1 : i \in 1 .. Len(d) /\ i + 1 \in 1 .. Len(d)
      BY <1>1
    <3>2. \A i \in 1 .. Len(d) : e[i] = "." => d[i] = "."
      BY <2>2
    <3> QED BY <1>1, <2>2, <3>1, <3>2
  <2> QED BY <2>2, <2>3, <2>4 DEF Apart
<1>3. CASE ~(c = "." /\ d # <<>> /\ d[Len(d)] = ".")
  <2> DEFINE e == Append(d, c)
  <2>1. /\ e \in Seq(NameChars) /\ Len(e) = Len(d) + 1
        /\ \A i \in 1 .. Len(d) : e[i] = d[i]
        /\ e[Len(d) + 1] = c
    BY <1>1
  <2>2. AddChar(d, c) = e
    BY <1>3 DEF AddChar
  <2> HIDE DEF e
  <2>3. ASSUME NEW i \in 1 .. Len(e) - 1, e[i] = ".", e[i + 1] = "." PROVE FALSE
    <3>1. i \in 1 .. Len(d) /\ e[i] = d[i]
      BY <1>1, <2>1
    <3>2. CASE i = Len(d)
      <4>1. e[i + 1] = c
        BY <2>1, <3>2
      <4>2. d # <<>>
        BY <3>1
      <4> QED BY <1>3, <2>3, <3>1, <3>2, <4>1, <4>2
    <3>3. CASE i # Len(d)
      <4>1. i \in 1 .. Len(d) - 1 /\ i + 1 \in 1 .. Len(d)
        BY <1>1, <3>1, <3>3
      <4>2. e[i + 1] = d[i + 1]
        BY <2>1, <4>1
      <4> QED BY <1>1, <2>3, <3>1, <4>1, <4>2
    <3> QED BY <3>2, <3>3
  <2> QED BY <2>1, <2>2, <2>3 DEF Apart
<1> QED BY <1>2, <1>3

\* replace("..", "_") leaves no two dots side by side.
LEMMA NoDotsLeft ==
    ASSUME NEW name \in Seq(NameChars)
    PROVE  NoDots(name) \in Apart
<1> DEFINE step == [p \in Apart \X NameChars |-> AddChar(p[1], p[2])]
           Def(f) == f = [n \in 0 .. Len(name) |-> IF n = 0 THEN <<>> ELSE AddChar(f[n - 1], name[n])]
           done == CHOOSE f : Def(f)
<1>1. Len(name) \in Nat /\ \A n \in 1 .. Len(name) : name[n] \in NameChars
  OBVIOUS
<1>2. NoDots(name) = done[Len(name)]
  BY DEF NoDots
<1>3. <<>> \in Apart
  BY DEF Apart
<1>4. PICK g \in [0 .. Len(name) -> Apart] : Def(g)
  <2>1. step \in [Apart \X NameChars -> Apart]
    BY AddCharApart
  <2>2. PICK g \in [0 .. Len(name) -> Apart] : IsFold(g, <<>>, step, name)
    <3> HIDE DEF step
    <3> QED BY <1>3, <2>1, FoldExists
  <2>3. ASSUME NEW n \in 0 .. Len(name), n # 0
        PROVE  step[<<g[n - 1], name[n]>>] = AddChar(g[n - 1], name[n])
    <3>1. g[n - 1] \in Apart /\ name[n] \in NameChars
      BY <1>1, <2>3
    <3> QED BY <3>1
  <2>4. Def(g)
    <3> HIDE DEF step
    <3> QED BY <2>2, <2>3 DEF IsFold
  <2> QED BY <2>4
<1>5. Def(done)
  <2> HIDE DEF Def
  <2> QED BY <1>4
<1> HIDE DEF done
<1> DEFINE G == {n \in 0 .. Len(name) : done[n] \in Apart}
<1>6. 0 \in G
  <2>1. done[0] = <<>>
    BY <1>1, <1>5
  <2> QED BY <1>1, <1>3, <2>1
<1>7. ASSUME NEW n \in 0 .. Len(name) - 1, n \in G PROVE n + 1 \in G
  <2>1. n + 1 \in 0 .. Len(name) /\ n + 1 # 0 /\ n + 1 \in 1 .. Len(name) /\ (n + 1) - 1 = n
    BY <1>1
  <2>2. done[n + 1] = AddChar(done[n], name[n + 1])
    BY <1>5, <2>1
  <2>3. AddChar(done[n], name[n + 1]) \in Apart
    BY <1>1, <1>7, <2>1, AddCharApart
  <2> QED BY <2>1, <2>2, <2>3
<1>8. 0 .. Len(name) \subseteq G
  <2> HIDE DEF G
  <2> QED BY <1>1, <1>6, <1>7, UpTo
<1>9. Len(name) \in 0 .. Len(name)
  BY <1>1
<1> QED BY <1>2, <1>8, <1>9

\* Whatever the name of a field, what it is saved under is a name of Names, has no
\* separator, and is empty or ".." never.
LEMMA CleanName ==
    ASSUME NEW name \in Seq(NameChars), NEW fresh \in Names, fresh # <<>>, fresh[1] # ".",
           \A i \in DOMAIN fresh : fresh[i] # "/",
           sanitize_filename(name, fresh) # <<".">>
    PROVE  sanitize_filename(name, fresh) \in Names /\ Flat(sanitize_filename(name, fresh))
<1> DEFINE dots == NoDots(name)
           clean == NoSeparators(dots)
<1>1. /\ dots \in Seq(NameChars) /\ Len(dots) \in Nat
      /\ \A i \in 1 .. Len(dots) - 1 : ~(dots[i] = "." /\ dots[i + 1] = ".")
  BY NoDotsLeft DEF Apart
<1> HIDE DEF dots
<1>2. /\ clean \in Seq(NameChars) /\ Len(clean) = Len(dots)
      /\ \A i \in 1 .. Len(dots) : clean[i] = IF dots[i] = "/" THEN "_" ELSE dots[i]
  <2> DEFINE bar == "_"
             c == [i \in DOMAIN dots |-> IF dots[i] = "/" THEN bar ELSE dots[i]]
  <2>1. bar \in NameChars
    BY UploadAssumption, Zenon
  <2>2. clean = c
    BY Zenon DEF NoSeparators
  <2> HIDE DEF clean, bar
  <2>3. \A i \in 1 .. Len(dots) : c[i] \in NameChars
    BY <1>1, <2>1
  <2>4. DOMAIN dots = 1 .. Len(dots)
    BY <1>1
  <2>5. c \in Seq(NameChars) /\ Len(c) = Len(dots)
    <3>1. c \in [1 .. Len(dots) -> NameChars]
      BY <2>3, <2>4
    <3> HIDE DEF c
    <3> QED BY <1>1, <3>1
  <2>6. \A i \in 1 .. Len(dots) : c[i] = IF dots[i] = "/" THEN bar ELSE dots[i]
    BY <2>4
  <2> HIDE DEF c
  <2> QED BY <2>2, <2>5, <2>6, Zenon DEF bar
<1> HIDE DEF clean
<1>3. clean \in Names
  <2>1. NameChars \subseteq DiskChars
    BY DEF DiskChars
  <2>2. clean \in Seq(NameChars)
    BY <1>2
  <2>3. clean \in [1 .. Len(clean) -> DiskChars] /\ Len(clean) \in Nat
    BY <2>1, <2>2
  <2> QED BY <2>3 DEF Names
<1>4. sanitize_filename(name, fresh) = IF \A i \in DOMAIN clean : clean[i] = "_" THEN fresh ELSE clean
  BY DEF sanitize_filename, clean, dots
<1>5. CASE \A i \in DOMAIN clean : clean[i] = "_"
  <2>1. <<".">>[1] = "." /\ <<".", ".">>[1] = "."
    OBVIOUS
  <2>2. fresh # <<".">> /\ fresh # <<".", ".">>
    BY <2>1, Zenon
  <2> QED BY <1>4, <1>5, <2>2 DEF Flat
<1>6. CASE ~(\A i \in DOMAIN clean : clean[i] = "_")
  <2>1. clean # <<>>
    <3>1. DOMAIN <<>> = {}
      OBVIOUS
    <3> QED BY <1>6, <3>1, Zenon
  <2>2. clean # <<".", ".">>
    <3> SUFFICES ASSUME clean = <<".", ".">> PROVE FALSE
      OBVIOUS
    <3>1. Len(dots) = 2 /\ clean[1] = "." /\ clean[2] = "."
      <4>1. Len(<<".", ".">>) = 2 /\ <<".", ".">>[1] = "." /\ <<".", ".">>[2] = "."
        OBVIOUS
      <4> QED BY <1>2, <4>1, Zenon
    <3>2. dots[1] = "." /\ dots[2] = "."
      BY <1>2, <3>1
    <3> QED BY <1>1, <3>1, <3>2
  <2>3. \A i \in DOMAIN clean : clean[i] # "/"
    <3>1. DOMAIN clean = 1 .. Len(dots)
      <4>1. clean \in Seq(NameChars) /\ Len(clean) = Len(dots)
        BY <1>2
      <4> QED BY <4>1
    <3>2. "_" # "/"
      OBVIOUS
    <3> QED BY <1>2, <3>1, <3>2, Zenon
  <2> QED BY <1>3, <1>4, <1>6, <2>1, <2>2, <2>3 DEF Flat
<1> QED BY <1>5, <1>6

\* The same of the field a request is at.
LEMMA SafeNameFlat ==
    ASSUME UploadTypeOK, ReadInv, NEW r \in Uploaders, upPc[r] \in {"read", "write"}, SafeName(r) # <<".">>
    PROVE  SafeName(r) \in Names /\ Flat(SafeName(r))
<1>1. Part(r).name \in Seq(NameChars)
  BY UploadAssumption DEF UploadTypeOK, ReadInv, Part
<1> DEFINE tail == [i \in 1 .. upField[r] |-> r]
<1>2. upField[r] \in Nat
  BY DEF UploadTypeOK
<1>3. tail \in Seq(DiskChars) /\ <<"upload">> \in Seq(DiskChars) /\ Len(tail) = upField[r]
  BY <1>2 DEF DiskChars
<1>4. Generated(r) = <<"upload">> \o tail
  BY DEF Generated
<1> HIDE DEF tail
<1>5. Generated(r) \in Names /\ Len(Generated(r)) = upField[r] + 1
  BY <1>2, <1>3, <1>4 DEF Names
<1>6. Generated(r)[1] = "upload" /\ \A i \in 2 .. upField[r] + 1 : Generated(r)[i] = r
  <2>1. Generated(r)[1] = "upload"
    BY <1>2, <1>3, <1>4
  <2>2. ASSUME NEW i \in 2 .. upField[r] + 1 PROVE Generated(r)[i] = r
    <3>1. Generated(r)[i] = tail[i - 1]
      BY <1>2, <1>3, <1>4
    <3> QED BY <1>2, <3>1 DEF tail
  <2> QED BY <2>1, <2>2
<1>7. \A i \in DOMAIN Generated(r) : Generated(r)[i] # "/"
  <2>1. DOMAIN Generated(r) = 1 .. upField[r] + 1
    BY <1>2, <1>5 DEF Names
  <2>2. r # "/" /\ "upload" # "/"
    BY UploadAssumption
  <2>3. \A i \in 1 .. upField[r] + 1 : i = 1 \/ i \in 2 .. upField[r] + 1
    BY <1>2
  <2> QED BY <1>6, <2>1, <2>2, <2>3, Zenon
<1>8. Generated(r) # <<>> /\ Generated(r)[1] # "."
  BY <1>2, <1>5, <1>6
<1> QED BY <1>1, <1>5, <1>7, <1>8, CleanName DEF SafeName

-----------------------------------------------------------------------------
(* Uploads: the steps *)

LEMMA MaxOfTwo ==
    ASSUME NEW a \in Nat, NEW b \in Nat
    PROVE  Max({a, b}) = IF a >= b THEN a ELSE b
<1> DEFINE m == IF a >= b THEN a ELSE b
<1>1. m \in {a, b} /\ \A y \in {a, b} : m >= y
  OBVIOUS
<1>2. \A x \in {a, b} : (\A y \in {a, b} : x >= y) => x = m
  OBVIOUS
<1> QED BY <1>1, <1>2 DEF Max

LEMMA MinIsIn ==
    ASSUME NEW S \in SUBSET Nat, S # {}
    PROVE  Min(S) \in S
<1>1. \E n \in S : \A m \in S : n <= m
  BY LeastNat
<1> QED BY <1>1 DEF Min

\* What writing n pieces over a file leaves in it.
LEMMA OverWrites ==
    ASSUME UploadTypeOK, NEW r \in Uploaders, NEW old \in Seq(Pieces), NEW n \in Nat
    PROVE  /\ Over(old, r, n) \in Seq(Pieces)
           /\ Len(Over(old, r, n)) = IF Len(old) >= n THEN Len(old) ELSE n
           /\ \A i \in 1 .. Len(Over(old, r, n)) :
                 IF i <= n THEN Over(old, r, n)[i] = <<r, upField[r]>>
                           ELSE i \in 1 .. Len(old) /\ Over(old, r, n)[i] = old[i]
<1>1. Len(old) \in Nat /\ upField[r] \in Nat
  BY DEF UploadTypeOK
<1> DEFINE L == IF Len(old) >= n THEN Len(old) ELSE n
           p == <<r, upField[r]>>
           c == [i \in 1 .. L |-> IF i <= n THEN p ELSE old[i]]
<1>2. p \in Pieces
  BY <1>1 DEF Pieces
<1>3. Over(old, r, n) = c
  BY <1>1, MaxOfTwo DEF Over
<1> HIDE DEF p
<1>4. L \in Nat /\ \A i \in 1 .. L : ~(i <= n) => i \in 1 .. Len(old)
  BY <1>1
<1> HIDE DEF L
<1>5. \A i \in 1 .. L : c[i] \in Pieces
  BY <1>1, <1>2, <1>4
<1>6. c \in Seq(Pieces) /\ Len(c) = L
  <2>1. c \in [1 .. L -> Pieces]
    BY <1>5
  <2> HIDE DEF c
  <2> QED BY <1>4, <2>1
<1>7. \A i \in 1 .. L : IF i <= n THEN c[i] = p ELSE i \in 1 .. Len(old) /\ c[i] = old[i]
  BY <1>4
<1> QED BY <1>3, <1>6, <1>7 DEF L, p

\* A request whose field does not change reads and writes the same.
LEMMA SameField ==
    ASSUME UNCHANGED <<upConfig, form>>, NEW s \in Uploaders, upField'[s] = upField[s]
    PROVE  /\ Part(s)' = Part(s) /\ SafeName(s)' = SafeName(s)
           /\ Refused(Part(s))' <=> Refused(Part(s))
<1>1. Part(s)' = Part(s)
  BY DEF Part
<1>2. Generated(s)' = Generated(s)
  BY DEF Generated
<1>3. SafeName(s)' = SafeName(s)
  BY <1>1, <1>2 DEF SafeName
<1> QED BY <1>1, <1>3 DEF Refused

LEMMA SameRefused ==
    ASSUME UNCHANGED <<upConfig, form>>
    PROVE  \A a, b : Refused(form[a][b])' <=> Refused(form[a][b])
BY DEF Refused

LEMMA FileAllowed ==
    ASSUME UNCHANGED <<upConfig, form>>, NEW n, NEW file, disk'[n] = file,
           \A i \in DOMAIN file : ~Refused(form[file[i][1]][file[i][2]])
    PROVE  \A i \in DOMAIN disk'[n] : ~Refused(form[disk[n][i][1]][disk[n][i][2]])'
<1> TAKE i \in DOMAIN disk'[n]
<1>1. ~Refused(form[file[i][1]][file[i][2]])
  OBVIOUS
<1>2. (form[disk[n][i][1]][disk[n][i][2]])' = form[file[i][1]][file[i][2]]
  OBVIOUS
<1> QED BY <1>1, <1>2 DEF Refused

\* Nothing is said anew about files that are not written.
LEMMA SameFiles ==
    ASSUME UploadInv, UNCHANGED <<upConfig, form, saved, disk, opened>>
    PROVE  DiskInv' /\ SavedIsThere'
<1>1. DiskInv'
  BY SameRefused DEF UploadInv, DiskInv, Flat
<1>2. SavedIsThere'
  BY DEF UploadInv, SavedIsThere
<1> QED BY <1>1, <1>2

LEMMA UploadInvInit == UploadInit => UploadInv
<1> SUFFICES ASSUME UploadInit PROVE UploadInv
  OBVIOUS
<1>1. DOMAIN disk = {} /\ disk \in [DOMAIN disk -> Seq(Pieces)]
  <2>1. DOMAIN <<>> = {} /\ <<>> \in [{} -> Seq(Pieces)]
    OBVIOUS
  <2> QED BY <2>1 DEF UploadInit
<1>2. UploadTypeOK
  BY <1>1 DEF UploadInit, UploadTypeOK
<1>3. ReadInv /\ WriteInv /\ SavedInv /\ SavedIsThere
  BY DEF UploadInit, ReadInv, WriteInv, SavedInv, SavedIsThere
<1>4. DiskInv
  BY <1>1 DEF DiskInv
<1> QED BY <1>2, <1>3, <1>4 DEF UploadInv

LEMMA NextFieldKeeps ==
    ASSUME UploadInv, NEW r \in Uploaders, NextField(r)
    PROVE  UploadInv'
<1> DEFINE files == {n \in DOMAIN form[r] : n > upField[r] /\ form[r][n].name # NoName}
<1>1. /\ upPc[r] = "next" /\ UNCHANGED <<upConfig, form, saved, disk, opened>>
      /\ UploadTypeOK /\ ReadInv /\ WriteInv /\ SavedInv
  BY DEF NextField, UploadInv
<1>2. DiskInv' /\ SavedIsThere'
  BY <1>1, SameFiles
<1>3. ASSUME NEW a \in {"ok", "400"}, Fails(r, a), UNCHANGED <<upField, upData>> PROVE UploadInv'
  <2>1. /\ upPc' = [upPc EXCEPT ![r] = "done"] /\ upAnswer' = [upAnswer EXCEPT ![r] = a]
    BY <1>3 DEF Fails, UpGoto
  <2>2. \A s \in Uploaders : /\ Part(s)' = Part(s) /\ SafeName(s)' = SafeName(s)
                             /\ Refused(Part(s))' <=> Refused(Part(s))
                             /\ upPc'[s] \in {"read", "write"} => upPc'[s] = upPc[s]
    BY <1>1, <1>3, <2>1, SameField DEF UploadTypeOK
  <2>3. UploadTypeOK'
    BY <1>1, <1>3, <2>1 DEF UploadTypeOK
  <2>4. ReadInv' /\ WriteInv' /\ SavedInv'
    <3>1. ReadInv'
      BY <1>1, <1>3, <2>2 DEF ReadInv
    <3>2. WriteInv'
      BY <1>1, <1>3, <2>2 DEF WriteInv, OpenedOnlyBy
    <3>3. SavedInv'
      BY <1>1, <1>3, <2>2 DEF SavedInv
    <3> QED BY <3>1, <3>2, <3>3
  <2> QED BY <1>2, <2>3, <2>4 DEF UploadInv
<1>4. ASSUME files # {}, upField' = [upField EXCEPT ![r] = Min(files)], upData' = [upData EXCEPT ![r] = 0],
             IF Refused(form[r][Min(files)]) THEN Fails(r, "415") ELSE UpGoto(r,
             "read") /\ UNCHANGED upAnswer
      PROVE  UploadInv'
  <2>1. PICK k \in Nat : k = Min(files) /\ k \in DOMAIN form[r] /\ k > upField[r] /\ form[r][k].name # NoName
    <3>1. files \in SUBSET Nat
      BY <1>1, UploadAssumption DEF UploadTypeOK
    <3>2. Min(files) \in files
      BY <1>4, <3>1, MinIsIn
    <3> QED BY <3>1, <3>2
  <2>2. /\ upField' = [upField EXCEPT ![r] = k] /\ upPc'[r] \in {"read", "done"}
        /\ upPc'[r] = "read" => ~Refused(form[r][k])
        /\ \E p \in {"read", "done"} : upPc' = [upPc EXCEPT ![r] = p]
        /\ upAnswer' \in [Uploaders -> {"none", "ok", "400", "413", "415", "500"}]
    BY <1>1, <1>4, <2>1 DEF Fails, UpGoto, UploadTypeOK
  <2>3. UploadTypeOK'
    <3>1. upField' \in [Uploaders -> Nat] /\ upData' \in [Uploaders -> Nat]
      BY <1>1, <1>4, <2>1, <2>2 DEF UploadTypeOK
    <3>2. upPc' \in [Uploaders -> {"next", "read", "write", "done"}]
      BY <1>1, <2>2 DEF UploadTypeOK
    <3> QED BY <1>1, <2>2, <3>1, <3>2 DEF UploadTypeOK
  <2>4. /\ upField[r] \in Nat /\ upField'[r] = k /\ upData'[r] = 0 /\ Part(r)' = form[r][k]
        /\ \A s \in Uploaders : s # r => upField'[s] = upField[s] /\ upPc'[s] = upPc[s] /\ upData'[s] = upData[s]
    BY <1>1, <1>4, <2>1, <2>2 DEF UploadTypeOK, Part
  <2>5. \A s \in Uploaders : s # r =>
          /\ Part(s)' = Part(s) /\ SafeName(s)' = SafeName(s)
          /\ Refused(Part(s))' <=> Refused(Part(s))
    BY <1>1, <2>4, SameField
  <2>6. ReadInv'
    <3>1. upPc'[r] = "read" => ~Refused(Part(r))'
      <4>1. Refused(form[r][k])' <=> Refused(form[r][k])
        BY <1>1, SameRefused
      <4>2. Refused(Part(r))' <=> Refused(form[r][k])'
        BY <1>1, <2>4 DEF Refused
      <4> QED BY <2>2, <4>1, <4>2
    <3>2. upConfig.max_size \in Nat
      BY <1>1, UploadAssumption DEF UploadTypeOK
    <3>3. \A s \in Uploaders : s # r /\ upPc'[s] \in {"read", "write"} =>
             /\ upField'[s] \in DOMAIN form'[s] /\ (Part(s).name # NoName)'
             /\ ~Refused(Part(s))' /\ upData'[s] <= upConfig'.max_size
      BY <1>1, <2>4, <2>5 DEF ReadInv
    <3> QED BY <1>1, <2>1, <2>2, <2>4, <3>1, <3>2, <3>3 DEF ReadInv
  <2>7. WriteInv'
    <3>1. \A s \in Uploaders : upPc'[s] = "write" => s # r /\ upPc[s] = "write"
      BY <2>2, <2>4
    <3> QED BY <1>1, <2>4, <2>5, <3>1 DEF WriteInv, OpenedOnlyBy
  <2>8. SavedInv'
    <3> SUFFICES ASSUME NEW q \in Uploaders, NEW s \in saved'[q]
                 PROVE  /\ s[1] \in DOMAIN disk' /\ <<s[1], q, s[2]>> \in opened' /\ s[2] <= upField'[q]
                        /\ (upPc'[q] \in {"read", "write"} => s[2] < upField'[q])
      BY DEF SavedInv
    <3>1. /\ s \in saved[q] /\ s[1] \in DOMAIN disk /\ <<s[1], q, s[2]>> \in opened
          /\ s[2] <= upField[q] /\ (upPc[q] \in {"read", "write"} => s[2] < upField[q])
      BY <1>1 DEF SavedInv
    <3>2. s[2] \in Nat
      BY <1>1, <3>1 DEF UploadTypeOK
    <3>3. CASE q = r
      BY <1>1, <2>1, <2>4, <3>1, <3>2, <3>3
    <3>4. CASE q # r
      BY <1>1, <2>4, <3>1, <3>4
    <3> QED BY <3>3, <3>4
  <2> QED BY <1>2, <2>3, <2>6, <2>7, <2>8 DEF UploadInv
<1> QED BY <1>3, <1>4 DEF NextField

LEMMA ReadChunkKeeps ==
    ASSUME UploadInv, NEW r \in Uploaders, ReadChunk(r)
    PROVE  UploadInv'
<1>1. /\ upPc[r] = "read" /\ UNCHANGED <<upConfig, form, upField, saved, disk, opened>>
      /\ UploadTypeOK /\ ReadInv /\ WriteInv /\ SavedInv
  BY DEF ReadChunk, UploadInv
<1>2. DiskInv' /\ SavedIsThere'
  BY <1>1, SameFiles
<1>3. upData[r] \in Nat /\ upConfig.max_size \in Nat
  BY <1>1, UploadAssumption DEF UploadTypeOK
<1>4. /\ upPc'[r] \in {"read", "done"} /\ upData'[r] \in Nat
      /\ upPc'[r] = "read" => upData'[r] <= upConfig.max_size
      /\ \A s \in Uploaders : s # r => upPc'[s] = upPc[s] /\ upData'[s] = upData[s]
      /\ UploadTypeOK'
  <2>1. CASE upData' = [upData EXCEPT ![r] = @ + 1] /\ TooLarge(upData[r] + 1) /\ Fails(r, "413")
    BY <1>1, <1>3, <2>1 DEF Fails, UpGoto, UploadTypeOK
  <2>2. CASE upData' = [upData EXCEPT ![r] = @ + 1] /\ ~TooLarge(upData[r] + 1) /\ UNCHANGED <<upPc, upAnswer>>
    BY <1>1, <1>3, <2>2 DEF TooLarge, UploadTypeOK
  <2>3. CASE Fails(r, "400") /\ UNCHANGED upData
    BY <1>1, <1>3, <2>3 DEF Fails, UpGoto, UploadTypeOK
  <2> QED BY <2>1, <2>2, <2>3 DEF ReadChunk
<1>5. \A s \in Uploaders : /\ Part(s)' = Part(s) /\ SafeName(s)' = SafeName(s)
                           /\ Refused(Part(s))' <=> Refused(Part(s))
  BY <1>1, SameField
<1>6. ReadInv'
  BY <1>1, <1>4, <1>5 DEF ReadInv
<1>7. WriteInv'
  BY <1>1, <1>4, <1>5 DEF WriteInv, OpenedOnlyBy
<1>8. SavedInv'
  BY <1>1, <1>4 DEF SavedInv
<1> QED BY <1>2, <1>4, <1>6, <1>7, <1>8 DEF UploadInv

LEMMA OpenFileKeeps ==
    ASSUME UploadInv, NEW r \in Uploaders, OpenFile(r)
    PROVE  UploadInv'
<1>1. /\ upPc[r] = "read" /\ upData[r] = Part(r).size /\ UNCHANGED <<upConfig, form, upField, upData, saved>>
      /\ UploadTypeOK /\ ReadInv /\ WriteInv /\ SavedInv /\ DiskInv /\ SavedIsThere
  BY DEF OpenFile, UploadInv
<1>2. \A s \in Uploaders : /\ Part(s)' = Part(s) /\ SafeName(s)' = SafeName(s)
                           /\ Refused(Part(s))' <=> Refused(Part(s))
  BY <1>1, SameField
<1>3. CASE Fails(r, "500") /\ UNCHANGED <<disk, opened>>
  <2>1. upPc' = [upPc EXCEPT ![r] = "done"] /\ upAnswer' = [upAnswer EXCEPT ![r] = "500"]
    BY <1>3 DEF Fails, UpGoto
  <2>2. DiskInv' /\ SavedIsThere'
    BY <1>1, <1>3, SameFiles
  <2>3. \A s \in Uploaders : upPc'[s] \in {"read", "write"} => upPc'[s] = upPc[s]
    BY <1>1, <2>1 DEF UploadTypeOK
  <2>4. UploadTypeOK'
    BY <1>1, <1>3, <2>1 DEF UploadTypeOK
  <2>5. ReadInv'
    BY <1>1, <1>2, <2>3 DEF ReadInv
  <2>6. WriteInv'
    BY <1>1, <1>2, <1>3, <2>3 DEF WriteInv, OpenedOnlyBy
  <2>7. SavedInv'
    BY <1>1, <1>3, <2>3 DEF SavedInv
  <2> QED BY <2>2, <2>4, <2>5, <2>6, <2>7 DEF UploadInv
<1>4. ASSUME SafeName(r) # <<".">>, UpGoto(r, "write"), UNCHANGED upAnswer,
             disk' = [n \in DOMAIN disk \cup {SafeName(r)} |-> IF n = SafeName(r) THEN <<>> ELSE disk[n]],
             opened' = opened \cup {<<SafeName(r), r, upField[r]>>}
      PROVE  UploadInv'
  <2>1. PICK name \in Names, k \in Nat : name = SafeName(r) /\ k = upField[r] /\ Flat(name)
    BY <1>1, <1>4, SafeNameFlat DEF UploadTypeOK
  <2>2. /\ DOMAIN disk' = DOMAIN disk \cup {name} /\ disk'[name] = <<>>
        /\ \A n \in DOMAIN disk : n # name => disk'[n] = disk[n]
        /\ disk' \in [DOMAIN disk' -> Seq(Pieces)]
    <3>1. <<>> \in Seq(Pieces)
      OBVIOUS
    <3> QED BY <1>1, <1>4, <2>1, <3>1 DEF UploadTypeOK
  <2>3. opened' = opened \cup {<<name, r, k>>}
    BY <1>4, <2>1
  <2>4. /\ upPc'[r] = "write" /\ \A s \in Uploaders : s # r => upPc'[s] = upPc[s]
        /\ upPc' \in [Uploaders -> {"next", "read", "write", "done"}]
    BY <1>1, <1>4 DEF UpGoto, UploadTypeOK
  <2>5. UploadTypeOK'
    BY <1>1, <1>4, <2>1, <2>2, <2>3, <2>4 DEF UploadTypeOK
  <2>6. ReadInv'
    BY <1>1, <1>2, <2>4 DEF ReadInv
  <2>7. ASSUME NEW n, NEW s \in Uploaders, NEW j, <<n, s, j>> # <<name, r, k>>, OpenedOnlyBy(n, s, j)'
        PROVE  n # name /\ OpenedOnlyBy(n, s, j)
    <3>1. \A o \in opened \cup {<<name, r, k>>} : o[1] = n => o = <<n, s, j>>
      BY <2>3, <2>7 DEF OpenedOnlyBy
    <3>2. <<name, r, k>>[1] = name
      OBVIOUS
    <3> QED BY <2>7, <3>1, <3>2, Zenon DEF OpenedOnlyBy
  <2>8. WriteInv'
    <3> SUFFICES ASSUME NEW s \in Uploaders, upPc'[s] = "write"
                 PROVE  /\ (upData[s] = Part(s).size)'
                        /\ (SafeName(s) \in DOMAIN disk)' /\ (<<SafeName(s), s, upField[s]>> \in opened)'
                        /\ OpenedOnlyBy(SafeName(s), s, upField[s])' => (disk[SafeName(s)] = <<>>)'
      BY DEF WriteInv
    <3>1. CASE s = r
      BY <1>1, <1>2, <2>1, <2>2, <2>3, <3>1
    <3>2. CASE s # r
      <4>1. /\ upData[s] = Part(s).size /\ SafeName(s) \in DOMAIN disk /\ <<SafeName(s), s, upField[s]>> \in opened
            /\ OpenedOnlyBy(SafeName(s), s, upField[s]) => disk[SafeName(s)] = <<>>
        BY <1>1, <2>4, <3>2 DEF WriteInv
      <4>2. PICK n, j : n = SafeName(s) /\ j = upField[s]
        OBVIOUS
      <4>3. SafeName(s)' = n /\ upField'[s] = j
        BY <1>1, <1>2, <4>2
      <4>4. OpenedOnlyBy(SafeName(s), s, upField[s])' => OpenedOnlyBy(n, s, j)'
        BY <4>3 DEF OpenedOnlyBy
      <4>5. OpenedOnlyBy(n, s, j)' => disk'[n] = <<>>
        <5>1. <<n, s, j>> # <<name, r, k>>
          BY <3>2
        <5> QED BY <2>2, <2>7, <4>1, <4>2, <5>1
      <4> QED BY <1>1, <1>2, <2>2, <2>3, <4>1, <4>2, <4>3, <4>4, <4>5
    <3> QED BY <3>1, <3>2
  <2>9. SavedInv'
    <3>1. \A s \in Uploaders : upPc'[s] \in {"read", "write"} => upPc[s] \in {"read", "write"}
      BY <1>1, <2>4
    <3> QED BY <1>1, <2>2, <2>3, <3>1 DEF SavedInv
  <2>10. DiskInv'
    <3>a. upConfig.max_size \in Nat
      BY <1>1, UploadAssumption DEF UploadTypeOK
    <3>1. Len(<<>>) = 0 /\ DOMAIN <<>> = {}
      OBVIOUS
    <3> SUFFICES ASSUME NEW n \in DOMAIN disk'
                 PROVE  /\ Flat(n) /\ Len(disk'[n]) <= upConfig'.max_size
                        /\ \A i \in DOMAIN disk'[n] : ~Refused(form[disk[n][i][1]][disk[n][i][2]])'
      BY DEF DiskInv, Flat
    <3>2. CASE n = name
      <4>1. Len(disk'[n]) = 0 /\ DOMAIN disk'[n] = {}
        BY <2>2, <3>1, <3>2
      <4> QED BY <1>1, <2>1, <3>a, <3>2, <4>1
    <3>3. CASE n # name
      <4>1. n \in DOMAIN disk /\ disk'[n] = disk[n]
        BY <2>2, <3>3
      <4>3. /\ Flat(n) /\ Len(disk[n]) <= upConfig.max_size
            /\ \A i \in DOMAIN disk[n] : ~Refused(form[disk[n][i][1]][disk[n][i][2]])
        BY <1>1, <4>1 DEF DiskInv
      <4>4. \A i \in DOMAIN disk[n] : ~Refused(form[disk[n][i][1]][disk[n][i][2]])'
        BY <1>1, <4>1, <4>3, FileAllowed
      <4> QED BY <1>1, <4>1, <4>3, <4>4
    <3> QED BY <3>2, <3>3
  <2>11. SavedIsThere'
    <3> SUFFICES ASSUME NEW q \in Uploaders, NEW s \in saved'[q], OpenedOnlyBy(s[1], q, s[2])'
                 PROVE  disk'[s[1]] = [i \in 1 .. form'[q][s[2]].size |-> <<q, s[2]>>]
      BY DEF SavedIsThere, OpenedOnlyBy
    <3>1. /\ s \in saved[q] /\ s[1] \in DOMAIN disk /\ s[2] <= upField[q] /\ s[2] \in Nat
          /\ upPc[q] \in {"read", "write"} => s[2] < upField[q]
      BY <1>1 DEF SavedInv, UploadTypeOK
    <3>2. <<s[1], q, s[2]>> # <<name, r, k>>
      <4> SUFFICES ASSUME q = r, s[2] = k PROVE FALSE
        OBVIOUS
      <4> QED BY <1>1, <2>1, <3>1
    <3>3. s[1] # name /\ OpenedOnlyBy(s[1], q, s[2])
      BY <2>7, <3>2
    <3>4. disk[s[1]] = [i \in 1 .. form[q][s[2]].size |-> <<q, s[2]>>]
      BY <1>1, <3>1, <3>3 DEF SavedIsThere, OpenedOnlyBy
    <3> QED BY <1>1, <2>2, <3>1, <3>3, <3>4
  <2> QED BY <2>5, <2>6, <2>8, <2>9, <2>10, <2>11 DEF UploadInv
<1> QED BY <1>3, <1>4 DEF OpenFile

LEMMA WriteFileKeeps ==
    ASSUME UploadInv, NEW r \in Uploaders, WriteFile(r)
    PROVE  UploadInv'
<1>1. /\ upPc[r] = "write" /\ UNCHANGED <<upConfig, form, upField, upData, opened>>
      /\ UploadTypeOK /\ ReadInv /\ WriteInv /\ SavedInv /\ DiskInv /\ SavedIsThere
  BY DEF WriteFile, UploadInv
<1>2. \A s \in Uploaders : /\ Part(s)' = Part(s) /\ SafeName(s)' = SafeName(s)
                           /\ Refused(Part(s))' <=> Refused(Part(s))
  BY <1>1, SameField
<1>3. /\ upData[r] \in Nat /\ upData[r] = Part(r).size /\ upData[r] <= upConfig.max_size
      /\ upConfig.max_size \in Nat /\ ~Refused(Part(r))
      /\ SafeName(r) \in DOMAIN disk /\ <<SafeName(r), r, upField[r]>> \in opened
      /\ OpenedOnlyBy(SafeName(r), r, upField[r]) => disk[SafeName(r)] = <<>>
  BY <1>1, UploadAssumption DEF UploadTypeOK, ReadInv, WriteInv
<1>4. PICK name \in Names, k \in Nat : name = SafeName(r) /\ k = upField[r]
  BY <1>1, <1>3 DEF UploadTypeOK
<1>5. PICK j \in 0 .. upData[r] :
        /\ disk' = [disk EXCEPT ![name] = Over(disk[name], r, j)]
        /\ \/ /\ j = upData[r] /\ saved' = [saved EXCEPT ![r] = @ \cup {<<name, k>>}]
              /\ upPc' = [upPc EXCEPT ![r] = "next"] /\ UNCHANGED upAnswer
           \/ /\ UNCHANGED saved
              /\ upPc' = [upPc EXCEPT ![r] = "done"] /\ upAnswer' = [upAnswer EXCEPT ![r] = "500"]
  BY <1>3, <1>4 DEF WriteFile, Fails, UpGoto
<1>6. /\ name \in DOMAIN disk /\ <<name, r, k>> \in opened
      /\ OpenedOnlyBy(name, r, k) => disk[name] = <<>>
  <2>1. OpenedOnlyBy(name, r, k) <=> OpenedOnlyBy(SafeName(r), r, upField[r])
    BY <1>4
  <2> QED BY <1>3, <1>4, <2>1
<1>7. j \in Nat /\ j <= upConfig.max_size /\ disk[name] \in Seq(Pieces) /\ Len(disk[name]) <= upConfig.max_size
  BY <1>1, <1>3, <1>5, <1>6 DEF UploadTypeOK, DiskInv
<1> DEFINE file == Over(disk[name], r, j)
<1>8. /\ file \in Seq(Pieces) /\ Len(file) = IF Len(disk[name]) >= j THEN Len(disk[name]) ELSE j
      /\ \A i \in 1 .. Len(file) : IF i <= j THEN file[i] = <<r, k>>
                                   ELSE i \in 1 .. Len(disk[name]) /\ file[i] = disk[name][i]
  <2>1. PICK old \in Seq(Pieces) : old = disk[name]
    BY <1>7
  <2>2. PICK c : c = Over(old, r, j)
    OBVIOUS
  <2>3. /\ c \in Seq(Pieces) /\ Len(c) = IF Len(old) >= j THEN Len(old) ELSE j
        /\ \A i \in 1 .. Len(c) : IF i <= j THEN c[i] = <<r, upField[r]>>
                                  ELSE i \in 1 .. Len(old) /\ c[i] = old[i]
    BY <1>1, <1>7, <2>2, OverWrites
  <2>4. file = c
    BY <2>1, <2>2
  <2> QED BY <1>4, <2>1, <2>3, <2>4
<1>9. /\ DOMAIN disk' = DOMAIN disk /\ disk'[name] = file /\ disk' \in [DOMAIN disk -> Seq(Pieces)]
      /\ \A n \in DOMAIN disk : n # name => disk'[n] = disk[n]
  <2> HIDE DEF file
  <2>1. disk' = [disk EXCEPT ![name] = file]
    BY <1>5 DEF file
  <2> QED BY <1>1, <1>6, <1>8, <2>1 DEF UploadTypeOK
<1> HIDE DEF file
<1>10. /\ upPc'[r] \in {"next", "done"} /\ \A s \in Uploaders : s # r => upPc'[s] = upPc[s]
       /\ upPc' \in [Uploaders -> {"next", "read", "write", "done"}]
       /\ upAnswer' \in [Uploaders -> {"none", "ok", "400", "413", "415", "500"}]
  BY <1>1, <1>5 DEF UploadTypeOK
<1>11. /\ saved' \in [Uploaders -> SUBSET (Names \X Nat)]
       /\ \A q \in Uploaders : \A s \in saved'[q] :
             s \in saved[q] \/ (q = r /\ s = <<name, k>> /\ j = upData[r])
  <2>1. saved \in [Uploaders -> SUBSET (Names \X Nat)] /\ <<name, k>> \in Names \X Nat
    BY <1>1 DEF UploadTypeOK
  <2>2. CASE UNCHANGED saved
    BY <2>1, <2>2
  <2>3. CASE j = upData[r] /\ saved' = [saved EXCEPT ![r] = @ \cup {<<name, k>>}]
    <3>1. \A q \in Uploaders : saved'[q] = IF q = r THEN saved[q] \cup {<<name, k>>} ELSE saved[q]
      BY <2>1, <2>3
    <3>2. saved' \in [Uploaders -> SUBSET (Names \X Nat)]
      BY <2>1, <2>3
    <3> QED BY <2>3, <3>1, <3>2
  <2> QED BY <1>5, <2>2, <2>3
<1>12. UploadTypeOK'
  BY <1>1, <1>9, <1>10, <1>11 DEF UploadTypeOK
<1>13. ReadInv'
  <2>1. \A s \in Uploaders : upPc'[s] \in {"read", "write"} => upPc[s] \in {"read", "write"}
    BY <1>10
  <2> QED BY <1>1, <1>2, <2>1 DEF ReadInv
<1>14. ASSUME NEW n, NEW s \in Uploaders, NEW l, <<n, s, l>> # <<name, r, k>>, OpenedOnlyBy(n, s, l)
       PROVE  n # name
  <2>1. <<name, r, k>>[1] = name
    OBVIOUS
  <2> QED BY <1>6, <1>14, <2>1, Zenon DEF OpenedOnlyBy
<1>15. WriteInv'
  <2> SUFFICES ASSUME NEW s \in Uploaders, upPc'[s] = "write"
               PROVE  /\ (upData[s] = Part(s).size)'
                      /\ (SafeName(s) \in DOMAIN disk)' /\ (<<SafeName(s), s, upField[s]>> \in opened)'
                      /\ OpenedOnlyBy(SafeName(s), s, upField[s])' => (disk[SafeName(s)] = <<>>)'
    BY DEF WriteInv
  <2>1. s # r /\ upPc[s] = "write"
    BY <1>10
  <2>2. PICK n, l : n = SafeName(s) /\ l = upField[s]
    OBVIOUS
  <2>3. SafeName(s)' = n /\ upField'[s] = l
    BY <1>1, <1>2, <2>2
  <2>4. /\ upData[s] = Part(s).size /\ SafeName(s) \in DOMAIN disk /\ <<SafeName(s), s, upField[s]>> \in opened
        /\ OpenedOnlyBy(SafeName(s), s, upField[s]) => disk[SafeName(s)] = <<>>
    BY <1>1, <2>1 DEF WriteInv
  <2>5. OpenedOnlyBy(SafeName(s), s, upField[s])' => OpenedOnlyBy(n, s, l)
    BY <1>1, <2>3 DEF OpenedOnlyBy
  <2>6. OpenedOnlyBy(n, s, l) => n # name /\ disk[n] = <<>>
    <3>1. <<n, s, l>> # <<name, r, k>>
      BY <2>1
    <3> QED BY <1>14, <2>2, <2>4, <3>1
  <2> QED BY <1>1, <1>2, <1>9, <2>2, <2>3, <2>4, <2>5, <2>6
<1>16. SavedInv'
  <2> SUFFICES ASSUME NEW q \in Uploaders, NEW s \in saved'[q]
               PROVE  /\ s[1] \in DOMAIN disk' /\ <<s[1], q, s[2]>> \in opened' /\ s[2] <= upField'[q]
                      /\ (upPc'[q] \in {"read", "write"} => s[2] < upField'[q])
    BY DEF SavedInv
  <2>1. CASE s \in saved[q]
    <3>1. /\ s[1] \in DOMAIN disk /\ <<s[1], q, s[2]>> \in opened
          /\ s[2] <= upField[q] /\ (upPc[q] \in {"read", "write"} => s[2] < upField[q])
      BY <1>1, <2>1 DEF SavedInv
    <3> QED BY <1>1, <1>9, <1>10, <3>1
  <2>2. CASE q = r /\ s = <<name, k>>
    BY <1>1, <1>4, <1>6, <1>9, <1>10, <2>2
  <2> QED BY <1>11, <2>1, <2>2
<1>17. DiskInv'
  <2> SUFFICES ASSUME NEW n \in DOMAIN disk'
               PROVE  /\ Flat(n) /\ Len(disk'[n]) <= upConfig'.max_size
                      /\ \A i \in DOMAIN disk'[n] : ~Refused(form[disk[n][i][1]][disk[n][i][2]])'
    BY DEF DiskInv, Flat
  <2>2. /\ n \in DOMAIN disk /\ Flat(n) /\ Len(disk[n]) <= upConfig.max_size
        /\ \A i \in DOMAIN disk[n] : ~Refused(form[disk[n][i][1]][disk[n][i][2]])
    BY <1>1, <1>9 DEF DiskInv
  <2>3. CASE n # name
    <3>1. disk'[n] = disk[n]
      BY <1>9, <2>2, <2>3
    <3>2. \A i \in DOMAIN disk'[n] : ~Refused(form[disk[n][i][1]][disk[n][i][2]])'
      BY <1>1, <2>2, <3>1, FileAllowed
    <3> QED BY <1>1, <2>2, <3>1, <3>2
  <2>4. CASE n = name
    <3>1. Len(file) <= upConfig.max_size
      BY <1>7, <1>8
    <3>2. ASSUME NEW i \in DOMAIN file PROVE ~Refused(form[file[i][1]][file[i][2]])
      <4>1. i \in 1 .. Len(file)
        BY <1>8
      <4>2. CASE i <= j
        <5>1. file[i] = <<r, k>>
          BY <1>8, <4>1, <4>2
        <5>2. form[file[i][1]][file[i][2]] = Part(r)
          BY <1>4, <5>1 DEF Part
        <5> QED BY <1>3, <5>2
      <4>3. CASE ~(i <= j)
        <5>1. i \in 1 .. Len(disk[name]) /\ file[i] = disk[name][i]
          BY <1>8, <4>1, <4>3
        <5>2. i \in DOMAIN disk[name]
          BY <1>7, <5>1
        <5> QED BY <2>2, <2>4, <5>1, <5>2
      <4> QED BY <4>2, <4>3
    <3>3. \A i \in DOMAIN disk'[n] : ~Refused(form[disk[n][i][1]][disk[n][i][2]])'
      BY <1>1, <1>9, <2>4, <3>2, FileAllowed
    <3> QED BY <1>1, <1>9, <2>2, <2>4, <3>1, <3>3
  <2> QED BY <2>3, <2>4
<1>18. SavedIsThere'
  <2> SUFFICES ASSUME NEW q \in Uploaders, NEW s \in saved'[q], OpenedOnlyBy(s[1], q, s[2])'
               PROVE  disk'[s[1]] = [i \in 1 .. form'[q][s[2]].size |-> <<q, s[2]>>]
    BY DEF SavedIsThere, OpenedOnlyBy
  <2>1. OpenedOnlyBy(s[1], q, s[2])
    BY <1>1 DEF OpenedOnlyBy
  <2>2. CASE s \in saved[q]
    <3>1. /\ s[1] \in DOMAIN disk /\ s[2] \in Nat
          /\ upPc[q] \in {"read", "write"} => s[2] < upField[q]
      BY <1>1, <2>2 DEF SavedInv, UploadTypeOK
    <3>2. <<s[1], q, s[2]>> # <<name, r, k>>
      <4> SUFFICES ASSUME q = r, s[2] = k PROVE FALSE
        OBVIOUS
      <4> QED BY <1>1, <1>4, <3>1
    <3>3. s[1] # name
      BY <1>14, <2>1, <3>2
    <3>4. disk[s[1]] = [i \in 1 .. form[q][s[2]].size |-> <<q, s[2]>>]
      BY <1>1, <2>1, <2>2 DEF SavedIsThere, OpenedOnlyBy
    <3>5. s[1] \in DOMAIN disk
      BY <1>1, <2>2 DEF SavedInv
    <3> QED BY <1>1, <1>9, <3>3, <3>4, <3>5
  <2>3. CASE q = r /\ s = <<name, k>> /\ j = upData[r]
    <3>1. disk[name] = <<>>
      BY <1>6, <2>1, <2>3
    <3>2. form'[q][s[2]].size = j
      BY <1>1, <1>3, <1>4, <2>3 DEF Part
    <3>3. Len(file) = j
      <4>1. Len(<<>>) = 0
        OBVIOUS
      <4> QED BY <1>7, <1>8, <3>1, <4>1
    <3>4. \A i \in 1 .. j : file[i] = <<r, k>>
      BY <1>7, <1>8, <3>3
    <3>5. file = [i \in 1 .. j |-> <<r, k>>]
      <4>1. file = [i \in 1 .. j |-> file[i]]
        BY <1>8, <3>3
      <4> QED BY <3>4, <4>1
    <3> QED BY <1>9, <2>3, <3>2, <3>5
  <2> QED BY <1>11, <2>2, <2>3
<1> QED BY <1>12, <1>13, <1>15, <1>16, <1>17, <1>18 DEF UploadInv

LEMMA UploadInvStep == UploadInv /\ [UploadNext]_uploadVars => UploadInv'
<1> SUFFICES ASSUME UploadInv, [UploadNext]_uploadVars PROVE UploadInv'
  OBVIOUS
<1>1. ASSUME NEW r \in Uploaders, NextField(r) \/ ReadChunk(r) \/ OpenFile(r) \/ WriteFile(r)
      PROVE  UploadInv'
  BY <1>1, NextFieldKeeps, ReadChunkKeeps, OpenFileKeeps, WriteFileKeeps
<1>2. CASE UNCHANGED uploadVars
  <2>1. UNCHANGED <<upConfig, form, upPc, upField, upData, upAnswer, saved, disk, opened>>
    BY <1>2 DEF uploadVars
  <2>2. \A s \in Uploaders : /\ Part(s)' = Part(s) /\ SafeName(s)' = SafeName(s)
                             /\ Refused(Part(s))' <=> Refused(Part(s))
    BY <2>1, SameField
  <2>3. DiskInv' /\ SavedIsThere'
    BY <2>1, SameFiles
  <2>4. UploadTypeOK' /\ SavedInv'
    BY <2>1 DEF UploadInv, UploadTypeOK, SavedInv
  <2>5. ReadInv'
    BY <2>1, <2>2 DEF UploadInv, ReadInv
  <2>6. WriteInv'
    BY <2>1, <2>2 DEF UploadInv, WriteInv, OpenedOnlyBy
  <2> QED BY <2>3, <2>4, <2>5, <2>6 DEF UploadInv
<1> QED BY <1>1, <1>2 DEF UploadNext

\* Whatever is uploaded at once into one directory, by any number of requests and under
\* any names: no file holds a piece of a field that the configuration refuses or is longer
\* than it allows, none is outside the directory, and what is reported as saved is there,
\* whole, unless another upload came to the same name.
THEOREM UploadsTheorem == UploadSafety => []UploadsSound
<1>1. UploadInv => UploadsSound
  <2> SUFFICES ASSUME UploadInv PROVE UploadsSound
    OBVIOUS
  <2>1. NothingRefused
    BY DEF UploadInv, DiskInv, NothingRefused
  <2>2. NamesAreFlat
    BY DEF UploadInv, DiskInv, Flat, NamesAreFlat
  <2> QED BY <2>1, <2>2 DEF UploadInv, UploadsSound
<1> QED BY <1>1, UploadInvInit, UploadInvStep, PTL DEF UploadSafety

-----------------------------------------------------------------------------
(* The acknowledgements of the WebSocket manager: the invariant *)

AckWaits == [retries : Nat, age : Nat]

WsStages == {"off", "loop", "push", "resend", "join", "cleanup", "count", "remove", "closed"}

WsTypeOK ==
    /\ wpc \in [Clients -> WsStages]
    /\ conns \subseteq Clients /\ rx \in [Clients -> Seq(Messages)]
    /\ sends \in [Clients -> [Messages -> Nat]]
    /\ DOMAIN unacked = Clients /\ DOMAIN doing = Clients /\ DOMAIN acked = Clients
    /\ unacked = [c \in Clients |-> unacked[c]] /\ doing = [c \in Clients |-> doing[c]]
    /\ acked = [c \in Clients |-> acked[c]]
    /\ \A c \in Clients : DOMAIN unacked[c] \subseteq Messages /\ unacked[c] \in [DOMAIN unacked[c] -> AckWaits]

\* c's task is about to hand m to its socket.
Pending(c, m) == wpc[c] \in {"push", "resend"} /\ m \in doing[c]

\* What is being sent is on the list, and a first send is of one message.
SendingInv ==
    \A c \in Clients :
        /\ wpc[c] \in {"push", "resend"} => doing[c] \subseteq DOMAIN unacked[c]
        /\ wpc[c] = "push" => \E m \in Messages : doing[c] = {m}

\* A message that is still in a receiver is new: it was broadcast once.
NewInv ==
    \A c \in Clients : \A m \in Messages :
        /\ m \notin posted => sends[c][m] = 0 /\ m \notin DOMAIN unacked[c]
        /\ \A i \in DOMAIN rx[c] : rx[c][i] = m =>
             /\ m \in posted /\ sends[c][m] = 0 /\ m \notin DOMAIN unacked[c]
             /\ \A j \in DOMAIN rx[c] : rx[c][j] = m => j = i

\* A message on the list was sent once, and once more for each retry, at most
\* max_retries times.
CountInv ==
    \A c \in Clients : \A m \in DOMAIN unacked[c] :
        /\ unacked[c][m].retries <= MaxResend
        /\ sends[c][m] = IF Pending(c, m) THEN unacked[c][m].retries ELSE unacked[c][m].retries + 1

WsInv == WsTypeOK /\ SendingInv /\ NewInv /\ CountInv

-----------------------------------------------------------------------------
(* The acknowledgements of the WebSocket manager: the steps *)

LEMMA WsInvInit == WsInit => WsInv
<1> SUFFICES ASSUME WsInit PROVE WsInv
  OBVIOUS
<1>1. \A c \in Clients : unacked[c] = <<>> /\ rx[c] = <<>> /\ wpc[c] = "off"
  BY DEF WsInit
<1>2. DOMAIN <<>> = {} /\ <<>> \in [{} -> AckWaits] /\ <<>> \in Seq(Messages)
  OBVIOUS
<1>3. WsTypeOK
  <2>1. \A c \in Clients : DOMAIN unacked[c] = {} /\ unacked[c] \in [{} -> AckWaits]
    BY <1>1, <1>2
  <2>2. rx \in [Clients -> Seq(Messages)]
    BY <1>2 DEF WsInit
  <2> QED BY <2>1, <2>2 DEF WsInit, WsTypeOK, WsStages
<1>4. SendingInv
  BY <1>1 DEF SendingInv
<1>5. NewInv
  BY <1>1, <1>2 DEF WsInit, NewInv
<1>6. CountInv
  BY <1>1, <1>2 DEF CountInv
<1> QED BY <1>3, <1>4, <1>5, <1>6 DEF WsInv

\* A step that leaves the lists, the receivers and what is being sent.
LEMMA SameLists ==
    ASSUME WsInv, UNCHANGED <<wpc, doing, unacked, rx, sends, acked, posted>>, conns' \subseteq Clients
    PROVE  WsInv'
<1>1. WsTypeOK'
  BY DEF WsInv, WsTypeOK
<1>2. SendingInv' /\ NewInv' /\ CountInv'
  BY DEF WsInv, SendingInv, NewInv, CountInv, Pending
<1> QED BY <1>1, <1>2 DEF WsInv

\* A step of a task that neither was sending nor is.
LEMMA NotSending ==
    ASSUME WsInv, NEW c \in Clients, NEW l \in WsStages \ {"push", "resend"}, NEW x,
           wpc[c] \notin {"push", "resend"}, GoTo(c, l, x), conns' \subseteq Clients,
           UNCHANGED <<unacked, rx, sends, acked, posted>>
    PROVE  WsInv'
<1>1. /\ wpc' = [wpc EXCEPT ![c] = l] /\ doing' = [doing EXCEPT ![c] = x] /\ WsTypeOK
  BY DEF GoTo, WsInv
<1>2. WsTypeOK'
  BY <1>1 DEF WsTypeOK
<1>3. \A d \in Clients : \/ wpc'[d] = wpc[d] /\ doing'[d] = doing[d]
                         \/ wpc'[d] \notin {"push", "resend"} /\ wpc[d] \notin {"push", "resend"}
  BY <1>1 DEF WsTypeOK
<1>4. SendingInv'
  BY <1>3 DEF WsInv, SendingInv
<1>5. NewInv'
  BY DEF WsInv, NewInv
<1>6. CountInv'
  <2>1. \A d \in Clients : \A m : Pending(d, m)' <=> Pending(d, m)
    BY <1>3 DEF Pending
  <2> QED BY <2>1 DEF WsInv, CountInv
<1> QED BY <1>2, <1>4, <1>5, <1>6 DEF WsInv

LEMMA QuietKeeps ==
    ASSUME WsInv, NEW c \in Clients,
           \/ Connect(c) \/ Close(c) \/ Pong(c) \/ Leave(c) \/ Stall(c) \/ Joined(c)
           \/ HeartbeatTimeout(c) \/ CountRoom(c) \/ RemoveRoom(c)
           \/ \E r \in Rooms : Join(c, r)
    PROVE  WsInv' /\ UNCHANGED unacked
<1>1. conns \subseteq Clients
  BY DEF WsInv, WsTypeOK
<1>2. CASE Pong(c) \/ Leave(c) \/ Stall(c)
  <2>1. UNCHANGED <<wpc, doing, unacked, rx, sends, acked, posted, conns>>
    BY <1>2 DEF Pong, Leave, Stall
  <2> QED BY <1>1, <2>1, SameLists
<1>3. CASE Connect(c)
  <2>1. /\ wpc[c] = "off" /\ GoTo(c, "loop", {}) /\ conns' = conns \cup {c}
        /\ UNCHANGED <<unacked, rx, sends, acked, posted>>
    BY <1>3 DEF Connect
  <2> QED BY <1>1, <2>1, NotSending DEF WsStages
<1>4. CASE Close(c) \/ HeartbeatTimeout(c)
  <2>1. wpc[c] = "loop" /\ GoTo(c, "cleanup", {}) /\ UNCHANGED <<unacked, rx, sends, acked, posted, conns>>
    BY <1>4 DEF Close, HeartbeatTimeout, Looping
  <2> QED BY <1>1, <2>1, NotSending DEF WsStages
<1>5. CASE Joined(c)
  <2>1. wpc[c] = "join" /\ GoTo(c, "loop", {}) /\ UNCHANGED <<unacked, rx, sends, acked, posted, conns>>
    BY <1>5 DEF Joined
  <2> QED BY <1>1, <2>1, NotSending DEF WsStages
<1>6. CASE CountRoom(c)
  <2>1. /\ wpc[c] = "count" /\ UNCHANGED <<unacked, rx, sends, acked, posted, conns>>
        /\ GoTo(c, "closed", {}) \/ GoTo(c, "remove", doing[c])
    BY <1>6 DEF CountRoom
  <2> QED BY <1>1, <2>1, NotSending DEF WsStages
<1>7. CASE RemoveRoom(c)
  <2>1. wpc[c] = "remove" /\ GoTo(c, "closed", {}) /\ UNCHANGED <<unacked, rx, sends, acked, posted, conns>>
    BY <1>7 DEF RemoveRoom
  <2> QED BY <1>1, <2>1, NotSending DEF WsStages
<1>8. CASE \E r \in Rooms : Join(c, r)
  <2>1. PICK r \in Rooms : Join(c, r)
    BY <1>8
  <2>2. wpc[c] = "loop" /\ GoTo(c, "join", {r}) /\ UNCHANGED <<unacked, rx, sends, acked, posted, conns>>
    BY <2>1 DEF Join, Looping
  <2> QED BY <1>1, <2>2, NotSending DEF WsStages
<1> QED BY <1>2, <1>3, <1>4, <1>5, <1>6, <1>7, <1>8

LEMMA BroadcastKeeps ==
    ASSUME WsInv, NEW m \in Messages, Broadcast(m)
    PROVE  WsInv' /\ UNCHANGED unacked
<1>1. /\ m \notin posted /\ posted' = posted \cup {m}
      /\ rx' = [c \in Clients |-> IF wpc[c] \in {"off", "closed"} THEN rx[c] ELSE Append(rx[c], m)]
      /\ UNCHANGED <<conns, unacked, wpc, doing, sends, acked>>
      /\ WsTypeOK /\ SendingInv /\ NewInv /\ CountInv
  BY DEF Broadcast, WsInv
<1>2. \A c \in Clients : rx[c] \in Seq(Messages)
  BY <1>1 DEF WsTypeOK
<1>3. WsTypeOK'
  <2>1. rx' \in [Clients -> Seq(Messages)]
    BY <1>1, <1>2
  <2> QED BY <1>1, <2>1 DEF WsTypeOK
<1>4. SendingInv' /\ CountInv'
  BY <1>1 DEF SendingInv, CountInv, Pending
<1>5. NewInv'
  <2> SUFFICES ASSUME NEW c \in Clients, NEW n \in Messages
               PROVE  /\ n \notin posted' => sends'[c][n] = 0 /\ n \notin DOMAIN unacked'[c]
                      /\ \A i \in DOMAIN rx'[c] : rx'[c][i] = n =>
                           /\ n \in posted' /\ sends'[c][n] = 0 /\ n \notin DOMAIN unacked'[c]
                           /\ \A j \in DOMAIN rx'[c] : rx'[c][j] = n => j = i
    BY DEF NewInv
  <2>1. /\ n \notin posted => sends[c][n] = 0 /\ n \notin DOMAIN unacked[c]
        /\ \A i \in DOMAIN rx[c] : rx[c][i] = n =>
             /\ n \in posted /\ sends[c][n] = 0 /\ n \notin DOMAIN unacked[c]
             /\ \A j \in DOMAIN rx[c] : rx[c][j] = n => j = i
    BY <1>1 DEF NewInv
  <2>2. CASE rx'[c] = rx[c]
    BY <1>1, <2>1, <2>2
  <2>3. CASE rx'[c] = Append(rx[c], m)
    <3>1. PICK k \in Nat : k = Len(rx[c])
      BY <1>2
    <3>2. /\ DOMAIN rx[c] = 1 .. k /\ DOMAIN rx'[c] = 1 .. k + 1 /\ rx'[c][k + 1] = m
          /\ \A i \in 1 .. k : rx'[c][i] = rx[c][i]
      BY <1>2, <2>3, <3>1
    <3>3. \A i \in 1 .. k + 1 : i \in 1 .. k \/ i = k + 1
      BY <3>1
    <3>4. \A i \in 1 .. k : rx[c][i] # m
      <4>1. \A i \in 1 .. k : rx[c][i] = m => m \in posted
        BY <1>1, <3>2 DEF NewInv
      <4> QED BY <1>1, <4>1
    <3>5. CASE n = m
      <4>1. \A i \in DOMAIN rx'[c] : rx'[c][i] = n => i = k + 1
        BY <3>2, <3>3, <3>4, <3>5
      <4> QED BY <1>1, <2>1, <3>5, <4>1
    <3>6. CASE n # m
      <4>1. \A i \in DOMAIN rx'[c] : rx'[c][i] = n => i \in DOMAIN rx[c] /\ rx[c][i] = n
        BY <3>2, <3>3, <3>6
      <4> QED BY <1>1, <2>1, <4>1
    <3> QED BY <3>5, <3>6
  <2> QED BY <1>1, <2>2, <2>3
<1> QED BY <1>1, <1>3, <1>4, <1>5 DEF WsInv

LEMMA ReceiveKeeps ==
    ASSUME WsInv, NEW c \in Clients, Receive(c)
    PROVE  WsInv' /\ \A d \in Clients : DOMAIN unacked[d] \subseteq DOMAIN unacked'[d]
<1>1. /\ wpc[c] = "loop" /\ rx[c] # <<>> /\ rx' = [rx EXCEPT ![c] = Tail(@)]
      /\ unacked' = [unacked EXCEPT ![c] = With(@, Head(rx[c]), [retries |-> 0, age |-> 0])]
      /\ wpc' = [wpc EXCEPT ![c] = "push"] /\ doing' = [doing EXCEPT ![c] = {Head(rx[c])}]
      /\ UNCHANGED <<conns, sends, acked, posted>>
      /\ WsTypeOK /\ SendingInv /\ NewInv /\ CountInv
  BY DEF Receive, Looping, GoTo, WsInv
<1>2. rx[c] \in Seq(Messages)
  BY <1>1 DEF WsTypeOK
<1>3. PICK m \in Messages : m = Head(rx[c])
  BY <1>1, <1>2
<1>4. /\ Tail(rx[c]) \in Seq(Messages) /\ 1 \in DOMAIN rx[c] /\ rx[c][1] = m
      /\ \A i \in DOMAIN Tail(rx[c]) : i \in Nat /\ i + 1 \in DOMAIN rx[c] /\ i + 1 # 1
                                       /\ Tail(rx[c])[i] = rx[c][i + 1]
  BY <1>1, <1>2, <1>3
<1>5. m \in posted /\ sends[c][m] = 0 /\ m \notin DOMAIN unacked[c]
  BY <1>1, <1>4 DEF NewInv
<1>6. /\ rx'[c] = Tail(rx[c]) /\ wpc'[c] = "push" /\ doing'[c] = {m}
      /\ unacked'[c] = With(unacked[c], m, [retries |-> 0, age |-> 0])
      /\ \A d \in Clients : d # c => /\ rx'[d] = rx[d] /\ wpc'[d] = wpc[d] /\ doing'[d] = doing[d]
                                     /\ unacked'[d] = unacked[d]
  BY <1>1, <1>3 DEF WsTypeOK
<1>7. /\ DOMAIN unacked'[c] = DOMAIN unacked[c] \cup {m}
      /\ unacked'[c][m] = [retries |-> 0, age |-> 0]
      /\ \A n \in DOMAIN unacked[c] : unacked'[c][n] = unacked[c][n]
      /\ unacked'[c] \in [DOMAIN unacked'[c] -> AckWaits]
  <2>1. [retries |-> 0, age |-> 0] \in AckWaits
    BY DEF AckWaits
  <2>2. unacked[c] \in [DOMAIN unacked[c] -> AckWaits]
    BY <1>1 DEF WsTypeOK
  <2> QED BY <1>5, <1>6, <2>1, <2>2 DEF With
<1>8. WsTypeOK'
  <2>1. rx' \in [Clients -> Seq(Messages)]
    BY <1>1, <1>4 DEF WsTypeOK
  <2>2. wpc' \in [Clients -> WsStages]
    BY <1>1 DEF WsTypeOK, WsStages
  <2>3. \A d \in Clients : DOMAIN unacked'[d] \subseteq Messages /\ unacked'[d] \in [DOMAIN unacked'[d] -> AckWaits]
    BY <1>1, <1>6, <1>7 DEF WsTypeOK
  <2>4. /\ DOMAIN unacked' = Clients /\ DOMAIN doing' = Clients
        /\ unacked' = [d \in Clients |-> unacked'[d]] /\ doing' = [d \in Clients |-> doing'[d]]
    BY <1>1 DEF WsTypeOK
  <2> QED BY <1>1, <2>1, <2>2, <2>3, <2>4 DEF WsTypeOK
<1>9. SendingInv'
  <2> SUFFICES ASSUME NEW d \in Clients
               PROVE  /\ wpc'[d] \in {"push", "resend"} => doing'[d] \subseteq DOMAIN unacked'[d]
                      /\ wpc'[d] = "push" => \E n \in Messages : doing'[d] = {n}
    BY DEF SendingInv
  <2>1. SendingInv
    BY <1>1
  <2>2. CASE d # c
    BY <1>6, <2>1, <2>2 DEF SendingInv
  <2>3. CASE d = c
    BY <1>3, <1>6, <1>7, <2>3
  <2> QED BY <2>2, <2>3
<1>10. NewInv'
  <2> SUFFICES ASSUME NEW d \in Clients, NEW n \in Messages
               PROVE  /\ n \notin posted => sends[d][n] = 0 /\ n \notin DOMAIN unacked'[d]
                      /\ \A i \in DOMAIN rx'[d] : rx'[d][i] = n =>
                           /\ n \in posted /\ sends[d][n] = 0 /\ n \notin DOMAIN unacked'[d]
                           /\ \A j \in DOMAIN rx'[d] : rx'[d][j] = n => j = i
    BY <1>1 DEF NewInv
  <2>1. /\ n \notin posted => sends[d][n] = 0 /\ n \notin DOMAIN unacked[d]
        /\ \A i \in DOMAIN rx[d] : rx[d][i] = n =>
             /\ n \in posted /\ sends[d][n] = 0 /\ n \notin DOMAIN unacked[d]
             /\ \A j \in DOMAIN rx[d] : rx[d][j] = n => j = i
    BY <1>1 DEF NewInv
  <2>2. CASE d # c
    BY <1>6, <2>1, <2>2
  <2>3. CASE d = c
    <3>1. n \notin posted => sends[c][n] = 0 /\ n \notin DOMAIN unacked'[c]
      BY <1>5, <1>7, <2>1, <2>3
    <3>2. ASSUME NEW i \in DOMAIN rx'[c], rx'[c][i] = n
          PROVE  /\ n \in posted /\ sends[c][n] = 0 /\ n \notin DOMAIN unacked'[c]
                 /\ \A j \in DOMAIN rx'[c] : rx'[c][j] = n => j = i
      <4>1. i \in Nat /\ i + 1 \in DOMAIN rx[c] /\ rx[c][i + 1] = n /\ i + 1 # 1
        BY <1>4, <1>6, <3>2
      <4>2. n # m
        BY <1>4, <2>1, <2>3, <4>1
      <4>3. ASSUME NEW j \in DOMAIN rx'[c], rx'[c][j] = n PROVE j = i
        <5>1. j \in Nat /\ j + 1 \in DOMAIN rx[c] /\ rx[c][j + 1] = n
          BY <1>4, <1>6, <4>3
        <5>2. j + 1 = i + 1
          BY <2>1, <2>3, <4>1, <5>1
        <5> QED BY <4>1, <5>1, <5>2
      <4> QED BY <1>7, <2>1, <2>3, <4>1, <4>2, <4>3
    <3> QED BY <2>3, <3>1, <3>2
  <2> QED BY <2>2, <2>3
<1>11. CountInv'
  <2> SUFFICES ASSUME NEW d \in Clients, NEW n \in DOMAIN unacked'[d]
               PROVE  /\ unacked'[d][n].retries <= MaxResend
                      /\ sends[d][n] = IF Pending(d, n)' THEN unacked'[d][n].retries
                                                         ELSE unacked'[d][n].retries + 1
    BY <1>1 DEF CountInv
  <2>1. CASE d # c
    <3>1. Pending(d, n)' <=> Pending(d, n)
      BY <1>6, <2>1 DEF Pending
    <3> QED BY <1>1, <1>6, <2>1, <3>1 DEF CountInv
  <2>2. CASE d = c /\ n = m
    <3>1. Pending(d, n)' /\ unacked'[d][n].retries = 0
      BY <1>6, <1>7, <2>2 DEF Pending
    <3> QED BY <1>5, <2>2, <3>1, WsAssumption
  <2>3. CASE d = c /\ n # m
    <3>1. ~Pending(d, n)' /\ ~Pending(d, n)
      BY <1>1, <1>6, <2>3 DEF Pending
    <3> QED BY <1>1, <1>7, <2>3, <3>1 DEF CountInv
  <2> QED BY <2>1, <2>2, <2>3
<1>12. \A d \in Clients : DOMAIN unacked[d] \subseteq DOMAIN unacked'[d]
  BY <1>6, <1>7
<1> QED BY <1>8, <1>9, <1>10, <1>11, <1>12 DEF WsInv

\* One send: the message is pending no more, and is counted.
LEMMA SentKeeps ==
    ASSUME WsInv, NEW c \in Clients, NEW m \in doing[c], NEW l \in WsStages \ {"push"},
           wpc[c] \in {"push", "resend"}, Sent(c, m),
           wpc' = [wpc EXCEPT ![c] = l], doing' = [doing EXCEPT ![c] = @ \ {m}],
           l = "resend" \/ doing[c] = {m},
           UNCHANGED <<conns, unacked, rx, acked, posted>>
    PROVE  WsInv'
<1>1. WsTypeOK /\ SendingInv /\ NewInv /\ CountInv
  BY DEF WsInv
<1>2. m \in DOMAIN unacked[c] /\ m \in Messages
  BY <1>1 DEF WsTypeOK, SendingInv
<1>3. sends' = [sends EXCEPT ![c][m] = @ + 1] /\ sends[c][m] \in Nat
  BY <1>1, <1>2 DEF Sent, WsTypeOK
<1>4. /\ sends' \in [Clients -> [Messages -> Nat]] /\ sends'[c][m] = sends[c][m] + 1
      /\ \A d \in Clients : \A n \in Messages : d # c \/ n # m => sends'[d][n] = sends[d][n]
  BY <1>1, <1>2, <1>3 DEF WsTypeOK
<1>5. /\ wpc'[c] = l /\ doing'[c] = doing[c] \ {m}
      /\ \A d \in Clients : d # c => wpc'[d] = wpc[d] /\ doing'[d] = doing[d]
  BY <1>1 DEF WsTypeOK
<1>6. WsTypeOK'
  BY <1>1, <1>4 DEF WsTypeOK
<1>7. SendingInv'
  BY <1>1, <1>5 DEF SendingInv
<1>8. NewInv'
  <2>1. m \in posted /\ \A i \in DOMAIN rx[c] : rx[c][i] # m
    BY <1>1, <1>2 DEF NewInv
  <2>2. \A d \in Clients : \A n \in Messages :
          n \notin posted \/ (\E i \in DOMAIN rx[d] : rx[d][i] = n) => sends'[d][n] = sends[d][n]
    BY <1>4, <2>1
  <2> QED BY <1>1, <2>2 DEF NewInv
<1>9. CountInv'
  <2> SUFFICES ASSUME NEW d \in Clients, NEW n \in DOMAIN unacked[d]
               PROVE  /\ unacked[d][n].retries <= MaxResend
                      /\ sends'[d][n] = IF Pending(d, n)' THEN unacked[d][n].retries
                                                          ELSE unacked[d][n].retries + 1
    BY DEF CountInv
  <2>1. /\ unacked[d][n].retries <= MaxResend /\ n \in Messages
        /\ sends[d][n] = IF Pending(d, n) THEN unacked[d][n].retries ELSE unacked[d][n].retries + 1
    BY <1>1 DEF CountInv, WsTypeOK
  <2>2. CASE d = c /\ n = m
    <3>1. Pending(d, n) /\ ~Pending(d, n)'
      BY <1>5, <2>2 DEF Pending
    <3> QED BY <1>4, <2>1, <2>2, <3>1
  <2>3. CASE ~(d = c /\ n = m)
    <3>1. Pending(d, n)' <=> Pending(d, n)
      BY <1>5, <2>3 DEF Pending
    <3> QED BY <1>4, <2>1, <2>3, <3>1
  <2> QED BY <2>2, <2>3
<1> QED BY <1>6, <1>7, <1>8, <1>9 DEF WsInv

LEMMA SendKeeps ==
    ASSUME WsInv, NEW c \in Clients, Push(c) \/ Resend(c)
    PROVE  WsInv' /\ UNCHANGED unacked
<1>0. doing = [d \in Clients |-> doing[d]]
  BY DEF WsInv, WsTypeOK
<1>1. CASE Push(c)
  <2>1. PICK m \in doing[c], l \in {"loop", "cleanup"} : /\ wpc[c] = "push" /\ Sent(c, m) /\ GoTo(c, l, {})
                                 /\ UNCHANGED <<conns, unacked, rx, acked, posted>>
    BY <1>1 DEF Push
  <2>2. doing[c] = {m} /\ doing[c] \ {m} = {}
    BY <2>1 DEF WsInv, SendingInv
  <2>3. wpc' = [wpc EXCEPT ![c] = l] /\ doing' = [doing EXCEPT ![c] = @ \ {m}]
    BY <1>0, <2>1, <2>2 DEF GoTo
  <2> QED BY <2>1, <2>2, <2>3, SentKeeps DEF WsStages
<1>2. CASE Resend(c)
  <2>1. PICK m \in doing[c] :
          /\ wpc[c] = "resend" /\ Sent(c, m) /\ UNCHANGED <<conns, unacked, rx, acked, posted>>
          /\ \/ doing[c] = {m} /\ GoTo(c, "loop", {})
             \/ GoTo(c, "resend", doing[c] \ {m})
    BY <1>2 DEF Resend
  <2>2. PICK l \in {"loop", "resend"} : /\ l = "resend" \/ doing[c] = {m}
                                        /\ wpc' = [wpc EXCEPT ![c] = l] /\ doing' = [doing EXCEPT ![c] = @ \ {m}]
    <3>1. CASE doing[c] = {m} /\ GoTo(c, "loop", {})
      <4>1. doing[c] \ {m} = {}
        BY <3>1
      <4> QED BY <1>0, <3>1, <4>1 DEF GoTo
    <3>2. CASE GoTo(c, "resend", doing[c] \ {m})
      BY <1>0, <3>2 DEF GoTo
    <3> QED BY <2>1, <3>1, <3>2
  <2> QED BY <2>1, <2>2, SentKeeps DEF WsStages
<1> QED BY <1>1, <1>2

LEMMA RetransmitKeeps ==
    ASSUME WsInv, NEW c \in Clients, Retransmit(c)
    PROVE  /\ WsInv'
           /\ \A d \in Clients : \A m \in DOMAIN unacked[d] \ DOMAIN unacked'[d] : sends[d][m] = MaxResend + 1
<1> DEFINE again == Due(c) \ Exhausted(c)
           StaysAs(m) == IF m \in again THEN [retries |-> unacked[c][m].retries + 1, age |-> 0] ELSE unacked[c][m]
<1>1. /\ wpc[c] = "loop" /\ UNCHANGED <<conns, rx, sends, acked, posted>>
      /\ unacked' = [unacked EXCEPT ![c] = [m \in DOMAIN unacked[c] \ Exhausted(c) |-> StaysAs(m)]]
      /\ \/ again = {} /\ UNCHANGED <<wpc, doing>>
         \/ wpc' = [wpc EXCEPT ![c] = "resend"] /\ doing' = [doing EXCEPT ![c] = again]
      /\ WsTypeOK /\ SendingInv /\ NewInv /\ CountInv
  BY DEF Retransmit, Looping, GoTo, WsInv, WsTypeOK
<1>2. /\ unacked'[c] = [m \in DOMAIN unacked[c] \ Exhausted(c) |-> StaysAs(m)]
      /\ \A d \in Clients : d # c => unacked'[d] = unacked[d]
      /\ unacked' = [d \in Clients |-> unacked'[d]] /\ DOMAIN unacked' = Clients
  BY <1>1 DEF WsTypeOK
<1>3. /\ again \subseteq DOMAIN unacked[c] \ Exhausted(c) /\ Exhausted(c) \subseteq DOMAIN unacked[c]
      /\ \A m \in again : ~(unacked[c][m].retries >= MaxResend)
      /\ \A m \in Exhausted(c) : unacked[c][m].retries >= MaxResend
  BY DEF Due, Exhausted
<1>4. \A m \in DOMAIN unacked[c] : unacked[c][m] \in AckWaits /\ unacked[c][m].retries \in Nat
  BY <1>1 DEF WsTypeOK, AckWaits
<1>5. MaxResend \in Nat
  BY WsAssumption
<1> HIDE DEF again
<1>6. /\ wpc' \in [Clients -> WsStages] /\ DOMAIN doing' = Clients /\ doing' = [d \in Clients |-> doing'[d]]
      /\ \A d \in Clients : d # c => wpc'[d] = wpc[d] /\ doing'[d] = doing[d]
      /\ \/ again = {} /\ wpc'[c] = "loop"
         \/ wpc'[c] = "resend" /\ doing'[c] = again
  BY <1>1 DEF WsTypeOK, WsStages
<1>7. /\ DOMAIN unacked'[c] = DOMAIN unacked[c] \ Exhausted(c)
      /\ \A m \in DOMAIN unacked'[c] : unacked'[c][m] = StaysAs(m)
  BY <1>2
<1>8. WsTypeOK'
  <2>1. \A m \in DOMAIN unacked[c] : StaysAs(m) \in AckWaits
    BY <1>3, <1>4 DEF AckWaits
  <2>2. unacked'[c] \in [DOMAIN unacked'[c] -> AckWaits]
    <3> HIDE DEF StaysAs
    <3> QED BY <1>2, <2>1
  <2>3. \A d \in Clients : DOMAIN unacked'[d] \subseteq Messages /\ unacked'[d] \in [DOMAIN unacked'[d] -> AckWaits]
    BY <1>1, <1>2, <1>7, <2>2 DEF WsTypeOK
  <2> QED BY <1>1, <1>2, <1>6, <2>3 DEF WsTypeOK
<1>9. SendingInv'
  BY <1>1, <1>2, <1>3, <1>6, <1>7 DEF SendingInv
<1>10. NewInv'
  <2>1. \A d \in Clients : DOMAIN unacked'[d] \subseteq DOMAIN unacked[d]
    BY <1>2, <1>7
  <2> QED BY <1>1, <2>1 DEF NewInv
<1>11. CountInv'
  <2> SUFFICES ASSUME NEW d \in Clients, NEW n \in DOMAIN unacked'[d]
               PROVE  /\ unacked'[d][n].retries <= MaxResend
                      /\ sends[d][n] = IF Pending(d, n)' THEN unacked'[d][n].retries
                                                         ELSE unacked'[d][n].retries + 1
    BY <1>1 DEF CountInv
  <2>1. CASE d # c
    <3>1. Pending(d, n)' <=> Pending(d, n)
      BY <1>6, <2>1 DEF Pending
    <3> QED BY <1>1, <1>2, <2>1, <3>1 DEF CountInv
  <2>2. CASE d = c
    <3>1. /\ n \in DOMAIN unacked[c] /\ unacked[c][n].retries <= MaxResend /\ ~Pending(c, n)
          /\ sends[c][n] = unacked[c][n].retries + 1
      BY <1>1, <1>7, <2>2 DEF CountInv, Pending
    <3>2. CASE n \in again
      <4>1. unacked'[c][n].retries = unacked[c][n].retries + 1 /\ Pending(c, n)'
        <5>1. unacked'[c][n] = [retries |-> unacked[c][n].retries + 1, age |-> 0]
          BY <1>7, <2>2, <3>2
        <5>2. wpc'[c] = "resend" /\ doing'[c] = again
          BY <1>6, <3>2
        <5>3. Pending(c, n)'
          BY <3>2, <5>2 DEF Pending
        <5> QED BY <5>1, <5>3
      <4> QED BY <1>3, <1>4, <1>5, <2>2, <3>1, <3>2, <4>1
    <3>3. CASE n \notin again
      <4>1. unacked'[c][n] = unacked[c][n] /\ ~Pending(c, n)'
        BY <1>6, <1>7, <2>2, <3>3 DEF Pending
      <4> QED BY <2>2, <3>1, <4>1
    <3> QED BY <3>2, <3>3
  <2> QED BY <2>1, <2>2
<1>12. ASSUME NEW d \in Clients, NEW m \in DOMAIN unacked[d] \ DOMAIN unacked'[d]
       PROVE  sends[d][m] = MaxResend + 1
  <2>1. d = c /\ m \in Exhausted(c)
    BY <1>2, <1>7
  <2>2. unacked[c][m].retries <= MaxResend /\ ~Pending(c, m) /\ sends[c][m] = unacked[c][m].retries + 1
    BY <1>1, <2>1 DEF CountInv, Pending
  <2>3. unacked[c][m].retries = MaxResend
    BY <1>3, <1>4, <1>5, <2>1, <2>2
  <2> QED BY <2>1, <2>2, <2>3
<1> QED BY <1>8, <1>9, <1>10, <1>11, <1>12 DEF WsInv

LEMMA AckKeeps ==
    ASSUME WsInv, NEW c \in Clients, NEW m \in Messages, Ack(c, m)
    PROVE  WsInv' /\ \A d \in Clients : \A n \in DOMAIN unacked[d] \ DOMAIN unacked'[d] : n \in acked'[d]
<1>1. /\ wpc[c] = "loop" /\ UNCHANGED <<conns, rx, wpc, doing, sends, posted>>
      /\ unacked' = [unacked EXCEPT ![c] = Drop(@, {m})] /\ acked' = [acked EXCEPT ![c] = @ \cup {m}]
      /\ WsTypeOK /\ SendingInv /\ NewInv /\ CountInv
  BY DEF Ack, Looping, WsInv
<1>2. /\ unacked'[c] = Drop(unacked[c], {m}) /\ m \in acked'[c]
      /\ \A d \in Clients : d # c => unacked'[d] = unacked[d]
      /\ unacked' = [d \in Clients |-> unacked'[d]] /\ DOMAIN unacked' = Clients
      /\ acked' = [d \in Clients |-> acked'[d]] /\ DOMAIN acked' = Clients
  BY <1>1 DEF WsTypeOK
<1>3. /\ DOMAIN unacked'[c] = DOMAIN unacked[c] \ {m}
      /\ \A n \in DOMAIN unacked'[c] : unacked'[c][n] = unacked[c][n]
      /\ unacked'[c] \in [DOMAIN unacked'[c] -> AckWaits]
  <2>1. unacked[c] \in [DOMAIN unacked[c] -> AckWaits]
    BY <1>1 DEF WsTypeOK
  <2> QED BY <1>2, <2>1 DEF Drop
<1>4. \A d \in Clients : /\ DOMAIN unacked'[d] \subseteq DOMAIN unacked[d]
                         /\ \A n \in DOMAIN unacked'[d] : unacked'[d][n] = unacked[d][n]
  BY <1>2, <1>3
<1>5. WsTypeOK'
  <2>1. \A d \in Clients : DOMAIN unacked'[d] \subseteq Messages /\ unacked'[d] \in [DOMAIN unacked'[d] -> AckWaits]
    BY <1>1, <1>2, <1>3 DEF WsTypeOK
  <2> QED BY <1>1, <1>2, <2>1 DEF WsTypeOK
<1>6. SendingInv'
  BY <1>1, <1>2 DEF SendingInv
<1>7. NewInv'
  <2>1. \A d \in Clients : DOMAIN unacked'[d] \subseteq DOMAIN unacked[d]
    BY <1>4
  <2>2. NewInv /\ UNCHANGED <<rx, sends, posted>>
    BY <1>1
  <2> QED BY <2>1, <2>2 DEF NewInv
<1>8. CountInv'
  <2>1. \A d \in Clients : \A n : Pending(d, n)' <=> Pending(d, n)
    BY <1>1 DEF Pending
  <2> SUFFICES ASSUME NEW d \in Clients, NEW n \in DOMAIN unacked'[d]
               PROVE  /\ unacked'[d][n].retries <= MaxResend
                      /\ sends[d][n] = IF Pending(d, n)' THEN unacked'[d][n].retries
                                                         ELSE unacked'[d][n].retries + 1
    BY <1>1 DEF CountInv
  <2>2. n \in DOMAIN unacked[d] /\ unacked'[d][n] = unacked[d][n]
    BY <1>4
  <2> QED BY <1>1, <2>1, <2>2 DEF CountInv
<1> QED BY <1>2, <1>3, <1>5, <1>6, <1>7, <1>8 DEF WsInv

LEMMA UnlistKeeps ==
    ASSUME WsInv, NEW c \in Clients, Unlist(c)
    PROVE  WsInv' /\ c \notin conns' /\ \A d \in Clients : d # c => unacked'[d] = unacked[d]
<1>1. /\ wpc[c] = "cleanup" /\ conns' = conns \ {c} /\ UNCHANGED posted
      /\ unacked' = [unacked EXCEPT ![c] = <<>>] /\ rx' = [rx EXCEPT ![c] = <<>>]
      /\ sends' = [sends EXCEPT ![c] = [m \in Messages |-> 0]] /\ acked' = [acked EXCEPT ![c] = {}]
      /\ \E l \in {"closed", "count"} : \E x : GoTo(c, l, x)
      /\ WsTypeOK /\ SendingInv /\ NewInv /\ CountInv
  BY DEF Unlist, WsInv
<1>a. PICK l \in {"closed", "count"} : \E x : GoTo(c, l, x)
  BY <1>1
<1>2. PICK x : wpc' = [wpc EXCEPT ![c] = l] /\ doing' = [doing EXCEPT ![c] = x]
  BY <1>a DEF GoTo
<1>3. DOMAIN <<>> = {} /\ <<>> \in [{} -> AckWaits] /\ <<>> \in Seq(Messages)
  OBVIOUS
<1>4. /\ unacked'[c] = <<>> /\ rx'[c] = <<>> /\ wpc'[c] \notin {"push", "resend"}
      /\ \A m \in Messages : sends'[c][m] = 0
      /\ \A d \in Clients : d # c => /\ unacked'[d] = unacked[d] /\ rx'[d] = rx[d] /\ sends'[d] = sends[d]
                                     /\ wpc'[d] = wpc[d] /\ doing'[d] = doing[d]
  BY <1>1, <1>2 DEF WsTypeOK
<1>5. DOMAIN unacked'[c] = {} /\ DOMAIN rx'[c] = {} /\ unacked'[c] \in [DOMAIN unacked'[c] -> AckWaits]
  BY <1>3, <1>4
<1>6. WsTypeOK'
  <2>1. \A d \in Clients : DOMAIN unacked'[d] \subseteq Messages /\ unacked'[d] \in [DOMAIN unacked'[d] -> AckWaits]
    BY <1>1, <1>4, <1>5 DEF WsTypeOK
  <2>2. rx' \in [Clients -> Seq(Messages)] /\ sends' \in [Clients -> [Messages -> Nat]]
    BY <1>1, <1>3 DEF WsTypeOK
  <2>3. wpc' \in [Clients -> WsStages]
    BY <1>1, <1>2 DEF WsTypeOK, WsStages
  <2>4. /\ DOMAIN unacked' = Clients /\ DOMAIN doing' = Clients /\ DOMAIN acked' = Clients
        /\ unacked' = [d \in Clients |-> unacked'[d]] /\ doing' = [d \in Clients |-> doing'[d]]
        /\ acked' = [d \in Clients |-> acked'[d]]
    BY <1>1, <1>2 DEF WsTypeOK
  <2> QED BY <1>1, <2>1, <2>2, <2>3, <2>4 DEF WsTypeOK
<1>7. SendingInv'
  BY <1>1, <1>4 DEF SendingInv
<1>8. NewInv'
  BY <1>1, <1>4, <1>5 DEF NewInv
<1>9. CountInv'
  <2>1. \A d \in Clients : d # c => \A n : Pending(d, n)' <=> Pending(d, n)
    BY <1>4 DEF Pending
  <2> QED BY <1>1, <1>4, <1>5, <2>1 DEF CountInv
<1> QED BY <1>1, <1>4, <1>6, <1>7, <1>8, <1>9 DEF WsInv

LEMMA WsTickKeeps ==
    ASSUME WsInv, WsTick
    PROVE  WsInv' /\ \A d \in Clients : DOMAIN unacked'[d] = DOMAIN unacked[d]
<1>1. /\ UNCHANGED <<conns, rx, wpc, doing, sends, acked, posted>>
      /\ unacked' = [c \in Clients |-> [m \in DOMAIN unacked[c] |->
                       [unacked[c][m] EXCEPT !.age = Older(unacked[c][m].age, AckTicks)]]]
      /\ WsTypeOK /\ SendingInv /\ NewInv /\ CountInv
  BY DEF WsTick, WsInv
<1>2. \A d \in Clients : \A m \in DOMAIN unacked[d] : unacked[d][m] \in AckWaits
  BY <1>1 DEF WsTypeOK
<1>3. \A d \in Clients : /\ DOMAIN unacked'[d] = DOMAIN unacked[d]
                         /\ unacked'[d] = [m \in DOMAIN unacked[d] |->
                              [unacked[d][m] EXCEPT !.age = Older(unacked[d][m].age, AckTicks)]]
  BY <1>1
<1>4. \A w \in AckWaits : /\ [w EXCEPT !.age = Older(w.age, AckTicks)] \in AckWaits
                       /\ [w EXCEPT !.age = Older(w.age, AckTicks)].retries = w.retries
  BY WsAssumption DEF AckWaits, Older
<1>5. \A d \in Clients : /\ unacked'[d] \in [DOMAIN unacked'[d] -> AckWaits]
                         /\ \A m \in DOMAIN unacked[d] : unacked'[d][m].retries = unacked[d][m].retries
  <2> TAKE d \in Clients
  <2> DEFINE Grown(m) == [unacked[d][m] EXCEPT !.age = Older(unacked[d][m].age, AckTicks)]
  <2>1. \A m \in DOMAIN unacked[d] : Grown(m) \in AckWaits /\ Grown(m).retries = unacked[d][m].retries
    BY <1>2, <1>4
  <2>2. unacked'[d] = [m \in DOMAIN unacked[d] |-> Grown(m)]
    BY <1>3
  <2> HIDE DEF Grown
  <2> QED BY <2>1, <2>2
<1>6. WsTypeOK'
  <2>1. unacked' = [d \in Clients |-> unacked'[d]] /\ DOMAIN unacked' = Clients
    BY <1>1
  <2> QED BY <1>1, <1>3, <1>5, <2>1 DEF WsTypeOK
<1>7. SendingInv' /\ NewInv'
  BY <1>1, <1>3 DEF SendingInv, NewInv
<1>8. CountInv'
  BY <1>1, <1>3, <1>5 DEF CountInv, Pending
<1> QED BY <1>3, <1>6, <1>7, <1>8 DEF WsInv

\* What a step may take off a list.
Settled ==
    \A c \in conns \cap conns' : \A m \in DOMAIN unacked[c] \ DOMAIN unacked'[c] :
        m \in acked'[c] \/ sends[c][m] = MaxResend + 1

LEMMA WsStep == WsInv /\ [WsNext]_wsVars => WsInv' /\ Settled
<1> SUFFICES ASSUME WsInv, [WsNext]_wsVars PROVE WsInv' /\ Settled
  OBVIOUS
<1>1. conns \subseteq Clients
  BY DEF WsInv, WsTypeOK
<1>2. ASSUME NEW c \in Clients, Task(c) \/ Client(c) PROVE WsInv' /\ Settled
  <2>1. CASE Receive(c)
    BY <1>1, <2>1, ReceiveKeeps DEF Settled
  <2>2. CASE Push(c) \/ Resend(c)
    BY <2>2, SendKeeps DEF Settled
  <2>3. CASE Retransmit(c)
    BY <1>1, <2>3, RetransmitKeeps DEF Settled
  <2>4. CASE Unlist(c)
    BY <1>1, <2>4, UnlistKeeps DEF Settled
  <2>5. CASE \E m \in Messages : Ack(c, m)
    BY <1>1, <2>5, AckKeeps DEF Settled
  <2>6. CASE \/ Connect(c) \/ Close(c) \/ Pong(c) \/ Leave(c) \/ Stall(c) \/ Joined(c)
             \/ HeartbeatTimeout(c) \/ CountRoom(c) \/ RemoveRoom(c)
             \/ \E r \in Rooms : Join(c, r)
    <3>1. WsInv' /\ UNCHANGED unacked
      BY <2>6, QuietKeeps
    <3> QED BY <3>1 DEF Settled
  <2> QED BY <1>2, <2>1, <2>2, <2>3, <2>4, <2>5, <2>6 DEF Task, Client
<1>3. ASSUME NEW m \in Messages, Broadcast(m) PROVE WsInv' /\ Settled
  BY <1>3, BroadcastKeeps DEF Settled
<1>4. CASE WsTick
  BY <1>1, <1>4, WsTickKeeps DEF Settled
<1>5. CASE UNCHANGED wsVars
  <2>1. UNCHANGED <<wpc, doing, unacked, rx, sends, acked, posted, conns>>
    BY <1>5 DEF wsVars
  <2> QED BY <1>1, <2>1, SameLists DEF Settled
<1> QED BY <1>2, <1>3, <1>4, <1>5 DEF WsNext

\* Whatever any number of clients do, and however their tasks interleave: a message leaves
\* the list of a connection that stays only by its ACK, or after it was handed to the socket
\* the first time and max_retries times more.
THEOREM GivenUpTheorem == WsSafety => GivenUpAfterRetries
<1>1. WsInv /\ [WsNext]_wsVars => [Settled]_wsVars
  BY WsStep
<1> QED BY <1>1, WsInvInit, WsStep, PTL DEF WsSafety, GivenUpAfterRetries, Settled
=============================================================================
