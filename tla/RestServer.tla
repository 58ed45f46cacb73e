----------------------------- MODULE RestServer -----------------------------
(***************************************************************************)
(* RszeroServer (rest/server.rs) with the layers of middleware/ around its *)
(* handlers.  A builder script fixes which layers wrap which route; then   *)
(* requests run down their layers to the handler and back up, in parallel, *)
(* meeting in two places: the idempotency store and the response cache.    *)
(* The server stops by signal and drain, or by the timer of its select!.   *)
(***************************************************************************)
EXTENDS Naturals, Sequences, SequencesExt, FiniteSets

CONSTANTS
    Requests,     \* the requests that clients send, each once
    Inputs,       \* functions from Requests to what they may carry
    Setups,       \* builder scripts: sequences of <<"route", p>> and <<"layer", l>>
    KeyTtl,       \* ttl of MemoryIdempotencyStore, in ticks
    CacheTtl,     \* CacheConfig::ttl, in ticks
    CanaryWeight, \* CanaryConfig::weight, in percent
    MaxBody,      \* limit of validation_middleware and body_size_limit
    DrainTicks,   \* the 30 s of start_with_shutdown, in ticks
    MaxTime,      \* bound: the clock stops here
    NoReq         \* "no request"

ASSUME RestAssumption ==
    /\ NoReq \notin Requests
    /\ {KeyTtl, CacheTtl, CanaryWeight, MaxBody, DrainTicks, MaxTime} \subseteq Nat

VARIABLES
    input,        \* input[r]: what r carries
    layersOf,     \* layersOf[p]: the layers around route p, outermost first
    server,       \* "serving", "draining" (signal seen), "stopped"
    now,          \* the clock
    pc,           \* pc[r]: "new", "down", "handler", "up", "sent", "gone"
    at,           \* at[r]: the layer r has reached; 0 is outside
    ctx,          \* ctx[r]: what the layers have put into the request
    resp,         \* resp[r]: the response on its way up
    keys,         \* the idempotency store: key -> [status, since]
    cached,       \* the response cache in Redis: cache key -> [status, src, since]
    began,        \* history: when a request arrived
    entered,      \* history: when its handler was entered
    earlier,      \* history: the requests already answered when it arrived
    healthy       \* what the monitors last said of the dependencies

\* What every step of a request leaves alone.
rest == <<input, layersOf, server, now, healthy>>

restVars == <<rest, pc, at, ctx, resp, keys, cached, began, entered, earlier>>

Layers == {"request_id", "trace", "error", "signature", "jwt", "tenant",
           "canary", "validation", "limit", "schema", "idempotency", "cache"}

Never == MaxTime + 1

NoCtx == [rid |-> NoReq, trace |-> NoReq, tenant |-> "none", canary |-> FALSE]

NoResp == [status |-> 0, src |-> NoReq, body |-> "none", rid |-> NoReq, trace |-> NoReq]

(***************************************************************************)
(* Building the router.  axum wraps a layer around the routes that exist   *)
(* when .layer() is called, and around no later one.                       *)
(***************************************************************************)
Build(routes, step) ==
    IF step[1] = "route"
    THEN [p \in DOMAIN routes \cup {step[2]} |-> IF p = step[2] THEN <<>> ELSE routes[p]]
    ELSE [p \in DOMAIN routes |-> <<step[2]>> \o routes[p]]

\* new() adds its own layers to an empty router; they observe and are left out.
NoRoutes == [p \in {} |-> <<>>]

\* start_with_shutdown() adds the built-in endpoints last.
RegisterBuiltinEndpoints(routes) == Build(routes, <<"route", "/health">>)

RouterOf(setup) == RegisterBuiltinEndpoints(FoldLeft(Build, NoRoutes, setup))

\* The scripts add layers only.
ASSUME SetupAssumption ==
    \A s \in Setups : \A p \in DOMAIN RouterOf(s) : RouterOf(s)[p] \in Seq(Layers)

(***************************************************************************)
(* What each layer does on the way down: a gate answers with a status or   *)
(* lets the request pass (0).                                              *)
(***************************************************************************)
SignatureGate(q) == IF q.sig = "good" THEN 0 ELSE 401

JwtGate(q) == IF q.jwt = "valid" THEN 0 ELSE 401

\* Content-Length, when there is one, then the headers the rules require.
ValidationGate(q) ==
    IF q.declared > MaxBody THEN 413 ELSE IF q.headers THEN 0 ELSE 400

\* The declared length first; then the body is read up to the limit.
LimitGate(q) == IF q.declared > MaxBody \/ q.size > MaxBody THEN 413 ELSE 0

\* Methods with a body only, and only bodies that parse as JSON.
SchemaGate(q) == IF q.method \in {"POST", "PUT", "PATCH"} /\ q.json = "breaks" THEN 400 ELSE 0

Gate(l, q) ==
    CASE l = "signature"  -> SignatureGate(q)
      [] l = "jwt"        -> JwtGate(q)
      [] l = "validation" -> ValidationGate(q)
      [] l = "limit"      -> LimitGate(q)
      [] l = "schema"     -> SchemaGate(q)
      [] OTHER            -> 0

\* An id that came with the request is kept; a new one is known by the request.
RequestId(r) == IF input[r].rid # NoReq THEN input[r].rid ELSE r

\* traceparent, or X-Trace-Id, or a new id.
TraceId(r) == IF input[r].trace # NoReq THEN input[r].trace ELSE r

\* The header, or the default: the search for a ":name" segment finds nothing in
\* the path of a request, which has values there.
extract_tenant(q) == IF q.tenant # "none" THEN q.tenant ELSE "default"

\* Header, then cookie, then a roll of the dice.
is_canary(q) ==
    IF q.canary = "header:true" THEN {TRUE}
    ELSE IF q.canary = "header:false" THEN {FALSE}
    ELSE IF q.canary = "cookie" THEN {TRUE}
    ELSE IF CanaryWeight = 0 THEN {FALSE}
    ELSE IF CanaryWeight = 100 THEN {TRUE} ELSE BOOLEAN

\* The annotations a layer may make.
Annotate(l, r) ==
    CASE l = "request_id" -> {[ctx[r] EXCEPT !.rid = RequestId(r)]}
      [] l = "trace"      -> {[ctx[r] EXCEPT !.trace = TraceId(r)]}
      [] l = "tenant"     -> {[ctx[r] EXCEPT !.tenant = extract_tenant(input[r])]}
      [] l = "canary"     -> {[ctx[r] EXCEPT !.canary = c] : c \in is_canary(input[r])}
      [] OTHER            -> {ctx[r]}

CacheKey(q) == <<q.method, q.route>>

is_cacheable_request(q) == q.method = "GET"

\* The wrong variant: whatever is not the server's fault is cached.
MutantCacheableResponse(s) == s < 500

is_cacheable_response(s) == s = 200

\* cleanup() runs before every get().
LiveKeys == {k \in DOMAIN keys : now - keys[k].since < KeyTtl}

Fresh(k) == k \in DOMAIN cached /\ now - cached[k].since < CacheTtl

Put(f, k, v) == [x \in DOMAIN f \cup {k} |-> IF x = k THEN v ELSE f[x]]

------------------------------------------------------------------------------
RestInit ==
    /\ input \in Inputs
    /\ layersOf \in {RouterOf(s) : s \in Setups}
    /\ server = "serving" /\ now = 0 /\ healthy = TRUE
    /\ pc = [r \in Requests |-> "new"]
    /\ at = [r \in Requests |-> 0]
    /\ ctx = [r \in Requests |-> NoCtx]
    /\ resp = [r \in Requests |-> NoResp]
    /\ keys = <<>> /\ cached = <<>>
    /\ began = [r \in Requests |-> Never]
    /\ entered = [r \in Requests |-> Never]
    /\ earlier = [r \in Requests |-> {}]

Stack(r) == layersOf[input[r].route]

Layer(r) == Stack(r)[at[r]]

\* axum accepts connections until the shutdown signal.
Arrive(r) ==
    /\ server = "serving" /\ pc[r] = "new" /\ input[r].route \in DOMAIN layersOf
    /\ pc' = [pc EXCEPT ![r] = "down"]
    /\ at' = [at EXCEPT ![r] = 1]
    /\ began' = [began EXCEPT ![r] = now]
    /\ earlier' = [earlier EXCEPT ![r] = {a \in Requests : pc[a] = "sent"}]
    /\ UNCHANGED <<rest, ctx, resp, keys, cached, entered>>

\* A layer or the handler answers: the way up starts at the layer outside it.
Answer(r, s, src, body) ==
    /\ pc' = [pc EXCEPT ![r] = "up"]
    /\ at' = [at EXCEPT ![r] = @ - 1]
    /\ resp' = [resp EXCEPT ![r] = [NoResp EXCEPT !.status = s, !.src = src, !.body = body]]
    /\ UNCHANGED ctx

Pass(r) ==
    /\ at' = [at EXCEPT ![r] = @ + 1]
    /\ \E c \in Annotate(Layer(r), r) : ctx' = [ctx EXCEPT ![r] = c]
    /\ UNCHANGED <<pc, resp>>

\* idempotency_middleware before the handler: a known key is answered with its status
\* and a body that is always the same, whatever the first response was.
Replay(r) ==
    /\ keys' = [k \in LiveKeys |-> keys[k]]
    /\ IF input[r].key \in LiveKeys
       THEN Answer(r, keys[input[r].key].status, NoReq, "replay")
       ELSE Pass(r)

\* CacheMiddleware::handle before the handler; Redis may fail, which is a miss.
Lookup(r) ==
    LET k == CacheKey(input[r]) IN
    \/ Fresh(k) /\ Answer(r, cached[k].status, cached[k].src, "hit")
    \/ Pass(r)

\* One layer on the way down.
Down(r) ==
    LET l == Layer(r)  q == input[r] IN
    /\ pc[r] = "down" /\ at[r] <= Len(Stack(r))
    /\ CASE Gate(l, q) # 0 -> Answer(r, Gate(l, q), NoReq, "gate") /\ UNCHANGED keys
         [] l = "idempotency" /\ q.key # "none" -> Replay(r)
         [] l = "cache" /\ is_cacheable_request(q) -> Lookup(r) /\ UNCHANGED keys
         [] OTHER -> Pass(r) /\ UNCHANGED keys
    /\ UNCHANGED <<rest, cached, began, entered, earlier>>

\* next.run() has come to the end of the layers.
Enter(r) ==
    /\ pc[r] = "down" /\ at[r] > Len(Stack(r))
    /\ pc' = [pc EXCEPT ![r] = "handler"]
    /\ entered' = [entered EXCEPT ![r] = now]
    /\ UNCHANGED <<rest, at, ctx, resp, keys, cached, began, earlier>>

\* GET /health answers from what the monitors reported last.
HealthStatus == IF healthy THEN 200 ELSE 503

Handle(r) ==
    /\ pc[r] = "handler"
    /\ \E s \in IF input[r].route = "/health" THEN {HealthStatus} ELSE {200, 500} :
         Answer(r, s, r, "own")
    /\ UNCHANGED <<rest, keys, cached, began, entered, earlier>>

\* error_middleware builds a new response: headers from inner layers are gone.
Canonical(p) == [NoResp EXCEPT !.status = p.status, !.src = p.src, !.body = "canonical"]

\* What the cache keeps of a response: not its headers.
Entry(p) == [status |-> p.status, src |-> p.src, since |-> now]

\* What the idempotency store keeps of it: its status.
KeyEntry(p) == [status |-> p.status, since |-> now]

\* The wrong variant: an error is not remembered under its key.
MutantRemember(r) ==
    keys' = IF Layer(r) = "idempotency" /\ input[r].key # "none" /\ resp[r].status = 200
            THEN Put(keys, input[r].key, KeyEntry(resp[r])) ELSE keys

\* store.insert() after the handler, whatever the status.
Remember(r) ==
    keys' = IF Layer(r) = "idempotency" /\ input[r].key # "none"
            THEN Put(keys, input[r].key, KeyEntry(resp[r])) ELSE keys

\* set_ex() after the handler; it may fail, and the response goes out all the same.
Store(r) ==
    \/ /\ Layer(r) = "cache" /\ is_cacheable_request(input[r]) /\ is_cacheable_response(resp[r].status)
       /\ cached' = Put(cached, CacheKey(input[r]), Entry(resp[r]))
    \/ UNCHANGED cached

\* One layer on the way up.
Up(r) ==
    /\ pc[r] = "up" /\ at[r] > 0
    /\ at' = [at EXCEPT ![r] = @ - 1]
    /\ resp' = [resp EXCEPT ![r] =
                  CASE Layer(r) = "error" /\ @.status >= 400 -> Canonical(@)
                    [] Layer(r) = "request_id" -> [@ EXCEPT !.rid = ctx[r].rid]
                    [] Layer(r) = "trace" -> [@ EXCEPT !.trace = ctx[r].trace]
                    [] OTHER -> @]
    /\ Remember(r) /\ Store(r)
    /\ UNCHANGED <<rest, pc, ctx, began, entered, earlier>>

Send(r) ==
    /\ pc[r] = "up" /\ at[r] = 0
    /\ pc' = [pc EXCEPT ![r] = "sent"]
    /\ UNCHANGED <<rest, at, ctx, resp, keys, cached, began, entered, earlier>>

\* Where the future of a request waits: for the body of the request, for Redis, in the
\* handler, and for the client to take the response.
Waits(r) ==
    \/ pc[r] = "handler"
    \/ pc[r] = "down" /\ at[r] <= Len(Stack(r)) /\ Layer(r) \in {"limit", "schema", "cache"}
    \/ pc[r] = "up" /\ (at[r] > 0 => Layer(r) = "cache")

\* The client goes away: the future is dropped where it waits, and the layers outside see
\* nothing of the response.  A set_ex() that is out may still take effect.
Disconnect(r) ==
    /\ Waits(r)
    /\ pc' = [pc EXCEPT ![r] = "gone"]
    /\ IF pc[r] = "up" /\ at[r] > 0 THEN Store(r) ELSE UNCHANGED cached
    /\ UNCHANGED <<rest, at, ctx, resp, keys, began, entered, earlier>>

\* A monitor_health() task reports a dependency; it matters to GET /health only.
Report ==
    /\ \E r \in Requests : pc[r] = "handler" /\ input[r].route = "/health"
    /\ healthy' = ~healthy
    /\ UNCHANGED <<input, layersOf, server, now, pc, at, ctx, resp, keys, cached, began, entered, earlier>>

Signal ==
    /\ server = "serving"
    /\ server' = "draining"
    /\ UNCHANGED <<input, layersOf, now, healthy, pc, at, ctx, resp, keys, cached, began, entered, earlier>>

InFlight == {r \in Requests : pc[r] \in {"down", "handler", "up"}}

\* with_graceful_shutdown ends when no request is left.
Drained ==
    /\ server = "draining" /\ InFlight = {}
    /\ server' = "stopped"
    /\ UNCHANGED <<input, layersOf, now, healthy, pc, at, ctx, resp, keys, cached, began, entered, earlier>>

\* The wrong variant: no timer beside the server.
MutantTimer == FALSE /\ UNCHANGED restVars

\* The sleep of the select!, which started together with the server.  The
\* process ends with start_with_shutdown, and open requests with it.
Timer ==
    /\ server # "stopped" /\ now >= DrainTicks
    /\ server' = "stopped"
    /\ pc' = [r \in Requests |-> IF r \in InFlight THEN "gone" ELSE pc[r]]
    /\ UNCHANGED <<input, layersOf, now, healthy, at, ctx, resp, keys, cached, began, entered, earlier>>

RestTick ==
    /\ now < MaxTime /\ server # "stopped"
    /\ now' = now + 1
    /\ UNCHANGED <<input, layersOf, server, healthy, pc, at, ctx, resp, keys, cached, began, entered, earlier>>

RestNext ==
    \/ \E r \in Requests : Arrive(r) \/ Down(r) \/ Enter(r) \/ Handle(r) \/ Up(r) \/ Send(r) \/ Disconnect(r)
    \/ Report \/ Signal \/ Drained \/ Timer \/ RestTick

\* The clock goes on, the timer fires, the drain is noticed.  Handlers need not
\* return, clients need not send, and nobody need send a signal.
RestFairness == WF_restVars(RestTick) /\ WF_restVars(Timer) /\ WF_restVars(Drained)

RestSafety == RestInit /\ [][RestNext]_restVars

RestSpec == RestSafety /\ RestFairness
------------------------------------------------------------------------------
RestTypeOK ==
    /\ input \in Inputs
    /\ \A p \in DOMAIN layersOf : layersOf[p] \in Seq(Layers)
    /\ server \in {"serving", "draining", "stopped"}
    /\ healthy \in BOOLEAN /\ now \in 0..MaxTime
    /\ pc \in [Requests -> {"new", "down", "handler", "up", "sent", "gone"}]
    /\ at \in [Requests -> 0..(Cardinality(Layers) + 1)]
    /\ began \in [Requests -> 0..Never] /\ entered \in [Requests -> 0..Never]
    /\ earlier \in [Requests -> SUBSET Requests]

ran == {r \in Requests : entered[r] # Never}

Behind(r, n) == \A i \in 1..n : Gate(Stack(r)[i], input[r]) = 0

\* No route looks for a key behind its response cache.
KeysOutsideCaches ==
    \A s \in Setups : \A p \in DOMAIN RouterOf(s) : \A i, j \in 1..Len(RouterOf(s)[p]) :
        RouterOf(s)[p][i] = "cache" /\ RouterOf(s)[p][j] = "idempotency" => j < i

(***************************************************************************)
(* Whoever is answered may be, and with what is his: a request runs its    *)
(* handler behind all gates of its route; one that is answered from the    *)
(* cache or for a known key has passed the gates outside that layer.  From *)
(* the cache it gets the 200 and the work of a handler for the same method *)
(* and URI; for a known key only the status of what a request with the     *)
(* same key was answered, and the work of no handler.  And the ids on a    *)
(* response are those of its own request, also when the content is         *)
(* another's.  For routes with KeysOutsideCaches: behind a cache, the      *)
(* answer for a known key is itself cached, for the URI of the request.    *)
(***************************************************************************)
AnswersAreSound ==
    \A r \in Requests :
        LET p == resp[r]  q == input[r] IN
        /\ r \in ran => Behind(r, Len(Stack(r)))
        /\ p.body \in {"hit", "replay"} /\ pc[r] = "up" => Behind(r, at[r])
        /\ p.src # NoReq => p.src \in ran
        /\ p.body = "hit" =>
             p.status = 200 /\ p.src # NoReq /\ CacheKey(input[p.src]) = CacheKey(q)
        /\ p.body = "replay" =>
             /\ p.src = NoReq
             /\ \E a \in Requests : /\ input[a].key = q.key /\ resp[a].status = p.status
                                    /\ resp[a].body \notin {"none", "replay"}
        /\ p.rid \in {NoReq, RequestId(r)} /\ p.trace \in {NoReq, TraceId(r)}

(***************************************************************************)
(* idempotency.rs: "preventing duplicate request processing".  A request   *)
(* that arrives after the answer to an executed request with its key,      *)
(* within the TTL, does not run the handler.  (Requests in parallel both   *)
(* run it, and so does the retry of a client that went away: neither has   *)
(* an answer yet.  What the duplicate gets instead: ReplayIsTheResponse.)  *)
(***************************************************************************)
DuplicatesReplayed ==
    \A b \in ran : \A a \in earlier[b] \cap ran :
        ~ /\ input[a].key # "none" /\ input[a].key = input[b].key
          /\ "idempotency" \in Range(Stack(a)) \cap Range(Stack(b))
          /\ entered[b] - began[a] < KeyTtl

\* idempotency.rs: "subsequent requests with the same key return the cached response within
\* the TTL window": who is answered for a known key gets what another request with the key
\* was answered, the work of the same handler with the same status.  The code does not do
\* so: the store keeps the status alone, and the body of a replay is fixed.
ReplayIsTheResponse ==
    \A r \in Requests : resp[r].body = "replay" =>
        \E a \in Requests \ {r} :
            /\ input[a].key = input[r].key
            /\ resp[a].src = resp[r].src /\ resp[a].status = resp[r].status

\* After the signal start_with_shutdown returns, even if a handler never does:
\* the select! of rest/server.rs has its timer.
ShutdownReturns == server = "draining" ~> server = "stopped"

\* rest/server.rs: "After the signal fires, axum stops accepting new connections
\* and waits for in-flight requests": until then the server serves.
ServesUntilSignal == [][server = "serving" => server' # "stopped"]_restVars
=============================================================================
