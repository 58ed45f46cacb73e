----------------------------- MODULE Algorithms -----------------------------
(***************************************************************************)
(* The framework's pure algorithms, each written as the code computes it   *)
(* and compared with what it is for, over every small input: the choice of *)
(* a shard (store/sharding.rs), of a variant (experiment/mod.rs) and of a  *)
(* page (the bookstore's lists), chunking (store/batch.rs), the delays and *)
(* attempts of a retry (retry/mod.rs), the hooks of an interceptor chain   *)
(* (rpc/interceptor.rs), the collection of parallel results                *)
(* (concurrent/mr.rs), masked values (utils/masking.rs), trace contexts    *)
(* (trace/propagation.rs), the order of configuration sources              *)
(* (config/mod.rs) and the status of an error (error/mod.rs).              *)
(***************************************************************************)
EXTENDS Integers, Sequences, SequencesExt, FiniteSets

CONSTANTS
    HashSpace,    \* values of fnv1a_32, which the ring positions are
    Wide,         \* values of the u64 in which distances are computed
    MaxShards,    \* bound: physical shards
    MaxItems      \* bound: items, attempts, hooks, tasks

ASSUME AlgorithmsAssumption ==
    /\ {HashSpace, Wide, MaxShards, MaxItems} \subseteq Nat \ {0}
    /\ HashSpace <= Wide

VARIABLE lib      \* the input under examination: a record with its kind

Nothing == [kind |-> "none"]
Upto(n) == [i \in 1..n |-> i]
UpToSeqs(S) == UNION {[1..n -> S] : n \in 0..MaxItems}

------------------------------------------------------------------------------
(***************************************************************************)
(* ShardStrategy::shard_index; hash[s][v] is the hash of "s:v".            *)
(***************************************************************************)
Vnodes(count, slots) ==
    FlattenSeq([s \in 1..count |-> [v \in 1..slots |-> <<s - 1, v - 1>>]])

HashShard(hash, key, slots, count) ==
    FoldLeft(LAMBDA best, n :
               LET d == (hash[n[1]][n[2]] - key) % Wide
               IN  IF d < best.dist THEN [shard |-> n[1], dist |-> d] ELSE best,
             [shard |-> 0, dist |-> Wide - 1], Vnodes(count, slots)).shard

\* The first range with the key; the index is cut to the last shard.
RangeShard(ranges, key, count) ==
    LET hit == {i \in DOMAIN ranges : ranges[i][1] <= key /\ key <= ranges[i][2]}
        i   == CHOOSE j \in hit : \A n \in hit : j <= n
    IN  IF hit = {} THEN 0 ELSE IF i - 1 < count THEN i - 1 ELSE count - 1

\* The reference: the first virtual node clockwise from the key, on the ring.
Clockwise(from, to) == (to - from) % HashSpace

OnRing(hash, key, slots, count, s) ==
    \E v \in 0..(slots - 1) : \A t \in 0..(count - 1), w \in 0..(slots - 1) :
        Clockwise(key, hash[s][v]) <= Clockwise(key, hash[t][w])

ShardCorrect(c) ==
    \A n \in 1..MaxShards :
        LET s == HashShard(c.hash, c.key, c.slots, n) IN
        /\ s \in 0..(n - 1) /\ OnRing(c.hash, c.key, c.slots, n, s)
        \* A further shard takes keys away from others, and moves none between them.
        /\ n < MaxShards => HashShard(c.hash, c.key, c.slots, n + 1) \in {s, n}

RangeCorrect(c) ==
    LET s == RangeShard(c.ranges, c.key, c.count) IN
    /\ s \in 0..(c.count - 1)
    /\ (\E i \in DOMAIN c.ranges : i <= c.count /\ c.key \in c.ranges[i][1]..c.ranges[i][2])
         => c.key \in c.ranges[s + 1][1]..c.ranges[s + 1][2]

------------------------------------------------------------------------------

\* The first variant whose cumulative weight exceeds the slot.
Walk(weights, slot) ==
    LET upTo(i) == FoldLeft(LAMBDA a, b : a + b, 0, SubSeq(weights, 1, i))
    IN  CHOOSE i \in DOMAIN weights : slot < upTo(i) /\ \A j \in 1..(i - 1) : slot >= upTo(j)

\* Disabled, or without weight: the first variant, control or not.
assign(weights, enabled, hash) ==
    LET total == FoldLeft(LAMBDA a, b : a + b, 0, weights)
    IN  IF ~enabled \/ total = 0 THEN 1 ELSE Walk(weights, hash % total)

\* The reference: of as many users as there is weight, each variant gets its own.
AssignCorrect(c) ==
    LET total == FoldLeft(LAMBDA a, b : a + b, 0, c.weights) IN
    \A i \in DOMAIN c.weights :
        Cardinality({u \in 0..(total - 1) : assign(c.weights, TRUE, u) = i}) = c.weights[i]

------------------------------------------------------------------------------
\* store/batch.rs: a new chunk whenever the last one is full.
chunk_vec(items, size) ==
    LET n == IF size = 0 THEN 1 ELSE size IN
    FoldLeft(LAMBDA acc, x :
               IF acc = <<>> \/ Len(acc[Len(acc)]) >= n THEN Append(acc, <<x>>)
               ELSE [acc EXCEPT ![Len(acc)] = Append(@, x)],
             <<>>, items)

ChunkCorrect(c) ==
    LET chunks == chunk_vec(Upto(c.n), c.size) IN
    /\ FlattenSeq(chunks) = Upto(c.n)
    /\ \A i \in DOMAIN chunks :
         /\ Len(chunks[i]) \in 1..(IF c.size = 0 THEN 1 ELSE c.size)
         /\ i < Len(chunks) => c.size = 0 \/ Len(chunks[i]) = c.size

\* list_books and list_orders: (page - 1) * page_size as usize, then a window.
Page(items, page, size) ==
    LET offset == ((page - 1) * size) % Wide
        end    == IF (offset + size) % Wide < Len(items) THEN (offset + size) % Wide ELSE Len(items)
    IN  IF offset < Len(items) THEN SubSeq(items, offset + 1, end) ELSE <<>>

PageCorrect(c) ==
    /\ FlattenSeq([p \in 1..(c.n + 1) |-> Page(Upto(c.n), p, c.size)]) = Upto(c.n)
    /\ Page(Upto(c.n), 0, c.size) = <<>>

------------------------------------------------------------------------------
(***************************************************************************)
(* RetryPolicy: delay_for_attempt() with its jitter, and with_retry() over *)
(* the outcomes that the operation would have, attempt by attempt.         *)
(***************************************************************************)
\* The delay before the jitter, and the delays that may come of it.
Capped(c, attempt) ==
    LET base == c.initial * (2 ^ attempt)
    IN  IF base < c.max THEN base ELSE c.max

delay_for_attempt(c, attempt) ==
    LET delay == Capped(c, attempt)
    IN  IF c.jitter /\ delay >= 2 THEN {delay + j : j \in 0..(delay \div 2 - 1)} ELSE {delay}

with_retry(outcomes, retries) ==
    LET tries == {i \in 1..(retries + 1) : \A j \in 1..(i - 1) : outcomes[j] = "err"}
    IN  [attempts |-> Cardinality(tries), result |-> outcomes[Cardinality(tries)]]

RetryCorrect(c) ==
    LET r == with_retry(c.outcomes, Len(c.outcomes) - 1) IN
    /\ r.result = "ok" <=> "ok" \in Range(c.outcomes)
    /\ r.result = "err" => r.attempts = Len(c.outcomes)
    \* The waits grow up to the maximum; jitter makes them longer, never shorter.
    /\ \A a \in 0..MaxItems : \A d \in delay_for_attempt(c, a) :
         /\ d >= (IF c.initial < c.max THEN c.initial ELSE c.max)
         /\ ~c.jitter => d <= c.max /\ \A e \in delay_for_attempt(c, a + 1) : d <= e

------------------------------------------------------------------------------
(***************************************************************************)
(* InterceptorChain::execute: before hooks in order, the call, after hooks *)
(* in the same order.  The first before hook that fails ends it all.       *)
(***************************************************************************)
execute(before, call) ==
    LET failing == {i \in DOMAIN before : before[i] = "err"}
        last    == CHOOSE i \in failing : \A j \in failing : i <= j
    IN  IF failing # {} THEN [before |-> Upto(last), called |-> FALSE, after |-> <<>>, result |-> "err"]
        ELSE [before |-> Upto(Len(before)), called |-> TRUE, after |-> Upto(Len(before)), result |-> call]

ChainCorrect(c) ==
    LET e == execute(c.before, c.call) IN
    /\ e.called <=> "err" \notin Range(c.before)
    /\ e.result = "ok" <=> e.called /\ c.call = "ok"
    /\ e.called => e.after = e.before

------------------------------------------------------------------------------
(***************************************************************************)
(* concurrent/mr.rs and ShardingStore::scatter await their tasks in the    *)
(* order of the items, whatever order they end in: outcomes are per item.  *)
(***************************************************************************)
Indices(outcomes, kinds) == SelectSeq(Upto(Len(outcomes)), LAMBDA i : outcomes[i] \in kinds)

map_reduce(outcomes) == Indices(outcomes, {"ok"})

\* The first error in item order is returned, and a panic before it panics.
run_all_err(outcomes) ==
    LET bad == Indices(outcomes, {"err", "panic"})
    IN  IF bad = <<>> THEN [failed |-> 0, results |-> Upto(Len(outcomes))]
        ELSE [failed |-> Head(bad), results |-> <<>>]

scatter(outcomes) == [i \in DOMAIN outcomes |-> IF outcomes[i] = "panic" THEN "err" ELSE outcomes[i]]

\* execute_batch runs the tasks one by one and counts.
execute_batch(outcomes) ==
    [succeeded |-> Len(Indices(outcomes, {"ok"})), failed |-> Len(Indices(outcomes, {"err"}))]

CollectCorrect(c) ==
    /\ \A i, j \in DOMAIN map_reduce(c.outcomes) : i < j => map_reduce(c.outcomes)[i] < map_reduce(c.outcomes)[j]
    /\ Range(map_reduce(c.outcomes)) = {i \in DOMAIN c.outcomes : c.outcomes[i] = "ok"}
    /\ Len(scatter(c.outcomes)) = Len(c.outcomes)
    /\ run_all_err(c.outcomes).failed = 0 <=> {"err", "panic"} \cap Range(c.outcomes) = {}
    /\ "panic" \notin Range(c.outcomes) =>
         execute_batch(c.outcomes).succeeded + execute_batch(c.outcomes).failed
           + Len(Indices(c.outcomes, {"discard"})) = Len(c.outcomes)

------------------------------------------------------------------------------
(***************************************************************************)
(* utils/masking.rs: a text is the widths of its characters in bytes.  The *)
(* masked text is the positions of the characters that are shown, and 0    *)
(* for every star.                                                         *)
(***************************************************************************)
Stars(n) == [i \in 1..n |-> 0]
Chars(a, b) == [i \in 1..(b - a + 1) |-> a + i - 1]

\* len() of the first n characters of a text, in bytes.
Bytes(text, n) == FoldLeft(LAMBDA a, w : a + w, 0, SubSeq(text, 1, n))

\* &text[from..to], in bytes, panics unless both are between two characters.
Panic == <<-1>>
Boundaries(text) == {Bytes(text, n) : n \in 0..Len(text)}
Slice(text, from, to) ==
    SelectSeq(Chars(1, Len(text)), LAMBDA i : from <= Bytes(text, i - 1) /\ Bytes(text, i) <= to)
Sliced(text, cuts, masked) == IF cuts \subseteq Boundaries(text) THEN masked ELSE Panic

mask_phone(text) ==
    LET len == Bytes(text, Len(text)) IN
    IF len < 7 THEN Stars(4)
    ELSE Sliced(text, {3, len - 4}, Slice(text, 0, 3) \o Stars(4) \o Slice(text, len - 4, len))

\* `at` is the place of the first '@', 0 if there is none.
mask_email(text, at) ==
    LET local == Bytes(text, at - 1)
        kept  == IF local < 2 THEN local ELSE 2
    IN  IF at = 0 THEN Stars(3)
        ELSE Sliced(text, {kept}, Slice(text, 0, kept) \o Stars(3) \o Chars(at, Len(text)))

mask_idcard(text) ==
    LET len == Bytes(text, Len(text)) IN
    IF len < 10 THEN Stars(16)
    ELSE Sliced(text, {6, len - 4}, Slice(text, 0, 6) \o Stars(len - 10) \o Slice(text, len - 4, len))

mask_bankcard(text) ==
    LET len == Bytes(text, Len(text)) IN
    IF len < 4 THEN Stars(4)
    ELSE Sliced(text, {len - 4}, Stars(len - 4) \o Slice(text, len - 4, len))

\* These two work on the characters.
mask_name(text) == IF Len(text) <= 1 THEN Stars(1) ELSE Chars(1, 1) \o Stars(Len(text) - 1)
mask_generic(text, prefix, suffix) ==
    LET n == Len(text) IN
    IF n <= prefix + suffix THEN Stars(n)
    ELSE Chars(1, prefix) \o Stars(n - prefix - suffix) \o Chars(n - suffix + 1, n)

\* The reference: the first and the last characters around some stars, if any is
\* shown at all.
Shows(masked, n, first, last) ==
    LET shown == SelectSeq(masked, LAMBDA x : x # 0)
    IN  shown = <<>> \/ shown = Chars(1, first) \o Chars(n - last + 1, n)

\* No more than those are shown, in their order.
Hides(masked, n, first, last) ==
    LET shown == SelectSeq(masked, LAMBDA x : x # 0) IN
    /\ Range(shown) \subseteq (1..first) \cup ((n - last + 1)..n)
    /\ \A i, j \in DOMAIN shown : i < j => shown[i] < shown[j]

\* What the four masks of digits and addresses promise holds for texts of one-byte
\* characters; of any other text they show no more, if they return.
ByBytes(text, masked, first, last) ==
    IF \A i \in DOMAIN text : text[i] = 1
      THEN Shows(masked, Len(text), first, last)
      ELSE masked = Panic \/ Hides(masked, Len(text), first, last)

MaskCorrect(c) ==
    LET n == Len(c.text) IN
    /\ ByBytes(c.text, mask_phone(c.text), 3, 4)
    /\ ByBytes(c.text, mask_idcard(c.text), 6, 4)
    /\ ByBytes(c.text, mask_bankcard(c.text), 0, 4)
    /\ c.at <= n /\ (c.at > 0 => c.text[c.at] = 1) =>
         ByBytes(c.text, mask_email(c.text, c.at), IF c.at - 1 < 2 THEN c.at - 1 ELSE 2, n - c.at + 1)
    /\ Shows(mask_name(c.text), n, 1, 0)
    /\ Shows(mask_generic(c.text, c.prefix, c.suffix), n, c.prefix, c.suffix)
    /\ Len(mask_generic(c.text, c.prefix, c.suffix)) = n

------------------------------------------------------------------------------
(***************************************************************************)
(* trace/propagation.rs: a traceparent is its parts between the dashes,    *)
(* each with its length and the number it denotes (-1 if it is not hex).   *)
(***************************************************************************)
Text(n, v) == [len |-> n, value |-> v]

\* TraceContext::parse; <<>> is None.
parse_traceparent(parts) ==
    IF \/ Len(parts) # 4 \/ parts[1] # Text(2, 0)
       \/ parts[4].value \notin 0..255 \/ parts[2].len # 32 \/ parts[3].len # 16
      THEN <<>>
      ELSE <<[trace_id |-> parts[2], parent |-> parts[3], flags |-> parts[4].value]>>

to_traceparent(ctx) == <<Text(2, 0), ctx.trace_id, ctx.parent, Text(2, ctx.flags)>>

\* What is parsed is passed on as it came, but for the length of the flags, and is
\* understood again.
TraceCorrect(c) ==
    LET got == parse_traceparent(c.parts) IN
    got # <<>> =>
        /\ parse_traceparent(to_traceparent(got[1])) = got
        /\ \A i \in 1..4 : to_traceparent(got[1])[i].value = c.parts[i].value
        /\ \A i \in 1..3 : to_traceparent(got[1])[i] = c.parts[i]

------------------------------------------------------------------------------
(***************************************************************************)
(* config/mod.rs: where the value of a key comes from.  A source is the    *)
(* set of keys it gives a value.                                           *)
(***************************************************************************)
Keys == {"port", "log.level"}
From(keys, source) == [k \in keys |-> source]

\* dotenvy sets the variables that are not set yet.
WithDotenv(env, file) == env @@ file

\* Figment::merge: the later provider wins.  Of the variables only those that name
\* a key of the top level are seen: RSZERO_LOG_LEVEL is the key "log_level".
Extract(yaml, env) ==
    [k \in DOMAIN env \ {"log.level"} |-> env[k]] @@ yaml @@ From(Keys, "default")

load_config(c) ==
    Extract(From(c.yaml, "yaml"), WithDotenv(From(c.process, "process"), From(c.dotenv, "dotenv")))

load_config_with_env(c) ==
    Extract(From(c.yaml, "yaml"),
            WithDotenv(WithDotenv(From(c.process, "process"), From(c.profile, "profile")),
                       From(c.dotenv, "dotenv")))

\* A key of the top level: the process's variables come first, then the profile's
\* and the common .env, then the file.
ConfigCorrect(c) ==
    LET first == CASE "port" \in c.process -> "process"
                   [] "port" \notin c.process /\ "port" \in c.profile -> "profile"
                   [] "port" \notin c.process \cup c.profile /\ "port" \in c.dotenv -> "dotenv"
                   [] OTHER -> IF "port" \in c.yaml THEN "yaml" ELSE "default"
        with == load_config_with_env(c)
    IN  /\ with["port"] = first
        /\ first # "profile" => load_config(c)["port"] = first

------------------------------------------------------------------------------
(***************************************************************************)
(* error/mod.rs: an error is its kind, the code of an Http error, and      *)
(* where its source comes from.                                            *)
(***************************************************************************)
ErrorKinds ==
    {"Config", "Database", "Cache", "Rpc", "Http", "Auth", "RateLimit", "CircuitBreaker",
     "NotFound", "Discovery", "Queue", "Serialization", "Internal"}

\* Clone: the source is shared, but a Serialization error gets one of its own.
clone_error(e) == IF e.error = "Serialization" THEN [e EXCEPT !.source = "io"] ELSE e

status_code(e) ==
    CASE e.error = "Http"           -> e.code
      [] e.error = "Auth"           -> 401
      [] e.error = "RateLimit"      -> 429
      [] e.error = "CircuitBreaker" -> 503
      [] e.error = "NotFound"       -> 404
      [] OTHER                      -> 500

\* StatusCode::from_u16 knows 100 to 999.
from_u16(code, otherwise) == IF code \in 100..999 THEN code ELSE otherwise

to_status_code(e) == from_u16(status_code(e), 500)

\* ErrorResponse::from_error and its into_response: whatever is wrong with the
\* server is 500.
respond(code) ==
    IF code >= 500 THEN 500 ELSE IF code >= 400 THEN from_u16(code, 400) ELSE 200

\* A clone is answered like the original; of the two ways to answer, the one through
\* ErrorResponse says the same for every client error, and for a server error that
\* it is one; it never turns an error into a success unless the code already was none.
ErrorCorrect(e) ==
    /\ status_code(clone_error(e)) = status_code(e) /\ clone_error(e).error = e.error
    /\ status_code(e) \in 400..499 => respond(status_code(e)) = to_status_code(e)
    /\ status_code(e) \in 500..999 => to_status_code(e) >= 500 /\ respond(status_code(e)) = 500
    /\ respond(status_code(e)) = 200 => e.error = "Http" /\ e.code < 400

------------------------------------------------------------------------------
Ring == 0..(HashSpace - 1)

Texts == {Text(2, 0), Text(2, 255), Text(1, 1), Text(3, 256), Text(2, -1), Text(32, 5), Text(32, -1),
          Text(16, 7)}

\* Long enough for a card number, or with characters of up to three bytes.
MaskTexts == {[i \in 1..n |-> 1] : n \in 0..19} \cup UpToSeqs(1..3)

LibCases ==
    [kind : {"shard"}, slots : {1, 2}, key : Ring, hash : [0..(MaxShards - 1) -> [{0, 1} -> Ring]]]
      \cup [kind : {"range"}, count : 1..MaxShards, key : 0..3, ranges : {<<>>} \cup [1..2 -> (0..2) \X (0..2)]]
      \cup [kind : {"assign"}, weights : UNION {[1..n -> 0..2] : n \in 1..MaxItems}]
      \cup [kind : {"chunk", "page"}, n : 0..MaxItems, size : 1..(MaxItems + 1)]
      \cup [kind : {"chunk"}, n : 0..MaxItems, size : {0}]
      \cup [kind : {"retry"}, outcomes : UpToSeqs({"ok", "err"}) \ {<<>>}, initial : 0..3, max : 0..9,
            jitter : BOOLEAN]
      \cup [kind : {"chain"}, before : UpToSeqs({"ok", "err"}), call : {"ok", "err"}]
      \cup [kind : {"collect"}, outcomes : UpToSeqs({"ok", "err", "discard", "panic"})]
      \cup [kind : {"mask"}, text : MaskTexts, at : 0..5, prefix : {0, 1, 3}, suffix : {0, 2}]
      \cup [kind : {"trace"}, parts : UNION {[1..n -> Texts] : n \in 3..4}]
      \cup [kind : {"config"}, process : SUBSET Keys, profile : SUBSET Keys, dotenv : SUBSET Keys,
            yaml : SUBSET Keys]
      \cup [kind : {"error"}, error : ErrorKinds, source : {"none", "cause"},
            code : {0, 99, 200, 304, 400, 404, 499, 500, 503, 999, 1000}]

LibInit == lib = Nothing

Examine == lib = Nothing /\ lib' \in LibCases

LibSpec == LibInit /\ [][Examine]_lib

=============================================================================
