------------------------ MODULE QueueBackendsProofs -------------------------
(***************************************************************************)
(* For any number of messages, subscribers and pullers, any failed         *)
(* commands and any crashes, and with each of the four backends: a message *)
(* is lost in no other way than those MayBeLost names, first deliveries    *)
(* are in the order of the pushes, and two consumers work on one message   *)
(* only if claim_pending() took it over, or the channel of one was lost.   *)
(***************************************************************************)
EXTENDS QueueBackends, InductionLemmas, SequenceTheorems

Distinct(s) == \A i, j \in DOMAIN s : s[i] = s[j] => i = j

\* A message is pushed once, and only what was pushed is about.
SentInv ==
    /\ Distinct(sent)
    /\ ToSet(ready) \cup seen \subseteq ToSet(sent)

\* What has not been handed out yet waits in the order of the pushes, behind
\* everything that has.
OrderInv ==
    /\ \A i, j \in DOMAIN ready :
         i < j /\ ready[i] \notin seen /\ ready[j] \notin seen => Before(ready[i], ready[j])
    /\ \A m \in ToSet(ready) \ seen : \A n \in seen : Before(n, m)

\* A message that is in a hand, or that the broker remembers as unacked, has been
\* handed out and does not wait.
PlaceInv ==
    /\ Distinct(ready)
    /\ \A c \in Consumers : hand[c] # None => hand[c] \in seen \ ToSet(ready)
    /\ \A m \in Items : owner[m] # None => Acking /\ m \in seen \ ToSet(ready)
    /\ kind = "streams" => ToSet(ready) \cap seen = {}
    /\ kind = "rabbitmq" => \A c \in Consumers : hand[c] # None => owner[hand[c]] = c
    /\ claimed # {} => kind = "streams"

Working == {"handle", "ack", "hdel", "requeue", "hset", "got", "claimed"}

\* Which stages there are with which backend, and what a consumer has at each.
StageInv ==
    /\ ~group => kind = "streams"
    /\ topicOf # {} => kind = "streams"
    /\ \A c \in Consumers :
         /\ hand[c] # None <=> pc[c] \in Working
         /\ pc[c] \in {"read", "handle"} => kind # "memory"
         /\ pc[c] = "ack" => Acking
         /\ pc[c] = "requeue" => kind \in {"list", "rabbitmq"}
         /\ pc[c] \in {"hdel", "pull", "hset", "claimed"} => kind = "streams"
         /\ pc[c] = "got" => kind # "rabbitmq"
         /\ pc[c] = "dropping" => kind = "rabbitmq"
         /\ pc[c] \in {"ack", "hdel"} => hand[c] \in processed

\* The inductive invariant of the backends.
QueueInv ==
    /\ QueueTypeOK /\ SentInv /\ OrderInv /\ PlaceInv /\ StageInv
    /\ ExclusiveDelivery /\ NoOtherLoss

-----------------------------------------------------------------------------
(* Sequences of messages *)

\* ToSet of what the brokers do with a queue.
LEMMA SetOfAppend ==
    ASSUME NEW S, NEW s \in Seq(S), NEW x \in S
    PROVE  /\ ToSet(Append(s, x)) = ToSet(s) \cup {x}
           /\ Append(s, x) \in Seq(S)
           /\ Distinct(s) /\ x \notin ToSet(s) => Distinct(Append(s, x))
<1>1. /\ Append(s, x) \in Seq(S) /\ DOMAIN Append(s, x) = 1 .. Len(s) + 1 /\ DOMAIN s = 1 .. Len(s)
      /\ Len(s) \in Nat
      /\ \A i \in 1 .. Len(s) : Append(s, x)[i] = s[i]
      /\ Append(s, x)[Len(s) + 1] = x
  OBVIOUS
<1>2. ToSet(Append(s, x)) = ToSet(s) \cup {x}
  BY <1>1 DEF ToSet
<1>3. ASSUME Distinct(s), x \notin ToSet(s) PROVE Distinct(Append(s, x))
  <2>1. \A i \in 1 .. Len(s) : s[i] # x
    BY <1>1, <1>3 DEF ToSet
  <2> QED BY <1>1, <1>3, <2>1 DEF Distinct
<1> QED BY <1>1, <1>2, <1>3

\* What is left after the first n are taken.
Rest(s, n) == SubSeq(s, n + 1, Len(s))
First(s, n) == ToSet(SubSeq(s, 1, n))

LEMMA RestOf ==
    ASSUME NEW S, NEW s \in Seq(S), Distinct(s), NEW n \in DOMAIN s
    PROVE  /\ Rest(s, n) \in Seq(S) /\ DOMAIN Rest(s, n) = 1 .. Len(s) - n
           /\ \A i \in 1 .. Len(s) - n : i + n \in DOMAIN s /\ Rest(s, n)[i] = s[i + n]
           /\ Distinct(Rest(s, n))
           /\ First(s, n) = {s[i] : i \in 1 .. n}
           /\ ToSet(Rest(s, n)) = ToSet(s) \ First(s, n)
           /\ First(s, n) \subseteq ToSet(s)
<1>1. DOMAIN s = 1 .. Len(s) /\ Len(s) \in Nat /\ n \in 1 .. Len(s)
  OBVIOUS
<1>2. /\ Rest(s, n) \in Seq(S) /\ DOMAIN Rest(s, n) = 1 .. Len(s) - n
      /\ \A i \in 1 .. Len(s) - n : i + n \in DOMAIN s /\ Rest(s, n)[i] = s[i + n]
  BY <1>1 DEF Rest
<1>3. DOMAIN SubSeq(s, 1, n) = 1 .. n /\ \A i \in 1 .. n : SubSeq(s, 1, n)[i] = s[i]
  BY <1>1
<1>4. First(s, n) = {s[i] : i \in 1 .. n}
  BY <1>3 DEF First, ToSet
<1>5. Distinct(Rest(s, n))
  BY <1>1, <1>2 DEF Distinct
<1>6. ToSet(Rest(s, n)) = {s[i] : i \in n + 1 .. Len(s)}
  <2>1. ASSUME NEW x \in ToSet(Rest(s, n)) PROVE x \in {s[i] : i \in n + 1 .. Len(s)}
    BY <1>1, <1>2 DEF ToSet
  <2>2. ASSUME NEW i \in n + 1 .. Len(s) PROVE s[i] \in ToSet(Rest(s, n))
    <3>1. i - n \in 1 .. Len(s) - n /\ (i - n) + n = i
      BY <1>1
    <3>2. Rest(s, n)[i - n] = s[i] /\ i - n \in DOMAIN Rest(s, n)
      BY <1>2, <3>1
    <3> QED BY <3>2 DEF ToSet
  <2> QED BY <2>1, <2>2
<1>7. ToSet(Rest(s, n)) = ToSet(s) \ First(s, n) /\ First(s, n) \subseteq ToSet(s)
  <2>1. ToSet(s) = {s[i] : i \in 1 .. Len(s)}
    BY <1>1 DEF ToSet
  <2>2. \A i \in 1 .. n, j \in n + 1 .. Len(s) : s[i] # s[j]
    BY <1>1 DEF Distinct
  <2>3. \A i \in 1 .. Len(s) : i \in 1 .. n \/ i \in n + 1 .. Len(s)
    BY <1>1
  <2>4. 1 .. n \subseteq 1 .. Len(s) /\ n + 1 .. Len(s) \subseteq 1 .. Len(s)
    BY <1>1
  <2> QED BY <1>4, <1>6, <2>1, <2>2, <2>3, <2>4
<1> QED BY <1>2, <1>4, <1>5, <1>7

\* Tail is what is left after one.
LEMMA TailIsRest ==
    ASSUME NEW S, NEW s \in Seq(S), s # <<>>
    PROVE  /\ 1 \in DOMAIN s /\ Tail(s) = Rest(s, 1) /\ {s[i] : i \in 1 .. 1} = {Head(s)}
           /\ Head(s) \in S
<1>1. Len(s) \in Nat \ {0} /\ DOMAIN s = 1 .. Len(s)
  OBVIOUS
<1>2. Tail(s) \in Seq(S) /\ Len(Tail(s)) = Len(s) - 1 /\ \A i \in 1 .. Len(s) - 1 : Tail(s)[i] = s[i + 1]
  BY <1>1
<1>3. Rest(s, 1) \in Seq(S) /\ Len(Rest(s, 1)) = Len(s) - 1 /\ \A i \in 1 .. Len(s) - 1 : Rest(s, 1)[i] = s[i + 1]
  BY <1>1 DEF Rest
<1>4. Tail(s) = Rest(s, 1)
  BY <1>2, <1>3, SeqEqual
<1>5. {s[i] : i \in 1 .. 1} = {Head(s)}
  BY <1>1
<1> QED BY <1>1, <1>4, <1>5

-----------------------------------------------------------------------------
(* The order of the pushes *)

\* Before is a strict order, since a message is pushed once.
LEMMA BeforeIsStrict ==
    ASSUME Distinct(sent), sent \in Seq(Items), NEW m, NEW n, Before(m, n)
    PROVE  ~Before(n, m)
<1>1. DOMAIN sent \subseteq Nat
  OBVIOUS
<1> QED BY <1>1 DEF Before, Distinct

\* RabbitMQ puts messages back in the order of their pushes, and keeps the others.
LEMMA BackInOrder ==
    ASSUME sent \in Seq(Items), NEW ms, ms \cup ToSet(ready) \subseteq ToSet(sent)
    PROVE  /\ Back(ms) \in Seq(Items)
           /\ ToSet(Back(ms)) = ms \cup ToSet(ready)
           /\ \A i, j \in DOMAIN Back(ms) : i < j => Before(Back(ms)[i], Back(ms)[j])
<1> DEFINE W == ms \cup ToSet(ready)
           Q == Seq(Items)
           step == [p \in Q \X Items |-> IF p[2] \in W THEN Append(p[1], p[2]) ELSE p[1]]
           Def(f) == f = [i \in 0 .. Len(sent) |->
                            IF i = 0 THEN <<>>
                            ELSE IF sent[i] \in W THEN Append(f[i - 1], sent[i]) ELSE f[i - 1]]
           kept == CHOOSE f : Def(f)
<1>1. Len(sent) \in Nat /\ DOMAIN sent = 1 .. Len(sent) /\ \A i \in 1 .. Len(sent) : sent[i] \in Items
  OBVIOUS
<1>2. Back(ms) = kept[Len(sent)]
  BY DEF Back
<1>3. PICK g \in [0 .. Len(sent) -> Q] : Def(g)
  <2>1. step \in [Q \X Items -> Q]
    OBVIOUS
  <2>2. <<>> \in Q
    OBVIOUS
  <2>3. PICK g \in [0 .. Len(sent) -> Q] : IsFold(g, <<>>, step, sent)
    <3> HIDE DEF step, Q
    <3> QED BY <2>1, <2>2, FoldExists
  <2>4. ASSUME NEW i \in 0 .. Len(sent), i # 0
        PROVE  step[<<g[i - 1], sent[i]>>] = IF sent[i] \in W THEN Append(g[i - 1], sent[i]) ELSE g[i - 1]
    <3>1. g[i - 1] \in Q /\ sent[i] \in Items
      BY <1>1, <2>4
    <3> HIDE DEF Q, W
    <3> QED BY <3>1
  <2>5. Def(g)
    <3> HIDE DEF step, Q, W
    <3> QED BY <2>3, <2>4 DEF IsFold
  <2> QED BY <2>5
<1>4. Def(kept)
  <2> HIDE DEF Def
  <2> QED BY <1>3
<1> HIDE DEF kept
<1>5. kept[0] = <<>>
  BY <1>1, <1>4
<1>6. \A n \in 1 .. Len(sent) :
          kept[n] = IF sent[n] \in W THEN Append(kept[n - 1], sent[n]) ELSE kept[n - 1]
  <2>1. \A n \in 1 .. Len(sent) : n \in 0 .. Len(sent) /\ n # 0
    BY <1>1
  <2> HIDE DEF W
  <2> QED BY <1>4, <2>1
<1> DEFINE In(n) == {sent[k] : k \in 1 .. n}
           Good(n) == /\ kept[n] \in Q
                      /\ ToSet(kept[n]) = W \cap In(n)
                      /\ \A i, j \in DOMAIN kept[n] : i < j =>
                            \E k, l \in 1 .. n : k < l /\ kept[n][i] = sent[k] /\ kept[n][j] = sent[l]
           G == {n \in 0 .. Len(sent) : Good(n)}
<1> HIDE DEF Def, W
<1>7. 0 \in G
  <2>1. kept[0] \in Q /\ DOMAIN kept[0] = {} /\ ToSet(kept[0]) = {}
    BY <1>5 DEF ToSet
  <2>2. In(0) = {}
    OBVIOUS
  <2>3. Good(0)
    BY <2>1, <2>2
  <2>4. 0 \in 0 .. Len(sent)
    BY <1>1
  <2> HIDE DEF Good
  <2> QED BY <2>3, <2>4
<1>8. ASSUME NEW n \in 0 .. Len(sent) - 1, n \in G PROVE n + 1 \in G
  <2> DEFINE x == sent[n + 1]
  <2>1. n + 1 \in 1 .. Len(sent) /\ (n + 1) - 1 = n /\ n \in Nat /\ x \in Items
    BY <1>1
  <2>2. In(n + 1) = In(n) \cup {x}
    BY <2>1
  <2>3. Good(n)
    BY <1>8
  <2>4. CASE x \in W
    <3>1. kept[n + 1] = Append(kept[n], x)
      BY <1>6, <2>1, <2>4
    <3>2. kept[n + 1] \in Q /\ ToSet(kept[n + 1]) = ToSet(kept[n]) \cup {x}
      BY <2>1, <2>3, <3>1, SetOfAppend
    <3>3. ToSet(kept[n + 1]) = W \cap In(n + 1)
      BY <2>2, <2>3, <2>4, <3>2
    <3>4. /\ DOMAIN kept[n] = 1 .. Len(kept[n]) /\ Len(kept[n]) \in Nat
          /\ DOMAIN kept[n + 1] = 1 .. Len(kept[n]) + 1
          /\ \A i \in 1 .. Len(kept[n]) : kept[n + 1][i] = kept[n][i]
          /\ kept[n + 1][Len(kept[n]) + 1] = x
      BY <2>3, <3>1
    <3>5. \A i \in DOMAIN kept[n] : \E k \in 1 .. n : kept[n][i] = sent[k]
      <4>1. \A i \in DOMAIN kept[n] : kept[n][i] \in ToSet(kept[n])
        BY DEF ToSet
      <4> QED BY <4>1, <2>3
    <3>6. ASSUME NEW i \in DOMAIN kept[n + 1], NEW j \in DOMAIN kept[n + 1], i < j
          PROVE  \E k, l \in 1 .. n + 1 : k < l /\ kept[n + 1][i] = sent[k] /\ kept[n + 1][j] = sent[l]
      <4>1. CASE j = Len(kept[n]) + 1
        <5>1. PICK k \in 1 .. n : kept[n][i] = sent[k]
          BY <3>4, <3>5, <3>6, <4>1
        <5>2. k \in 1 .. n + 1 /\ n + 1 \in 1 .. n + 1 /\ k < n + 1 /\ i \in 1 .. Len(kept[n])
          BY <2>1, <3>4, <3>6, <4>1
        <5> QED BY <3>4, <4>1, <5>1, <5>2
      <4>2. CASE j # Len(kept[n]) + 1
        <5>1. i \in DOMAIN kept[n] /\ j \in DOMAIN kept[n]
          BY <3>4, <3>6, <4>2
        <5>2. PICK k \in 1 .. n, l \in 1 .. n : k < l /\ kept[n][i] = sent[k] /\ kept[n][j] = sent[l]
          BY <2>3, <3>6, <5>1
        <5>3. k \in 1 .. n + 1 /\ l \in 1 .. n + 1
          BY <2>1
        <5> QED BY <3>4, <5>1, <5>2, <5>3
      <4> QED BY <4>1, <4>2
    <3>7. Good(n + 1)
      BY <3>2, <3>3, <3>6
    <3> HIDE DEF Good
    <3> QED BY <2>1, <3>7
  <2>5. CASE x \notin W
    <3>1. kept[n + 1] = kept[n]
      BY <1>6, <2>1, <2>5
    <3>2. W \cap In(n + 1) = W \cap In(n)
      BY <2>2, <2>5
    <3>3. \A k \in 1 .. n : k \in 1 .. n + 1
      BY <2>1
    <3>4. Good(n + 1)
      <4> HIDE DEF In
      <4> QED BY <2>3, <3>1, <3>2, <3>3
    <3> HIDE DEF Good
    <3> QED BY <2>1, <3>4
  <2> QED BY <2>4, <2>5
<1>9. Good(Len(sent))
  <2>1. 0 .. Len(sent) \subseteq G
    <3> HIDE DEF G
    <3> QED BY <1>1, <1>7, <1>8, UpTo
  <2>2. Len(sent) \in 0 .. Len(sent)
    BY <1>1
  <2> HIDE DEF Good
  <2> QED BY <2>1, <2>2
<1>10. In(Len(sent)) = ToSet(sent)
  BY <1>1 DEF ToSet
<1>11. W \subseteq ToSet(sent)
  BY DEF W
<1>12. ToSet(Back(ms)) = W
  BY <1>2, <1>9, <1>10, <1>11
<1>13. \A i, j \in DOMAIN Back(ms) : i < j => Before(Back(ms)[i], Back(ms)[j])
  <2> SUFFICES ASSUME NEW i \in DOMAIN Back(ms), NEW j \in DOMAIN Back(ms), i < j
               PROVE  Before(Back(ms)[i], Back(ms)[j])
    OBVIOUS
  <2>1. \E k, l \in 1 .. Len(sent) : k < l /\ Back(ms)[i] = sent[k] /\ Back(ms)[j] = sent[l]
    BY <1>2, <1>9
  <2> QED BY <1>1, <2>1 DEF Before
<1> QED BY <1>2, <1>9, <1>12, <1>13 DEF W

\* Taking the first n messages, pushing, giving back behind the others and putting
\* back in place all keep the order in which first deliveries will come.
Queue == SentInv /\ OrderInv /\ Distinct(ready) /\ sent \in Seq(Items) /\ ready \in Seq(Items)

LEMMA QueueTaken ==
    ASSUME Queue, NEW n \in DOMAIN ready, ready' = Rest(ready, n),
           seen' = seen \cup First(ready, n), UNCHANGED sent
    PROVE  Queue' /\ ToSet(ready') = ToSet(ready) \ First(ready, n) /\ First(ready, n) \subseteq ToSet(ready)
<1>1. /\ ready' \in Seq(Items) /\ DOMAIN ready' = 1 .. Len(ready) - n
      /\ \A i \in 1 .. Len(ready) - n : i + n \in DOMAIN ready /\ ready'[i] = ready[i + n]
      /\ Distinct(ready')
      /\ First(ready, n) = {ready[i] : i \in 1 .. n}
      /\ ToSet(ready') = ToSet(ready) \ First(ready, n)
      /\ First(ready, n) \subseteq ToSet(ready)
  <2>1. ready \in Seq(Items) /\ Distinct(ready)
    BY DEF Queue
  <2>2. /\ Rest(ready, n) \in Seq(Items) /\ DOMAIN Rest(ready, n) = 1 .. Len(ready) - n
        /\ \A i \in 1 .. Len(ready) - n : i + n \in DOMAIN ready /\ Rest(ready, n)[i] = ready[i + n]
        /\ Distinct(Rest(ready, n))
        /\ First(ready, n) = {ready[i] : i \in 1 .. n}
        /\ ToSet(Rest(ready, n)) = ToSet(ready) \ First(ready, n)
        /\ First(ready, n) \subseteq ToSet(ready)
    BY <2>1, RestOf
  <2> QED BY <2>2
<1>2. DOMAIN ready = 1 .. Len(ready) /\ Len(ready) \in Nat /\ n \in 1 .. Len(ready)
  BY DEF Queue
<1>3. SentInv'
  BY <1>1 DEF Queue, SentInv
<1>4. \A x, y : Before(x, y)' <=> Before(x, y)
  BY DEF Before
<1>5. ASSUME NEW i \in DOMAIN ready', NEW j \in DOMAIN ready', i < j,
             ready'[i] \notin seen', ready'[j] \notin seen'
      PROVE  Before(ready[i], ready[j])'
  <2>1. /\ i + n \in DOMAIN ready /\ j + n \in DOMAIN ready /\ i + n < j + n
        /\ ready'[i] = ready[i + n] /\ ready'[j] = ready[j + n]
    BY <1>1, <1>2, <1>5
  <2>2. Before(ready[i + n], ready[j + n])
    BY <1>5, <2>1 DEF Queue, OrderInv
  <2> QED BY <2>1, <2>2 DEF Before
<1>6. ASSUME NEW m \in ToSet(ready') \ seen', NEW x \in seen' PROVE Before(x, m)
  <2>1. m \in ToSet(ready) \ seen
    BY <1>1
  <2>2. CASE x \in seen
    BY <2>1, <2>2 DEF Queue, OrderInv
  <2>3. CASE x \notin seen
    <3>1. PICK i \in 1 .. n : x = ready[i]
      BY <1>1, <2>3
    <3>2. PICK j \in DOMAIN ready' : m = ready'[j]
      BY DEF ToSet
    <3>3. i \in DOMAIN ready /\ j + n \in DOMAIN ready /\ i < j + n /\ m = ready[j + n]
      BY <1>1, <1>2, <3>1, <3>2
    <3> QED BY <2>1, <2>3, <3>1, <3>3 DEF Queue, OrderInv
  <2> QED BY <2>2, <2>3
<1>7. OrderInv'
  BY <1>4, <1>5, <1>6 DEF OrderInv
<1> QED BY <1>1, <1>3, <1>7 DEF Queue

LEMMA QueueHandedOut ==
    ASSUME Queue, ready # <<>>, ready' = Tail(ready), seen' = seen \cup {Head(ready)}, UNCHANGED sent
    PROVE  /\ Queue' /\ Head(ready) \in Items /\ Head(ready) \in ToSet(ready)
           /\ ToSet(ready') = ToSet(ready) \ {Head(ready)}
<1>1. /\ 1 \in DOMAIN ready /\ ready' = Rest(ready, 1) /\ {ready[i] : i \in 1 .. 1} = {Head(ready)}
      /\ Head(ready) \in Items
  BY TailIsRest DEF Queue
<1>2. First(ready, 1) = {Head(ready)}
  BY <1>1, RestOf DEF Queue
<1> QED BY <1>1, <1>2, QueueTaken

LEMMA QueueGivenBack ==
    ASSUME Queue, NEW h \in seen \ ToSet(ready), h \in Items, ready' = Append(ready, h),
           UNCHANGED <<sent, seen>>
    PROVE  Queue' /\ ToSet(ready') = ToSet(ready) \cup {h}
<1>1. ready' \in Seq(Items) /\ ToSet(ready') = ToSet(ready) \cup {h} /\ Distinct(ready')
  BY SetOfAppend DEF Queue
<1>2. /\ DOMAIN ready = 1 .. Len(ready) /\ Len(ready) \in Nat /\ DOMAIN ready' = 1 .. Len(ready) + 1
      /\ \A i \in 1 .. Len(ready) : ready'[i] = ready[i]
      /\ ready'[Len(ready) + 1] = h
  BY DEF Queue
<1>3. \A x, y : Before(x, y)' <=> Before(x, y)
  BY DEF Before
<1>4. SentInv'
  BY <1>1 DEF Queue, SentInv
<1>5. ASSUME NEW i \in DOMAIN ready', NEW j \in DOMAIN ready', i < j,
             ready'[i] \notin seen, ready'[j] \notin seen
      PROVE  Before(ready[i], ready[j])'
  <2>1. i \in DOMAIN ready /\ j \in DOMAIN ready /\ ready'[i] = ready[i] /\ ready'[j] = ready[j]
    BY <1>2, <1>5
  <2>2. Before(ready[i], ready[j])
    BY <1>5, <2>1 DEF Queue, OrderInv
  <2> QED BY <2>1, <2>2 DEF Before
<1>6. \A m \in ToSet(ready') \ seen : \A n \in seen : Before(n, m)
  BY <1>1 DEF Queue, OrderInv
<1>7. OrderInv'
  BY <1>3, <1>5, <1>6 DEF OrderInv
<1> QED BY <1>1, <1>4, <1>7 DEF Queue

LEMMA QueuePutBack ==
    ASSUME Queue, NEW ms \in SUBSET seen, ready' = Back(ms), UNCHANGED <<sent, seen>>
    PROVE  Queue' /\ ToSet(ready') = ToSet(ready) \cup ms
<1>1. /\ ready' \in Seq(Items) /\ ToSet(ready') = ms \cup ToSet(ready)
      /\ \A i, j \in DOMAIN ready' : i < j => Before(ready'[i], ready'[j])
  BY BackInOrder DEF Queue, SentInv
<1>2. \A x, y : Before(x, y)' <=> Before(x, y)
  BY DEF Before
<1>3. SentInv'
  BY <1>1 DEF Queue, SentInv
<1>4. Distinct(ready')
  <2> SUFFICES ASSUME NEW i \in DOMAIN ready', NEW j \in DOMAIN ready', ready'[i] = ready'[j], i < j
               PROVE  FALSE
    BY <1>1 DEF Distinct
  <2>1. Before(ready'[i], ready'[j])
    BY <1>1
  <2> QED BY <2>1, BeforeIsStrict DEF Queue, SentInv
<1>5. \A m \in ToSet(ready') \ seen : \A n \in seen : Before(n, m)
  BY <1>1 DEF Queue, OrderInv
<1>6. ASSUME NEW i \in DOMAIN ready', NEW j \in DOMAIN ready', i < j
      PROVE  Before(ready[i], ready[j])'
  <2>1. Before(ready'[i], ready'[j])
    BY <1>1, <1>6
  <2> QED BY <2>1 DEF Before
<1>7. OrderInv'
  BY <1>2, <1>5, <1>6 DEF OrderInv
<1> QED BY <1>1, <1>3, <1>4, <1>7 DEF Queue

LEMMA QueuePushed ==
    ASSUME Queue, NEW m \in Items, m \notin ToSet(sent), sent' = Append(sent, m), UNCHANGED seen,
           ready' = Append(ready, m) \/ ready' = ready
    PROVE  /\ Queue'
           /\ ready' = Append(ready, m) => ToSet(ready') = ToSet(ready) \cup {m}
<1>1. sent' \in Seq(Items) /\ ToSet(sent') = ToSet(sent) \cup {m} /\ Distinct(sent')
  BY SetOfAppend DEF Queue, SentInv
<1>2. /\ ready' \in Seq(Items) /\ Distinct(ready') /\ ToSet(ready') \subseteq ToSet(ready) \cup {m}
      /\ ready' = Append(ready, m) => ToSet(ready') = ToSet(ready) \cup {m}
  <2>1. m \notin ToSet(ready) /\ ready \in Seq(Items) /\ Distinct(ready)
    BY DEF Queue, SentInv
  <2>2. CASE ready' = Append(ready, m)
    BY <2>1, <2>2, SetOfAppend
  <2>3. CASE ready' = ready
    <3>1. ready # Append(ready, m)
      BY <2>1
    <3> QED BY <2>1, <2>3, <3>1
  <2> QED BY <2>2, <2>3
<1>3. /\ DOMAIN sent = 1 .. Len(sent) /\ Len(sent) \in Nat /\ DOMAIN sent' = 1 .. Len(sent) + 1
      /\ \A i \in 1 .. Len(sent) : sent'[i] = sent[i]
      /\ sent'[Len(sent) + 1] = m
  BY DEF Queue
<1>4. \A x, y : Before(x, y) => Before(x, y)'
  BY <1>3 DEF Before
<1>5. ASSUME NEW x \in ToSet(sent) PROVE Before(x, m)'
  <2>1. PICK i \in 1 .. Len(sent) : sent[i] = x
    BY <1>3 DEF ToSet
  <2>2. i \in DOMAIN sent' /\ Len(sent) + 1 \in DOMAIN sent' /\ i < Len(sent) + 1 /\ sent'[i] = x
    BY <1>3, <2>1
  <2> QED BY <1>3, <2>2 DEF Before
<1>6. SentInv'
  BY <1>1, <1>2 DEF Queue, SentInv
<1>7. /\ DOMAIN ready = 1 .. Len(ready) /\ Len(ready) \in Nat
      /\ \/ /\ DOMAIN ready' = 1 .. Len(ready) + 1
            /\ \A i \in 1 .. Len(ready) : ready'[i] = ready[i]
            /\ ready'[Len(ready) + 1] = m
         \/ ready' = ready
  BY DEF Queue
<1>8. ASSUME NEW i \in DOMAIN ready', NEW j \in DOMAIN ready', i < j,
             ready'[i] \notin seen, ready'[j] \notin seen
      PROVE  Before(ready[i], ready[j])'
  <2>1. i \in DOMAIN ready /\ ready'[i] = ready[i] /\ ready[i] \in ToSet(sent)
    <3>1. i \in DOMAIN ready /\ ready'[i] = ready[i]
      BY <1>7, <1>8
    <3> QED BY <3>1 DEF Queue, SentInv, ToSet
  <2>2. CASE j \in DOMAIN ready /\ ready'[j] = ready[j]
    <3>1. Before(ready[i], ready[j])
      BY <1>8, <2>1, <2>2 DEF Queue, OrderInv
    <3>2. \E k, l \in DOMAIN sent' : k < l /\ sent'[k] = ready[i] /\ sent'[l] = ready[j]
      BY <1>4, <3>1 DEF Before
    <3> QED BY <2>1, <2>2, <3>2 DEF Before
  <2>3. CASE ready'[j] = m
    <3>1. \E k, l \in DOMAIN sent' : k < l /\ sent'[k] = ready[i] /\ sent'[l] = m
      BY <1>5, <2>1 DEF Before
    <3> QED BY <2>1, <2>3, <3>1 DEF Before
  <2> QED BY <1>7, <1>8, <2>2, <2>3
<1>9. ASSUME NEW x \in ToSet(ready') \ seen, NEW n \in seen PROVE Before(n, x)'
  <2>1. CASE x = m
    BY <1>5, <2>1 DEF Queue, SentInv
  <2>2. CASE x # m
    BY <1>2, <1>4, <2>2 DEF Queue, OrderInv
  <2> QED BY <2>1, <2>2
<1>10. OrderInv'
  BY <1>8, <1>9 DEF OrderInv
<1> QED BY <1>1, <1>2, <1>6, <1>10 DEF Queue

-----------------------------------------------------------------------------
(* The steps *)

LEMMA QueueParts == QueueInv <=> /\ Queue /\ QueueTypeOK /\ PlaceInv /\ StageInv
                                 /\ ExclusiveDelivery /\ NoOtherLoss
BY DEF QueueInv, Queue, QueueTypeOK, PlaceInv

\* Most steps leave the queue of the broker alone.
LEMMA QueueSame == Queue /\ UNCHANGED <<sent, ready, seen>> => Queue'
BY DEF Queue, SentInv, OrderInv, Before

LEMMA SubscribeKeeps ==
    ASSUME QueueInv, NEW c \in Consumers, Subscribe(c)
    PROVE  QueueInv'
<1> USE QueueAssumption DEF Consumers, Goto, Take, Ok, Err, broker, consumers, history, faults
<1>1. Queue' /\ ToSet(ready') = ToSet(ready)
  BY QueueParts, QueueSame DEF Subscribe
<1>2. QueueTypeOK'
  <2>1. group' \in BOOLEAN
    BY QueueParts DEF QueueTypeOK, Subscribe
  <2>2. pc' \in [Consumers -> Stages]
    BY QueueParts DEF QueueTypeOK, Stages, Subscribe
  <2>3. errors' \in 0 .. MaxErrors
    <3>1. errors' = errors \/ (errors < MaxErrors /\ errors' = errors + 1)
      BY DEF Subscribe
    <3>2. errors \in 0 .. MaxErrors
      BY QueueParts DEF QueueTypeOK
    <3> QED BY <3>1, <3>2
  <2>4. hand' \in [Consumers -> Items \cup {None}]
    BY QueueParts DEF QueueTypeOK, Subscribe
  <2>5. owner' \in [Items -> Consumers \cup {None}]
    BY <1>1, QueueParts DEF QueueTypeOK, StageInv, Working, Subscribe
  <2> QED BY <1>1, <2>1, <2>2, <2>3, <2>4, <2>5, QueueParts DEF Queue, QueueTypeOK, Subscribe
<1>3. PlaceInv'
  BY <1>1, QueueParts DEF Queue, QueueTypeOK, PlaceInv, StageInv, Working, Acking, Subscribe
<1>4. StageInv'
  BY QueueParts DEF QueueTypeOK, PlaceInv, StageInv, Working, Acking, Subscribe
<1>5. ExclusiveDelivery'
  BY <1>1, QueueParts DEF QueueTypeOK, PlaceInv, StageInv, Working, Acking, ExclusiveDelivery,
     Subscribe
<1>6. NoOtherLoss'
  BY <1>1, QueueParts DEF QueueTypeOK, PlaceInv, StageInv, Working, NoOtherLoss, MayBeLost,
     InHand, Acking, Subscribe
<1> QED BY <1>1, <1>2, <1>3, <1>4, <1>5, <1>6 DEF QueueInv, Queue

LEMMA HandlerOkKeeps ==
    ASSUME QueueInv, NEW c \in Consumers, HandlerOk(c)
    PROVE  QueueInv'
<1> USE QueueAssumption DEF Consumers, Goto, Take, Ok, Err, broker, consumers, history, faults
<1>1. Queue' /\ ToSet(ready') = ToSet(ready)
  BY QueueParts, QueueSame DEF HandlerOk
<1>2. QueueTypeOK'
  BY <1>1, QueueParts DEF Queue, QueueTypeOK, StageInv, Working, Stages, Acking, HandlerOk
<1>3. PlaceInv'
  BY <1>1, QueueParts DEF Queue, QueueTypeOK, PlaceInv, StageInv, Working, Acking, HandlerOk
<1>4. StageInv'
  BY QueueParts DEF QueueTypeOK, PlaceInv, StageInv, Working, Acking, HandlerOk
<1>5. ExclusiveDelivery'
  BY <1>1, QueueParts DEF QueueTypeOK, PlaceInv, StageInv, Working, Acking, ExclusiveDelivery,
     HandlerOk
<1>6. NoOtherLoss'
  BY <1>1, QueueParts DEF QueueTypeOK, PlaceInv, StageInv, Working, NoOtherLoss, MayBeLost,
     InHand, Acking, HandlerOk
<1> QED BY <1>1, <1>2, <1>3, <1>4, <1>5, <1>6 DEF QueueInv, Queue

LEMMA HandlerErrKeeps ==
    ASSUME QueueInv, NEW c \in Consumers, HandlerErr(c)
    PROVE  QueueInv'
<1> USE QueueAssumption DEF Consumers, Goto, Take, Ok, Err, broker, consumers, history, faults
<1>1. Queue' /\ ToSet(ready') = ToSet(ready)
  BY QueueParts, QueueSame DEF HandlerErr
<1>2. QueueTypeOK'
  BY <1>1, QueueParts DEF Queue, QueueTypeOK, StageInv, Working, Stages, Acking, HandlerErr
<1>3. PlaceInv'
  BY <1>1, QueueParts DEF Queue, QueueTypeOK, PlaceInv, StageInv, Working, Acking, HandlerErr
<1>4. StageInv'
  <2>1. kind \in {"memory", "list", "streams", "rabbitmq"}
    BY QueueParts DEF QueueTypeOK
  <2> QED BY <2>1, QueueParts DEF QueueTypeOK, PlaceInv, StageInv, Working, Acking, HandlerErr
<1>5. ExclusiveDelivery'
  BY <1>1, QueueParts DEF QueueTypeOK, PlaceInv, StageInv, Working, Acking, ExclusiveDelivery,
     HandlerErr
<1>6. NoOtherLoss'
  BY <1>1, QueueParts DEF QueueTypeOK, PlaceInv, StageInv, Working, NoOtherLoss, MayBeLost,
     InHand, Acking, HandlerErr
<1> QED BY <1>1, <1>2, <1>3, <1>4, <1>5, <1>6 DEF QueueInv, Queue

LEMMA AckKeeps ==
    ASSUME QueueInv, NEW c \in Consumers, Ack(c)
    PROVE  QueueInv'
<1> USE QueueAssumption DEF Consumers, Goto, Take, Ok, Err, broker, consumers, history, faults
<1>1. Queue' /\ ToSet(ready') = ToSet(ready)
  BY QueueParts, QueueSame DEF Ack
<1>2. QueueTypeOK'
  <2>1. group' \in BOOLEAN
    BY QueueParts DEF QueueTypeOK, Ack
  <2>2. pc' \in [Consumers -> Stages]
    BY QueueParts DEF QueueTypeOK, Stages, Ack
  <2>3. errors' \in 0 .. MaxErrors
    <3>1. errors' = errors \/ (errors < MaxErrors /\ errors' = errors + 1)
      BY DEF Ack
    <3>2. errors \in 0 .. MaxErrors
      BY QueueParts DEF QueueTypeOK
    <3> QED BY <3>1, <3>2
  <2>4. hand' \in [Consumers -> Items \cup {None}]
    BY QueueParts DEF QueueTypeOK, Ack
  <2>5. owner' \in [Items -> Consumers \cup {None}]
    BY <1>1, QueueParts DEF QueueTypeOK, StageInv, Working, Ack
  <2> QED BY <1>1, <2>1, <2>2, <2>3, <2>4, <2>5, QueueParts DEF Queue, QueueTypeOK, Ack
<1>3. PlaceInv'
  <2>1. /\ owner' = owner \/ owner' = [owner EXCEPT ![hand[c]] = None]
        /\ hand' = hand \/ hand' = [hand EXCEPT ![c] = None]
        /\ kind = "rabbitmq" => hand' = [hand EXCEPT ![c] = None]
        /\ UNCHANGED <<kind, orphans, ready, seen, claimed>>
    BY DEF Ack
  <2> QED BY <1>1, <2>1, QueueParts DEF Queue, QueueTypeOK, PlaceInv, Acking
<1>4. StageInv'
  BY QueueParts DEF QueueTypeOK, PlaceInv, StageInv, Working, Acking, Ack
<1>5. ExclusiveDelivery'
  BY <1>1, QueueParts DEF QueueTypeOK, PlaceInv, StageInv, Working, Acking, ExclusiveDelivery, Ack
<1>6. NoOtherLoss'
  BY <1>1, QueueParts DEF QueueTypeOK, PlaceInv, StageInv, Working, NoOtherLoss, MayBeLost,
     InHand, Acking, Ack
<1> QED BY <1>1, <1>2, <1>3, <1>4, <1>5, <1>6 DEF QueueInv, Queue

LEMMA ForgetIdKeeps ==
    ASSUME QueueInv, NEW c \in Consumers, ForgetId(c)
    PROVE  QueueInv'
<1> USE QueueAssumption DEF Consumers, Goto, Take, Ok, Err, broker, consumers, history, faults
<1>1. Queue' /\ ToSet(ready') = ToSet(ready)
  BY QueueParts, QueueSame DEF ForgetId
<1>2. QueueTypeOK'
  BY <1>1, QueueParts DEF Queue, QueueTypeOK, StageInv, Working, Stages, Acking, ForgetId
<1>3. PlaceInv'
  BY <1>1, QueueParts DEF Queue, QueueTypeOK, PlaceInv, StageInv, Working, Acking, ForgetId
<1>4. StageInv'
  BY QueueParts DEF QueueTypeOK, PlaceInv, StageInv, Working, Acking, ForgetId
<1>5. ExclusiveDelivery'
  BY <1>1, QueueParts DEF QueueTypeOK, PlaceInv, StageInv, Working, Acking, ExclusiveDelivery,
     ForgetId
<1>6. NoOtherLoss'
  BY <1>1, QueueParts DEF QueueTypeOK, PlaceInv, StageInv, Working, NoOtherLoss, MayBeLost,
     InHand, Acking, ForgetId
<1> QED BY <1>1, <1>2, <1>3, <1>4, <1>5, <1>6 DEF QueueInv, Queue

LEMMA EnsureGroupKeeps ==
    ASSUME QueueInv, NEW c \in Consumers, EnsureGroup(c)
    PROVE  QueueInv'
<1> USE QueueAssumption DEF Consumers, Goto, Take, Ok, Err, broker, consumers, history, faults
<1>1. Queue' /\ ToSet(ready') = ToSet(ready)
  BY QueueParts, QueueSame DEF EnsureGroup
<1>2. QueueTypeOK'
  <2>1. group' \in BOOLEAN
    BY QueueParts DEF QueueTypeOK, EnsureGroup
  <2>2. pc' \in [Consumers -> Stages]
    BY QueueParts DEF QueueTypeOK, Stages, EnsureGroup
  <2>3. errors' \in 0 .. MaxErrors
    <3>1. errors' = errors \/ (errors < MaxErrors /\ errors' = errors + 1)
      BY DEF EnsureGroup
    <3>2. errors \in 0 .. MaxErrors
      BY QueueParts DEF QueueTypeOK
    <3> QED BY <3>1, <3>2
  <2>4. hand' \in [Consumers -> Items \cup {None}]
    BY QueueParts DEF QueueTypeOK, EnsureGroup
  <2>5. owner' \in [Items -> Consumers \cup {None}]
    BY <1>1, QueueParts DEF QueueTypeOK, StageInv, Working, EnsureGroup
  <2> QED BY <1>1, <2>1, <2>2, <2>3, <2>4, <2>5, QueueParts DEF Queue, QueueTypeOK, EnsureGroup
<1>3. PlaceInv'
  BY <1>1, QueueParts DEF Queue, QueueTypeOK, PlaceInv, StageInv, Working, Acking, EnsureGroup
<1>4. StageInv'
  BY QueueParts DEF QueueTypeOK, PlaceInv, StageInv, Working, Acking, EnsureGroup
<1>5. ExclusiveDelivery'
  BY <1>1, QueueParts DEF QueueTypeOK, PlaceInv, StageInv, Working, Acking, ExclusiveDelivery,
     EnsureGroup
<1>6. NoOtherLoss'
  BY <1>1, QueueParts DEF QueueTypeOK, PlaceInv, StageInv, Working, NoOtherLoss, MayBeLost,
     InHand, Acking, EnsureGroup
<1> QED BY <1>1, <1>2, <1>3, <1>4, <1>5, <1>6 DEF QueueInv, Queue

LEMMA NoteIdKeeps ==
    ASSUME QueueInv, NEW c \in Consumers, NoteId(c)
    PROVE  QueueInv'
<1> USE QueueAssumption DEF Consumers, Goto, Take, Ok, Err, broker, consumers, history, faults
<1>1. Queue' /\ ToSet(ready') = ToSet(ready)
  BY QueueParts, QueueSame DEF NoteId
<1>2. QueueTypeOK'
  BY <1>1, QueueParts DEF Queue, QueueTypeOK, StageInv, Working, Stages, Acking, NoteId
<1>3. PlaceInv'
  BY <1>1, QueueParts DEF Queue, QueueTypeOK, PlaceInv, StageInv, Working, Acking, NoteId
<1>4. StageInv'
  BY QueueParts DEF QueueTypeOK, PlaceInv, StageInv, Working, Acking, NoteId
<1>5. ExclusiveDelivery'
  BY <1>1, QueueParts DEF QueueTypeOK, PlaceInv, StageInv, Working, Acking, ExclusiveDelivery,
     NoteId
<1>6. NoOtherLoss'
  BY <1>1, QueueParts DEF QueueTypeOK, PlaceInv, StageInv, Working, NoOtherLoss, MayBeLost,
     InHand, Acking, NoteId
<1> QED BY <1>1, <1>2, <1>3, <1>4, <1>5, <1>6 DEF QueueInv, Queue

LEMMA SettleKeeps ==
    ASSUME QueueInv, NEW c \in Consumers, Settle(c)
    PROVE  QueueInv'
<1> USE QueueAssumption DEF Consumers, Goto, Take, Ok, Err, broker, consumers, history, faults
<1>1. Queue' /\ ToSet(ready') = ToSet(ready)
  BY QueueParts, QueueSame DEF Settle
<1>2. QueueTypeOK'
  BY <1>1, QueueParts DEF Queue, QueueTypeOK, StageInv, Working, Stages, Acking, Settle
<1>3. PlaceInv'
  BY <1>1, QueueParts DEF Queue, QueueTypeOK, PlaceInv, StageInv, Working, Acking, Settle
<1>4. StageInv'
  BY QueueParts DEF QueueTypeOK, PlaceInv, StageInv, Working, Acking, Settle
<1>5. ExclusiveDelivery'
  BY <1>1, QueueParts DEF QueueTypeOK, PlaceInv, StageInv, Working, Acking, ExclusiveDelivery,
     Settle
<1>6. NoOtherLoss'
  BY <1>1, QueueParts DEF QueueTypeOK, PlaceInv, StageInv, Working, NoOtherLoss, MayBeLost,
     InHand, Acking, Settle
<1> QED BY <1>1, <1>2, <1>3, <1>4, <1>5, <1>6 DEF QueueInv, Queue

LEMMA NackKeeps ==
    ASSUME QueueInv, NEW c \in Consumers, Nack(c)
    PROVE  QueueInv'
<1> USE QueueAssumption DEF Consumers, Goto, Take, Ok, Err, broker, consumers, history, faults
<1>1. Queue' /\ ToSet(ready') = ToSet(ready)
  BY QueueParts, QueueSame DEF Nack
<1>2. QueueTypeOK'
  BY <1>1, QueueParts DEF Queue, QueueTypeOK, StageInv, Working, Stages, Acking, Nack
<1>3. PlaceInv'
  BY <1>1, QueueParts DEF Queue, QueueTypeOK, PlaceInv, StageInv, Working, Acking, Nack
<1>4. StageInv'
  BY QueueParts DEF QueueTypeOK, PlaceInv, StageInv, Working, Acking, Nack
<1>5. ExclusiveDelivery'
  BY <1>1, QueueParts DEF QueueTypeOK, PlaceInv, StageInv, Working, Acking, ExclusiveDelivery, Nack
<1>6. NoOtherLoss'
  BY <1>1, QueueParts DEF QueueTypeOK, PlaceInv, StageInv, Working, NoOtherLoss, MayBeLost,
     InHand, Acking, Nack
<1> QED BY <1>1, <1>2, <1>3, <1>4, <1>5, <1>6 DEF QueueInv, Queue

LEMMA ClaimKeeps ==
    ASSUME QueueInv, NEW c \in Consumers, NEW m \in Items, Claim(c, m)
    PROVE  QueueInv'
<1> USE QueueAssumption DEF Consumers, Goto, Take, Ok, Err, broker, consumers, history, faults
<1>1. Queue' /\ ToSet(ready') = ToSet(ready)
  BY QueueParts, QueueSame DEF Claim
<1>2. QueueTypeOK'
  BY <1>1, QueueParts DEF Queue, QueueTypeOK, StageInv, Working, Stages, Acking, Claim
<1>3. PlaceInv'
  BY <1>1, QueueParts DEF Queue, QueueTypeOK, PlaceInv, StageInv, Working, Acking, Claim
<1>4. StageInv'
  BY QueueParts DEF QueueTypeOK, PlaceInv, StageInv, Working, Acking, Claim
<1>5. ExclusiveDelivery'
  BY <1>1, QueueParts DEF QueueTypeOK, PlaceInv, StageInv, Working, Acking, ExclusiveDelivery, Claim
<1>6. NoOtherLoss'
  BY <1>1, QueueParts DEF QueueTypeOK, PlaceInv, StageInv, Working, NoOtherLoss, MayBeLost,
     InHand, Acking, Claim
<1> QED BY <1>1, <1>2, <1>3, <1>4, <1>5, <1>6 DEF QueueInv, Queue

LEMMA ReadKeeps ==
    ASSUME QueueInv, NEW c \in Consumers, Read(c)
    PROVE  QueueInv'
<1> USE QueueAssumption DEF Consumers, Goto, Take, Ok, Err, broker, consumers, history, faults
<1>1. /\ Queue' /\ Head(ready) \in Items /\ Head(ready) \in ToSet(ready)
      /\ ToSet(ready') = ToSet(ready) \ {Head(ready)}
  <2>1. ready # <<>> /\ ready' = Tail(ready) /\ seen' = seen \cup {Head(ready)} /\ UNCHANGED sent
    BY DEF Read, HandOut, HandOutLost, Reads
  <2> QED BY <2>1, QueueHandedOut, QueueParts
<1>2. QueueTypeOK'
  <2>1. group' \in BOOLEAN
    BY QueueParts DEF QueueTypeOK, Read, HandOut, HandOutLost, Reads
  <2>2. pc' \in [Consumers -> Stages]
    BY QueueParts DEF QueueTypeOK, Stages, Read, HandOut, HandOutLost, Reads
  <2>3. errors' \in 0 .. MaxErrors
    <3>1. errors' = errors \/ (errors < MaxErrors /\ errors' = errors + 1)
      BY DEF Read, HandOut, HandOutLost, Reads
    <3>2. errors \in 0 .. MaxErrors
      BY QueueParts DEF QueueTypeOK
    <3> QED BY <3>1, <3>2
  <2>4. hand' \in [Consumers -> Items \cup {None}]
    BY QueueParts DEF QueueTypeOK, Read, HandOut, HandOutLost, Reads
  <2>5. owner' \in [Items -> Consumers \cup {None}]
    BY <1>1, QueueParts DEF QueueTypeOK, StageInv, Working, Read, HandOut, HandOutLost, Reads
  <2> QED BY <1>1, <2>1, <2>2, <2>3, <2>4, <2>5, QueueParts DEF Queue, QueueTypeOK, Read, HandOut,
             HandOutLost, Reads
<1>3. PlaceInv'
  <2>1. CASE HandOut(c)
    BY <1>1, <2>1, QueueParts DEF Queue, QueueTypeOK, PlaceInv, StageInv, Working, Acking, Read,
       Reads, HandOut
  <2>2. CASE HandOutLost(c)
    BY <1>1, <2>2, QueueParts DEF Queue, QueueTypeOK, PlaceInv, StageInv, Working, Acking, Read,
       Reads, HandOutLost
  <2> QED BY <2>1, <2>2 DEF Read
<1>4. StageInv'
  <2>1. CASE HandOut(c) /\ Goto(c, "handle")
    <3>1. /\ hand' = [hand EXCEPT ![c] = Head(ready)] /\ pc' = [pc EXCEPT ![c] = "handle"]
          /\ UNCHANGED <<kind, orphans, group, topicOf, processed>>
      BY <2>1 DEF Read, HandOut, Reads
    <3>2. Head(ready) # None /\ kind # "memory"
      <4>1. Head(ready) \in Items
        BY <2>1, QueueParts, TailIsRest DEF HandOut, Queue
      <4> QED BY <4>1, QueueParts DEF StageInv, Read
    <3> QED BY <3>1, <3>2, QueueParts DEF QueueTypeOK, StageInv, Working, Acking
  <2>2. CASE HandOutLost(c)
    BY <1>1, <2>2, QueueParts DEF Queue, QueueTypeOK, PlaceInv, StageInv, Working, Acking, Read,
       Reads, HandOutLost
  <2> QED BY <2>1, <2>2 DEF Read
<1>5. ExclusiveDelivery'
  <2>1. CASE HandOut(c)
    BY <1>1, <2>1, QueueParts DEF QueueTypeOK, PlaceInv, StageInv, Working, Acking,
       ExclusiveDelivery, Read, Reads, HandOut
  <2>2. CASE HandOutLost(c)
    BY <1>1, <2>2, QueueParts DEF QueueTypeOK, PlaceInv, StageInv, Working, Acking,
       ExclusiveDelivery, Read, Reads, HandOutLost
  <2> QED BY <2>1, <2>2 DEF Read
<1>6. NoOtherLoss'
  BY <1>1, QueueParts DEF QueueTypeOK, PlaceInv, StageInv, Working, NoOtherLoss, MayBeLost,
     InHand, Acking, Read, HandOut, HandOutLost, Reads
<1> QED BY <1>1, <1>2, <1>3, <1>4, <1>5, <1>6 DEF QueueInv, Queue

LEMMA PullListKeeps ==
    ASSUME QueueInv, NEW c \in Consumers, PullList(c)
    PROVE  QueueInv'
<1> USE QueueAssumption DEF Consumers, Goto, Take, Ok, Err, broker, consumers, history, faults
<1>1. /\ Queue' /\ Head(ready) \in Items /\ Head(ready) \in ToSet(ready)
      /\ ToSet(ready') = ToSet(ready) \ {Head(ready)}
  <2>1. ready # <<>> /\ ready' = Tail(ready) /\ seen' = seen \cup {Head(ready)} /\ UNCHANGED sent
    BY DEF PullList, HandOut, HandOutLost, Reads
  <2> QED BY <2>1, QueueHandedOut, QueueParts
<1>2. QueueTypeOK'
  <2>1. group' \in BOOLEAN
    BY QueueParts DEF QueueTypeOK, PullList, HandOut, HandOutLost, Reads
  <2>2. pc' \in [Consumers -> Stages]
    BY QueueParts DEF QueueTypeOK, Stages, PullList, HandOut, HandOutLost, Reads
  <2>3. errors' \in 0 .. MaxErrors
    <3>1. errors' = errors \/ (errors < MaxErrors /\ errors' = errors + 1)
      BY DEF PullList, HandOut, HandOutLost, Reads
    <3>2. errors \in 0 .. MaxErrors
      BY QueueParts DEF QueueTypeOK
    <3> QED BY <3>1, <3>2
  <2>4. hand' \in [Consumers -> Items \cup {None}]
    BY QueueParts DEF QueueTypeOK, PullList, HandOut, HandOutLost, Reads
  <2>5. owner' \in [Items -> Consumers \cup {None}]
    BY <1>1, QueueParts DEF QueueTypeOK, StageInv, Working, PullList, HandOut, HandOutLost, Reads
  <2> QED BY <1>1, <2>1, <2>2, <2>3, <2>4, <2>5, QueueParts DEF Queue, QueueTypeOK, PullList,
             HandOut, HandOutLost, Reads
<1>3. PlaceInv'
  <2>1. CASE HandOut(c)
    BY <1>1, <2>1, QueueParts DEF Queue, QueueTypeOK, PlaceInv, StageInv, Working, Acking,
       PullList, Reads, HandOut
  <2>2. CASE HandOutLost(c)
    BY <1>1, <2>2, QueueParts DEF Queue, QueueTypeOK, PlaceInv, StageInv, Working, Acking,
       PullList, Reads, HandOutLost
  <2> QED BY <2>1, <2>2 DEF PullList
<1>4. StageInv'
  <2>1. CASE HandOut(c) /\ Goto(c, "got")
    <3>1. /\ hand' = [hand EXCEPT ![c] = Head(ready)] /\ pc' = [pc EXCEPT ![c] = "got"]
          /\ UNCHANGED <<kind, orphans, group, topicOf, processed>>
      BY <2>1 DEF PullList, HandOut, Reads
    <3>2. Head(ready) # None /\ kind = "list"
      <4>1. Head(ready) \in Items
        BY <2>1, QueueParts, TailIsRest DEF HandOut, Queue
      <4> QED BY <4>1, QueueParts DEF StageInv, PullList
    <3> QED BY <3>1, <3>2, QueueParts DEF QueueTypeOK, StageInv, Working, Acking
  <2>2. CASE HandOutLost(c)
    BY <1>1, <2>2, QueueParts DEF Queue, QueueTypeOK, PlaceInv, StageInv, Working, Acking,
       PullList, Reads, HandOutLost
  <2> QED BY <2>1, <2>2 DEF PullList
<1>5. ExclusiveDelivery'
  <2>1. CASE HandOut(c)
    BY <1>1, <2>1, QueueParts DEF QueueTypeOK, PlaceInv, StageInv, Working, Acking,
       ExclusiveDelivery, PullList, Reads, HandOut
  <2>2. CASE HandOutLost(c)
    BY <1>1, <2>2, QueueParts DEF QueueTypeOK, PlaceInv, StageInv, Working, Acking,
       ExclusiveDelivery, PullList, Reads, HandOutLost
  <2> QED BY <2>1, <2>2 DEF PullList
<1>6. NoOtherLoss'
  BY <1>1, QueueParts DEF QueueTypeOK, PlaceInv, StageInv, Working, NoOtherLoss, MayBeLost,
     InHand, Acking, PullList, HandOut, HandOutLost, Reads
<1> QED BY <1>1, <1>2, <1>3, <1>4, <1>5, <1>6 DEF QueueInv, Queue

LEMMA PullMemoryKeeps ==
    ASSUME QueueInv, NEW c \in Consumers, PullMemory(c)
    PROVE  QueueInv'
<1> USE QueueAssumption DEF Consumers, Goto, Take, Ok, Err, broker, consumers, history, faults
<1>1. /\ Queue' /\ Head(ready) \in Items /\ Head(ready) \in ToSet(ready)
      /\ ToSet(ready') = ToSet(ready) \ {Head(ready)}
  <2>1. ready # <<>> /\ ready' = Tail(ready) /\ seen' = seen \cup {Head(ready)} /\ UNCHANGED sent
    BY DEF PullMemory, HandOut, HandOutLost, Reads
  <2> QED BY <2>1, QueueHandedOut, QueueParts
<1>2. QueueTypeOK'
  <2>1. group' \in BOOLEAN
    BY QueueParts DEF QueueTypeOK, PullMemory, HandOut, HandOutLost, Reads
  <2>2. pc' \in [Consumers -> Stages]
    BY QueueParts DEF QueueTypeOK, Stages, PullMemory, HandOut, HandOutLost, Reads
  <2>3. errors' \in 0 .. MaxErrors
    <3>1. errors' = errors \/ (errors < MaxErrors /\ errors' = errors + 1)
      BY DEF PullMemory, HandOut, HandOutLost, Reads
    <3>2. errors \in 0 .. MaxErrors
      BY QueueParts DEF QueueTypeOK
    <3> QED BY <3>1, <3>2
  <2>4. hand' \in [Consumers -> Items \cup {None}]
    BY QueueParts DEF QueueTypeOK, PullMemory, HandOut, HandOutLost, Reads
  <2>5. owner' \in [Items -> Consumers \cup {None}]
    BY <1>1, QueueParts DEF QueueTypeOK, StageInv, Working, PullMemory, HandOut, HandOutLost, Reads
  <2> QED BY <1>1, <2>1, <2>2, <2>3, <2>4, <2>5, QueueParts DEF Queue, QueueTypeOK, PullMemory,
             HandOut, HandOutLost, Reads
<1>3. PlaceInv'
  BY <1>1, QueueParts DEF Queue, QueueTypeOK, PlaceInv, StageInv, Working, Acking, PullMemory,
     HandOut, HandOutLost, Reads
<1>4. StageInv'
  BY <1>1, QueueParts DEF Queue, QueueTypeOK, PlaceInv, StageInv, Working, Acking, PullMemory,
     HandOut, HandOutLost, Reads
<1>5. ExclusiveDelivery'
  BY <1>1, QueueParts DEF QueueTypeOK, PlaceInv, StageInv, Working, Acking, ExclusiveDelivery,
     PullMemory, HandOut, HandOutLost, Reads
<1>6. NoOtherLoss'
  BY <1>1, QueueParts DEF QueueTypeOK, PlaceInv, StageInv, Working, NoOtherLoss, MayBeLost,
     InHand, Acking, PullMemory, HandOut, HandOutLost, Reads
<1> QED BY <1>1, <1>2, <1>3, <1>4, <1>5, <1>6 DEF QueueInv, Queue

LEMMA PullStreamKeeps ==
    ASSUME QueueInv, NEW c \in Consumers, PullStream(c)
    PROVE  QueueInv'
<1> USE QueueAssumption DEF Consumers, Goto, Take, Ok, Err, broker, consumers, history, faults
<1>1. /\ Queue'
      /\ \/ /\ Head(ready) \in Items /\ Head(ready) \in ToSet(ready)
            /\ ToSet(ready') = ToSet(ready) \ {Head(ready)}
         \/ UNCHANGED <<ready, seen, owner, hand>> /\ pc' = [pc EXCEPT ![c] = "off"]
  <2>1. CASE HandOut(c) \/ HandOutLost(c)
    <3>1. ready # <<>> /\ ready' = Tail(ready) /\ seen' = seen \cup {Head(ready)} /\ UNCHANGED sent
      BY <2>1 DEF PullStream, HandOut, HandOutLost, Reads
    <3> QED BY <3>1, QueueHandedOut, QueueParts
  <2>2. CASE UNCHANGED <<ready, seen, owner, hand>> /\ pc' = [pc EXCEPT ![c] = "off"]
    BY <2>2, QueueParts, QueueSame DEF PullStream, Reads
  <2> QED BY <2>1, <2>2 DEF PullStream
<1>2. QueueTypeOK'
  <2>1. group' \in BOOLEAN
    BY QueueParts DEF QueueTypeOK, PullStream, HandOut, HandOutLost, Reads
  <2>2. pc' \in [Consumers -> Stages]
    BY QueueParts DEF QueueTypeOK, Stages, PullStream, HandOut, HandOutLost, Reads
  <2>3. errors' \in 0 .. MaxErrors
    <3>1. errors' = errors \/ (errors < MaxErrors /\ errors' = errors + 1)
      BY DEF PullStream, HandOut, HandOutLost, Reads
    <3>2. errors \in 0 .. MaxErrors
      BY QueueParts DEF QueueTypeOK
    <3> QED BY <3>1, <3>2
  <2>4. hand' \in [Consumers -> Items \cup {None}]
    BY QueueParts DEF QueueTypeOK, PullStream, HandOut, HandOutLost, Reads
  <2>5. owner' \in [Items -> Consumers \cup {None}]
    <3>1. owner' = owner \/ owner' = [owner EXCEPT ![Head(ready)] = c]
      BY DEF PullStream, HandOut, HandOutLost
    <3> QED BY <3>1, QueueParts DEF QueueTypeOK
  <2> QED BY <1>1, <2>1, <2>2, <2>3, <2>4, <2>5, QueueParts DEF Queue, QueueTypeOK, PullStream,
             HandOut, HandOutLost, Reads
<1>3. PlaceInv'
  BY <1>1, QueueParts DEF Queue, QueueTypeOK, PlaceInv, StageInv, Working, Acking, PullStream,
     HandOut, HandOutLost, Reads
<1>4. StageInv'
  <2>1. CASE HandOut(c) /\ Goto(c, "hset")
    <3>1. /\ hand' = [hand EXCEPT ![c] = Head(ready)] /\ pc' = [pc EXCEPT ![c] = "hset"]
          /\ UNCHANGED <<kind, orphans, group, topicOf, processed>>
      BY <2>1 DEF PullStream, HandOut, Reads
    <3>2. Head(ready) # None /\ kind = "streams"
      <4>1. Head(ready) \in Items
        BY <2>1, QueueParts, TailIsRest DEF HandOut, Queue
      <4> QED BY <4>1, QueueParts DEF StageInv, PullStream
    <3> QED BY <3>1, <3>2, QueueParts DEF QueueTypeOK, StageInv, Working, Acking
  <2>2. CASE HandOutLost(c)
    BY <1>1, <2>2, QueueParts DEF Queue, QueueTypeOK, PlaceInv, StageInv, Working, Acking,
       PullStream, Reads, HandOutLost
  <2>3. CASE ready = <<>>
    BY <1>1, <2>3, QueueParts DEF Queue, QueueTypeOK, PlaceInv, StageInv, Working, Acking,
       PullStream, Reads, HandOut, HandOutLost
  <2> QED BY <2>1, <2>2, <2>3 DEF PullStream
<1>5. ExclusiveDelivery'
  <2>1. CASE HandOut(c)
    BY <1>1, <2>1, QueueParts DEF QueueTypeOK, PlaceInv, StageInv, Working, Acking,
       ExclusiveDelivery, PullStream, Reads, HandOut
  <2>2. CASE HandOutLost(c)
    BY <1>1, <2>2, QueueParts DEF QueueTypeOK, PlaceInv, StageInv, Working, Acking,
       ExclusiveDelivery, PullStream, Reads, HandOutLost
  <2>3. CASE ready = <<>>
    BY <1>1, <2>3, QueueParts DEF QueueTypeOK, PlaceInv, StageInv, Working, Acking,
       ExclusiveDelivery, PullStream, Reads, HandOut, HandOutLost
  <2> QED BY <2>1, <2>2, <2>3 DEF PullStream
<1>6. NoOtherLoss'
  BY <1>1, QueueParts DEF QueueTypeOK, PlaceInv, StageInv, Working, NoOtherLoss, MayBeLost,
     InHand, Acking, PullStream, HandOut, HandOutLost, Reads
<1> QED BY <1>1, <1>2, <1>3, <1>4, <1>5, <1>6 DEF QueueInv, Queue

LEMMA PushKeeps ==
    ASSUME QueueInv, NEW m \in Items, Push(m)
    PROVE  QueueInv'
<1> USE QueueAssumption DEF Consumers, Goto, Take, Ok, Err, broker, consumers, history, faults
<1> DEFINE entered == ready' = Append(ready, m)
<1>0. /\ UNCHANGED <<kind, orphans, group, owner, topicOf, pc, hand, seen, processed, nacked, claimed, crashes>>
      /\ sent' = Append(sent, m) /\ m \notin ToSet(sent)
      /\ entered \/ ready' = ready
      /\ errors' = errors \/ (errors < MaxErrors /\ errors' = errors + 1)
      /\ early' = early \/ early' = early \cup {m}
      /\ \/ pushed' = pushed
         \/ /\ pushed' = pushed \cup {m}
            /\ entered \/ (~group /\ m \in early') \/ (kind = "rabbitmq" /\ errors' = errors + 1)
  BY DEF Push, NewMessage, PushMemory, PushList, PushStream, PushRabbit, Published, PublishFails,
     Enqueue
<1>1. /\ Queue' /\ m \notin seen /\ m \notin ToSet(ready)
      /\ entered => ToSet(ready') = ToSet(ready) \cup {m}
  BY <1>0, QueueParts, QueuePushed DEF Queue, SentInv
<1> HIDE DEF entered
<1>2. QueueTypeOK'
  BY <1>0, <1>1, QueueParts DEF Queue, QueueTypeOK
<1>3. PlaceInv'
  <2>1. ToSet(ready') \subseteq ToSet(ready) \cup {m}
    BY <1>0, <1>1
  <2> QED BY <1>0, <1>1, <2>1, QueueParts DEF Queue, QueueTypeOK, PlaceInv, Acking
<1>4. StageInv'
  BY <1>0, QueueParts DEF StageInv, Working, Acking
<1>5. ExclusiveDelivery'
  BY <1>0, QueueParts DEF ExclusiveDelivery
<1>6. NoOtherLoss'
  <2> SUFFICES ASSUME NEW x \in pushed'
               PROVE  (x \in processed \cup ToSet(ready) \/ owner[x] # None \/ (~Acking /\ InHand(x)) \/ MayBeLost(x))'
    BY DEF NoOtherLoss
  <2>1. ToSet(ready) \subseteq ToSet(ready') /\ errors' >= errors /\ errors \in Nat
    BY <1>0, <1>1, QueueParts DEF QueueTypeOK
  <2>2. CASE x \in pushed
    <3>1. x \in processed \cup ToSet(ready) \/ owner[x] # None \/ (~Acking /\ InHand(x)) \/ MayBeLost(x)
      BY <2>2, QueueParts DEF NoOtherLoss
    <3> QED BY <1>0, <2>1, <3>1 DEF InHand, MayBeLost, Acking
  <2>3. CASE x \notin pushed
    BY <1>0, <1>1, <2>1, <2>3, QueueParts DEF StageInv, MayBeLost
  <2> QED BY <2>2, <2>3
<1> QED BY <1>1, <1>2, <1>3, <1>4, <1>5, <1>6 DEF QueueInv, Queue

LEMMA PullRabbitKeeps ==
    ASSUME QueueInv, NEW c \in Consumers, PullRabbit(c)
    PROVE  QueueInv'
<1> USE QueueAssumption DEF Consumers, Goto, Take, Ok, Err, broker, consumers, history, faults
<1>0. PICK n \in DOMAIN ready :
          /\ ready' = Rest(ready, n) /\ seen' = seen \cup First(ready, n)
          /\ owner' = [m \in Items |-> IF m \in First(ready, n) THEN c ELSE owner[m]]
  BY DEF PullRabbit, Rest, First
<1>1. Queue' /\ ToSet(ready') = ToSet(ready) \ First(ready, n) /\ First(ready, n) \subseteq ToSet(ready)
  BY <1>0, QueueParts, QueueTaken DEF PullRabbit, Reads
<1>r. /\ UNCHANGED <<kind, orphans, sent, pushed, group, topicOf, hand, processed, nacked, early, claimed, faults>>
      /\ pc' = [pc EXCEPT ![c] = "dropping"] /\ pc[c] = "off" /\ kind = "rabbitmq"
  BY DEF PullRabbit, Reads
<1>2. QueueTypeOK'
  <2>1. First(ready, n) \subseteq Items /\ seen' \subseteq Items
    BY <1>0, <1>1, QueueParts DEF Queue, QueueTypeOK, ToSet
  <2> QED BY <1>0, <1>1, <1>r, <2>1, QueueParts DEF Queue, QueueTypeOK, Stages
<1>3. PlaceInv'
  BY <1>0, <1>1, <1>r, QueueParts DEF Queue, QueueTypeOK, PlaceInv, Acking
<1>4. StageInv'
  BY <1>r, QueueParts DEF QueueTypeOK, StageInv, Working, Acking
<1>5. ExclusiveDelivery'
  BY <1>r, QueueParts DEF ExclusiveDelivery
<1>6. NoOtherLoss'
  <2> SUFFICES ASSUME NEW x \in pushed
               PROVE  (x \in processed \cup ToSet(ready) \/ owner[x] # None \/ (~Acking /\ InHand(x)) \/ MayBeLost(x))'
    BY <1>r DEF NoOtherLoss
  <2>1. x \in processed \cup ToSet(ready) \/ owner[x] # None \/ (~Acking /\ InHand(x)) \/ MayBeLost(x)
    BY QueueParts DEF NoOtherLoss
  <2> QED BY <1>0, <1>1, <1>r, <2>1, QueueParts DEF QueueTypeOK, MayBeLost, Acking
<1> QED BY <1>1, <1>2, <1>3, <1>4, <1>5, <1>6 DEF QueueInv, Queue

LEMMA RequeueKeeps ==
    ASSUME QueueInv, NEW c \in Consumers, Requeue(c)
    PROVE  QueueInv'
<1> USE QueueAssumption DEF Consumers, Goto, Take, Ok, Err, broker, consumers, history, faults
<1>0. /\ pc[c] = "requeue" /\ pc' = [pc EXCEPT ![c] = "read"] /\ hand' = [hand EXCEPT ![c] = None]
      /\ UNCHANGED <<kind, orphans, sent, pushed, group, topicOf, seen, processed, nacked, early, claimed, crashes>>
      /\ \/ /\ owner' = [owner EXCEPT ![hand[c]] = None] /\ UNCHANGED errors
            /\ ready' = IF kind = "list" THEN Append(ready, hand[c]) ELSE Back({hand[c]})
         \/ UNCHANGED <<owner, ready>> /\ errors < MaxErrors /\ errors' = errors + 1
  BY DEF Requeue
<1>h. /\ hand[c] \in seen \ ToSet(ready) /\ hand[c] \in Items /\ kind \in {"list", "rabbitmq"}
      /\ \A d \in Consumers : hand[d] = hand[c] => d = c
  BY <1>0, QueueParts DEF QueueTypeOK, StageInv, Working, PlaceInv, ExclusiveDelivery
<1>1. /\ Queue'
      /\ \/ /\ owner' = [owner EXCEPT ![hand[c]] = None] /\ UNCHANGED errors
            /\ ToSet(ready') = ToSet(ready) \cup {hand[c]}
         \/ UNCHANGED <<owner, ready>> /\ errors < MaxErrors /\ errors' = errors + 1
  <2>1. CASE UNCHANGED <<owner, ready>> /\ errors < MaxErrors /\ errors' = errors + 1
    BY <1>0, <2>1, QueueParts, QueueSame
  <2>2. CASE /\ owner' = [owner EXCEPT ![hand[c]] = None] /\ UNCHANGED errors
             /\ ready' = IF kind = "list" THEN Append(ready, hand[c]) ELSE Back({hand[c]})
    <3>1. CASE kind = "list"
      BY <1>0, <1>h, <2>2, <3>1, QueueParts, QueueGivenBack
    <3>2. CASE kind # "list"
      <4>1. {hand[c]} \in SUBSET seen
        BY <1>h
      <4> QED BY <1>0, <2>2, <3>2, <4>1, QueueParts, QueuePutBack
    <3> QED BY <3>1, <3>2
  <2> QED BY <1>0, <2>1, <2>2
<1>2. QueueTypeOK'
  BY <1>0, <1>1, QueueParts DEF Queue, QueueTypeOK, Stages
<1>3. PlaceInv'
  BY <1>0, <1>1, <1>h, QueueParts DEF Queue, QueueTypeOK, PlaceInv, Acking
<1>4. StageInv'
  BY <1>0, <1>h, QueueParts DEF QueueTypeOK, StageInv, Working, Acking
<1>5. ExclusiveDelivery'
  BY <1>0, QueueParts DEF QueueTypeOK, ExclusiveDelivery
<1>6. NoOtherLoss'
  <2> SUFFICES ASSUME NEW x \in pushed
               PROVE  (x \in processed \cup ToSet(ready) \/ owner[x] # None \/ (~Acking /\ InHand(x)) \/ MayBeLost(x))'
    BY <1>0 DEF NoOtherLoss
  <2>1. x \in processed \cup ToSet(ready) \/ owner[x] # None \/ (~Acking /\ InHand(x)) \/ MayBeLost(x)
    BY QueueParts DEF NoOtherLoss
  <2>2. CASE x = hand[c]
    BY <1>0, <1>1, <1>h, <2>2, QueueParts DEF QueueTypeOK, MayBeLost
  <2>3. CASE x # hand[c]
    <3>1. InHand(x) => InHand(x)'
      BY <1>0, <2>3, QueueParts DEF InHand, QueueTypeOK
    <3>2. errors \in Nat /\ errors' \in Nat /\ errors' >= errors
      BY <1>1, QueueParts DEF QueueTypeOK
    <3> QED BY <1>0, <1>1, <2>1, <2>3, <3>1, <3>2, QueueParts DEF QueueTypeOK, MayBeLost, Acking
  <2> QED BY <2>2, <2>3
<1> QED BY <1>1, <1>2, <1>3, <1>4, <1>5, <1>6 DEF QueueInv, Queue

\* What a consumer leaves behind goes back to its place, with RabbitMQ.
Left(c) == IF kind = "rabbitmq" THEN {m \in Items : owner[m] = c} ELSE {}

LEMMA WhatIsPutBack ==
    ASSUME QueueInv, NEW c \in Consumers, PutBack(c), UNCHANGED <<kind, sent, seen>>
    PROVE  /\ Queue' /\ ToSet(ready') = ToSet(ready) \cup Left(c)
           /\ owner' = [m \in Items |-> IF m \in Left(c) THEN None ELSE owner[m]]
<1>1. CASE kind = "rabbitmq"
  <2>1. Left(c) = {m \in Items : owner[m] = c}
    BY <1>1 DEF Left
  <2>2. ready' = Back(Left(c)) /\ owner' = [m \in Items |-> IF m \in Left(c) THEN None ELSE owner[m]]
    BY <1>1, <2>1 DEF PutBack
  <2>3. Left(c) \in SUBSET seen
    BY <2>1, QueueAssumption, QueueParts DEF PlaceInv, Consumers
  <2> QED BY <2>2, <2>3, QueueParts, QueuePutBack
<1>2. CASE kind # "rabbitmq"
  <2>1. UNCHANGED <<ready, owner>> /\ Left(c) = {}
    BY <1>2 DEF PutBack, Left
  <2> QED BY <2>1, QueueParts, QueueSame DEF QueueTypeOK
<1> QED BY <1>1, <1>2

LEMMA DropChannelKeeps ==
    ASSUME QueueInv, NEW c \in Consumers, DropChannel(c)
    PROVE  QueueInv'
<1> USE QueueAssumption DEF Consumers, Goto, Take, Ok, Err, broker, consumers, history, faults
<1>0. /\ PutBack(c) /\ pc[c] = "dropping" /\ pc' = [pc EXCEPT ![c] = "off"] /\ hand[c] = None
      /\ UNCHANGED <<kind, orphans, sent, pushed, group, topicOf, hand, seen, processed, nacked, early, claimed,
                     errors, crashes>>
  BY QueueParts DEF DropChannel, StageInv, Working
<1>1. /\ Queue' /\ ToSet(ready') = ToSet(ready) \cup Left(c)
      /\ owner' = [m \in Items |-> IF m \in Left(c) THEN None ELSE owner[m]]
  BY <1>0, WhatIsPutBack
<1>m. \A m \in Items : m \in Left(c) <=> kind = "rabbitmq" /\ owner[m] = c
  BY DEF Left
<1>n. \A d \in Consumers : d # c /\ hand[d] # None => hand[d] \notin Left(c)
  BY <1>m, QueueParts DEF PlaceInv, QueueTypeOK
<1>2. QueueTypeOK'
  BY <1>0, <1>1, QueueParts DEF Queue, QueueTypeOK, Stages
<1>3. PlaceInv'
  BY <1>0, <1>1, <1>m, <1>n, QueueParts DEF Queue, QueueTypeOK, PlaceInv, Acking
<1>4. StageInv'
  BY <1>0, QueueParts DEF QueueTypeOK, StageInv, Working, Acking
<1>5. ExclusiveDelivery'
  BY <1>0, QueueParts DEF QueueTypeOK, ExclusiveDelivery
<1>6. NoOtherLoss'
  <2> SUFFICES ASSUME NEW x \in pushed
               PROVE  (x \in processed \cup ToSet(ready) \/ owner[x] # None \/ (~Acking /\ InHand(x)) \/ MayBeLost(x))'
    BY <1>0 DEF NoOtherLoss
  <2>1. x \in processed \cup ToSet(ready) \/ owner[x] # None \/ (~Acking /\ InHand(x)) \/ MayBeLost(x)
    BY QueueParts DEF NoOtherLoss
  <2>2. kind \in {"memory", "list", "streams", "rabbitmq"} /\ x \in Items /\ crashes \in Nat
    <3>1. kind \in Kinds /\ pushed \in SUBSET Items /\ crashes \in 0 .. MaxCrashes
      BY QueueParts DEF QueueTypeOK
    <3> QED BY <3>1
  <2>3. CASE kind \in {"memory", "list"}
    BY <1>0, <1>1, <1>m, <2>1, <2>2, <2>3 DEF MayBeLost, Acking, InHand
  <2>4. CASE kind = "streams"
    BY <1>0, <1>1, <1>m, <2>1, <2>2, <2>4 DEF MayBeLost, Acking
  <2>5. CASE kind = "rabbitmq"
    BY <1>0, <1>1, <1>m, <2>1, <2>2, <2>5 DEF MayBeLost, Acking
  <2> QED BY <2>2, <2>3, <2>4, <2>5
<1> QED BY <1>1, <1>2, <1>3, <1>4, <1>5, <1>6 DEF QueueInv, Queue

LEMMA CrashKeeps ==
    ASSUME QueueInv, NEW c \in Consumers, Crash(c)
    PROVE  QueueInv'
<1> USE QueueAssumption DEF Consumers, Goto, Take, Ok, Err, broker, consumers, history, faults
<1>0. /\ PutBack(c) /\ pc' = [pc EXCEPT ![c] = "off"] /\ hand' = [hand EXCEPT ![c] = None]
      /\ crashes < MaxCrashes /\ crashes' = crashes + 1
      /\ UNCHANGED <<kind, orphans, sent, pushed, group, topicOf, seen, processed, nacked, early, claimed, errors>>
  BY DEF Crash
<1>1. /\ Queue' /\ ToSet(ready') = ToSet(ready) \cup Left(c)
      /\ owner' = [m \in Items |-> IF m \in Left(c) THEN None ELSE owner[m]]
  BY <1>0, WhatIsPutBack
<1>m. \A m \in Items : m \in Left(c) <=> kind = "rabbitmq" /\ owner[m] = c
  BY DEF Left
<1>n. \A d \in Consumers : d # c /\ hand[d] # None => hand[d] \notin Left(c)
  BY <1>m, QueueParts DEF PlaceInv, QueueTypeOK
<1>2. QueueTypeOK'
  BY <1>0, <1>1, QueueParts DEF Queue, QueueTypeOK, Stages
<1>3. PlaceInv'
  BY <1>0, <1>1, <1>m, <1>n, QueueParts DEF Queue, QueueTypeOK, PlaceInv, Acking
<1>4. StageInv'
  BY <1>0, QueueParts DEF QueueTypeOK, StageInv, Working, Acking
<1>5. ExclusiveDelivery'
  BY <1>0, QueueParts DEF QueueTypeOK, ExclusiveDelivery
<1>6. NoOtherLoss'
  <2> SUFFICES ASSUME NEW x \in pushed
               PROVE  (x \in processed \cup ToSet(ready) \/ owner[x] # None \/ (~Acking /\ InHand(x)) \/ MayBeLost(x))'
    BY <1>0 DEF NoOtherLoss
  <2>1. x \in processed \cup ToSet(ready) \/ owner[x] # None \/ (~Acking /\ InHand(x)) \/ MayBeLost(x)
    BY QueueParts DEF NoOtherLoss
  <2>2. kind \in {"memory", "list", "streams", "rabbitmq"} /\ x \in Items /\ crashes \in Nat
    <3>1. kind \in Kinds /\ pushed \in SUBSET Items /\ crashes \in 0 .. MaxCrashes
      BY QueueParts DEF QueueTypeOK
    <3> QED BY <3>1
  <2>3. CASE kind \in {"memory", "list"}
    BY <1>0, <1>1, <1>m, <2>1, <2>2, <2>3 DEF MayBeLost, Acking, InHand
  <2>4. CASE kind = "streams"
    BY <1>0, <1>1, <1>m, <2>1, <2>2, <2>4 DEF MayBeLost, Acking
  <2>5. CASE kind = "rabbitmq"
    BY <1>0, <1>1, <1>m, <2>1, <2>2, <2>5 DEF MayBeLost, Acking
  <2> QED BY <2>2, <2>3, <2>4, <2>5
<1> QED BY <1>1, <1>2, <1>3, <1>4, <1>5, <1>6 DEF QueueInv, Queue

LEMMA LoseChannelKeeps ==
    ASSUME QueueInv, NEW c \in Consumers, LoseChannel(c)
    PROVE  QueueInv'
<1> USE QueueAssumption DEF Consumers, Goto, Take, Ok, Err, broker, consumers, history, faults
<1>0. /\ PutBack(c) /\ pc' = [pc EXCEPT ![c] = "off"] /\ hand' = [hand EXCEPT ![c] = None]
      /\ crashes < MaxCrashes /\ crashes' = crashes + 1
      /\ orphans' = orphans \cup {hand[c]} /\ hand[c] \in Items
      /\ UNCHANGED <<kind, sent, pushed, group, topicOf, seen, processed, nacked, early, claimed, errors>>
  BY QueueParts DEF LoseChannel, QueueTypeOK, StageInv, Working
<1>1. /\ Queue' /\ ToSet(ready') = ToSet(ready) \cup Left(c)
      /\ owner' = [m \in Items |-> IF m \in Left(c) THEN None ELSE owner[m]]
  BY <1>0, WhatIsPutBack
<1>m. \A m \in Items : m \in Left(c) <=> kind = "rabbitmq" /\ owner[m] = c
  BY DEF Left
<1>n. \A d \in Consumers : d # c /\ hand[d] # None => hand[d] \notin Left(c)
  BY <1>m, QueueParts DEF PlaceInv, QueueTypeOK
<1>2. QueueTypeOK'
  BY <1>0, <1>1, QueueParts DEF Queue, QueueTypeOK, Stages
<1>3. PlaceInv'
  BY <1>0, <1>1, <1>m, <1>n, QueueParts DEF Queue, QueueTypeOK, PlaceInv, Acking
<1>4. StageInv'
  BY <1>0, QueueParts DEF QueueTypeOK, StageInv, Working, Acking
<1>5. ExclusiveDelivery'
  BY <1>0, QueueParts DEF QueueTypeOK, ExclusiveDelivery
<1>6. NoOtherLoss'
  <2> SUFFICES ASSUME NEW x \in pushed
               PROVE  (x \in processed \cup ToSet(ready) \/ owner[x] # None \/ (~Acking /\ InHand(x)) \/ MayBeLost(x))'
    BY <1>0 DEF NoOtherLoss
  <2>1. x \in processed \cup ToSet(ready) \/ owner[x] # None \/ (~Acking /\ InHand(x)) \/ MayBeLost(x)
    BY QueueParts DEF NoOtherLoss
  <2>2. kind \in {"memory", "list", "streams", "rabbitmq"} /\ x \in Items /\ crashes \in Nat
    <3>1. kind \in Kinds /\ pushed \in SUBSET Items /\ crashes \in 0 .. MaxCrashes
      BY QueueParts DEF QueueTypeOK
    <3> QED BY <3>1
  <2>3. CASE kind \in {"memory", "list"}
    BY <1>0, <1>1, <1>m, <2>1, <2>2, <2>3 DEF MayBeLost, Acking, InHand
  <2>4. CASE kind = "streams"
    BY <1>0, <1>1, <1>m, <2>1, <2>2, <2>4 DEF MayBeLost, Acking
  <2>5. CASE kind = "rabbitmq"
    BY <1>0, <1>1, <1>m, <2>1, <2>2, <2>5 DEF MayBeLost, Acking
  <2> QED BY <2>2, <2>3, <2>4, <2>5
<1> QED BY <1>1, <1>2, <1>3, <1>4, <1>5, <1>6 DEF QueueInv, Queue

LEMMA EndAloneKeeps ==
    ASSUME QueueInv, NEW m \in Items, EndAlone(m)
    PROVE  QueueInv'
<1> USE QueueAssumption DEF Consumers, broker, consumers, history, faults
<1>0. /\ UNCHANGED <<kind, sent, pushed, group, ready, owner, topicOf, pc, hand, seen, nacked, early,
                     claimed, errors, crashes>>
      /\ orphans' = orphans \ {m} /\ processed' \in SUBSET Items /\ processed \subseteq processed'
  BY QueueParts DEF EndAlone, QueueTypeOK
<1>1. Queue' /\ ToSet(ready') = ToSet(ready)
  BY <1>0, QueueParts, QueueSame
<1>2. QueueTypeOK'
  BY <1>0, <1>1, QueueParts DEF Queue, QueueTypeOK
<1>3. PlaceInv'
  BY <1>0, <1>1, QueueParts DEF Queue, PlaceInv, Acking
<1>4. StageInv'
  BY <1>0, QueueParts DEF StageInv, Acking
<1>5. ExclusiveDelivery'
  BY <1>0, QueueParts DEF ExclusiveDelivery
<1>6. NoOtherLoss'
  BY <1>0, QueueParts DEF NoOtherLoss, MayBeLost, InHand, Acking
<1> QED BY <1>1, <1>2, <1>3, <1>4, <1>5, <1>6 DEF QueueInv, Queue

-----------------------------------------------------------------------------
(* The theorems *)

LEMMA QueueInvInit == QueueInit => QueueInv
<1> SUFFICES ASSUME QueueInit PROVE QueueInv
  OBVIOUS
<1> USE QueueAssumption DEF QueueInit
<1>1. QueueTypeOK
  <2>1. group \in BOOLEAN
    OBVIOUS
  <2>2. sent \in Seq(Items) /\ ready \in Seq(Items)
    OBVIOUS
  <2> QED BY <2>1, <2>2 DEF QueueTypeOK, Stages
<1>2. DOMAIN sent = {} /\ DOMAIN ready = {} /\ ToSet(sent) = {} /\ ToSet(ready) = {}
  BY DEF ToSet
<1>3. SentInv /\ OrderInv
  BY <1>2 DEF SentInv, OrderInv, Distinct
<1>4. PlaceInv /\ ExclusiveDelivery /\ NoOtherLoss
  BY <1>2 DEF PlaceInv, Distinct, ExclusiveDelivery, NoOtherLoss
<1>5. StageInv
  BY DEF StageInv, Working
<1> QED BY <1>1, <1>3, <1>4, <1>5 DEF QueueInv

LEMMA QueueInvStep == QueueInv /\ [QueueNext]_queueVars => QueueInv'
<1> SUFFICES ASSUME QueueInv, [QueueNext]_queueVars PROVE QueueInv'
  OBVIOUS
<1>1. ASSUME NEW m \in Items, Push(m) PROVE QueueInv'
  BY <1>1, PushKeeps
<1>2. ASSUME NEW m \in Items, NEW c \in Pullers, Claim(c, m) PROVE QueueInv'
  BY <1>2, ClaimKeeps DEF Consumers
<1>3. ASSUME NEW c \in Subscribers, HandlerOk(c) \/ HandlerErr(c) \/ LoseChannel(c)
      PROVE  QueueInv'
  BY <1>3, HandlerOkKeeps, HandlerErrKeeps, LoseChannelKeeps DEF Consumers
<1>4. ASSUME NEW c \in Pullers, Pull(c) \/ Settle(c) \/ Nack(c) PROVE QueueInv'
  BY <1>4, EnsureGroupKeeps, PullStreamKeeps, PullListKeeps, PullMemoryKeeps, PullRabbitKeeps,
     SettleKeeps,
     NackKeeps DEF Consumers, Pull
<1>5. ASSUME NEW c \in Consumers, Loop(c) \/ Crash(c) PROVE QueueInv'
  BY <1>5, SubscribeKeeps, ReadKeeps, RequeueKeeps, AckKeeps, ForgetIdKeeps, NoteIdKeeps,
     DropChannelKeeps,
     CrashKeeps DEF Loop
<1>e. ASSUME NEW m \in Items, EndAlone(m) PROVE QueueInv'
  BY <1>e, EndAloneKeeps
<1>6. CASE UNCHANGED queueVars
  <2>1. Queue'
    BY <1>6, QueueParts, QueueSame DEF queueVars, broker, history
  <2> QED BY <1>6, <2>1, QueueParts DEF QueueInv, Queue, queueVars, broker, consumers, history,
             faults,
             QueueTypeOK, PlaceInv, StageInv, Acking, ExclusiveDelivery, NoOtherLoss, MayBeLost,
             InHand
<1> QED BY <1>1, <1>2, <1>3, <1>4, <1>5, <1>e, <1>6 DEF QueueNext

\* The queue, the hands and the acknowledgements of every backend are of their types.
THEOREM QueueTypeCorrect == QueueSafety => []QueueTypeOK
<1>1. QueueInv => QueueTypeOK
  BY DEF QueueInv
<1> QED BY <1>1, QueueInvInit, QueueInvStep, PTL DEF QueueSafety

\* Whatever fails and whoever stops, a message whose push() returned Ok is lost only in
\* one of the ways MayBeLost names: otherwise it is processed, waits, or is remembered.
THEOREM NoOtherLossTheorem == QueueSafety => []NoOtherLoss
<1>1. QueueInv => NoOtherLoss
  BY DEF QueueInv
<1> QED BY <1>1, QueueInvInit, QueueInvStep, PTL DEF QueueSafety

\* With any number of competing consumers, first deliveries are in the order of the
\* pushes, and two consumers known to the broker have one message only if
\* claim_pending() took it over.
THEOREM DeliveryTheorem == QueueSafety => []DeliverySound
<1>1. ASSUME QueueInv PROVE DeliverySound
  <2>1. ASSUME NEW m \in ToSet(ready) \cup seen, NEW n \in ToSet(ready) \cup seen, Before(m, n), n \in seen
        PROVE  m \in seen
    <3> SUFFICES ASSUME m \notin seen PROVE FALSE
      OBVIOUS
    <3>1. Before(n, m)
      BY <1>1, <2>1 DEF QueueInv, OrderInv
    <3> QED BY <1>1, <2>1, <3>1, BeforeIsStrict DEF QueueInv, SentInv, QueueTypeOK
  <2> QED BY <1>1, <2>1 DEF QueueInv, DeliverySound, FirstDeliveryInOrder
<1> QED BY <1>1, QueueInvInit, QueueInvStep, PTL DEF QueueSafety
=============================================================================
