--------------------------- MODULE QueueBackends ---------------------------
(***************************************************************************)
(* queue/mod.rs and queue/streams.rs: the backends behind Queue, for one   *)
(* topic: "memory", "list" (Redis LPUSH / RPOP), "streams" (Redis Streams  *)
(* with one consumer group) and "rabbitmq".                                *)
(*                                                                         *)
(* Subscribers run the loop that subscribe() spawns; pullers call pull(),  *)
(* ack() and nack(), and with streams claim_pending().  Each Redis or AMQP *)
(* command is a step.  The brokers are external: what they still have to   *)
(* hand out (`ready`) and what they have handed out and wait to see        *)
(* acknowledged (`owner`: RabbitMQ's unacked deliveries, the pending       *)
(* entries list of a stream).  A command may fail, executed or not, and a  *)
(* consumer may stop between any two.                                      *)
(***************************************************************************)
EXTENDS Naturals, Sequences, SequencesExt

CONSTANTS
    Kinds,         \* the backends considered
    Items,      \* the messages that may be pushed
    Subscribers,   \* the consumers that call subscribe()
    Pullers,       \* the consumers that call pull()
    MaxErrors,     \* bound on the number of failed commands
    MaxCrashes,    \* bound on the number of consumers that stop or lose their channel
    None

Consumers == Subscribers \cup Pullers

ASSUME QueueAssumption ==
    /\ Kinds \subseteq {"memory", "list", "streams", "rabbitmq"}
    /\ Subscribers \cap Pullers = {}
    /\ MaxErrors \in Nat /\ MaxCrashes \in Nat
    /\ None \notin Consumers \cup Items

VARIABLES
    kind,        \* the backend in use (never changes)
    sent,        \* history: the messages in the order of their push
    pushed,      \* the messages whose push() returned Ok
    group,       \* does the consumer group exist? (TRUE where there is none)
    ready,       \* what the broker has still to hand out, oldest first
    owner,       \* the consumer for which the broker keeps an unacked message
    topicOf,     \* the message ids in the hash rszero:pending:<group>
    pc,          \* where each consumer stands
    hand,        \* the message it is working on
    orphans,     \* messages in a handler whose channel is gone
    seen,        \* history: the messages handed out at least once
    processed,   \* the messages whose handler returned Ok
    nacked,      \* history: the messages rejected with nack()
    early,       \* history: the messages pushed before the group existed
    claimed,     \* history: the messages taken over by claim_pending()
    errors, crashes

broker == <<group, ready, owner, topicOf>>
consumers == <<pc, hand>>
history == <<seen, processed, nacked, early, claimed>>
faults == <<errors, crashes>>
queueVars == <<kind, orphans, sent, pushed, broker, consumers, history, faults>>

\* The brokers that keep a message until it is acknowledged.
Acking == kind \in {"streams", "rabbitmq"}

QueueInit ==
    /\ kind \in Kinds
    /\ sent = <<>> /\ pushed = {}
    /\ group = (kind # "streams")
    /\ ready = <<>>
    /\ owner = [m \in Items |-> None]
    /\ topicOf = {}
    /\ pc = [c \in Consumers |-> "off"]
    /\ hand = [c \in Consumers |-> None] /\ orphans = {}
    /\ seen = {} /\ processed = {} /\ nacked = {} /\ early = {} /\ claimed = {}
    /\ errors = 0 /\ crashes = 0

Ok == UNCHANGED errors
Err == errors < MaxErrors /\ errors' = errors + 1

Goto(c, at) == pc' = [pc EXCEPT ![c] = at]
Take(c, m) == hand' = [hand EXCEPT ![c] = m]

-----------------------------------------------------------------------------
(* push() *)

\* The message is in the broker: at the end of the queue, or in the stream,
\* where a group created later (at "$") will not see it.
Enqueue(m) ==
    IF group THEN ready' = Append(ready, m) /\ UNCHANGED early
             ELSE early' = early \cup {m} /\ UNCHANGED ready

\* Message::new(): a message of its own id; what publish() leaves alone.
NewMessage(m) ==
    /\ m \notin ToSet(sent)
    /\ sent' = Append(sent, m)
    /\ UNCHANGED <<kind, orphans, group, owner, topicOf, consumers, seen, processed,
                   nacked, claimed, crashes>>

\* The command is answered, or fails with or without effect.
Published(m) == Ok /\ pushed' = pushed \cup {m} /\ Enqueue(m)
PublishFails(m) == /\ Err /\ UNCHANGED pushed
                   /\ Enqueue(m) \/ UNCHANGED <<ready, early>>

PushMemory(m) == kind = "memory" /\ Published(m)
PushList(m) == kind = "list" /\ (Published(m) \/ PublishFails(m))
PushStream(m) == kind = "streams" /\ (Published(m) \/ PublishFails(m))

\* A channel is opened and the queue declared, which may fail; then
\* basic_publish, without a confirm: Ok does not mean that it arrived.
PushRabbit(m) ==
    /\ kind = "rabbitmq"
    /\ \/ Published(m) \/ PublishFails(m)
       \/ Err /\ pushed' = pushed \cup {m} /\ UNCHANGED <<ready, early>>

Push(m) ==
    /\ NewMessage(m)
    /\ PushMemory(m) \/ PushList(m) \/ PushStream(m) \/ PushRabbit(m)

-----------------------------------------------------------------------------
(* What the broker does when it is read and when it gets a message back *)

\* Mutant of HandOut: from the wrong end.
HandOutNewest(c) ==
    /\ ready # <<>>
    /\ ready' = Front(ready)
    /\ seen' = seen \cup {Last(ready)}
    /\ owner' = IF Acking THEN [owner EXCEPT ![Last(ready)] = c] ELSE owner
    /\ Take(c, Last(ready))

\* RPOP / BRPOP, XREADGROUP ">", a RabbitMQ delivery, pop_front: the oldest
\* message, kept as unacked by the brokers that know acknowledgements.
HandOut(c) ==
    /\ ready # <<>>
    /\ ready' = Tail(ready)
    /\ seen' = seen \cup {Head(ready)}
    /\ owner' = IF Acking THEN [owner EXCEPT ![Head(ready)] = c] ELSE owner
    /\ Take(c, Head(ready))

\* The same with the answer lost on its way (Redis): nobody has the message in
\* hand, a stream still knows that it is pending.
HandOutLost(c) ==
    /\ kind \in {"list", "streams"} /\ ready # <<>>
    /\ Err
    /\ ready' = Tail(ready)
    /\ seen' = seen \cup {Head(ready)}
    /\ owner' = IF Acking THEN [owner EXCEPT ![Head(ready)] = c] ELSE owner
    /\ UNCHANGED hand

\* RabbitMQ puts messages back at their original places.
Back(ms) ==
    LET waiting == ms \cup ToSet(ready)
        kept[i \in 0 .. Len(sent)] ==      \* of the first i messages pushed
            IF i = 0 THEN <<>>
            ELSE IF sent[i] \in waiting THEN Append(kept[i - 1], sent[i]) ELSE kept[i - 1]
    IN  kept[Len(sent)]

-----------------------------------------------------------------------------
(* subscribe() *)

\* subscribe() spawns the loop; with streams it first creates the group and
\* ignores the outcome.  The memory backend's task does nothing.
Subscribe(c) ==
    /\ c \in Subscribers /\ pc[c] = "off"
    /\ Goto(c, IF kind = "memory" THEN "idle" ELSE "read")
    /\ \/ Ok /\ group' = TRUE
       \/ kind = "streams" /\ Err /\ UNCHANGED group
    /\ UNCHANGED <<kind, orphans, sent, pushed, ready, owner, topicOf, hand, history,
                   crashes>>

\* The read of the loop (without a group it fails, over and over).
Read(c) ==
    /\ c \in Subscribers /\ pc[c] = "read" /\ group
    /\ \/ HandOut(c) /\ Ok /\ Goto(c, "handle")
       \/ HandOutLost(c) /\ UNCHANGED pc
    /\ UNCHANGED <<kind, orphans, sent, pushed, group, topicOf, processed, nacked, early,
                   claimed, crashes>>

\* handler(msg) returns Ok.
HandlerOk(c) ==
    /\ c \in Subscribers /\ pc[c] = "handle"
    /\ processed' = processed \cup {hand[c]}
    /\ IF Acking THEN Goto(c, "ack") /\ UNCHANGED hand
                 ELSE Goto(c, "read") /\ Take(c, None)
    /\ UNCHANGED <<kind, orphans, sent, pushed, broker, seen, nacked, early, claimed,
                   faults>>

\* Mutant: the failed message is only logged.
HandlerErrLogged(c) ==
    /\ c \in Subscribers /\ pc[c] = "handle"
    /\ Goto(c, "read") /\ Take(c, None)
    /\ UNCHANGED <<kind, orphans, sent, pushed, broker, history, faults>>

\* handler(msg) returns Err: LIST and RabbitMQ give the message back; with
\* streams it stays pending and the loop, which reads only new entries, goes on.
HandlerErr(c) ==
    /\ c \in Subscribers /\ pc[c] = "handle"
    /\ IF kind = "streams" THEN Goto(c, "read") /\ Take(c, None)
                           ELSE Goto(c, "requeue") /\ UNCHANGED hand
    /\ UNCHANGED <<kind, orphans, sent, pushed, broker, history, faults>>

\* LPUSH of the message, behind all others, or nack with requeue; an error is
\* ignored.
Requeue(c) ==
    /\ pc[c] = "requeue"
    /\ \/ /\ Ok
          /\ owner' = [owner EXCEPT ![hand[c]] = None]
          /\ ready' = IF kind = "list" THEN Append(ready, hand[c])
                                       ELSE Back({hand[c]})
       \/ Err /\ UNCHANGED <<owner, ready>>
    /\ Goto(c, "read") /\ Take(c, None)
    /\ UNCHANGED <<kind, orphans, sent, pushed, group, topicOf, history, crashes>>

\* The acknowledgement, whose error is ignored.
Ack(c) ==
    /\ pc[c] = "ack"
    /\ \/ Ok /\ owner' = [owner EXCEPT ![hand[c]] = None]
       \/ Err /\ UNCHANGED owner
    /\ IF kind = "streams" THEN Goto(c, "hdel") /\ UNCHANGED hand
                           ELSE Goto(c, "read") /\ Take(c, None)
    /\ UNCHANGED <<kind, orphans, sent, pushed, group, ready, topicOf, history, crashes>>

\* HDEL of the id, in the loop of a subscriber and at the end of ack().
ForgetId(c) ==
    /\ pc[c] = "hdel"
    /\ \/ Ok /\ topicOf' = topicOf \ {hand[c]}
       \/ Err /\ UNCHANGED topicOf
    /\ Goto(c, IF c \in Subscribers THEN "read" ELSE "off") /\ Take(c, None)
    /\ UNCHANGED <<kind, orphans, sent, pushed, group, ready, owner, history, crashes>>

-----------------------------------------------------------------------------
(* pull(), ack(), nack() and claim_pending() *)

\* consume() of streams begins with ensure_group(), whose error ends it.
EnsureGroup(c) ==
    /\ c \in Pullers /\ pc[c] = "off" /\ kind = "streams"
    /\ \/ Ok /\ group' = TRUE /\ Goto(c, "pull")
       \/ Err /\ group' \in {group, TRUE} /\ UNCHANGED pc
    /\ UNCHANGED <<kind, orphans, sent, pushed, ready, owner, topicOf, hand, history,
                   crashes>>

\* What consume() leaves alone when it reads.
Reads == UNCHANGED <<kind, orphans, sent, pushed, group, topicOf, processed, nacked, early,
                     claimed, crashes>>

\* XREADGROUP for one message, or none within 5 s.
PullStream(c) ==
    /\ pc[c] = "pull"
    /\ \/ HandOut(c) /\ Ok /\ Goto(c, "hset")
       \/ HandOutLost(c) /\ Goto(c, "off")
       \/ ready = <<>> /\ Ok /\ Goto(c, "off") /\ UNCHANGED <<ready, owner, hand, seen>>
    /\ Reads

\* RPOP; a failed one may have taken the message out.
PullList(c) ==
    /\ c \in Pullers /\ pc[c] = "off" /\ kind = "list"
    /\ \/ HandOut(c) /\ Ok /\ Goto(c, "got")
       \/ HandOutLost(c) /\ UNCHANGED pc
    /\ Reads

\* pop_front under the lock.
PullMemory(c) ==
    /\ c \in Pullers /\ pc[c] = "off" /\ kind = "memory"
    /\ HandOut(c) /\ Ok /\ Goto(c, "got")
    /\ Reads

\* consume() of RabbitMQ registers a consumer, to which the broker may already
\* deliver, drops it and answers None.
PullRabbit(c) ==
    /\ c \in Pullers /\ pc[c] = "off" /\ kind = "rabbitmq"
    /\ \E n \in DOMAIN ready :
         LET first == ToSet(SubSeq(ready, 1, n))
         IN  /\ ready' = SubSeq(ready, n + 1, Len(ready))
             /\ owner' = [m \in Items |-> IF m \in first THEN c ELSE owner[m]]
             /\ seen' = seen \cup first
    /\ Goto(c, "dropping") /\ Ok /\ UNCHANGED hand
    /\ Reads

\* pull() of each backend.
Pull(c) == \/ EnsureGroup(c) \/ PullStream(c) \/ PullList(c) \/ PullMemory(c)
           \/ PullRabbit(c)

\* HSETNX of the id, whose error is ignored.
NoteId(c) ==
    /\ pc[c] = "hset"
    /\ \/ Ok /\ topicOf' = topicOf \cup {hand[c]}
       \/ Err /\ UNCHANGED topicOf
    /\ Goto(c, "got")
    /\ UNCHANGED <<kind, orphans, sent, pushed, group, ready, owner, hand, history, crashes>>

\* claim_pending() gives a puller a message that has been pending for a while,
\* whoever had it and whether or not that consumer is still at work.
Claim(c, m) ==
    /\ kind = "streams" /\ c \in Pullers /\ pc[c] = "off"
    /\ owner[m] # None
    /\ owner' = [owner EXCEPT ![m] = c]
    /\ claimed' = claimed \cup {m}
    /\ Take(c, m) /\ Goto(c, "claimed")
    /\ UNCHANGED <<kind, orphans, sent, pushed, group, ready, topicOf, seen, processed,
                   nacked, early, faults>>

\* The caller has processed the message and acknowledges it: ack(id) looks the
\* id up in the hash and without it does nothing (so with the other backends);
\* whoever uses claim_pending() calls ack(topic, id).  Its error is returned.
Settle(c) ==
    /\ pc[c] \in {"got", "claimed"}
    /\ processed' = processed \cup {hand[c]}
    /\ IF pc[c] = "claimed" \/ hand[c] \in topicOf
         THEN \/ Ok /\ owner' = [owner EXCEPT ![hand[c]] = None]
                 /\ Goto(c, "hdel") /\ UNCHANGED hand
              \/ Err /\ UNCHANGED owner /\ Goto(c, "off") /\ Take(c, None)
         ELSE Ok /\ UNCHANGED owner /\ Goto(c, "off") /\ Take(c, None)
    /\ UNCHANGED <<kind, orphans, sent, pushed, group, ready, topicOf, seen, nacked,
                   early, claimed, crashes>>

\* The caller rejects the message: nack() does nothing with any backend.
Nack(c) ==
    /\ pc[c] \in {"got", "claimed"}
    /\ nacked' = nacked \cup {hand[c]}
    /\ Goto(c, "off") /\ Take(c, None)
    /\ UNCHANGED <<kind, orphans, sent, pushed, broker, seen, processed, early, claimed,
                   faults>>

-----------------------------------------------------------------------------
\* RabbitMQ notices that the consumer's channel or connection is gone, and puts
\* its unacked messages back.
PutBack(c) ==
    LET mine == {m \in Items : owner[m] = c}
    IN  IF kind = "rabbitmq"
          THEN /\ ready' = Back(mine)
               /\ owner' = [m \in Items |-> IF m \in mine THEN None ELSE owner[m]]
          ELSE UNCHANGED <<ready, owner>>

\* The channel of a pull() is gone.
DropChannel(c) ==
    /\ pc[c] = "dropping"
    /\ PutBack(c) /\ Goto(c, "off")
    /\ UNCHANGED <<kind, orphans, sent, pushed, group, topicOf, hand, history, faults>>

\* The consumer's task ends, of itself or because it finds its channel gone when it
\* reads or acknowledges.  It may be started again.
Crash(c) ==
    /\ pc[c] # "off"
    /\ crashes < MaxCrashes /\ crashes' = crashes + 1
    /\ Goto(c, "off") /\ Take(c, None)
    /\ PutBack(c)
    /\ UNCHANGED <<kind, orphans, sent, pushed, group, topicOf, history, errors>>

\* The channel is lost while the handler runs, and nobody tells it: the message is
\* delivered again, to another consumer or to a new subscription...
LoseChannel(c) ==
    /\ kind = "rabbitmq" /\ c \in Subscribers /\ pc[c] = "handle"
    /\ crashes < MaxCrashes /\ crashes' = crashes + 1
    /\ orphans' = orphans \cup {hand[c]}
    /\ Goto(c, "off") /\ Take(c, None)
    /\ PutBack(c)
    /\ UNCHANGED <<kind, sent, pushed, group, topicOf, history, errors>>

\* ...and the old handler returns when it does, with Ok or an error; the ack or nack
\* fails, which is ignored, and the loop finds no further delivery and ends.
EndAlone(m) ==
    /\ m \in orphans
    /\ orphans' = orphans \ {m}
    /\ processed' = processed \/ processed' = processed \cup {m}
    /\ UNCHANGED <<kind, sent, pushed, broker, consumers, seen, nacked, early, claimed,
                   faults>>

Loop(c) == \/ Subscribe(c) \/ Read(c) \/ Requeue(c) \/ Ack(c) \/ ForgetId(c)
           \/ NoteId(c) \/ DropChannel(c)

QueueNext ==
    \/ \E m \in Items : Push(m) \/ \E c \in Pullers : Claim(c, m)
    \/ \E c \in Subscribers : HandlerOk(c) \/ HandlerErr(c) \/ LoseChannel(c)
    \/ \E m \in Items : EndAlone(m)
    \/ \E c \in Pullers : Pull(c) \/ Settle(c) \/ Nack(c)
    \/ \E c \in Consumers : Loop(c) \/ Crash(c)

QueueSafety == QueueInit /\ [][QueueNext]_queueVars

\* Subscribers are started (again), their loops and handlers run on, and the caller of
\* pull() decides about its message; the broker does not leave all subscribers out for
\* ever, and a message that is handled again and again is handled successfully in the
\* end.  A handler that has lost its channel need not return.
ConsumerStep(c) == Loop(c) \/ HandlerOk(c) \/ HandlerErr(c) \/ Settle(c) \/ Nack(c)
Delivery == \E c \in Subscribers : Read(c)
HandledOk(m) == \E c \in Subscribers : HandlerOk(c) /\ hand[c] = m

QueueFairness ==
    /\ \A c \in Consumers : WF_queueVars(ConsumerStep(c))
    /\ SF_queueVars(Delivery)
    /\ \A m \in Items : SF_queueVars(HandledOk(m))

QueueSpec == QueueSafety /\ QueueFairness

-----------------------------------------------------------------------------
(* Properties *)

Stages == {"off", "idle", "read", "handle", "ack", "hdel", "requeue", "pull", "hset", "got",
           "claimed", "dropping"}

\* The types of the broker's queue and of what the consumers hold.
QueueTypeOK ==
    /\ kind \in Kinds
    /\ sent \in Seq(Items) /\ ready \in Seq(Items)
    /\ pushed \in SUBSET Items
    /\ group \in BOOLEAN
    /\ owner \in [Items -> Consumers \cup {None}]
    /\ topicOf \in SUBSET Items
    /\ pc \in [Consumers -> Stages]
    /\ hand \in [Consumers -> Items \cup {None}] /\ orphans \in SUBSET Items
    /\ seen \in SUBSET Items /\ processed \in SUBSET Items
    /\ nacked \in SUBSET Items /\ early \in SUBSET Items
    /\ claimed \in SUBSET Items
    /\ errors \in 0..MaxErrors /\ crashes \in 0..MaxCrashes

InHand(m) == \E c \in Consumers : hand[c] = m

\* The ways in which a message whose push() returned Ok can be lost.
MayBeLost(m) ==
    \/ kind = "list" /\ (errors > 0 \/ crashes > 0 \/ m \in nacked)
    \/ kind = "memory" /\ (crashes > 0 \/ m \in nacked)
    \/ kind = "rabbitmq" /\ errors > 0
    \/ kind = "streams" /\ m \in early

\* "reliable queueing" (mod.rs line 6), "at-least-once semantics" (line 387) and
\* "pending message recovery" (streams.rs line 3): short of those ways, a message
\* whose push() returned Ok is processed, waits in the broker, or is remembered
\* by it as unacked; LIST and memory have only the consumer's hand to keep it in.
NoOtherLoss ==
    \A m \in pushed :
        \/ m \in processed \cup ToSet(ready)
        \/ owner[m] # None
        \/ ~Acking /\ InHand(m)
        \/ MayBeLost(m)

Before(m, n) == \E i, j \in DOMAIN sent : i < j /\ sent[i] = m /\ sent[j] = n

\* "Pull a message from the given topic (FIFO)" (line 106): messages are handed
\* out for the first time in the order of their push, with every backend,
\* whatever was requeued, put back or claimed in between.
FirstDeliveryInOrder ==
    \A m, n \in ToSet(ready) \cup seen : Before(m, n) /\ n \in seen => m \in seen

\* Two consumers that the broker knows never work on one message at a time, unless one
\* of them took it over with claim_pending().  A handler that has lost its channel
\* (`orphans`) is not known to the broker and may work beside one of them.
ExclusiveDelivery ==
    \A c, d \in Consumers :
        hand[c] = hand[d] /\ hand[c] # None /\ hand[c] \notin claimed => c = d

\* Competing consumers get every message in order first and one at a time.
DeliverySound == FirstDeliveryInOrder /\ ExclusiveDelivery

\* "Requeue the message for at-least-once semantics" (line 387): with RabbitMQ,
\* though consumers stop or lose their channel, and with LIST while none does, every
\* pushed message is processed in the end if no command fails and nobody rejects it:
\* again and again there is a time at which everything pushed so far is processed.
ProcessedInTheEnd ==
    [](/\ errors = 0 /\ nacked = {}
       /\ kind = "rabbitmq" \/ (kind = "list" /\ crashes = 0))
        => []<>(pushed \subseteq processed)
=============================================================================
