----------------------------- MODULE WsManager ------------------------------
(***************************************************************************)
(* WsManager (rest/websocket.rs): one task per connection, a select! over  *)
(* heartbeat, retransmission, broadcast and what the client sends.  The    *)
(* tasks meet in `connections`, behind one RwLock that retransmission      *)
(* keeps over socket.send().await, and in `rooms`, behind another.         *)
(***************************************************************************)
EXTENDS Naturals, Sequences, FiniteSets

CONSTANTS
    Clients, Rooms, Messages,
    AckTicks,     \* AckConfig::timeout
    MaxResend,    \* AckConfig::max_retries
    PongTicks,    \* HeartbeatConfig::timeout
    Nobody, NoRoom

ASSUME WsAssumption ==
    /\ {AckTicks, MaxResend, PongTicks} \subseteq Nat
    /\ Nobody \notin Clients /\ NoRoom \notin Rooms

VARIABLES
    conns,        \* the ids in `connections`
    room,         \* room[c]: WsConnection::room
    rooms,        \* the keys of `rooms`
    unacked,      \* unacked[c]: message -> [retries, age]
    quiet,        \* quiet[c]: ticks since the last pong, up to one more than PongTicks
    rx,           \* rx[c]: what c's broadcast receiver still holds
    wpc,          \* where c's task is: "off", "loop", "push", "resend", "join",
                  \* "cleanup", "count", "closed"
    doing,        \* doing[c]: the message being sent, or the room being joined or cleaned
    lock,         \* the holder of connections.write() across an .await
    stuck,        \* the clients that have stopped reading: a send to them does not return
    sends,        \* history: sends[c][m]: how often m was handed to c's socket
    acked,        \* history: acked[c]: the messages whose ACK has been handled
    posted        \* the messages that have been broadcast; each is, once

wsVars == <<conns, room, rooms, unacked, quiet, rx, wpc, doing, lock, stuck, sends, acked, posted>>

WsInit ==
    /\ conns = {} /\ rooms = {} /\ lock = Nobody /\ stuck = {} /\ posted = {}
    /\ room = [c \in Clients |-> NoRoom]
    /\ unacked = [c \in Clients |-> <<>>]
    /\ quiet = [c \in Clients |-> 0]
    /\ rx = [c \in Clients |-> <<>>]
    /\ wpc = [c \in Clients |-> "off"]
    /\ doing = [c \in Clients |-> {}]
    /\ sends = [c \in Clients |-> [m \in Messages |-> 0]]
    /\ acked = [c \in Clients |-> {}]

Free == lock = Nobody
Looping(c) == wpc[c] = "loop"
GoTo(c, l, x) == wpc' = [wpc EXCEPT ![c] = l] /\ doing' = [doing EXCEPT ![c] = x]
Drop(f, S) == [x \in DOMAIN f \ S |-> f[x]]
With(f, k, v) == [x \in DOMAIN f \cup {k} |-> IF x = k THEN v ELSE f[x]]

\* handle_connection() up to its loop: the connection is listed, then subscribed.
Connect(c) ==
    /\ wpc[c] = "off" /\ Free
    /\ conns' = conns \cup {c}
    /\ quiet' = [quiet EXCEPT ![c] = 0]
    /\ GoTo(c, "loop", {})
    /\ UNCHANGED <<room, rooms, unacked, rx, lock, stuck, sends, acked, posted>>

\* broadcast(): each subscribed receiver gets a copy.
Broadcast(m) ==
    /\ m \notin posted
    /\ posted' = posted \cup {m}
    /\ rx' = [c \in Clients |-> IF wpc[c] \in {"off", "closed"} THEN rx[c] ELSE Append(rx[c], m)]
    /\ UNCHANGED <<conns, room, rooms, unacked, quiet, wpc, doing, lock, stuck, sends, acked>>

\* rx.recv(): the message is noted as unacknowledged, then sent.
Receive(c) ==
    /\ Looping(c) /\ rx[c] # <<>> /\ Free
    /\ rx' = [rx EXCEPT ![c] = Tail(@)]
    /\ unacked' = [unacked EXCEPT ![c] = With(@, Head(rx[c]), [retries |-> 0, age |-> 0])]
    /\ GoTo(c, "push", {Head(rx[c])})
    /\ UNCHANGED <<conns, room, rooms, quiet, lock, stuck, sends, acked, posted>>

Sent(c, m) == sends' = [sends EXCEPT ![c][m] = @ + 1]

\* socket.send() of a new message returns, or fails and ends the loop.
Push(c) ==
    /\ wpc[c] = "push" /\ c \notin stuck
    /\ \E m \in doing[c] : Sent(c, m)
    /\ \/ GoTo(c, "loop", {})
       \/ GoTo(c, "cleanup", {})
    /\ UNCHANGED <<conns, room, rooms, unacked, quiet, rx, lock, stuck, acked, posted>>

Due(c) == {m \in DOMAIN unacked[c] : unacked[c][m].age > AckTicks}

Exhausted(c) == {m \in Due(c) : unacked[c][m].retries >= MaxResend}

\* The wrong variant: exhausted messages are passed over but stay on the list.
MutantRetransmit(c) ==
    LET again == Due(c) \ Exhausted(c) IN
    /\ Looping(c) /\ Free /\ again # {}
    /\ unacked' = [unacked EXCEPT ![c] =
          [m \in DOMAIN @ |->
             IF m \in again THEN [retries |-> @[m].retries + 1, age |-> 0] ELSE @[m]]]
    /\ GoTo(c, "resend", again) /\ lock' = c
    /\ UNCHANGED <<conns, room, rooms, quiet, rx, stuck, sends, acked, posted>>

\* A tick of ack_interval: exhausted messages go, the others are sent again
\* one by one under the write guard.
Retransmit(c) ==
    LET again == Due(c) \ Exhausted(c) IN
    /\ Looping(c) /\ Free /\ Due(c) # {}
    /\ unacked' = [unacked EXCEPT ![c] =
          [m \in DOMAIN @ \ Exhausted(c) |->
             IF m \in again THEN [retries |-> @[m].retries + 1, age |-> 0] ELSE @[m]]]
    /\ IF again = {} THEN UNCHANGED <<wpc, doing, lock>>
       ELSE GoTo(c, "resend", again) /\ lock' = c
    /\ UNCHANGED <<conns, room, rooms, quiet, rx, stuck, sends, acked, posted>>

\* One send of the retransmission; its error is ignored.
Resend(c) ==
    /\ wpc[c] = "resend" /\ c \notin stuck
    /\ \E m \in doing[c] :
         /\ Sent(c, m)
         /\ IF doing[c] = {m} THEN GoTo(c, "loop", {}) /\ lock' = Nobody
            ELSE GoTo(c, "resend", doing[c] \ {m}) /\ UNCHANGED lock
    /\ UNCHANGED <<conns, room, rooms, unacked, quiet, rx, stuck, acked, posted>>

\* {"ack": id}
Ack(c, m) ==
    /\ Looping(c) /\ Free /\ sends[c][m] > 0 /\ m \notin acked[c]
    /\ unacked' = [unacked EXCEPT ![c] = Drop(@, {m})]
    /\ acked' = [acked EXCEPT ![c] = @ \cup {m}]
    /\ UNCHANGED <<conns, room, rooms, quiet, rx, wpc, doing, lock, stuck, sends, posted>>

Pong(c) ==
    /\ Looping(c) /\ Free /\ quiet[c] # 0
    /\ quiet' = [quiet EXCEPT ![c] = 0]
    /\ UNCHANGED <<conns, room, rooms, unacked, rx, wpc, doing, lock, stuck, sends, acked, posted>>

\* A tick of ping_interval finds the last pong too old.  (Otherwise it only
\* sends a ping.)
HeartbeatTimeout(c) ==
    /\ Looping(c) /\ Free /\ quiet[c] > PongTicks
    /\ GoTo(c, "cleanup", {})
    /\ UNCHANGED <<conns, room, rooms, unacked, quiet, rx, lock, stuck, sends, acked, posted>>

\* Close, or the end of the stream.
Close(c) ==
    /\ Looping(c)
    /\ GoTo(c, "cleanup", {})
    /\ UNCHANGED <<conns, room, rooms, unacked, quiet, rx, lock, stuck, sends, acked, posted>>

\* {"join": r}: first the entry in `rooms`, then, under the other lock, the member.
Join(c, r) ==
    /\ Looping(c) /\ room[c] # r
    /\ rooms' = rooms \cup {r}
    /\ GoTo(c, "join", {r})
    /\ UNCHANGED <<conns, room, unacked, quiet, rx, lock, stuck, sends, acked, posted>>

Joined(c) ==
    /\ wpc[c] = "join" /\ Free
    /\ \E r \in doing[c] : room' = [room EXCEPT ![c] = r]
    /\ GoTo(c, "loop", {})
    /\ UNCHANGED <<conns, rooms, unacked, quiet, rx, lock, stuck, sends, acked, posted>>

\* {"leave": r}: the entry in `rooms` stays.
Leave(c) ==
    /\ Looping(c) /\ Free /\ room[c] # NoRoom
    /\ room' = [room EXCEPT ![c] = NoRoom]
    /\ UNCHANGED <<conns, rooms, unacked, quiet, rx, wpc, doing, lock, stuck, sends, acked, posted>>

\* After the loop: off the list first.
Unlist(c) ==
    /\ wpc[c] = "cleanup" /\ Free
    /\ conns' = conns \ {c}
    /\ unacked' = [unacked EXCEPT ![c] = <<>>]
    /\ rx' = [rx EXCEPT ![c] = <<>>]
    /\ room' = [room EXCEPT ![c] = NoRoom]
    /\ sends' = [sends EXCEPT ![c] = [m \in Messages |-> 0]]
    /\ acked' = [acked EXCEPT ![c] = {}]
    /\ IF room[c] = NoRoom THEN GoTo(c, "closed", {}) ELSE GoTo(c, "count", {room[c]})
    /\ UNCHANGED <<rooms, quiet, lock, stuck, posted>>

\* room_count(), and only then the write lock of `rooms`.
CountRoom(c) ==
    /\ wpc[c] = "count" /\ Free
    /\ IF \E d \in conns : room[d] \in doing[c] THEN GoTo(c, "closed", {})
       ELSE GoTo(c, "remove", doing[c])
    /\ UNCHANGED <<conns, room, rooms, unacked, quiet, rx, lock, stuck, sends, acked, posted>>

RemoveRoom(c) ==
    /\ wpc[c] = "remove"
    /\ rooms' = rooms \ doing[c]
    /\ GoTo(c, "closed", {})
    /\ UNCHANGED <<conns, room, unacked, quiet, rx, lock, stuck, sends, acked, posted>>

\* A client stops reading: sends to it do not return.
Stall(c) ==
    /\ stuck = {} /\ wpc[c] \in {"loop", "push", "resend"}
    /\ stuck' = {c}
    /\ UNCHANGED <<conns, room, rooms, unacked, quiet, rx, wpc, doing, lock, sends, acked, posted>>

Older(age, limit) == IF age > limit THEN age ELSE age + 1

WsTick ==
    /\ quiet' = [c \in Clients |-> IF c \in conns THEN Older(quiet[c], PongTicks) ELSE 0]
    /\ unacked' = [c \in Clients |-> [m \in DOMAIN unacked[c] |->
                     [unacked[c][m] EXCEPT !.age = Older(@, AckTicks)]]]
    /\ UNCHANGED <<conns, room, rooms, rx, wpc, doing, lock, stuck, sends, acked, posted>>

\* What a connection's task does by itself.
Task(c) ==
    \/ Receive(c) \/ Push(c) \/ Retransmit(c) \/ Resend(c) \/ Joined(c)
    \/ HeartbeatTimeout(c) \/ Unlist(c) \/ CountRoom(c) \/ RemoveRoom(c)

Client(c) ==
    \/ Connect(c) \/ Close(c) \/ Pong(c) \/ Leave(c) \/ Stall(c)
    \/ \E m \in Messages : Ack(c, m)
    \/ \E r \in Rooms : Join(c, r)

WsNext ==
    \/ \E c \in Clients : Task(c) \/ Client(c)
    \/ \E m \in Messages : Broadcast(m)
    \/ WsTick

\* select! starts at a random branch, so a timer that has fired is not passed
\* over for ever by a client that keeps talking.  (That a waiter gets the lock
\* of `connections` follows: a tokio RwLock is fair, and here the messages, and
\* with them the retransmissions that hold it, are finitely many.)
WsFairness ==
    /\ WF_wsVars(WsTick)
    /\ \A c \in Clients : SF_wsVars(Retransmit(c)) /\ WF_wsVars(Task(c))

WsSafety == WsInit /\ [][WsNext]_wsVars

WsSpec == WsSafety /\ WsFairness
------------------------------------------------------------------------------
(***************************************************************************)
(* A message leaves the list of a listed connection only by its ACK, or    *)
(* after the first send and max_retries more.                              *)
(***************************************************************************)
GivenUpAfterRetries ==
    [][\A c \in conns \cap conns' : \A m \in DOMAIN unacked[c] \ DOMAIN unacked'[c] :
         m \in acked'[c] \/ sends[c][m] = MaxResend + 1]_wsVars

(***************************************************************************)
(* Every unacknowledged message is settled, or its connection ends, unless *)
(* a client - any client - has stopped reading: a send to it under the     *)
(* write guard of `connections` holds up all the others.                   *)
(***************************************************************************)
MessagesSettle ==
    \A c \in Clients, m \in Messages :
        m \in DOMAIN unacked[c] ~> (m \notin DOMAIN unacked[c] \/ stuck # {})

\* A message is kept for its ACK or for max_retries more sends, and not for ever.
AckProtocol == GivenUpAfterRetries /\ MessagesSettle
=============================================================================
