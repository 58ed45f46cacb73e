---------------------------- MODULE BookGateway ----------------------------
(***************************************************************************)
(* The bookstore's API gateway (examples/bookstore/api/src/main.rs).  A    *)
(* request is a task; between two .awaits, and while it holds a lock of    *)
(* books or orders, it is atomic.  An order checks the stock under a read  *)
(* lock, gives the lock up, and deducts under a write lock.                *)
(***************************************************************************)
EXTENDS Integers, FiniteSets

CONSTANTS
    Shelf,       \* the ids of books: those of AppState::new() and those made later
    Seeded,      \* the books of AppState::new()
    Stock,       \* their stock
    Quantities,  \* the quantities asked for
    GwRequests,  \* the requests
    WordSize         \* 2^32: a stock is a u32

NoBook == -1

ASSUME GatewayAssumption ==
    /\ Seeded \subseteq Shelf /\ NoBook \notin Shelf
    /\ Stock \in Nat /\ WordSize \in Nat /\ Stock < WordSize
    /\ Quantities \subseteq 0..(WordSize - 1)

VARIABLES
    books,       \* books[b]: the stock of b, or NoBook
    orders,      \* orders[r]: "none", "confirmed" or "cancelled", the order r made
    bookCache,   \* bookCache[b]: the stock in the cached copy of b, or NoBook
    bookList,    \* book_list_cache, key "all": the books in it, or {NoBook}
    gw,          \* gw[r]: what request r is doing
    overlapped   \* history: books that two orders had checked and not yet deducted at once

gatewayVars == <<books, orders, bookCache, bookList, gw, overlapped>>

GwIdle == [pc |-> "new", wanted |-> NoBook, book |-> NoBook, quantity |-> 0, snapshot |-> NoBook]
GwGo(r, l) == gw' = [gw EXCEPT ![r].pc = l]

GatewayInit ==
    /\ books = [b \in Shelf |-> IF b \in Seeded THEN Stock ELSE NoBook]
    /\ orders = [r \in GwRequests |-> "none"]
    /\ bookCache = [b \in Shelf |-> NoBook]
    /\ bookList = {NoBook}
    /\ gw = [r \in GwRequests |-> GwIdle]
    /\ overlapped = {}

\* shedder_middleware(): the shedder may turn any request away.
Shed(r) ==
    /\ gw[r].pc = "new"
    /\ GwGo(r, "503")
    /\ UNCHANGED <<books, orders, bookCache, bookList, overlapped>>

\* get_book(): a copy from the cache...
GetBook(r, b) ==
    /\ gw[r].pc = "new"
    /\ IF bookCache[b] # NoBook THEN GwGo(r, "200")
       ELSE gw' = [gw EXCEPT ![r] = [@ EXCEPT !.pc = "read", !.wanted = b]]
    /\ UNCHANGED <<books, orders, bookCache, bookList, overlapped>>

\* ... or from books, cached before the read lock is given up.
ReadBook(r) ==
    LET b == gw[r].wanted IN
    /\ gw[r].pc = "read"
    /\ bookCache' = IF books[b] = NoBook THEN bookCache ELSE [bookCache EXCEPT ![b] = books[b]]
    /\ GwGo(r, IF books[b] = NoBook THEN "404" ELSE "200")
    /\ UNCHANGED <<books, orders, bookList, overlapped>>

\* list_books() does the same with the list; only its TTL ends that copy.
ListBooks(r) ==
    /\ \/ gw[r].pc = "new" /\ GwGo(r, IF bookList = {NoBook} THEN "list" ELSE "200") /\ UNCHANGED bookList
       \/ gw[r].pc = "list" /\ GwGo(r, "200") /\ bookList' = {b \in Shelf : books[b] # NoBook}
    /\ UNCHANGED <<books, orders, bookCache, overlapped>>

\* create_book(): insert under the write lock...
CreateBook(r, b) ==
    /\ gw[r].pc = "new" /\ books[b] = NoBook
    /\ books' = [books EXCEPT ![b] = Stock]
    /\ GwGo(r, "clear")
    /\ UNCHANGED <<orders, bookCache, bookList, overlapped>>

\* ... and clear the cache of books (the cache of lists is left alone).
ClearCache(r) ==
    /\ gw[r].pc = "clear"
    /\ bookCache' = [b \in Shelf |-> NoBook]
    /\ GwGo(r, "200")
    /\ UNCHANGED <<books, orders, bookList, overlapped>>

InStock(b, q) == books[b] # NoBook /\ books[b] >= q

Ordering(b) == {r \in GwRequests : gw[r].pc = "deduct" /\ gw[r].book = b}

\* create_order(): through the breaker, which may refuse; under the read lock, is
\* there enough?
CheckStock(r, b, q) ==
    /\ gw[r].pc = "new"
    /\ \/ /\ InStock(b, q)
          /\ gw' = [gw EXCEPT ![r] = [@ EXCEPT !.pc = "deduct", !.book = b, !.quantity = q, !.snapshot = books[b]]]
          /\ overlapped' = IF Ordering(b) # {} THEN overlapped \cup {b} ELSE overlapped
       \/ GwGo(r, "400") /\ UNCHANGED overlapped
    /\ UNCHANGED <<books, orders, bookCache, bookList>>

\* The wrong variant: the stock is computed from the copy the check took.
MutantLeft(r) == (gw[r].snapshot - gw[r].quantity) % WordSize

Left(r) == (books[gw[r].book] - gw[r].quantity) % WordSize

\* b.stock -= quantity, under the write lock, whatever has happened since the check:
\* below zero a release build wraps, a debug build panics and the request is lost.
Deduct(r) ==
    LET b == gw[r].book IN
    /\ gw[r].pc = "deduct"
    /\ \/ books' = [books EXCEPT ![b] = Left(r)] /\ GwGo(r, "insert")
       \/ books[b] < gw[r].quantity /\ GwGo(r, "panic") /\ UNCHANGED books
    /\ UNCHANGED <<orders, bookCache, bookList, overlapped>>

InsertOrder(r) ==
    /\ gw[r].pc = "insert"
    /\ orders' = [orders EXCEPT ![r] = "confirmed"]
    /\ GwGo(r, "invalidate")
    /\ UNCHANGED <<books, bookCache, bookList, overlapped>>

Invalidate(r) ==
    /\ gw[r].pc = "invalidate"
    /\ bookCache' = [bookCache EXCEPT ![gw[r].book] = NoBook]
    /\ GwGo(r, "200")
    /\ UNCHANGED <<books, orders, bookList, overlapped>>

\* cancel_order(): only the status changes, and it may be cancelled already.
CancelOrder(r, o) ==
    /\ gw[r].pc = "new"
    /\ orders' = [orders EXCEPT ![o] = IF @ = "none" THEN @ ELSE "cancelled"]
    /\ GwGo(r, IF orders[o] = "none" THEN "404" ELSE "200")
    /\ UNCHANGED <<books, bookCache, bookList, overlapped>>

\* The TTL of a cached book or of the cached list ends.
ExpireCached ==
    /\ \/ \E b \in Shelf : /\ bookCache[b] # NoBook
                           /\ bookCache' = [bookCache EXCEPT ![b] = NoBook]
                           /\ UNCHANGED bookList
       \/ bookList # {NoBook} /\ bookList' = {NoBook} /\ UNCHANGED bookCache
    /\ UNCHANGED <<books, orders, gw, overlapped>>

GatewayNext ==
    \/ \E r \in GwRequests :
          \/ Shed(r) \/ ReadBook(r) \/ ListBooks(r) \/ ClearCache(r)
          \/ Deduct(r) \/ InsertOrder(r) \/ Invalidate(r)
          \/ \E b \in Shelf : GetBook(r, b) \/ CreateBook(r, b)
                              \/ \E q \in Quantities : CheckStock(r, b, q)
          \/ \E o \in GwRequests : CancelOrder(r, o)
    \/ ExpireCached

GatewaySpec == GatewayInit /\ [][GatewayNext]_gatewayVars
------------------------------------------------------------------------------
Deducted(b) == {r \in GwRequests : gw[r].book = b /\ gw[r].pc \in {"insert", "invalidate", "200"}}
Copies(b) == UNION {{r} \X (1 .. gw[r].quantity) : r \in Deducted(b)}
Sold(b) == Cardinality(Copies(b))

(***************************************************************************)
(* However orders overlap, none of them is forgotten: the stock is what    *)
(* the book started with less everything ordered, modulo 2^32; and every   *)
(* order that answered is among the orders.                                *)
(***************************************************************************)
StockAccounted ==
    /\ \A b \in Shelf : books[b] # NoBook => books[b] = (Stock - Sold(b)) % WordSize
    /\ \A r \in GwRequests : gw[r].book # NoBook /\ gw[r].pc = "200" => orders[r] # "none"

(***************************************************************************)
(* More is sold than there was only if two orders for the book had both    *)
(* passed the check of the stock before either deducted.                   *)
(***************************************************************************)
OversoldOnlyByOverlap == \A b \in Shelf : Sold(b) > Stock => b \in overlapped

(***************************************************************************)
(* A cached book shows the present stock unless an order has deducted and  *)
(* is yet to delete it from the cache: a reader cannot put an old copy     *)
(* back, because it holds the read lock until its copy is in the cache.    *)
(***************************************************************************)
GatewayCacheFresh ==
    \A b \in Shelf : bookCache[b] # NoBook =>
        \/ bookCache[b] = books[b]
        \/ \E r \in GwRequests : gw[r].book = b /\ gw[r].pc \in {"insert", "invalidate"}

\* Stock and cache of the gateway are wrong for no other reason than the check of
\* the stock outside the lock of the deduction.
StockSound == StockAccounted /\ OversoldOnlyByOverlap /\ GatewayCacheFresh
=============================================================================
