---------------------------- MODULE BookServices ---------------------------
(***************************************************************************)
(* The bookstore's two RPC services: BookLogic                             *)
(* (examples/bookstore/rpc/book/src/main.rs) and OrderLogic                *)
(* (rpc/order/src/main.rs).  A book is its stock.  A request holds the     *)
(* write lock of its database through the steps that say so; a copy read   *)
(* under the read lock is cached after that lock is given up.              *)
(***************************************************************************)
EXTENDS Integers, Sequences, FiniteSets

CONSTANTS
    Titles,      \* the ids of books
    Amounts,     \* stocks and quantities; 0 is a quantity too
    BkRequests,  \* requests to the book service
    OrRequests   \* requests to the order service

ASSUME ServicesAssumption == Amounts \subseteq Nat

Gone == -1

VARIABLES
    shelf,       \* BookSvc.db: the stock of each book, or Gone
    bookCopy,    \* book_cache: [stock, raced] of each book
    listCopy,    \* list_cache: <<>> or <<the books listed>>
    bk,          \* bk[r]: [pc, book, stock, raced]
    orderDb,     \* OrderSvc.db: the status of the order request r made
    notices,     \* what has been pushed on the queue: <<kind, order>>
    od           \* od[r]: [pc, order]

bookVars == <<shelf, bookCopy, listCopy, bk>>
orderVars == <<orderDb, notices, od>>
servicesVars == <<shelf, bookCopy, listCopy, bk, orderDb, notices, od>>

NoCopy == [stock |-> Gone, raced |-> FALSE]
Cleared == [b \in Titles |-> NoCopy]
Free == [pc |-> "new", book |-> Gone, stock |-> Gone, raced |-> FALSE]

ServicesInit ==
    /\ shelf \in [Titles -> Amounts \ {0}]
    /\ bookCopy = Cleared /\ listCopy = <<>>
    /\ bk = [r \in BkRequests |-> Free]
    /\ orderDb = [r \in OrRequests |-> "none"] /\ notices = <<>>
    /\ od = [r \in OrRequests |-> [pc |-> "new", order |-> r]]

\* History: the copies of b that requests hold are old now.
Outdate(b) == [r \in BkRequests |-> IF bk[r].book = b THEN [bk[r] EXCEPT !.raced = TRUE] ELSE bk[r]]
BkDone(r, held) == [held EXCEPT ![r] = [Free EXCEPT !.pc = "done"]]

\* get_book(): a copy in the cache is the answer...
GetCopy(r, b) ==
    /\ bk[r].pc = "new"
    /\ bk' = IF bookCopy[b] # NoCopy THEN BkDone(r, bk)
             ELSE [bk EXCEPT ![r] = [Free EXCEPT !.pc = "miss", !.book = b]]
    /\ UNCHANGED <<shelf, bookCopy, listCopy>>

\* ... or else the database is read, unless the breaker refuses...
ReadShelf(r) ==
    /\ bk[r].pc = "miss"
    /\ \/ bk' = BkDone(r, bk)
       \/ /\ shelf[bk[r].book] # Gone
          /\ bk' = [bk EXCEPT ![r] = [@ EXCEPT !.pc = "fill", !.stock = shelf[bk[r].book], !.raced = FALSE]]
    /\ UNCHANGED <<shelf, bookCopy, listCopy>>

\* ... the copy is cached, and the request answered.
Fill(r) ==
    /\ bk[r].pc = "fill"
    /\ bookCopy' = [bookCopy EXCEPT ![bk[r].book] = [stock |-> bk[r].stock, raced |-> bk[r].raced]]
    /\ bk' = BkDone(r, bk)
    /\ UNCHANGED <<shelf, listCopy>>

\* list_books(): the list in the cache, or else the books under the read lock...
ListCopy(r) ==
    /\ bk[r].pc = "new"
    /\ bk' = IF listCopy # <<>> THEN BkDone(r, bk) ELSE [bk EXCEPT ![r].pc = "listing"]
    /\ UNCHANGED <<shelf, bookCopy, listCopy>>

ReadList(r) ==
    /\ bk[r].pc = "listing"
    /\ bk' = [bk EXCEPT ![r] = [@ EXCEPT !.pc = "listed", !.stock = {b \in Titles : shelf[b] # Gone}]]
    /\ UNCHANGED <<shelf, bookCopy, listCopy>>

\* ... which are cached after the lock has been given up (drop(db)).
FillList(r) ==
    /\ bk[r].pc = "listed"
    /\ listCopy' = <<bk[r].stock>>
    /\ bk' = BkDone(r, bk)
    /\ UNCHANGED <<shelf, bookCopy>>

\* create_book(): insert and clear both caches, all under the write lock.
AddBook(r, b, n) ==
    /\ bk[r].pc = "new" /\ shelf[b] = Gone
    /\ shelf' = [shelf EXCEPT ![b] = n]
    /\ bookCopy' = Cleared /\ listCopy' = <<>>
    /\ bk' = BkDone(r, Outdate(b))

\* The wrong variant: the caches are left as they are.
MutantUpdateBook(r, b, n) ==
    /\ bk[r].pc = "new" /\ shelf[b] # Gone
    /\ shelf' = [shelf EXCEPT ![b] = n]
    /\ bk' = BkDone(r, Outdate(b))
    /\ UNCHANGED <<bookCopy, listCopy>>

\* update_book(): write under the lock, which is then given up...
UpdateBook(r, b, n) ==
    /\ bk[r].pc = "new"
    /\ IF shelf[b] = Gone THEN bk' = BkDone(r, bk) /\ UNCHANGED shelf
       ELSE /\ shelf' = [shelf EXCEPT ![b] = n]
            /\ bk' = [Outdate(b) EXCEPT ![r] = [pc |-> "publish", book |-> b, stock |-> n, raced |-> FALSE]]
    /\ UNCHANGED <<bookCopy, listCopy>>

\* ... set the cache...
Publish(r) ==
    /\ bk[r].pc = "publish"
    /\ bookCopy' = [bookCopy EXCEPT ![bk[r].book] = [stock |-> bk[r].stock, raced |-> bk[r].raced]]
    /\ bk' = [bk EXCEPT ![r].pc = "clear"]
    /\ UNCHANGED <<shelf, listCopy>>

\* ... and clear both caches all the same.
ClearCopies(r) ==
    /\ bk[r].pc = "clear"
    /\ bookCopy' = Cleared /\ listCopy' = <<>>
    /\ bk' = BkDone(r, bk)
    /\ UNCHANGED shelf

\* delete_book(): remove under the lock; the caches are cleared if it was there.
DeleteBook(r, b) ==
    /\ bk[r].pc = "new"
    /\ shelf' = [shelf EXCEPT ![b] = Gone]
    /\ bk' = IF shelf[b] = Gone THEN BkDone(r, bk)
             ELSE [Outdate(b) EXCEPT ![r] = [Free EXCEPT !.pc = "clear", !.book = b]]
    /\ UNCHANGED <<bookCopy, listCopy>>

\* deduct_stock(): check, deduct and clear under the write lock - unless the breaker
\* refuses, there is no such book or too little of it.
DeductStock(r, b, n) ==
    /\ bk[r].pc = "new"
    /\ \/ /\ shelf[b] >= n
          /\ shelf' = [shelf EXCEPT ![b] = @ - n]
          /\ bookCopy' = Cleared /\ listCopy' = <<>>
          /\ bk' = BkDone(r, Outdate(b))
       \/ bk' = BkDone(r, bk) /\ UNCHANGED <<shelf, bookCopy, listCopy>>

\* The TTLs end: 300 s for a book, 60 s for a list.
ExpireCopies ==
    /\ \/ \E b \in Titles : bookCopy[b] # NoCopy /\ bookCopy' = [bookCopy EXCEPT ![b] = NoCopy] /\ UNCHANGED listCopy
       \/ listCopy # <<>> /\ listCopy' = <<>> /\ UNCHANGED bookCopy
    /\ UNCHANGED <<shelf, bk>>

Writing == \E r \in OrRequests : od[r].pc = "notify"
OdGo(r, l) == od' = [od EXCEPT ![r].pc = l]

\* create_order(): a quantity of 0, or the breaker, ends it; otherwise the order is
\* inserted (the call that would deduct the stock is simulated)...
CreateOrder(r, n) ==
    /\ od[r].pc = "new" /\ ~Writing
    /\ \/ n > 0 /\ orderDb' = [orderDb EXCEPT ![r] = "Confirmed"] /\ OdGo(r, "created")
       \/ OdGo(r, "done") /\ UNCHANGED orderDb
    /\ UNCHANGED notices

\* ... and then announced, outside the lock; a push that fails is ignored.
AnnounceCreated(r) ==
    /\ od[r].pc = "created"
    /\ notices' \in {notices, Append(notices, <<"order.created", r>>)}
    /\ OdGo(r, "done")
    /\ UNCHANGED orderDb

Cancellable(o) == orderDb[o] \notin {"none", "Cancelled"}

\* cancel_order(): an order that is there and not cancelled...
CancelBooking(r, o) ==
    /\ od[r].pc = "new" /\ ~Writing
    /\ IF Cancellable(o)
       THEN orderDb' = [orderDb EXCEPT ![o] = "Cancelled"] /\ od' = [od EXCEPT ![r] = [pc |-> "notify", order |-> o]]
       ELSE OdGo(r, "done") /\ UNCHANGED orderDb
    /\ UNCHANGED notices

\* ... is announced as such while the write lock is held across the push.
AnnounceCancelled(r) ==
    /\ od[r].pc = "notify"
    /\ notices' \in {notices, Append(notices, <<"order.cancelled", od[r].order>>)}
    /\ OdGo(r, "done")
    /\ UNCHANGED orderDb

BooksNext ==
    \/ \E r \in BkRequests :
          \/ ReadShelf(r) \/ Fill(r) \/ ListCopy(r) \/ ReadList(r) \/ FillList(r)
          \/ Publish(r) \/ ClearCopies(r)
          \/ \E b \in Titles :
                \/ GetCopy(r, b) \/ DeleteBook(r, b)
                \/ \E n \in Amounts : AddBook(r, b, n) \/ UpdateBook(r, b, n) \/ DeductStock(r, b, n)
    \/ ExpireCopies

OrdersNext ==
    \E r \in OrRequests :
        \/ AnnounceCreated(r) \/ AnnounceCancelled(r)
        \/ \E n \in Amounts : CreateOrder(r, n)
        \/ \E o \in OrRequests : CancelBooking(r, o)

\* The two services share nothing.
ServicesNext == (BooksNext /\ UNCHANGED orderVars) \/ (OrdersNext /\ UNCHANGED bookVars)

ServicesSpec == ServicesInit /\ [][ServicesNext]_servicesVars
------------------------------------------------------------------------------
(***************************************************************************)
(* BookLogic serves an old copy of a book from its cache only if a request *)
(* read that copy before the change and cached it after, or while the      *)
(* request that changed it has yet to clear the caches.                    *)
(***************************************************************************)
StaleBookOnlyByRace ==
    \A b \in Titles : bookCopy[b] # NoCopy =>
        \/ bookCopy[b].stock = shelf[b] \/ bookCopy[b].raced
        \/ \E r \in BkRequests : bk[r].book = b /\ bk[r].pc \in {"publish", "clear"}

(***************************************************************************)
(* Each order is announced as created at most once and as cancelled at     *)
(* most once, however many requests cancel it, and as cancelled only when  *)
(* it is.  (The two may come in either order.)                             *)
(***************************************************************************)
OrderNoticesSound ==
    /\ \A i, j \in 1..Len(notices) : i # j => notices[i] # notices[j]
    /\ \A i \in 1..Len(notices) :
          /\ orderDb[notices[i][2]] # "none"
          /\ notices[i][1] = "order.cancelled" => orderDb[notices[i][2]] = "Cancelled"

\* What the two services tell: copies of books and notices of orders.
ServicesSound == StaleBookOnlyByRace /\ OrderNoticesSound
=============================================================================
