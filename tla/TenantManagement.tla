-------------------------- MODULE TenantManagement -------------------------
(***************************************************************************)
(* The multi-tenant example (examples/tenant-management).  Every SQL       *)
(* statement is atomic, a request is a sequence of them.  The layer with   *)
(* tenant_validation_middleware is added last, so it wraps every route     *)
(* declared before it - the admin and health routes too; admin_guard wraps *)
(* only the routes declared before /users.                                 *)
(***************************************************************************)
EXTENDS Integers, FiniteSets

CONSTANTS
    Slugs,        \* slugs of tenants; the primary key is as good as the slug
    Seed,         \* the slug of the tenant init_db() makes
    Emails,
    TmRequests,   \* the requests
    MaxUsers,     \* max_users: TenantQuota::default(), and the column's default
    MaxRpm        \* max_rpm, likewise

\* The defaults are 10 and 100; the quota has room for the first user.
ASSUME TenantAssumption ==
    Seed \in Slugs /\ Emails # {} /\ MaxUsers \in Nat \ {0} /\ MaxRpm \in Nat

Statuses == {"active", "suspended", "pending"}
Roles == {"admin", "member"}

VARIABLES
    tenants,      \* the tenants table: the status of each slug, or "none"
    users,        \* the users table: [id, tenant, email, role]
    lastId,       \* its AUTOINCREMENT
    windows,      \* windows[t]: requests counted in the present window of t
    tm,           \* tm[r]: [pc, admin, tenant, row, seen]; seen are the rows it answers with
    crowded       \* history: tenants of which two requests had checked the quota and not inserted

tenantVars == <<tenants, users, lastId, windows, tm, crowded>>

NoRow == [id |-> 0, email |-> "none", role |-> "none"]
Start == [pc |-> "new", admin |-> FALSE, tenant |-> "none", row |-> NoRow, seen |-> {}]

\* The handlers turn what the service returns into a code and, if all went well, data.
Answer(r, code) == tm' = [tm EXCEPT ![r].pc = code]
AnswerWith(r, rows) == tm' = [tm EXCEPT ![r].pc = "200", ![r].seen = rows]

\* init_db(): one active tenant with one user
TenantInit ==
    /\ tenants = [t \in Slugs |-> IF t = Seed THEN "active" ELSE "none"]
    /\ users = {[id |-> 1, tenant |-> Seed, email |-> CHOOSE e \in Emails : TRUE, role |-> "admin"]}
    /\ lastId = 1
    /\ windows = [t \in Slugs |-> 0]
    /\ tm = [r \in TmRequests |-> Start]
    /\ crowded = {}

\* check(): under the write lock of the windows.
WithinRate(t) == windows[t] < MaxRpm

\* tenant_validation_middleware(): a header that names no active tenant, a window that
\* is full, or the context of this tenant for the rest of the request.
Validate(r, t, admin) ==
    LET to(code) == tm' = [tm EXCEPT ![r].pc = code, ![r].admin = admin, ![r].tenant = t] IN
    /\ tm[r].pc = "new"
    /\ \/ tenants[t] # "active" /\ to("403") /\ UNCHANGED windows
       \/ tenants[t] = "active" /\ ~WithinRate(t) /\ to("429") /\ UNCHANGED windows
       \/ /\ tenants[t] = "active" /\ WithinRate(t)
          /\ windows' = [windows EXCEPT ![t] = @ + 1]
          /\ to("valid")
    /\ UNCHANGED <<tenants, users, lastId, crowded>>

\* No X-Tenant-ID
NoHeader(r, admin) ==
    /\ tm[r].pc = "new"
    /\ tm' = [tm EXCEPT ![r].pc = "400", ![r].admin = admin]
    /\ UNCHANGED <<tenants, users, lastId, windows, crowded>>

\* now > reset_at: the next check() starts a new window.
NewWindow(t) ==
    /\ windows[t] > 0
    /\ windows' = [windows EXCEPT ![t] = 0]
    /\ UNCHANGED <<tenants, users, lastId, tm, crowded>>

\* admin_guard_middleware(): a request without the token
NotAdmin(r) ==
    /\ tm[r].pc = "valid" /\ tm[r].admin
    /\ Answer(r, "401")
    /\ UNCHANGED <<tenants, users, lastId, windows, crowded>>

\* create_tenant(): an INSERT; slug is UNIQUE.
CreateTenant(r, t) ==
    /\ tm[r].pc = "valid" /\ tm[r].admin
    /\ tenants' = [tenants EXCEPT ![t] = IF @ = "none" THEN "active" ELSE @]
    /\ Answer(r, IF tenants[t] = "none" THEN "200" ELSE "500")
    /\ UNCHANGED <<users, lastId, windows, crowded>>

\* list_tenants() and get_tenant(): the admin's, so no tenant's data is among the answers
\* that count.
ReadTenants(r, t) ==
    /\ tm[r].pc = "valid" /\ tm[r].admin
    /\ \/ Answer(r, "200")
       \/ tenants[t] = "none" /\ Answer(r, "404")
    /\ UNCHANGED <<tenants, users, lastId, windows, crowded>>

\* delete_tenant(), a soft delete: an UPDATE, which of a tenant that is not there changes
\* nothing.
DeleteTenant(r, t) ==
    /\ tm[r].pc = "valid" /\ tm[r].admin
    /\ tenants' = [tenants EXCEPT ![t] = IF @ = "none" THEN @ ELSE "suspended"]
    /\ Answer(r, "200")
    /\ UNCHANGED <<users, lastId, windows, crowded>>

\* update_tenant(): the same, and then find_by_id()
SetStatus(r, t, s) ==
    /\ tm[r].pc = "valid" /\ tm[r].admin
    /\ tenants' = [tenants EXCEPT ![t] = IF @ = "none" THEN @ ELSE s]
    /\ Answer(r, IF tenants[t] = "none" THEN "404" ELSE "200")
    /\ UNCHANGED <<users, lastId, windows, crowded>>

OfTenant(t) == {u \in users : u.tenant = t}

\* find_by_id() of UserService
Find(t, id) == {u \in OfTenant(t) : u.id = id}

QuotaLeft(t) == Cardinality(OfTenant(t)) < MaxUsers

\* create_user(): the quota is checked in one statement...
CheckQuota(r, e, role) ==
    /\ tm[r].pc = "valid" /\ ~tm[r].admin
    /\ IF QuotaLeft(tm[r].tenant)
       THEN /\ tm' = [tm EXCEPT ![r].pc = "insert", ![r].row = [id |-> 0, email |-> e, role |-> role]]
            /\ crowded' = crowded \cup {tm[q].tenant : q \in {p \in TmRequests :
                                           tm[p].pc = "insert" /\ tm[p].tenant = tm[r].tenant}}
       ELSE Answer(r, "429") /\ UNCHANGED crowded
    /\ UNCHANGED <<tenants, users, lastId, windows>>

Taken(t, e, id) == \E u \in OfTenant(t) : u.email = e /\ u.id # id

\* ... the row inserted in another; (tenant_id, email) is UNIQUE.  A third reads it.
InsertUser(r) ==
    LET new == [id |-> lastId + 1, tenant |-> tm[r].tenant, email |-> tm[r].row.email, role |-> tm[r].row.role] IN
    /\ tm[r].pc = "insert"
    /\ IF Taken(tm[r].tenant, tm[r].row.email, 0)
       THEN Answer(r, "500") /\ UNCHANGED <<users, lastId>>
       ELSE /\ users' = users \cup {new} /\ lastId' = lastId + 1
            /\ tm' = [tm EXCEPT ![r].pc = "created", ![r].row.id = lastId + 1]
    /\ UNCHANGED <<tenants, windows, crowded>>

\* list_users() and get_user()
ReadUsers(r, id) ==
    LET t == tm[r].tenant IN
    /\ tm[r].pc = "valid" /\ ~tm[r].admin
    /\ \/ AnswerWith(r, OfTenant(t))
       \/ IF Find(t, id) = {} THEN Answer(r, "404") ELSE AnswerWith(r, Find(t, id))
    /\ UNCHANGED <<tenants, users, lastId, windows, crowded>>

\* update_user(): find it first...
FindForUpdate(r, id, e, role) ==
    /\ tm[r].pc = "valid" /\ ~tm[r].admin
    /\ IF Find(tm[r].tenant, id) = {} THEN Answer(r, "404")
       ELSE tm' = [tm EXCEPT ![r].pc = "email", ![r].row = [id |-> id, email |-> e, role |-> role]]
    /\ UNCHANGED <<tenants, users, lastId, windows, crowded>>

\* The wrong variant: WHERE id = ?, without the tenant.
MutantMine(r, id) == {u \in users : u.id = id}

\* WHERE id = ? AND tenant_id = ?
Mine(r, id) == Find(tm[r].tenant, id)

\* UPDATE users SET column = ?
Change(r, column) ==
    LET mine == Mine(r, tm[r].row.id) IN
    users' = (users \ mine) \cup {[u EXCEPT ![column] = tm[r].row[column]] : u \in mine}

\* ... one UPDATE for each field (a taken email ends the request half done)...
UpdateEmail(r) ==
    /\ tm[r].pc = "email"
    /\ IF Mine(r, tm[r].row.id) # {} /\ Taken(tm[r].tenant, tm[r].row.email, tm[r].row.id)
       THEN Answer(r, "404") /\ UNCHANGED users
       ELSE Change(r, "email") /\ Answer(r, "role")
    /\ UNCHANGED <<tenants, lastId, windows, crowded>>

UpdateRole(r) ==
    /\ tm[r].pc = "role"
    /\ Change(r, "role")
    /\ Answer(r, "find")
    /\ UNCHANGED <<tenants, lastId, windows, crowded>>

\* ... and find it again, as create_user() finds what it has inserted.
FindUpdated(r) ==
    LET found == Find(tm[r].tenant, tm[r].row.id) IN
    /\ tm[r].pc \in {"find", "created"}
    /\ IF found = {} THEN Answer(r, IF tm[r].pc = "find" THEN "404" ELSE "500") ELSE AnswerWith(r, found)
    /\ UNCHANGED <<tenants, users, lastId, windows, crowded>>

\* delete_user(): one statement
DeleteUser(r, id) ==
    /\ tm[r].pc = "valid" /\ ~tm[r].admin
    /\ users' = users \ Mine(r, id)
    /\ Answer(r, IF Mine(r, id) = {} THEN "404" ELSE "200")
    /\ UNCHANGED <<tenants, lastId, windows, crowded>>

TenantNext ==
    \/ \E r \in TmRequests :
          \/ (\E admin \in BOOLEAN : NoHeader(r, admin)) \/ NotAdmin(r) \/ InsertUser(r) \/ UpdateEmail(r) \/ UpdateRole(r) \/ FindUpdated(r)
          \/ \E t \in Slugs :
                \/ \E admin \in BOOLEAN : Validate(r, t, admin)
                \/ CreateTenant(r, t) \/ ReadTenants(r, t) \/ DeleteTenant(r, t)
                \/ \E s \in Statuses : SetStatus(r, t, s)
          \/ \E e \in Emails, role \in Roles :
                CheckQuota(r, e, role) \/ \E id \in 1..lastId : FindForUpdate(r, id, e, role)
          \/ \E id \in 1..(lastId + 1) : ReadUsers(r, id) \/ DeleteUser(r, id)
    \/ \E t \in Slugs : NewWindow(t)

TenantSpec == TenantInit /\ [][TenantNext]_tenantVars
------------------------------------------------------------------------------
(***************************************************************************)
(* Isolation: an answer holds rows of the request's own tenant only, a     *)
(* step of a request changes rows of its own tenant only, and no user      *)
(* changes its tenant.                                                     *)
(***************************************************************************)
IsolatedStep ==
    \A r \in TmRequests :
        tm'[r] # tm[r] =>
            /\ \A u \in (users \ users') \cup (users' \ users) : u.tenant = tm[r].tenant
            /\ \A u \in tm'[r].seen : u.tenant = tm[r].tenant

(***************************************************************************)
(* The user quota is checked in a statement of its own: a tenant has more  *)
(* users than its quota only if two of its requests had both passed the    *)
(* check before either inserted.  Within a tenant emails stay unique.      *)
(***************************************************************************)
QuotaOnlyByRace ==
    \A t \in Slugs :
        /\ Cardinality(OfTenant(t)) > MaxUsers => t \in crowded
        /\ Cardinality({u.email : u \in OfTenant(t)}) = Cardinality(OfTenant(t))

\* What the multi-tenant example is for.
TenantsKeptApart == [][IsolatedStep /\ QuotaOnlyByRace']_tenantVars
=============================================================================
