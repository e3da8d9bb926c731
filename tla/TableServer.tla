---------------------------- MODULE TableServer ----------------------------
(***************************************************************************)
(* table_allocator_server: leases of routing tables.  The server keeps an  *)
(* in-memory bitmap of free tables per address family and an SQLite table  *)
(* of leases with primary key (RtTable, AddrFamily) ON CONFLICT REPLACE.   *)
(* It handles one event at a time on a libuv loop: a datagram with a       *)
(* request or a release, or the repeating dead-lease timer.  Each handler  *)
(* runs to completion, so it is one action.                                *)
(*                                                                         *)
(* Every database call checks its result and takes an error path; Faults   *)
(* names the calls that may fail.  The process may crash (the bitmap is    *)
(* lost, the database stays; systemd starts it again) and the machine may  *)
(* reboot (CLOCK_MONOTONIC_RAW, in which leases expire, starts from zero). *)
(***************************************************************************)
EXTENDS TableMap

CONSTANTS
    Family,           \* address families a request may carry
    EnabledFamilies,  \* those enabled in the configuration
    Id,               \* lease holders: (ifname, address) pairs
    None,             \* no identity, no family
    TableTimeout,     \* ctx->table_timeout, seconds
    DeadLeaseTimeout, \* DEAD_LEASE_TIMEOUT, seconds
    Faults,           \* database calls that may fail
    MaxNow,           \* bound on the clock
    LastEvent,        \* bound on the time of requests, crashes and outages
    MaxCrashes,       \* bound on the crashes
    MaxReboots        \* bound on the reboots

FaultPoints == {"select", "insert", "update", "delete",
                "select_dead", "delete_dead", "build"}

ASSUME ServerAssumption ==
    /\ EnabledFamilies \subseteq Family
    /\ None \notin Id /\ None \notin Family
    /\ TableTimeout \in Nat \ {0}
    /\ DeadLeaseTimeout \in Nat \ {0}
    /\ Faults \subseteq FaultPoints
    /\ MaxNow \in Nat /\ LastEvent \in Nat
    /\ MaxCrashes \in Nat /\ MaxReboots \in Nat

VARIABLES
    up,                 \* the server process runs
    map,                \* family -> free bits; NULL (absent) when disabled
    db,                 \* the leases: family -> table -> row
    now,                \* CLOCK_MONOTONIC_RAW, seconds
    dead_leases_timer,  \* when the dead-lease timer is next due
    reply,              \* what the last handled datagram was answered
    granted,            \* history: family -> id -> the lease it was last told
    crashes, reboots    \* how often each has happened

vars == <<up, map, db, now, dead_leases_timer, reply, granted,
          crashes, reboots>>

-----------------------------------------------------------------------------

\* The maps of a process that does not run.
NoMap == [f \in EnabledFamilies |-> {}]

\* A row of the leases table, by its primary key, and the absence of one.
Row    == [id : Id \cup {None}, expires : Nat]
NoRow  == [id |-> None, expires |-> 0]

\* What a client was told, and nothing.
Lease   == [table : Tables \cup {0}, expires : Nat]
NoLease == [table |-> 0, expires |-> 0]

Reply   == [type : {"none", "granted", "refused", "failed", "released"},
            family : Family \cup {None}, id : Id \cup {None}]
NoReply == [type |-> "none", family |-> None, id |-> None]

TypeOK ==
    /\ up \in BOOLEAN
    /\ map \in [EnabledFamilies -> SUBSET Bits]
    /\ db \in [Family -> [Tables -> Row]]
    /\ now \in Nat
    /\ dead_leases_timer \in Nat
    /\ reply \in Reply
    /\ granted \in [Family -> [Id -> Lease]]
    /\ crashes \in Nat /\ reboots \in Nat

Init ==
    /\ up = FALSE
    /\ map = NoMap
    /\ db = [f \in Family |-> [t \in Tables |-> NoRow]]
    /\ now = 0
    /\ dead_leases_timer = 0
    /\ reply = NoReply
    /\ granted = [f \in Family |-> [i \in Id |-> NoLease]]
    /\ crashes = 0 /\ reboots = 0

-----------------------------------------------------------------------------
(***************************************************************************)
(* The queries of table_allocator_server_sqlite.c.                         *)
(***************************************************************************)
IsRow(r) == r.id # None

\* SELECT_DEAD_LEASES and DELETE_DEAD_LEASES: LeaseExpires <= now.
MutIsDead(r) == IsRow(r) /\ r.expires <= now + 1
IsDead(r) == IsRow(r) /\ r.expires <= now

\* SELECT_ALIVE_LEASES: LeaseExpires > now.
MutIsAlive(r) == IsRow(r) /\ r.expires > now + 1
IsAlive(r) == IsRow(r) /\ r.expires > now

DeadRows  == {k \in Family \X Tables : IsDead(db[k[1]][k[2]])}
AliveRows == {k \in Family \X Tables : IsAlive(db[k[1]][k[2]])}

\* The bits of the rows of one family.
BitsOf(rows, f) == {Index(k[2]) : k \in {r \in rows : r[1] = f}}

\* The rows a SELECT loop visits: it stops at the first failed step.
Visited(rows, fault) == IF fault \in Faults THEN SUBSET rows ELSE {rows}

\* get_table: the table of the identity's row whatever its expiry, 0 when
\* there is none or the query fails.
MutRowsOf(f, i) == {t \in Tables : db[f][t].id = i /\ IsAlive(db[f][t])}
RowsOf(f, i) == {t \in Tables : db[f][t].id = i}
get_table(f, i) ==
    (IF RowsOf(f, i) = {} THEN {0} ELSE RowsOf(f, i))
        \cup (IF "select" \in Faults THEN {0} ELSE {})

\* INSERT: a row with the same key is replaced.
insert_table(f, i, t) ==
    db' = [db EXCEPT ![f][t] = [id |-> i, expires |-> now + TableTimeout]]

\* UPDATE: the new expiry, by family and table.
MutUpdateLease(f, t) == db' = db
update_lease(f, t) ==
    db' = [db EXCEPT ![f][t] = [id |-> @.id, expires |-> now + TableTimeout]]

\* DELETE: all rows of the identity in this family.
remove_table(f, i) ==
    db' = [db EXCEPT ![f] = [t \in Tables |->
                                IF @[t].id = i THEN NoRow ELSE @[t]]]

-----------------------------------------------------------------------------
(***************************************************************************)
(* The answers of unix_socket_recv_cb.  A request that is refused, and one *)
(* whose database call fails, gets no datagram.                            *)
(***************************************************************************)
Grant(f, i, t) ==
    /\ reply' = [type |-> "granted", family |-> f, id |-> i]
    /\ granted' = [granted EXCEPT ![f][i] =
                      [table |-> t, expires |-> now + TableTimeout]]

NoAnswer(type, f, i) ==
    /\ reply' = [type |-> type, family |-> f, id |-> i]
    /\ UNCHANGED granted

Refuse(f, i) == NoAnswer("refused", f, i)

Fail(f, i) == NoAnswer("failed", f, i)

-----------------------------------------------------------------------------
(***************************************************************************)
(* handle_req                                                              *)
(***************************************************************************)

\* The identity has a row: its table is marked busy if the map has it free,
\* its lease is extended.
MutReallocate(f, i, t) ==
    /\ map' = [map EXCEPT ![f] = set_table(@, t)]
    /\ \/ update_lease(f, t) /\ Grant(f, i, t)
       \/ "update" \in Faults /\ UNCHANGED db /\ Fail(f, i)
Reallocate(f, i, t) ==
    /\ map' = [map EXCEPT ![f] = IF is_table_free(@, t)
                                 THEN set_table(@, t) ELSE @]
    /\ \/ update_lease(f, t) /\ Grant(f, i, t)
       \/ "update" \in Faults /\ UNCHANGED db /\ Fail(f, i)

\* No bit is set in any word.
Exhausted(f, i) ==
    /\ map[f] = {}
    /\ UNCHANGED <<map, db>>
    /\ Refuse(f, i)

\* The lowest set bit is taken.  One past num_tables is lost and the request
\* refused; otherwise the lease is stored, and the bit given back when that
\* fails.
MutAllocateTable(f, i, b) ==
    \/ /\ ~InRange(b)
       /\ map' = [map EXCEPT ![f] = @ \ {b}]
       /\ UNCHANGED db
       /\ Refuse(f, i)
    \/ /\ InRange(b)
       /\ map' = [map EXCEPT ![f] = @ \ {b}]
       /\ \/ insert_table(f, i, TableOf(b)) /\ Grant(f, i, TableOf(b))
          \/ "insert" \in Faults /\ UNCHANGED db /\ Fail(f, i)
AllocateTable(f, i, b) ==
    \/ /\ ~InRange(b)
       /\ map' = [map EXCEPT ![f] = @ \ {b}]
       /\ UNCHANGED db
       /\ Refuse(f, i)
    \/ /\ InRange(b)
       /\ map' = [map EXCEPT ![f] = @ \ {b}]
       /\ insert_table(f, i, TableOf(b))
       /\ Grant(f, i, TableOf(b))
    \/ /\ InRange(b)
       /\ "insert" \in Faults
       /\ map' = [map EXCEPT ![f] = release_table(@ \ {b}, TableOf(b))]
       /\ UNCHANGED db
       /\ Fail(f, i)

AllocateNew(f, i) ==
    \/ Exhausted(f, i)
    \/ \E b \in map[f] : LowestFree(map[f], b) /\ AllocateTable(f, i, b)

\* A request for a family without a map is refused before anything else.
HandleReq(f, i) ==
    /\ up /\ now <= LastEvent
    /\ \/ /\ f \notin EnabledFamilies
          /\ UNCHANGED <<map, db>>
          /\ Refuse(f, i)
       \/ /\ f \in EnabledFamilies
          /\ \E t \in get_table(f, i) :
                \/ t # 0 /\ Reallocate(f, i, t)
                \/ t = 0 /\ AllocateNew(f, i)
    /\ UNCHANGED <<up, now, dead_leases_timer, crashes, reboots>>

-----------------------------------------------------------------------------
(***************************************************************************)
(* handle_release.  The client that sent it has stopped using its lease,   *)
(* whatever the answer.                                                    *)
(***************************************************************************)
MutReleaseRow(f, i, t) ==
    /\ remove_table(f, i)
    /\ UNCHANGED map
    /\ reply' = [type |-> "released", family |-> f, id |-> i]
ReleaseRow(f, i, t) ==
    /\ remove_table(f, i)
    /\ map' = [map EXCEPT ![f] = release_table(@, t)]
    /\ reply' = [type |-> "released", family |-> f, id |-> i]

HandleRelease(f, i) ==
    /\ up
    /\ granted' = [granted EXCEPT ![f][i] = NoLease]
    /\ \E t \in get_table(f, i) :
          \/ /\ t = 0
             /\ UNCHANGED <<map, db>>
             /\ reply' = [type |-> "released", family |-> f, id |-> i]
          \/ t # 0 /\ ReleaseRow(f, i, t)
          \/ /\ t # 0
             /\ "delete" \in Faults
             /\ UNCHANGED <<map, db>>
             /\ reply' = [type |-> "failed", family |-> f, id |-> i]
    /\ UNCHANGED <<up, now, dead_leases_timer, crashes, reboots>>

-----------------------------------------------------------------------------
(***************************************************************************)
(* dead_leases_timeout_cb: frees the busy bits of the dead rows, deletes   *)
(* the rows, and the repeating timer is armed again.                       *)
(***************************************************************************)
MutDeleteRows == db' = db
DeleteRows ==
    db' = [f \in Family |-> [t \in Tables |->
              IF IsDead(db[f][t]) THEN NoRow ELSE db[f][t]]]

DeleteDeadLeases ==
    /\ up
    /\ now >= dead_leases_timer
    /\ \E visited \in Visited(DeadRows, "select_dead") :
          /\ map' = [f \in EnabledFamilies |->
                        map[f] \cup BitsOf(visited, f)]
          /\ \/ DeleteRows
             \/ "delete_dead" \in Faults /\ UNCHANGED db
             \/ "select_dead" \in Faults /\ visited = {} /\ UNCHANGED db
    /\ dead_leases_timer' = now + DeadLeaseTimeout
    /\ reply' = NoReply
    /\ UNCHANGED <<up, now, granted, crashes, reboots>>

-----------------------------------------------------------------------------
(***************************************************************************)
(* main: every bit free, the dead-lease timer armed, then the tables of    *)
(* the live leases marked busy.  A failed query leaves some of them free.  *)
(***************************************************************************)
Start ==
    /\ ~up
    /\ up' = TRUE
    /\ \E visited \in Visited(AliveRows, "build") :
          map' = [f \in EnabledFamilies |->
                    AllFree \ BitsOf(visited, f)]
    /\ dead_leases_timer' = now + DeadLeaseTimeout
    /\ reply' = NoReply
    /\ UNCHANGED <<db, now, granted, crashes, reboots>>

\* The process dies between two handlers: the map is gone.
Crash ==
    /\ up
    /\ crashes < MaxCrashes /\ now <= LastEvent
    /\ crashes' = crashes + 1
    /\ up' = FALSE
    /\ map' = NoMap
    /\ reply' = NoReply
    /\ UNCHANGED <<db, now, dead_leases_timer, granted, reboots>>

\* The machine restarts: no client survives, the monotonic clock is back at
\* zero, and the database file keeps the expiry times of the previous boot.
Reboot ==
    /\ reboots < MaxReboots
    /\ reboots' = reboots + 1
    /\ up' = FALSE
    /\ map' = NoMap
    /\ now' = 0
    /\ dead_leases_timer' = 0
    /\ reply' = NoReply
    /\ granted' = [f \in Family |-> [i \in Id |-> NoLease]]
    /\ UNCHANGED <<db, crashes>>

\* A second passes.
Tick ==
    /\ now < MaxNow
    /\ up \/ now < LastEvent
    /\ now' = now + 1
    /\ reply' = NoReply
    /\ UNCHANGED <<up, map, db, dead_leases_timer, granted, crashes, reboots>>

-----------------------------------------------------------------------------
Next ==
    \/ Start
    \/ \E f \in Family, i \in Id : HandleReq(f, i) \/ HandleRelease(f, i)
    \/ DeleteDeadLeases
    \/ Crash
    \/ Reboot
    \/ Tick

Spec == Init /\ [][Next]_vars

\* Time passes, libuv runs the timer when it is due, and systemd starts the
\* server again.  Nothing is assumed of the clients.
FairSpec == Spec /\ WF_vars(Tick) /\ WF_vars(DeleteDeadLeases) /\ WF_vars(Start)

-----------------------------------------------------------------------------
(***************************************************************************)
(* Properties                                                              *)
(***************************************************************************)

\* The identity was told a lease that has not run out.
Holds(f, i) == granted[f][i].expires > now

\* Two identities never hold leases of the same table at the same time:
\* whatever crashes, sweeps, renewals and releases happen between the two
\* calls of handle_req that granted them.  (README: "Routing tables must be
\* unique to each interface (address)".)
NoDoubleLease ==
    \A f \in Family : \A i, j \in Id :
        Holds(f, i) /\ Holds(f, j) /\ i # j
            => granted[f][i].table # granted[f][j].table

\* A lease a client was told and that has not run out is in the database,
\* under its table, with the expiry the client was told: neither a sweep, a
\* release, an INSERT that replaces a row nor a crash can lose it.
GrantBacked ==
    \A f \in Family, i \in Id :
        Holds(f, i) =>
            /\ granted[f][i].table \in Tables
            /\ db[f][granted[f][i].table] =
                   [id |-> i, expires |-> granted[f][i].expires]

\* While the server runs, the bit of every live row is busy: what
\* build_table_map establishes at startup and every handler must keep.
LiveRowBusy ==
    up => \A f \in EnabledFamilies, t \in Tables :
             IsAlive(db[f][t]) => Index(t) \notin map[f]

\* release_table flips bits without a bounds check: every row names a bit
\* of an allocated map.
RowsInMap ==
    \A f \in Family, t \in Tables :
        IsRow(db[f][t]) => f \in EnabledFamilies /\ Index(t) \in Bits

\* A busy bit of the range has a row that the sweep will find, or else the
\* table is lost until the server restarts.
NoLeak ==
    up => \A f \in EnabledFamilies, t \in Tables :
             Index(t) \in Bits \ map[f] => IsRow(db[f][t])

\* A request of an enabled family, no database call of which fails, is refused
\* only when every configured table is leased to another identity.  (README: "If there are tables
\* available, the server will reply".)
RefusedOnlyWhenFull ==
    reply.type = "refused" /\ reply.family \in EnabledFamilies =>
        \A t \in Tables : LET r == db[reply.family][t]
                          IN  IsRow(r) /\ r.id # reply.id

\* An identity has at most one row, so remove_table deletes the row of the
\* one table that release_table gives back.
OneRowPerIdentity ==
    \A f \in Family, i \in Id : \A t, u \in Tables :
        db[f][t].id = i /\ db[f][u].id = i => t = u

\* The promise of the service: a lease is exclusive, is renewed on the same
\* table, and ends before its time only by its holder's release.  (dhclient/
\* multihomed-routing.sh: "There is no chance that the routing table for one
\* interface + address will move".)
Service == INSTANCE LeaseService WITH lease <- granted
ServiceSpec == Service!Spec

\* Once requests stop, every lease is gone in the end, however its holder
\* ended.  (README: "If a lease is not renewed or explicitly removed, then the
\* server will automatically removed it".)
LeasesExpire == <>[](\A f \in Family, t \in Tables : ~IsRow(db[f][t]))
=============================================================================
