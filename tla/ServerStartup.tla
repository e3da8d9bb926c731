--------------------------- MODULE ServerStartup ---------------------------
(***************************************************************************)
(* table_allocator_server over several configurations: parse_config, the   *)
(* size of the map it allocates, the leases that the database keeps from   *)
(* an earlier configuration, and the socket with its retry timer.          *)
(*                                                                         *)
(* TableServer is the server under one configuration.  Here the map is     *)
(* only its bounds, who holds a row and when it expires is left open, and  *)
(* an access outside the map is undefined behaviour: nothing is known of   *)
(* the process after it but that it ends some time.  Statements that fail  *)
(* are TableServer's.                                                      *)
(***************************************************************************)
EXTENDS Messages, FiniteSets

CONSTANTS
    Files,        \* the configuration files considered
    BufSize,      \* bytes read of a file, 1024
    TimeoutMod,   \* uint16_t table_timeout wraps here, 2^16
    SunPath,      \* sizeof(sun_path), 108
    MaxDbPath,    \* MAX_DB_PATH_LEN, 256
    WordBits,     \* bits of one element of the map, 32
    Clock,        \* seconds of the clock at which a request may arrive
    MaxStarts, MaxRows, MaxFaults   \* bounds

\* A file: its size, the lengths of the paths, the numbers (0 like absent),
\* the families set to true, and whether the log file can be opened.
File == [size : Nat, socket : Int, db : Int, offset : Int, num : Int,
         timeout : Int, families : (SUBSET Family) \cup {{Absent}},
         log : BOOLEAN]

ASSUME StartupAssumption ==
    /\ Files \subseteq File
    /\ {BufSize, TimeoutMod, SunPath, MaxDbPath, WordBits}
          \subseteq Nat \ {0}
    /\ Clock \subseteq Nat
    /\ {MaxStarts, MaxRows, MaxFaults} \subseteq Nat

VARIABLES
    phase,    \* of the process: down, running, undefined
    file,     \* the configuration last started with
    served,   \* the configurations that have run before
    rows,     \* keys of the database: family and table
    handle,   \* the socket handle: init, receiving, closing
    timer,    \* unix_socket_timeout_handle: armed, and its repeat is set
    told,     \* what the last client that got a table reads, and when
    starts, faults

serverVars == <<phase, file, served, rows, handle, timer, told, starts, faults>>

-----------------------------------------------------------------------------
(***************************************************************************)
(* parse_config and configure_rt_tables                                    *)
(***************************************************************************)

\* The numbers as the context keeps them.
MutConf(f) == [offset |-> json_object_get_int(f.offset),
               num |-> json_object_get_int(f.num),
               timeout |-> json_object_get_int(f.timeout) % TimeoutMod,
               families |-> f.families]
Conf(f) == [offset |-> json_object_get_int(f.offset) % UintMod,
            num |-> json_object_get_int(f.num) % UintMod,
            timeout |-> json_object_get_int(f.timeout) % TimeoutMod,
            families |-> f.families]

MutGiven(f) ==
    /\ f.socket # Absent /\ f.db # Absent /\ f.families # {Absent}
    /\ f.offset # 0 /\ f.num # 0 /\ f.timeout # 0
Given(f) ==
    /\ f.socket # Absent /\ f.db # Absent /\ f.families # {Absent}
    /\ Conf(f).offset # 0 /\ Conf(f).num # 0 /\ Conf(f).timeout # 0

\* One that parse_config takes.
Accepted(f) ==
    /\ Given(f)
    /\ f.socket <= MaxAddr /\ f.db < MaxDbPath
    /\ (Conf(f).offset + Conf(f).num) % UintMod > Conf(f).offset
    /\ f.log

\* The buffer is full, and so has no terminator, or the object is put a
\* second time because the error path for no family does not return.
Broken(f) == f.size >= BufSize \/ (Accepted(f) /\ f.families = {})

Runs(f) == Accepted(f) /\ ~Broken(f)

MutElements(c) == c.num \div WordBits
Elements(c) ==
    IF c.num < WordBits THEN 0
    ELSE (c.num \div WordBits) + IF c.num % WordBits # 0 THEN 1 ELSE 0

Offset(c, t) == (t - c.offset) % UintMod

InMap(c, t) == Offset(c, t) \div WordBits < Elements(c)

-----------------------------------------------------------------------------
(***************************************************************************)
(* The process                                                             *)
(***************************************************************************)
NoLease == [table |-> 0, lease_expires |-> 0, at |-> 0]

NoFile == [size |-> 0, socket |-> Absent, db |-> Absent, offset |-> 0,
           num |-> 0, timeout |-> 0, families |-> {Absent}, log |-> FALSE]

\* uv_timer_start(handle, cb, 0, 0), also in configure_unix_handle.
OneShot == [armed |-> TRUE, repeat |-> FALSE]
NotArmed == [armed |-> FALSE, repeat |-> FALSE]

ServerInit ==
    /\ phase = "down" /\ file = NoFile /\ served = {} /\ rows = {}
    /\ handle = "init" /\ timer = NotArmed
    /\ told = NoLease /\ starts = 0 /\ faults = 0

\* main: the socket timer is armed, then the tables of the live leases are
\* marked.  set_table ignores a table outside the map but not a missing map.
Boot(f) ==
    /\ handle' = "init" /\ timer' = OneShot
    /\ \E alive \in SUBSET rows :
          phase' = IF \E k \in alive : InMap(Conf(f), k[2])
                                       /\ k[1] \notin f.families
                   THEN "undefined" ELSE "running"

\* The file is read and the server runs, or the process exits: for what the
\* file says, or because the database cannot be opened.
Start(f) ==
    /\ phase = "down" /\ starts < MaxStarts
    /\ starts' = starts + 1
    /\ file' = f
    /\ served' = IF Runs(file) THEN served \cup {file} ELSE served
    /\ \/ Broken(f) /\ phase' = "undefined" /\ UNCHANGED <<handle, timer>>
       \/ Runs(f) /\ Boot(f)
       \/ ~Broken(f) /\ UNCHANGED <<phase, handle, timer>>
    /\ UNCHANGED <<rows, told, faults>>

\* The process ends.
Exit ==
    /\ phase # "down"
    /\ phase' = "down"
    /\ handle' = "init" /\ timer' = NotArmed
    /\ told' = NoLease
    /\ UNCHANGED <<file, served, rows, starts, faults>>

-----------------------------------------------------------------------------
(***************************************************************************)
(* unix_socket_timeout_cb and what leads back to it                        *)
(***************************************************************************)

\* A path that fills its buffer runs on into db_path, which follows it.
PathRead(f) == IF f.socket < MaxAddr THEN f.socket ELSE MaxAddr + f.db

\* ta_socket_helpers_create_unix_socket
CanBind(f) == PathRead(f) <= SunPath - 2

Receiving ==
    /\ handle' = "receiving"
    /\ timer' = [timer EXCEPT !.armed = FALSE]

\* A timer that fires stays armed when it repeats.  The first failure makes
\* it repeat.
MutRetry == /\ timer' = [timer EXCEPT !.armed = timer.repeat]
            /\ UNCHANGED handle
Retry == timer' = [armed |-> TRUE, repeat |-> TRUE] /\ UNCHANGED handle

SocketTimeout ==
    /\ phase = "running" /\ timer.armed
    /\ \/ CanBind(file) /\ Receiving /\ UNCHANGED faults
       \/ ~CanBind(file) /\ Retry /\ UNCHANGED faults
       \/ /\ CanBind(file) /\ faults < MaxFaults
          /\ faults' = faults + 1 /\ Retry
    /\ UNCHANGED <<phase, file, served, rows, told, starts>>

\* unix_socket_recv_cb with an error: unix_socket_stop_recv.
ReceiveError ==
    /\ phase = "running" /\ handle = "receiving" /\ faults < MaxFaults
    /\ faults' = faults + 1
    /\ handle' = "closing"
    /\ UNCHANGED <<phase, file, served, rows, timer, told, starts>>

\* unix_socket_handle_close_cb
Closed ==
    /\ phase = "running" /\ handle = "closing"
    /\ handle' = "init"
    /\ timer' = OneShot
    /\ UNCHANGED <<phase, file, served, rows, told, starts, faults>>

-----------------------------------------------------------------------------
(***************************************************************************)
(* The handlers.  Each flips a bit of the map of the family of a row.      *)
(***************************************************************************)
Mapped(k) == k[1] \in file.families /\ InMap(Conf(file), k[2])

\* A bit flipped outside the map, or in a map that is not there.
Flip(keys) == phase' = IF \A k \in keys : Mapped(k) THEN phase ELSE "undefined"

\* The client is told of the table and the lease, as it reads the reply.
Tell(k, now) ==
    LET lease == (now + Conf(file).timeout) % UintMod
        m == parse_client_reply(gen_response(k[2], lease))
    IN  told' = [table |-> m.table, lease_expires |-> m.lease_expires,
                 at |-> now]

\* handle_req finds a row: set_table and is_table_free check the bounds.
Reallocate(k, now) == Tell(k, now) /\ UNCHANGED <<phase, rows>>

\* The tables of the bits that allocate_table may return.
MutNewTables(c) == {c.offset + b + 1 : b \in {n \in 0 .. c.num - 1 :
                                              n < WordBits * Elements(c)}}
NewTables(c) == {c.offset + b : b \in {n \in 0 .. c.num - 1 :
                                       n < WordBits * Elements(c)}}

Allocate(fam, now) ==
    \E t \in NewTables(Conf(file)) :
        /\ Cardinality(rows) < MaxRows
        /\ rows' = rows \cup {<<fam, t>>}
        /\ Flip({<<fam, t>>})
        /\ Tell(<<fam, t>>, now)

\* A family without a map gets no answer.
MutEnabled(fam) == fam \in Family
Enabled(fam) == fam \in file.families

\* No free table: no answer either.
HandleReq(fam, now) ==
    \/ told' = NoLease /\ UNCHANGED <<phase, rows>>
    \/ /\ Enabled(fam)
       /\ \/ \E k \in rows : k[1] = fam /\ Reallocate(k, now)
          \/ Allocate(fam, now)

\* handle_release: neither the family nor the bounds are checked.
HandleRelease(fam) ==
    /\ told' = NoLease
    /\ \/ \E k \in rows : k[1] = fam /\ rows' = rows \ {k} /\ Flip({k})
       \/ UNCHANGED <<rows, phase>>

\* What is read of a datagram: nothing of one that the buffer cuts off, which
\* libuv marks UV_UDP_PARTIAL.
Received(m) == IF m.size <= ReqBuffer THEN {parse_seq(m)} ELSE {}

\* A partial datagram is ignored.
Ignore(m) == Received(m) = {} /\ told' = NoLease /\ UNCHANGED <<phase, rows>>

\* unix_socket_recv_cb
Handle(m, now) ==
    /\ phase = "running" /\ handle = "receiving"
    /\ \/ Ignore(m)
       \/ \E req \in Received(m) :
             \/ req.cmd = CMD_REQ /\ HandleReq(req.addr_family, now)
             \/ req.cmd = CMD_REL /\ HandleRelease(req.addr_family)
    /\ UNCHANGED <<file, served, handle, timer, starts, faults>>

\* release_dead_lease: outside the map is_table_free says that the table is
\* not free, and release_table flips its bit.
Sweep ==
    /\ phase = "running"
    /\ \E dead \in SUBSET rows :
          /\ dead # {}
          /\ rows' = rows \ dead
          /\ Flip(dead)
    /\ told' = NoLease
    /\ UNCHANGED <<file, served, handle, timer, starts, faults>>
=============================================================================
