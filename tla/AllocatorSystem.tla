-------------------------- MODULE AllocatorSystem --------------------------
(***************************************************************************)
(* The host: one TableServer, the clients of TableClient with the socket   *)
(* between them, and the scripts of HostHook, on one clock.  Every step is *)
(* a step of one component, or of two that meet in a call or a datagram.   *)
(*                                                                         *)
(* Datagrams of a local socket are not lost under way: a request is lost   *)
(* when no server has the address or its queue is full, a reply when no    *)
(* client has the address.  The callbacks of a client, the handlers of a   *)
(* running server and the scripts take place within the second they are    *)
(* due.  No system call fails: the components are checked for that.        *)
(***************************************************************************)
EXTENDS Integers, Sequences, FiniteSets

CONSTANTS
    Proc, Id, IdOf, Inet, None,
    NumTables, TableOffset, WordBits, MainTable,
    TableTimeout, DeadLeaseTimeout, Retransmit, FailLimit, UintMod,
    MaxOutage,     \* seconds the server is down, altogether
    Unlucky,       \* what the environment may do, of Events
    MaxNow, LastStart, LastEvent, MaxCrashes, MaxLaunches, MaxInFlight

\* A client that starts before the server has handled the last datagrams of
\* its predecessor; an address removed before its client has started.
Events == {"flap", "early_removal"}

ASSUME SystemAssumption ==
    /\ IdOf \in [Proc -> Id] /\ None \notin Id /\ None # Inet
    /\ {NumTables, TableOffset, WordBits, TableTimeout, DeadLeaseTimeout,
        Retransmit, FailLimit, UintMod, MaxInFlight} \subseteq Nat \ {0}
    /\ {MainTable, MaxOutage, MaxNow, LastStart, LastEvent, MaxCrashes,
        MaxLaunches} \subseteq Nat
    /\ Unlucky \subseteq Events

VARIABLES
    up, map, db, dead_leases_timer, reply, granted, crashes, reboots,
    ctx, inbox, toServer, rules, sent, launches,
    hook, addr, routes,
    now,
    outage,      \* seconds the server was down so far
    removed      \* clients with a netlink message that their address is gone

serverVars == <<up, map, db, dead_leases_timer, reply, granted, crashes,
                reboots, outage>>
clientVars == <<ctx, inbox, toServer, rules, sent, launches, removed>>
hookVars   == <<hook, addr, routes>>
vars       == <<serverVars, clientVars, hookVars, now>>

NoOutput == -1
Tables   == TableOffset .. TableOffset + NumTables - 1

Server == INSTANCE TableServer WITH
              Family <- {Inet}, EnabledFamilies <- {Inet},
              Faults <- {}, LastEvent <- MaxNow, MaxReboots <- 0
Client == INSTANCE TableClient WITH
              V4 <- Id, Offered <- [i \in Id |-> Tables], Prompt <- TRUE,
              ClientFaults <- {}, LastEvent <- MaxNow
Hook   == INSTANCE HostHook

TypeOK ==
    /\ Server!TypeOK /\ Client!TypeOK /\ Hook!TypeOK
    /\ outage \in Nat /\ removed \subseteq Proc

Init ==
    /\ Server!Init /\ Client!Init /\ Hook!Init
    /\ outage = 0 /\ removed = {}

Running(p) == ctx[p].state = "running"

-----------------------------------------------------------------------------
(***************************************************************************)
(* The server.  unix_socket_recv_cb takes one datagram from the socket,    *)
(* handles it, and answers to the address it came from.                    *)
(***************************************************************************)
MutAnswer(f, i) ==
    CASE reply'.type = "granted"  ->
             Client!Deliver(i, [granted'[f][i] EXCEPT !.expires = TableTimeout])
      [] reply'.type = "released" -> Client!Deliver(i, Server!NoLease)
      [] OTHER                    -> UNCHANGED inbox
Answer(f, i) ==
    CASE reply'.type = "granted"  -> Client!Deliver(i, granted'[f][i])
      [] reply'.type = "released" -> Client!Deliver(i, Server!NoLease)
      [] OTHER                    -> UNCHANGED inbox

HandleDatagram ==
    /\ toServer # <<>>
    /\ LET m == Head(toServer)
       IN  /\ \/ m.cmd = "REQ" /\ Server!HandleReq(Inet, m.id)
              \/ m.cmd = "REL" /\ Server!HandleRelease(Inet, m.id)
           /\ Answer(Inet, m.id)
    /\ toServer' = Tail(toServer)
    /\ UNCHANGED <<outage, ctx, rules, sent, launches, removed, hookVars>>

Sweep ==
    /\ Server!DeleteDeadLeases
    /\ UNCHANGED <<outage, clientVars, hookVars>>

StartServer ==
    /\ Server!Start
    /\ UNCHANGED <<outage, clientVars, hookVars>>

\* What was queued at the server's socket is gone with it.
CrashServer ==
    /\ now <= LastEvent
    /\ Server!Crash
    /\ toServer' = <<>>
    /\ UNCHANGED <<outage, ctx, inbox, rules, sent, launches, removed, hookVars>>

-----------------------------------------------------------------------------
(***************************************************************************)
(* The clients.                                                            *)
(***************************************************************************)

\* sendto: the datagram arrives when there is a server and room.
MutSend == toServer' = toServer
Send == IF up /\ Len(toServer) < MaxInFlight
        THEN toServer' # toServer ELSE toServer' = toServer

\* A client that ends leaves its netlink messages behind.
Forget == removed' = {q \in removed : ctx'[q].state = "running"}

ClientTimeout(p) ==
    /\ \/ Client!SocketTimeout(p) /\ Send
       \/ /\ Client!RequestTimeout(p)
          /\ ctx'[p].state = "running" => Send
    /\ Forget
    /\ UNCHANGED <<serverVars, hookVars>>

ClientReceive(p) ==
    /\ Client!Receive(p)
    /\ Forget
    /\ UNCHANGED <<serverVars, hookVars>>

ClientAddressRemoved(p) ==
    /\ p \in removed
    /\ Client!AddressRemoved(p)
    /\ ctx[p].sock => Send
    /\ Forget
    /\ UNCHANGED <<serverVars, hookVars>>

-----------------------------------------------------------------------------
(***************************************************************************)
(* The scripts and the kernel.                                             *)
(***************************************************************************)
HookAddAddress(p) ==
    /\ launches[p] < MaxLaunches /\ now <= LastStart
    /\ Hook!AddAddress(p)
    /\ UNCHANGED <<serverVars, clientVars, now>>

\* The script starts the client.
HookStartClient(p) ==
    /\ Hook!StartClient(p) /\ Client!Launch(p)
    /\ "flap" \notin Unlucky =>
          \A k \in 1 .. Len(toServer) : toServer[k].id # IdOf[p]
    /\ UNCHANGED <<serverVars, removed>>

\* It reads the table, or the end of a client that printed none.
HookConfigure(p) ==
    /\ \/ Hook!Configure(p, ctx[p].output)
       \/ /\ ~Running(p) /\ ctx[p].output = NoOutput
          /\ Hook!ConfigureNothing(p)
    /\ UNCHANGED <<serverVars, clientVars, now>>

\* Netlink tells the clients that run by then.
AddressGone(i) ==
    /\ now <= LastEvent
    /\ Hook!RemoveAddress(i)
    /\ "early_removal" \notin Unlucky =>
          \A p \in Proc : IdOf[p] = i => hook[p] # "address"
    /\ removed' = removed \cup {p \in Proc : IdOf[p] = i /\ Running(p)}
    /\ UNCHANGED <<serverVars, ctx, inbox, toServer, rules, sent, launches,
                   now>>

\* A second passes when nothing is due.
Tick ==
    /\ Server!Tick /\ Client!Tick
    /\ removed = {}
    /\ IF up THEN /\ toServer = <<>> /\ now < dead_leases_timer
                  /\ UNCHANGED outage
             ELSE outage < MaxOutage /\ outage' = outage + 1
    /\ \A p \in Proc :
          hook[p] = "idle" \/ (Running(p) /\ ctx[p].output = NoOutput)
    /\ UNCHANGED <<removed, hookVars>>

-----------------------------------------------------------------------------
ClientStep(p) == ClientTimeout(p) \/ ClientReceive(p) \/ ClientAddressRemoved(p)

HookStep(p) == HookAddAddress(p) \/ HookStartClient(p) \/ HookConfigure(p)

Next ==
    \/ HandleDatagram \/ Sweep \/ StartServer \/ CrashServer
    \/ \E p \in Proc : ClientStep(p) \/ HookStep(p)
    \/ \E i \in Id : AddressGone(i)
    \/ Tick

Spec == Init /\ [][Next]_vars

-----------------------------------------------------------------------------
(***************************************************************************)
(* Properties                                                              *)
(***************************************************************************)

HasLease(p) == Running(p) /\ ctx[p].rt_table # 0

\* What a client believes the server knows: while a client counts on a lease,
\* the database has its table under its name, for at least as long.
BeliefBacked ==
    \A p \in Proc : HasLease(p) /\ ctx[p].lease_expires > now =>
        LET r == db[Inet][ctx[p].rt_table]
        IN  r.id = IdOf[p] /\ r.expires >= ctx[p].lease_expires

\* An outage shorter than half a lease less one retransmission never lets a
\* lease run out under a running client.
LeaseKept == \A p \in Proc : HasLease(p) => ctx[p].lease_expires > now

\* Two addresses never have rules or routes in one leased table.  (README:
\* "Routing tables must be unique to each interface (address)".)
TablesUnique ==
    LET Users == {<<r.addr, r.table>> : r \in {x \in rules : x.addr # None}}
                    \cup {<<r.addr, r.table>> : r \in routes}
    IN  \A x, y \in Users :
            x[2] = y[2] /\ x[2] # MainTable => x[1] = y[1]

\* Traffic from a configured address meets a rule, and the rule a route: once
\* the script is done and the rules are there, the routes of the address are
\* in the table that its rules name.
RulesFindRoutes ==
    \A p \in Proc :
        /\ Running(p) /\ ctx[p].rules_added
        /\ IdOf[p] \in addr /\ p \notin removed /\ hook[p] = "idle"
        => /\ Client!RuleOf("addr", IdOf[p], ctx[p].rt_table) \in rules
           /\ Hook!Route(IdOf[p], ctx[p].rt_table) \in routes

\* With a table for every address and outages shorter than five requests, no
\* script is told that there is none.
NoFalseFailure == \A p \in Proc : ctx[p].output # 0

\* Rules do not outlive their address, except until its client has read of
\* the removal.  (table_allocator/README.md: "If an address or link is
\* deleted, the client will delete the rules, release the lease and exit".)
RulesHaveAddress ==
    \A r \in rules : r.addr # None =>
        \/ r.addr \in addr
        \/ \E p \in removed : IdOf[p] = r.addr

\* Each step of the host is a step of TableClient: this server, its crashes
\* and its queue are among the servers that the client is checked against.
ClientSpec == Client!Spec

\* What the clients believe, one lease for every identity.
Believed ==
    [f \in {Inet} |-> [i \in Id |->
        IF \E p \in Proc : IdOf[p] = i /\ HasLease(p)
        THEN LET p == CHOOSE q \in Proc : IdOf[q] = i /\ HasLease(q)
             IN  [table |-> ctx[p].rt_table, expires |-> ctx[p].lease_expires]
        ELSE Server!NoLease]]

\* The promise of the service as the clients see it, end to end: from what
\* they believe, through lost datagrams, retransmissions, server crashes and
\* restarts, no table is ever two clients', a lease is renewed on the same
\* table for its full time, and ends early only with its client.
HostService == INSTANCE LeaseService WITH Family <- {Inet}, lease <- Believed
HostServiceSpec == HostService!Spec
=============================================================================
