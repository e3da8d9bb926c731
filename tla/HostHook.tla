----------------------------- MODULE HostHook ------------------------------
(***************************************************************************)
(* The scripts that configure an interface: the dhclient hook and its twin *)
(* for static addresses.  One run of a script adds the address, starts a   *)
(* client, waits for the table it prints, and moves the address' routes    *)
(* from the main table to it.  A run for each client process.              *)
(*                                                                         *)
(* The addresses and routes of the kernel are external.  The connected and *)
(* the default route of an address are moved one after the other by the    *)
(* same script and stand for one another.  Alias addresses, metrics and    *)
(* the resolver file are left out.                                         *)
(***************************************************************************)
EXTENDS Integers

CONSTANTS
    Proc,       \* client processes
    Id,         \* identities: (ifname, address)
    IdOf,       \* process -> identity
    MainTable,  \* 254, used when there is no lease
    NoOutput    \* the client has printed nothing

VARIABLES
    hook,    \* process -> where the script run that starts it is
    addr,    \* the configured addresses
    routes   \* the routes of the addresses, by table

hookVars == <<hook, addr, routes>>

Route(i, t) == [addr |-> i, table |-> t]

TypeOK ==
    /\ hook \in [Proc -> {"idle", "address", "waiting"}]
    /\ addr \subseteq Id
    /\ routes \subseteq [addr : Id, table : Nat]

Init ==
    /\ hook = [p \in Proc |-> "idle"]
    /\ addr = {}
    /\ routes = {}

\* ip addr add: the kernel adds the connected route in the main table.  For
\* an address that is there it changes nothing.
AddAddress(p) ==
    /\ hook[p] = "idle"
    /\ hook' = [hook EXCEPT ![p] = "address"]
    /\ addr' = addr \cup {IdOf[p]}
    /\ routes' = IF IdOf[p] \in addr THEN routes
                 ELSE routes \cup {Route(IdOf[p], MainTable)}

\* rt_table=$(table_allocator_client ...)
StartClient(p) ==
    /\ hook[p] = "address"
    /\ hook' = [hook EXCEPT ![p] = "waiting"]
    /\ UNCHANGED <<addr, routes>>

\* update_addr_route and the default routes.  The route with this source is
\* refused when the address is gone.
MutMoveRoutes(i, t) ==
    routes' = IF i \in addr
              THEN (routes \ {Route(i, MainTable)}) \cup {Route(i, MainTable)}
              ELSE routes
MoveRoutes(i, t) ==
    routes' = IF i \in addr
              THEN (routes \ {Route(i, MainTable)}) \cup {Route(i, t)}
              ELSE routes

MutConfigure(p, output) ==
    /\ hook[p] = "waiting"
    /\ hook' = [hook EXCEPT ![p] = "idle"]
    /\ MoveRoutes(IdOf[p], IF output = 0 THEN MainTable ELSE output)
    /\ UNCHANGED addr

\* The client answered: the routes go to its table, or for 0 stay in main.
Configure(p, output) ==
    /\ hook[p] = "waiting"
    /\ hook' = [hook EXCEPT ![p] = "idle"]
    /\ output # NoOutput
    /\ MoveRoutes(IdOf[p], IF output = 0 THEN MainTable ELSE output)
    /\ UNCHANGED addr

\* The client ended without an answer: the route is deleted from the main
\* table, and added nowhere because the command lacks its table.
ConfigureNothing(p) ==
    /\ hook[p] = "waiting"
    /\ hook' = [hook EXCEPT ![p] = "idle"]
    /\ routes' = routes \ {Route(IdOf[p], MainTable)}
    /\ UNCHANGED addr

\* The address or its link goes away: the kernel removes its routes.
RemoveAddress(i) ==
    /\ i \in addr
    /\ addr' = addr \ {i}
    /\ routes' = {r \in routes : r.addr # i}
    /\ UNCHANGED hook
=============================================================================
