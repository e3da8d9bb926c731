---------------------------- MODULE TableClient ----------------------------
(***************************************************************************)
(* table_allocator_client: one process per (interface, address, family).   *)
(* It binds a datagram socket named after its identity, requests a table,  *)
(* prints it (0 when it gives up), moves to the background, installs three *)
(* routing rules, and renews the lease at half its time, until netlink     *)
(* reports that the address or link is gone.  Everything runs in callbacks *)
(* of a libuv loop, one at a time; each callback is one action.            *)
(*                                                                         *)
(* Datagrams may be lost.  The server is TableServer in a composition; on  *)
(* its own this module has Serve, which answers as any server may.         *)
(* Kernel routing rules are external, modelled from the netlink messages   *)
(* the client sends.                                                       *)
(***************************************************************************)
EXTENDS Integers, Sequences, FiniteSets

CONSTANTS
    Proc,          \* client processes
    Id,            \* identities: (ifname, address, family)
    IdOf,          \* process -> identity
    V4,            \* identities of family AF_INET
    None,          \* no address
    Offered,       \* identity -> tables Serve may hand out to it
    TableTimeout,  \* length of a lease, seconds
    Retransmit,    \* REQUEST_RETRANSMISSION_MS, seconds
    FailLimit,     \* NUM_FAILED_LIMIT, 5 in the code
    UintMod,       \* uint32_t arithmetic wraps here; 2^32 in the code
    ClientFaults,  \* what may fail: "socket", "netlink"
    Prompt,        \* callbacks run within the second they are due
    MaxNow,        \* bound on the clock
    LastEvent,     \* bound on the time of starts and removals
    MaxLaunches,   \* bound on the starts of one process
    MaxInFlight    \* bound on the datagrams queued at a socket

ASSUME ClientAssumption ==
    /\ IdOf \in [Proc -> Id] /\ V4 \subseteq Id /\ None \notin Id
    /\ Offered \in [Id -> SUBSET (Nat \ {0})]
    /\ TableTimeout \in Nat \ {0} /\ Retransmit \in Nat \ {0}
    /\ FailLimit \in Nat \ {0} /\ UintMod \in Nat \ {0}
    /\ ClientFaults \subseteq {"socket", "netlink"}
    /\ Prompt \in BOOLEAN
    /\ MaxNow \in Nat /\ LastEvent \in Nat
    /\ MaxLaunches \in Nat /\ MaxInFlight \in Nat \ {0}

VARIABLES
    ctx,       \* process -> struct tac_ctx and its struct tac_address
    inbox,     \* process -> replies queued at its socket
    toServer,  \* requests queued at the server's socket
    rules,     \* the kernel's routing rules
    now,       \* CLOCK_MONOTONIC_RAW, seconds
    sent,      \* history: process -> requests it sent before its first lease
    launches   \* history: process -> starts

clientVars == <<ctx, inbox, toServer, rules, sent, launches>>
vars == <<ctx, inbox, toServer, rules, now, sent, launches>>

NoTimer  == -1
NoOutput == -1
Kinds    == <<"addr", "nw", "def">>   \* in the order update_rules sends them

Ctx == [state : {"off", "running", "stopped", "crashed"},
        sock : BOOLEAN,           \* bound; if not, its timer is armed
        rt_table : Nat, lease_expires : Nat, num_failed : 0 .. FailLimit,
        rules_added : BOOLEAN, daemonized : BOOLEAN,
        request_timer : Int,      \* due time of request_timeout_handle
        netlink_timer : BOOLEAN,  \* netlink_timeout_handle is armed
        output : Int]             \* what the caller read from stdout

Rule == [kind : {"addr", "nw", "def"}, addr : Id \cup {None}, table : Nat]

TypeOK ==
    /\ ctx \in [Proc -> Ctx]
    /\ inbox \in [Proc -> Seq([table : Nat, expires : Nat])]
    /\ toServer \in Seq([cmd : {"REQ", "REL"}, id : Id])
    /\ rules \subseteq Rule
    /\ now \in Nat
    /\ sent \in [Proc -> Nat] /\ launches \in [Proc -> Nat]

\* main: calloc'ed context, socket timer armed.
Fresh == [state |-> "running", sock |-> FALSE, rt_table |-> 0,
          lease_expires |-> 0, num_failed |-> 0, rules_added |-> FALSE,
          daemonized |-> FALSE, request_timer |-> NoTimer,
          netlink_timer |-> FALSE, output |-> NoOutput]

Init ==
    /\ ctx = [p \in Proc |-> [Fresh EXCEPT !.state = "off"]]
    /\ inbox = [p \in Proc |-> <<>>]
    /\ toServer = <<>>
    /\ rules = {}
    /\ now = 0
    /\ sent = [p \in Proc |-> 0]
    /\ launches = [p \in Proc |-> 0]

Running(p) == ctx[p].state = "running"

-----------------------------------------------------------------------------
(***************************************************************************)
(* Kernel rules (external).  A rule equal to an existing one is not added  *)
(* again.  A deletion removes one rule that matches, and table 0 in the    *)
(* message matches any table.                                              *)
(***************************************************************************)
RuleOf(kind, i, t) ==
    [kind |-> kind, addr |-> IF kind = "def" THEN None ELSE i, table |-> t]

Matches(kind, i, t) ==
    {r \in rules : /\ r.kind = kind
                   /\ r.addr = RuleOf(kind, i, t).addr
                   /\ t # 0 => r.table = t}

Deletions(kinds, i, t) ==
    {D \in SUBSET UNION {Matches(k, i, t) : k \in kinds} :
        \A k \in kinds : Cardinality(D \cap Matches(k, i, t)) =
                             IF Matches(k, i, t) = {} THEN 0 ELSE 1}

\* The messages update_rules gets out: all, or the ones before a failure.
KindsSent == {{Kinds[k] : k \in 1 .. n} :
                 n \in IF "netlink" \in ClientFaults THEN 0 .. 3 ELSE {3}}

AllSent(kinds) == Cardinality(kinds) = 3

-----------------------------------------------------------------------------
(***************************************************************************)
(* The building blocks: each maps the context c of process p.              *)
(***************************************************************************)

\* update_rules(RTM_NEWRULE): nothing when the rules are there; after a
\* failure the netlink timer tries again.
MutNewRules(p, c, kinds) ==
    /\ rules' = IF c.rules_added THEN rules
                ELSE rules \cup {RuleOf(k, IdOf[p], c.rt_table) : k \in kinds}
    /\ ctx' = [ctx EXCEPT ![p] =
                 IF c.rules_added THEN c
                 ELSE [c EXCEPT !.rules_added = TRUE]]
NewRules(p, c, kinds) ==
    /\ rules' = IF c.rules_added THEN rules
                ELSE rules \cup {RuleOf(k, IdOf[p], c.rt_table) : k \in kinds}
    /\ ctx' = [ctx EXCEPT ![p] =
                 IF c.rules_added THEN c
                 ELSE IF AllSent(kinds) THEN [c EXCEPT !.rules_added = TRUE]
                 ELSE [c EXCEPT !.netlink_timer = TRUE]]

\* send_request: the datagram may not arrive; the retransmission timer is
\* armed either way.
Queue(cmd, i) ==
    \/ UNCHANGED toServer
    \/ /\ Len(toServer) < MaxInFlight
       /\ toServer' = Append(toServer, [cmd |-> cmd, id |-> i])

CountSent(p) ==
    [sent EXCEPT ![p] = IF ctx[p].rt_table = 0 THEN @ + 1 ELSE @]

Armed(c, delay) == [c EXCEPT !.request_timer = now + delay]

\* check_fail_count: below the limit the client goes on, at the limit it
\* prints its table, 0, and stops.
MutBelowLimit(c) == c.num_failed < FailLimit
BelowLimit(c) == c.num_failed + 1 < FailLimit
MutCounted(c) == c
Counted(c) == [c EXCEPT !.num_failed = @ + 1]

\* The loop ends: the socket and what is queued at it are gone.
Exited(c, state) == [c EXCEPT !.state = state, !.sock = FALSE,
                              !.request_timer = NoTimer,
                              !.netlink_timer = FALSE]
GiveUp(p) ==
    /\ ctx' = [ctx EXCEPT ![p] =
                 [Exited(Counted(@), "stopped") EXCEPT
                     !.output = ctx[p].rt_table]]
    /\ inbox' = [inbox EXCEPT ![p] = <<>>]

\* The value printed, as far as the caller sees it: stdout is /dev/null once
\* the client runs in the background.
Printed(c, t) == IF c.daemonized THEN c.output ELSE t

-----------------------------------------------------------------------------
(***************************************************************************)
(* The callbacks.                                                          *)
(***************************************************************************)

\* The hook scripts start the client.
Launch(p) ==
    /\ ~Running(p)
    /\ launches[p] < MaxLaunches /\ now <= LastEvent
    /\ launches' = [launches EXCEPT ![p] = @ + 1]
    /\ ctx' = [ctx EXCEPT ![p] = Fresh]
    /\ sent' = [sent EXCEPT ![p] = 0]
    /\ UNCHANGED <<inbox, toServer, rules, now>>

AddressFree(p) == \A q \in Proc : ctx[q].sock => IdOf[q] # IdOf[p]

\* unix_socket_timeout_cb.  The address is the identity: the bind fails, and
\* is tried again forever, while another process has it.
SocketTimeout(p) ==
    /\ Running(p) /\ ~ctx[p].sock
    /\ AddressFree(p)
    /\ ctx' = [ctx EXCEPT ![p] = Armed([@ EXCEPT !.sock = TRUE], Retransmit)]
    /\ sent' = CountSent(p)
    /\ Queue("REQ", IdOf[p])
    /\ UNCHANGED <<inbox, rules, now, launches>>

\* client_request_timeout_handle_cb: a client with a table never gives up.
RequestTimeout(p) ==
    /\ Running(p)
    /\ ctx[p].request_timer # NoTimer /\ now >= ctx[p].request_timer
    /\ \/ /\ ctx[p].rt_table # 0 \/ BelowLimit(ctx[p])
          /\ ctx' = [ctx EXCEPT ![p] =
                       Armed(IF @.rt_table # 0 THEN @ ELSE Counted(@),
                             Retransmit)]
          /\ sent' = CountSent(p)
          /\ Queue("REQ", IdOf[p])
          /\ UNCHANGED inbox
       \/ /\ ctx[p].rt_table = 0 /\ ~BelowLimit(ctx[p])
          /\ GiveUp(p)
          /\ UNCHANGED <<sent, toServer>>
    /\ UNCHANGED <<rules, now, launches>>

\* unix_socket_recv_cb, a reply without a table (a release was answered).
ReceiveNoTable(p, r) ==
    /\ r.table = 0
    /\ ctx' = [ctx EXCEPT ![p] =
                 Armed([@ EXCEPT !.lease_expires = r.expires], Retransmit)]
    /\ UNCHANGED rules

\* unix_socket_recv_cb, a lease: print, go to the background, add the rules
\* unless they were added before, renew after half the lease.  The time left
\* is unsigned: after the expiry it wraps, and the timer is as good as off
\* (halved and in milliseconds the code's value wraps a second time, to about
\* 49 days).  daemon(3) is assumed to succeed.
MutWithLease(c, r) ==
    [c EXCEPT !.rt_table = r.table, !.lease_expires = r.expires,
              !.num_failed = 0, !.output = Printed(c, r.table),
              !.daemonized = TRUE,
              !.request_timer = now + ((r.expires - now) % UintMod)]
WithLease(c, r) ==
    [c EXCEPT !.rt_table = r.table, !.lease_expires = r.expires,
              !.num_failed = 0, !.output = Printed(c, r.table),
              !.daemonized = TRUE,
              !.request_timer = now + (((r.expires - now) % UintMod) \div 2)]

ReceiveLease(p, r) ==
    /\ r.table # 0
    /\ \E kinds \in KindsSent : NewRules(p, WithLease(ctx[p], r), kinds)

\* Without AF_INET there is no netlink socket to send the rules to.
ReceiveLeaseNoNetlink(p, r) ==
    /\ r.table # 0
    /\ ctx' = [ctx EXCEPT ![p] = Exited(WithLease(@, r), "crashed")]
    /\ UNCHANGED rules

Receive(p) ==
    /\ Running(p) /\ ctx[p].sock /\ inbox[p] # <<>>
    /\ LET r == Head(inbox[p])
       IN  \/ ReceiveNoTable(p, r) /\ inbox' = [inbox EXCEPT ![p] = Tail(@)]
           \/ /\ IdOf[p] \in V4
              /\ ReceiveLease(p, r)
              /\ inbox' = [inbox EXCEPT ![p] = Tail(@)]
           \/ /\ IdOf[p] \notin V4
              /\ ReceiveLeaseNoNetlink(p, r)
              /\ inbox' = [inbox EXCEPT ![p] = <<>>]
    /\ UNCHANGED <<toServer, now, sent, launches>>

\* unix_socket_recv_cb, a socket error: the socket is closed and its timer
\* started, unless this was one failure too many.
SocketError(p) ==
    /\ "socket" \in ClientFaults
    /\ Running(p) /\ ctx[p].sock
    /\ \/ /\ ctx[p].rt_table # 0 \/ BelowLimit(ctx[p])
          /\ ctx' = [ctx EXCEPT ![p] =
                       [(IF @.rt_table # 0 THEN @ ELSE Counted(@)) EXCEPT
                           !.sock = FALSE, !.request_timer = NoTimer]]
          /\ inbox' = [inbox EXCEPT ![p] = <<>>]
       \/ /\ ctx[p].rt_table = 0 /\ ~BelowLimit(ctx[p])
          /\ GiveUp(p)
    /\ UNCHANGED <<toServer, rules, now, sent, launches>>

\* table_allocator_client_netlink_timeout_cb
NetlinkTimeout(p) ==
    /\ Running(p) /\ ctx[p].netlink_timer
    /\ \E kinds \in KindsSent :
          NewRules(p, [ctx[p] EXCEPT !.netlink_timer = FALSE], kinds)
    /\ UNCHANGED <<inbox, toServer, now, sent, launches>>

\* table_allocator_client_netlink_recv_cb, RTM_DELADDR or RTM_DELLINK of this
\* client: rules deleted as far as netlink allows, a release sent, the end.
MutDeleteRules(p) ==
    \E kinds \in KindsSent :
        \E D \in Deletions(kinds \ {"addr"}, IdOf[p], ctx[p].rt_table) :
            rules' = rules \ D
DeleteRules(p) ==
    \E kinds \in KindsSent :
        \E D \in Deletions(kinds, IdOf[p], ctx[p].rt_table) :
            rules' = rules \ D

AddressRemoved(p) ==
    /\ Running(p) /\ IdOf[p] \in V4
    /\ now <= LastEvent
    /\ DeleteRules(p)
    /\ IF ctx[p].sock THEN Queue("REL", IdOf[p]) ELSE UNCHANGED toServer
    /\ ctx' = [ctx EXCEPT ![p] = Exited(@, "stopped")]
    /\ inbox' = [inbox EXCEPT ![p] = <<>>]
    /\ UNCHANGED <<now, sent, launches>>

-----------------------------------------------------------------------------
(***************************************************************************)
(* The server's side of the sockets.  A reply goes to the process that has *)
(* the identity's address at that moment, and nowhere if none has.         *)
(***************************************************************************)
Deliver(i, r) ==
    inbox' = [p \in Proc |->
                IF /\ IdOf[p] = i /\ ctx[p].sock
                   /\ Len(inbox[p]) < MaxInFlight
                THEN Append(inbox[p], r) ELSE inbox[p]]

\* Any server: a request is answered with some table or not at all.
Serve ==
    /\ toServer # <<>>
    /\ toServer' = Tail(toServer)
    /\ LET m == Head(toServer)
       IN  \/ UNCHANGED inbox
           \/ /\ m.cmd = "REQ"
              /\ \E t \in Offered[m.id] :
                    Deliver(m.id, [table |-> t, expires |-> now + TableTimeout])
           \/ m.cmd = "REL" /\ Deliver(m.id, [table |-> 0, expires |-> 0])
    /\ UNCHANGED <<ctx, rules, now, sent, launches>>

\* The server ends, and with it the requests queued at its socket.
ServerGone ==
    /\ toServer # <<>>
    /\ toServer' = <<>>
    /\ UNCHANGED <<ctx, inbox, rules, now, sent, launches>>

\* The event loop of p has something to do now.
Due(p) ==
    /\ Running(p)
    /\ \/ inbox[p] # <<>>
       \/ ~ctx[p].sock /\ AddressFree(p)
       \/ ctx[p].sock /\ ctx[p].request_timer <= now

Tick ==
    /\ now < MaxNow
    /\ Prompt => \A p \in Proc : ~Due(p)
    /\ now' = now + 1
    /\ UNCHANGED clientVars

Callback(p) == \/ SocketTimeout(p) \/ RequestTimeout(p) \/ Receive(p)
               \/ NetlinkTimeout(p)

Next == \/ \E p \in Proc : \/ Launch(p) \/ Callback(p)
                           \/ SocketError(p) \/ AddressRemoved(p)
        \/ Serve \/ ServerGone
        \/ Tick

Spec == Init /\ [][Next]_vars

\* The event loop runs the callbacks that are due, and time passes.  Nothing
\* is assumed of the server, the network or the scripts.
FairSpec == Spec /\ \A p \in Proc : WF_vars(Callback(p)) /\ WF_vars(Tick)

-----------------------------------------------------------------------------
(***************************************************************************)
(* Properties                                                              *)
(***************************************************************************)
Larger(a, b) == IF a > b THEN a ELSE b

\* A client that reports failure has sent its request exactly five times.
\* (README: "it will try five times (with a two second timeout between
\* retries) before giving up".)
TriesFiveTimes ==
    \A p \in Proc : ctx[p].output = 0 =>
        ctx[p].state = "stopped" /\ sent[p] = FailLimit

\* A client that believes its rules are installed has all three of them, for
\* the table of its lease, whatever netlink failures and retries came before.
\* (table_allocator/README.md: "the client creates and manages three routing
\* rules that are required for routing to be configured correctly".)
RulesFollowLease ==
    \A p \in Proc : Running(p) /\ ctx[p].rules_added =>
        \A k \in {"addr", "nw", "def"} :
            RuleOf(k, IdOf[p], ctx[p].rt_table) \in rules

\* When the last process of an identity has ended in order, none of its
\* rules is left.  (table_allocator/README.md: "If an address or link is
\* deleted, the client will delete the rules, release the lease and exit".)
CleanExit ==
    \A p \in Proc :
        /\ ctx[p].state = "stopped"
        /\ \A q \in Proc : IdOf[q] = IdOf[p] => ~Running(q)
        => \A r \in rules : r.addr # IdOf[p] /\ r.table \notin Offered[IdOf[p]]

\* A client with a socket always has a request coming, at the latest after
\* the retransmission time or half a lease.  (README: "the client will
\* refresh the lease at a given interval (currently half the lease time)".)
NeverDormant ==
    \A p \in Proc : Running(p) /\ ctx[p].sock =>
        ctx[p].request_timer \in
            0 .. now + Larger(Retransmit, TableTimeout \div 2)

\* A client that ends has answered, unless its address was removed.
EndsAnswered ==
    \A p \in Proc : Running(p) /\ ~Running(p)' =>
        ctx'[p].output # NoOutput \/ AddressRemoved(p)

\* The script that started a client gets its answer, a table or 0, whatever
\* the server does: a client that runs comes to print it or to its end, and
\* it ends without only when its address is removed before the first lease.
\* (table_allocator/README.md: "In both cases, a value will be written to
\* stdout".  The exception is client_netlink.c:299-305, which stops the loop
\* and prints nothing.)
ScriptGetsAnswer ==
    /\ \A p \in Proc :
          Running(p) ~> (ctx[p].output # NoOutput \/ ~Running(p))
    /\ [][EndsAnswered]_vars
=============================================================================
