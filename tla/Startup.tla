------------------------------ MODULE Startup ------------------------------
(***************************************************************************)
(* Clients of ClientArgs at the server of ServerStartup: a client with the *)
(* destination the server listens on sends a request or a release, and the *)
(* server handles what it parses.  The paths are equal when their lengths  *)
(* are.                                                                    *)
(***************************************************************************)
EXTENDS ServerStartup, ClientArgs

ASSUME NameAssumption == NameBuffer < SunPath

\* A request with every character of its strings doubled fits: 446 bytes.
ASSUME RequestAssumption ==
    72 + 2 * ((AddrStrLen - 1) + (IfnamSiz - 1) + (MaxTag - 1)) <= ReqBuffer

VARIABLE exchange  \* the last client heard and what the server read

vars == <<serverVars, exchange>>

NoExchange == [client |-> Refused, read |-> {}]

TypeOK ==
    /\ phase \in {"down", "running", "undefined"}
    /\ file \in Files \cup {NoFile} /\ served \subseteq Files
    /\ rows \subseteq Family \X (0 .. UintMod - 1)
    /\ handle \in {"init", "receiving", "closing"}
    /\ timer \in [armed : BOOLEAN, repeat : BOOLEAN]
    /\ told \in [table : 0 .. UintMod - 1,
                 lease_expires : 0 .. UintMod - 1, at : Nat]
    /\ starts \in 0 .. MaxStarts /\ faults \in 0 .. MaxFaults

Init == ServerInit /\ exchange = NoExchange

\* The client starts and its datagram is handled.
Exchange(c, cmd, now) ==
    /\ c.destination = PathRead(file)
    /\ Handle(Request(c, cmd), now)
    /\ exchange' = [client |-> c, read |-> Received(Request(c, cmd))]

ServerStep ==
    /\ \/ \E f \in Files : Start(f)
       \/ Exit \/ SocketTimeout \/ ReceiveError \/ Closed \/ Sweep
    /\ exchange' = NoExchange

Next ==
    \/ ServerStep
    \/ \E c \in Clients, cmd \in {CMD_REQ, CMD_REL}, now \in Clock :
          Exchange(c, cmd, now)

\* libuv runs the timer and the close callback when they are due.
Spec ==
    /\ Init /\ [][Next]_vars
    /\ WF_vars(SocketTimeout /\ exchange' = NoExchange)
    /\ WF_vars(Closed /\ exchange' = NoExchange)

-----------------------------------------------------------------------------
(***************************************************************************)
(* Properties                                                              *)
(***************************************************************************)

\* The new configuration has a bit for every table of the old one.
Covers(new, old) ==
    /\ new.offset = old.offset /\ new.num >= old.num
    /\ old.families \subseteq new.families

Grown == \A f \in served : Covers(Conf(file), Conf(f))

\* No handler reaches outside the map, through any history of leases and
\* restarts, as long as the configuration only grows.  (release_table has no
\* bounds check, unlike set_table and is_table_free.)
AccessInBounds ==
    phase = "undefined" => Broken(file) \/ ~Grown

\* Every table that the configuration promises can be handed out, also the
\* ones of a last word that is not full: from one full word on.  (With fewer
\* than 32 tables there is no word, and no table.)
EveryTable ==
    LET c == Conf(file)
    IN  phase = "running" /\ c.num >= WordBits =>
            NewTables(c) = c.offset .. c.offset + c.num - 1

\* A client reads a table of the configured range from the reply, although
\* the reply carries 64-bit numbers and is read into 32 bits: for tables up
\* to INT32_MAX and a configuration that has only grown.
ToldTable ==
    LET c == Conf(file)
    IN  told.table # 0 /\ Grown /\ c.offset + c.num - 1 <= IntMax =>
            told.table \in c.offset .. c.offset + c.num - 1

\* A lease ends in the future of the request it answers, whatever number the
\* configuration has for its 16-bit duration.
LeaseInFuture ==
    /\ told.table # 0
    /\ told.at + Conf(file).timeout <= IntMax
    => told.lease_expires > told.at

\* What parse_cmd_args accepts, parse_seq understands: no address, interface
\* or tag is so long that the server reads another client's name or none, and
\* the datagram is never cut off while json-c writes each character in two
\* bytes at most.  (With control characters it can be: 127 of them in the tag
\* make more than the 512 bytes of unix_socket_alloc_cb, and the server
\* ignores the request, although server_sockets.c:66 says "buffer is big
\* enough to store all messages we send".)
RequestUnderstood ==
    LET c == exchange.client
    IN  exchange # NoExchange =>
            /\ \A req \in exchange.read :
                  /\ req.address = c.address /\ req.ifname = c.ifname
                  /\ req.tag = c.tag /\ req.addr_family = c.family
            /\ c.control = 0 => exchange.read # {}

\* The name of an accepted client's socket is not cut off by the buffer it is
\* printed to, so that two clients never share a name, and can be bound.
NameFits ==
    exchange # NoExchange =>
        /\ SocketName(exchange.client) < NameBuffer
        /\ SocketName(exchange.client) <= SunPath - 2

LeadingOnes(n) == 2^AddrBits - 2^(AddrBits - n)

\* The kernel's message that a client's address is gone, which has the number
\* of leading ones of its netmask, is recognised by the client, and that of
\* the same address with another netmask is not.  (table_allocator/README.md:
\* "If an address or link is deleted, the client will delete the rules".)
RemovalRecognised ==
    LET c == exchange.client
    IN  exchange # NoExchange /\ c.family = AF_INET =>
            \A n, k \in 1 .. AddrBits :
                c.netmask = LeadingOnes(n) =>
                    (handle_deladdr(c, [ifname |-> c.ifname, family |-> AF_INET,
                                        prefix_len |-> k,
                                        address |-> c.address]) <=> k = n)

\* A server whose path leaves room for the terminator gets its socket after
\* finitely many failures, also when the socket breaks later.
Listens ==
    phase = "running" /\ file.socket < MaxAddr
        ~> handle = "receiving" \/ phase # "running"
=============================================================================
