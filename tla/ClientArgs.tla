---------------------------- MODULE ClientArgs -----------------------------
(***************************************************************************)
(* The client's command line: parse_cmd_args, compute_prefix_len_4, and    *)
(* the name of the socket made from it.  Strings are lengths, as in        *)
(* Messages; whether inet_pton accepts one is part of the input.           *)
(***************************************************************************)
EXTENDS Messages, Words

CONSTANTS
    AddrBits,  \* bits of a v4 netmask, 32 in the code
    Args       \* the command lines considered

\* The longest text inet_pton accepts.
PtonMax(family) == IF family = AF_INET THEN 15 ELSE 45

BadMask == -2  \* a netmask that is no address

\* What the options -4/-6, -a, -n, -i, -t, -d, -l and -r say, the last of
\* each kind; how many characters of address, interface and tag json-c will
\* write as two bytes and as six; whether -l can be opened and the interface
\* exists.
Arguments == [family : Family,
              address : Int, valid : BOOLEAN, netmask : Int, ifname : Int,
              tag : Int, quoted : Nat, control : Nat,
              destination : Int, release : BOOLEAN, log : BOOLEAN,
              interface : BOOLEAN]

ASSUME ArgsAssumption ==
    /\ AddrBits \in Nat \ {0}
    /\ AddrStrLen > PtonMax(AF_INET6)
    /\ Args \subseteq Arguments

MutPrefixLen(mask) == AddrBits - ffs(mask, AddrBits)
compute_prefix_len_4(mask) == AddrBits - (ffs(mask, AddrBits) - 1)

Refused == [accepted |-> FALSE]

\* The options are all there, or the usage is printed.
Complete(a) ==
    /\ a.address # Absent /\ a.ifname # Absent /\ a.destination # Absent
    /\ a.family = AF_INET => a.netmask # Absent

\* Lengths are checked against the buffers, the terminator included.
Fits(a) ==
    /\ a.tag < MaxTag /\ a.ifname < IfnamSiz /\ a.destination < MaxAddr

\* The address is parsed for v4 and v6, and any short text for UNSPEC.
AddressAccepted(a) ==
    IF a.family = AF_UNSPEC THEN a.address < AddrStrLen
    ELSE /\ a.valid /\ a.address <= PtonMax(a.family)
         /\ a.family = AF_INET => a.netmask # BadMask

\* parse_cmd_args, into the zeroed context.
parse_cmd_args(a) ==
    IF Complete(a) /\ Fits(a) /\ AddressAccepted(a) /\ a.log /\ a.interface
    THEN [accepted |-> TRUE, family |-> a.family, address |-> a.address,
          netmask |-> a.netmask,
          prefix_len |-> IF a.family = AF_INET
                         THEN compute_prefix_len_4(a.netmask) ELSE 0,
          ifname |-> a.ifname, tag |-> IF a.tag = Absent THEN 0 ELSE a.tag,
          quoted |-> a.quoted, control |-> a.control,
          destination |-> a.destination,
          cmd |-> IF a.release THEN CMD_REL ELSE CMD_REQ]
    ELSE Refused

\* The clients that start.
Clients == {c \in {parse_cmd_args(a) : a \in Args} : c.accepted}

\* The characters that may need escaping: inet_pton takes none that does.
Escapable(c) == (IF c.family = AF_UNSPEC THEN c.address ELSE 0)
                + c.ifname + c.tag

ASSUME TextAssumption ==
    \A c \in Clients : c.quoted + c.control <= Escapable(c)

\* unix_socket_timeout_cb: "%s-%s-%u" of ifname, address and family, and the
\* buffer it is printed to, with its terminator.
SocketName(c) == c.ifname + 1 + c.address + 1 + Digits(c.family)
MutNameBuffer == IfnamSiz + AddrStrLen
NameBuffer == IfnamSiz + AddrStrLen + 3

\* table_allocator_client_netlink_handle_deladdr: RTM_DELADDR is this client's
\* if interface, family, prefix length and address all are.
handle_deladdr(c, m) ==
    /\ m.ifname = c.ifname /\ m.family = c.family
    /\ m.prefix_len = c.prefix_len /\ m.address = c.address

\* send_request: the same members for a request and a release.  The command
\* that -r sets is not read: every client starts with a request.
Request(c, cmd) ==
    create_req(c.address, c.ifname, c.tag, Escaped(c.quoted, c.control),
               c.family, cmd)
=============================================================================
