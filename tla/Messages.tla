----------------------------- MODULE Messages ------------------------------
(***************************************************************************)
(* The datagrams between client and server, table_allocator_shared_json.c. *)
(* A message is the record of its JSON members and, for a request, of the  *)
(* size of its text.  A string is its length: all that the code asks of    *)
(* one is whether it fits a buffer.  A member that is absent, has another  *)
(* type or does not fit leaves the field as the zeroed context has it.     *)
(***************************************************************************)
EXTENDS Integers

CONSTANTS
    UintMod,  \* uint32_t wraps here; 2^32 in the code
    IfnamSiz, AddrStrLen,  \* IFNAMSIZ, INET6_ADDRSTRLEN
    MaxTag, MaxAddr,       \* TA_SHARED_MAX_TAG_SIZE, TA_SHARED_MAX_ADDR_SIZE
    ReqBuffer  \* CLIENT_REQ_BUFFER_SIZE

AF_UNSPEC == 0
AF_INET   == 2
AF_INET6  == 10
Family    == {AF_UNSPEC, AF_INET, AF_INET6}

ASSUME MessageAssumption ==
    /\ UintMod \in Nat /\ UintMod % 2 = 0
    /\ UintMod > 2 * AF_INET6  \* a family fits an int
    /\ {IfnamSiz, AddrStrLen, MaxTag, MaxAddr, ReqBuffer} \subseteq Nat \ {0}

CMD_REQ == 0
CMD_REL == 1

Absent == -1  \* a member, a setting or an option that is not given

IntMax == (UintMod \div 2) - 1

\* json_object_get_int: a number outside int32_t is clamped to it.
json_object_get_int(v) ==
    CASE v > IntMax       -> IntMax
      [] v < -(IntMax + 1) -> -(IntMax + 1)
      [] OTHER            -> v

\* A string member, as far as it fits a zeroed buffer with its terminator.
MutCopied(len, size) == IF len < size - 1 THEN len ELSE 0
Copied(len, size) == IF len < size THEN len ELSE 0

\* json_object_to_json_string_ext, plain: json-c writes a quote, a backslash,
\* a slash and \b \n \r \t \f as two bytes, any other control character as
\* the six of \u00XX.  Both are read back as the character they stand for.
Escaped(quoted, control) == quoted + 5 * control

Digits(family) == IF family > 9 THEN 2 ELSE 1

\* The text of a request around its strings: the names of the members, the
\* quotes, the digits, and the tag's name and quotes when it is sent.
Frame(tag, family) == 61 + Digits(family) + IF tag = 0 THEN 0 ELSE 9

\* table_allocator_shared_json_create_req: an empty tag is not sent, which
\* the receiver cannot tell from an empty one.
create_req(address, ifname, tag, escaped, family, cmd) ==
    [address |-> address, ifname |-> ifname, tag |-> tag,
     addr_family |-> family, cmd |-> cmd,
     size |-> Frame(tag, family) + address + ifname + tag + escaped]

\* table_allocator_shared_json_parse_seq into struct tas_client_req.  Family
\* and command are uint8_t.
parse_seq(m) ==
    [address |-> Copied(m.address, AddrStrLen),
     ifname |-> Copied(m.ifname, IfnamSiz),
     tag |-> Copied(m.tag, MaxTag),
     addr_family |-> json_object_get_int(m.addr_family) % 256,
     cmd |-> json_object_get_int(m.cmd) % 256]

\* table_allocator_shared_json_gen_response: 64-bit numbers.
gen_response(table, lease_expires) ==
    [table |-> table, lease_expires |-> lease_expires]

\* tables_allocator_shared_json_parse_client_reply: read as int32_t.
parse_client_reply(m) ==
    [table |-> json_object_get_int(m.table) % UintMod,
     lease_expires |-> json_object_get_int(m.lease_expires) % UintMod]
=============================================================================
