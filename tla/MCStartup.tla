----------------------------- MODULE MCStartup -----------------------------
(* Small instances of Startup for TLC. *)
EXTENDS Startup

\* A configuration, and those that differ from it in one setting or two.
Base == [size |-> 200, socket |-> 20, db |-> 30, offset |-> 10, num |-> 4,
         timeout |-> 3, families |-> {AF_INET}, log |-> TRUE]

SomeFiles ==
    {Base} \cup
    {[Base EXCEPT !.size = BufSize], [Base EXCEPT !.log = FALSE],
     [Base EXCEPT !.socket = 106, !.db = 0],
     [Base EXCEPT !.socket = 105, !.db = 255]} \cup
    {[Base EXCEPT !.socket = s] : s \in {Absent, 106, 107}} \cup
    {[Base EXCEPT !.db = d] : d \in {Absent, 256}} \cup
    {[Base EXCEPT !.offset = o] : o \in {0, 13, 28, 40, -5}} \cup
    {[Base EXCEPT !.num = n] : n \in {3, 5, 8, -9}} \cup
    {[Base EXCEPT !.timeout = t] : t \in {8, 40}} \cup
    {[Base EXCEPT !.families = s] :
        s \in {{Absent}, {}, {AF_INET6}, {AF_INET, AF_UNSPEC}}}

Client == [family |-> AF_INET, address |-> 12, valid |-> TRUE,
           netmask |-> LeadingOnes(3), ifname |-> 4, tag |-> Absent,
           quoted |-> 0, control |-> 0,
           destination |-> 20, release |-> FALSE, log |-> TRUE,
           interface |-> TRUE]

SomeArgs ==
    {[Client EXCEPT !.netmask = LeadingOnes(n)] : n \in 1 .. AddrBits} \cup
    {[Client EXCEPT !.netmask = m] : m \in {Absent, BadMask, 0}} \cup
    {[Client EXCEPT !.destination = n] : n \in {105, 106, 107}} \cup
    {[Client EXCEPT !.family = AF_INET6, !.address = n, !.ifname = 15] :
        n \in {45, 46}} \cup
    {[Client EXCEPT !.family = AF_UNSPEC, !.address = n, !.tag = 127,
                    !.valid = FALSE] : n \in {45, 46}} \cup
    {[Client EXCEPT !.family = AF_UNSPEC, !.address = 45, !.tag = 127,
                    !.quoted = e[1], !.control = e[2]] :
        e \in {<<176, 0>>, <<0, 53>>, <<1, 53>>, <<0, 127>>}} \cup
    {[Client EXCEPT !.netmask = 5, !.release = TRUE],
     [Client EXCEPT !.ifname = 16], [Client EXCEPT !.tag = 128],
     [Client EXCEPT !.valid = FALSE], [Client EXCEPT !.log = FALSE],
     [Client EXCEPT !.interface = FALSE]}
=============================================================================
