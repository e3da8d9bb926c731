--------------------------- MODULE MCTableClient ---------------------------
(* Small instances of TableClient for TLC. *)
EXTENDS TableClient

CONSTANTS p1, p2, a1, a2

OneProc == {p1}
TwoProcs == {p1, p2}
OneId == {a1}
TwoIds == {a1, a2}
FirstId == {a1}

\* One address, two addresses, and two processes for the same address.
OneAddress == [p \in {p1} |-> a1]
TwoAddresses == [p \in TwoProcs |-> IF p = p1 THEN a1 ELSE a2]
SameAddress == [p \in TwoProcs |-> a1]

\* The tables the server has for each.
OneTable == [i \in OneId |-> {10}]
TwoTables == [i \in TwoIds |-> IF i = a1 THEN {10} ELSE {11}]

NoFaults == {}
SocketFaults == {"socket"}
NetlinkFaults == {"netlink"}
=============================================================================
