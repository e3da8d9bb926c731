--------------------------- MODULE MCTableServer ---------------------------
(* Small instances of TableServer for TLC. *)
EXTENDS TableServer, TLC

CONSTANTS i1, i2, i3, i4, inet, inet6

TwoIds   == {i1, i2}
FourIds  == {i1, i2, i3, i4}
Families == {inet, inet6}
InetOnly == {inet}

NoFaults == {}
WriteFaults == {"insert", "update", "delete"}
AllButBuild == FaultPoints \ {"build"}

IdSymmetry == Permutations(Id)
=============================================================================
