---------------------------- MODULE LeaseService ----------------------------
(***************************************************************************)
(* What the table allocator promises its clients, with no bitmap and no    *)
(* database: a lease is exclusive until it expires, it is renewed on the   *)
(* same table, it lasts TableTimeout, and only its holder's release or a   *)
(* reboot ends it early.  TableServer implements it.                       *)
(***************************************************************************)
EXTENDS Integers

CONSTANTS Family, Id, Tables, TableTimeout

VARIABLES lease,  \* family -> id -> the lease the holder was last told
          now     \* seconds

vars == <<lease, now>>

NoLease == [table |-> 0, expires |-> 0]

Held(f, i) == lease[f][i].expires > now

Init == /\ lease = [f \in Family |-> [i \in Id |-> NoLease]]
        /\ now = 0

\* A new lease of a table nobody else holds, or the renewal of a held one.
Grant(f, i, t) ==
    /\ Held(f, i) => lease[f][i].table = t
    /\ \A j \in Id \ {i} : Held(f, j) => lease[f][j].table # t
    /\ lease' = [lease EXCEPT ![f][i] =
                    [table |-> t, expires |-> now + TableTimeout]]
    /\ UNCHANGED now

Release(f, i) ==
    /\ lease' = [lease EXCEPT ![f][i] = NoLease]
    /\ UNCHANGED now

Tick == now' = now + 1 /\ UNCHANGED lease

\* The machine restarts, and every holder with it.
Reboot == /\ lease' = [f \in Family |-> [i \in Id |-> NoLease]]
          /\ now' = 0

Next == \/ \E f \in Family, i \in Id :
              Release(f, i) \/ \E t \in Tables : Grant(f, i, t)
        \/ Tick
        \/ Reboot

Spec == Init /\ [][Next]_vars
=============================================================================
