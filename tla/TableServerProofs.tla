------------------------- MODULE TableServerProofs -------------------------
(***************************************************************************)
(* Proofs about TableServer for every number of tables, word size, set of  *)
(* identities, timeout and bound: types, the tables that answers name, the *)
(* refinement of LeaseService, and which tables the map can lose.          *)
(***************************************************************************)
EXTENDS TableServer, FiniteSetTheorems, TLAPS

-----------------------------------------------------------------------------
(* Types.  TypeOK alone is not inductive: release_table has no bounds      *)
(* check, so that the map stays a set of bits needs RowsInMap.             *)

\* The inductive invariant of TypeOK.
TypeInv == TypeOK /\ RowsInMap

\* A bit taken from the map that allocate_table does not refuse is the bit
\* of a configured table.
LEMMA AllocatedTable ==
    ASSUME NEW b \in Bits, InRange(b)
    PROVE  TableOf(b) \in Tables /\ Index(TableOf(b)) = b
<1>1. b \in Nat
  BY DEF Bits
<1> QED
  BY <1>1, MapAssumption DEF InRange, TableOf, Tables, Index

\* The bits of rows that RowsInMap speaks of are bits of the map.
LEMMA BitsOfRows ==
    ASSUME RowsInMap, NEW f \in Family,
           NEW rows \in SUBSET {k \in Family \X Tables : IsRow(db[k[1]][k[2]])}
    PROVE  BitsOf(rows, f) \subseteq Bits
BY DEF RowsInMap, BitsOf

\* Flipping a bit of the map leaves a set of bits.
LEMMA ToggleType ==
    ASSUME NEW m \in SUBSET Bits, NEW b \in Bits
    PROVE  Toggle(m, b) \in SUBSET Bits
BY DEF Toggle

\* get_table names a row of the identity, or none.
LEMMA GetTable ==
    ASSUME NEW f \in Family, NEW i \in Id, NEW t \in get_table(f, i), t # 0
    PROVE  t \in Tables /\ db[f][t].id = i
BY DEF get_table, RowsOf

\* The map of a server that does not run.
LEMMA NoMapType == NoMap \in [EnabledFamilies -> SUBSET Bits]
BY DEF NoMap

\* Initially there are no rows.
LEMMA TypeInit == Init => TypeInv
<1> SUFFICES ASSUME Init PROVE TypeInv
  OBVIOUS
<1>1. up \in BOOLEAN
  BY DEF Init
<1>2. map \in [EnabledFamilies -> SUBSET Bits]
  BY NoMapType DEF Init
<1>3. db \in [Family -> [Tables -> Row]] /\ RowsInMap
  BY DEF Init, NoRow, Row, RowsInMap, IsRow
<1>4. granted \in [Family -> [Id -> Lease]]
  BY DEF Init, NoLease, Lease
<1>5. now \in Nat /\ dead_leases_timer \in Nat /\ reply \in Reply
      /\ crashes \in Nat /\ reboots \in Nat
  BY DEF Init, NoReply, Reply
<1> QED
  BY <1>1, <1>2, <1>3, <1>4, <1>5 DEF TypeInv, TypeOK

\* A request keeps the types, whichever way it goes.
LEMMA TypeReq ==
    ASSUME TypeInv, NEW f \in Family, NEW i \in Id, HandleReq(f, i)
    PROVE  TypeInv'
<1> USE MapAssumption, ServerAssumption
<1>0. /\ up \in BOOLEAN /\ now \in Nat /\ dead_leases_timer \in Nat
      /\ crashes \in Nat /\ reboots \in Nat
      /\ UNCHANGED <<up, now, dead_leases_timer, crashes, reboots>>
      /\ now + TableTimeout \in Nat
  BY DEF TypeInv, TypeOK, HandleReq
<1>1. CASE f \notin EnabledFamilies
  <2>1. UNCHANGED <<map, db>> /\ Refuse(f, i)
    BY <1>1 DEF HandleReq
  <2> QED
    BY <1>0, <2>1 DEF Refuse, NoAnswer, TypeInv, TypeOK, RowsInMap, IsRow, Reply
<1>2. CASE f \in EnabledFamilies
  <2> PICK t \in get_table(f, i) : \/ t # 0 /\ Reallocate(f, i, t)
                                   \/ t = 0 /\ AllocateNew(f, i)
    BY <1>2 DEF HandleReq
  <2>1. CASE t # 0 /\ Reallocate(f, i, t)
    <3>1. t \in Tables /\ db[f][t].id = i /\ IsRow(db[f][t])
      BY <2>1, GetTable DEF IsRow
    <3>2. Index(t) \in Bits
      BY <3>1 DEF TypeInv, RowsInMap
    <3>3. map' \in [EnabledFamilies -> SUBSET Bits]
      BY <2>1, <3>2, ToggleType
         DEF Reallocate, set_table, TypeInv, TypeOK
    <3>4. CASE update_lease(f, t) /\ Grant(f, i, t)
      BY <1>0, <1>2, <3>1, <3>2, <3>3, <3>4
         DEF update_lease, Grant, TypeInv, TypeOK, RowsInMap, IsRow,
             Reply, Row, Lease
    <3>5. CASE UNCHANGED db /\ Fail(f, i)
      BY <1>0, <3>3, <3>5
         DEF Fail, NoAnswer, TypeInv, TypeOK, RowsInMap, IsRow, Reply
    <3> QED BY <2>1, <3>4, <3>5 DEF Reallocate
  <2>2. CASE t = 0 /\ AllocateNew(f, i)
    <3>1. CASE Exhausted(f, i)
      BY <1>0, <3>1
         DEF Exhausted, Refuse, NoAnswer, TypeInv, TypeOK, RowsInMap, IsRow, Reply
    <3>2. ASSUME NEW b \in map[f], AllocateTable(f, i, b)
          PROVE  TypeInv'
      <4>1. b \in Bits /\ map[f] \in SUBSET Bits
        BY <1>2 DEF TypeInv, TypeOK
      <4>2. CASE ~InRange(b) /\ map' = [map EXCEPT ![f] = @ \ {b}]
                 /\ UNCHANGED db /\ Refuse(f, i)
        BY <1>0, <1>2, <4>1, <4>2
           DEF Refuse, NoAnswer, TypeInv, TypeOK, RowsInMap, IsRow, Reply
      <4>3. CASE /\ InRange(b)
                 /\ map' = [map EXCEPT ![f] = @ \ {b}]
                 /\ insert_table(f, i, TableOf(b))
                 /\ Grant(f, i, TableOf(b))
        BY <1>0, <1>2, <4>1, <4>3, AllocatedTable
           DEF insert_table, Grant, TypeInv, TypeOK, RowsInMap, IsRow,
               Reply, Row, Lease
      <4>4. CASE /\ InRange(b)
                 /\ map' = [map EXCEPT ![f] =
                              release_table(@ \ {b}, TableOf(b))]
                 /\ UNCHANGED db
                 /\ Fail(f, i)
        <5>1. map' \in [EnabledFamilies -> SUBSET Bits]
          BY <1>2, <4>1, <4>4, AllocatedTable, ToggleType
             DEF release_table, TypeInv, TypeOK
        <5> QED
          BY <1>0, <4>4, <5>1
             DEF Fail, NoAnswer, TypeInv, TypeOK, RowsInMap, IsRow, Reply
      <4> QED BY <3>2, <4>2, <4>3, <4>4 DEF AllocateTable
    <3> QED BY <2>2, <3>1, <3>2 DEF AllocateNew
  <2> QED BY <2>1, <2>2
<1> QED BY <1>1, <1>2

\* A release keeps the types: the flipped bit is that of a row.
LEMMA TypeRelease ==
    ASSUME TypeInv, NEW f \in Family, NEW i \in Id, HandleRelease(f, i)
    PROVE  TypeInv'
<1> USE MapAssumption, ServerAssumption
<1>1. /\ up' \in BOOLEAN /\ now' \in Nat /\ dead_leases_timer' \in Nat
      /\ crashes' \in Nat /\ reboots' \in Nat
      /\ granted' \in [Family -> [Id -> Lease]]
  BY DEF TypeInv, TypeOK, HandleRelease, NoLease, Lease
<1>2. reply' \in Reply
  BY DEF HandleRelease, ReleaseRow, Reply
<1>3. CASE UNCHANGED <<map, db>>
  BY <1>1, <1>2, <1>3 DEF TypeInv, TypeOK, RowsInMap, IsRow
<1>4. ASSUME NEW t \in get_table(f, i), t # 0, ReleaseRow(f, i, t)
      PROVE  TypeInv'
  <2>1. t \in Tables /\ IsRow(db[f][t])
    BY <1>4, GetTable DEF IsRow
  <2>2. f \in EnabledFamilies /\ Index(t) \in Bits
    BY <2>1 DEF TypeInv, RowsInMap
  <2>3. map' \in [EnabledFamilies -> SUBSET Bits]
    BY <1>4, <2>2, ToggleType DEF ReleaseRow, release_table, TypeInv, TypeOK
  <2>4. db' \in [Family -> [Tables -> Row]] /\ RowsInMap'
    BY <1>4 DEF ReleaseRow, remove_table, TypeInv, TypeOK, RowsInMap, IsRow,
                NoRow, Row
  <2> QED
    BY <1>1, <1>2, <2>3, <2>4 DEF TypeInv, TypeOK
<1> QED BY <1>3, <1>4 DEF HandleRelease

\* The sweep keeps the types: it frees bits of rows only.
LEMMA TypeSweep == TypeInv /\ DeleteDeadLeases => TypeInv'
<1> SUFFICES ASSUME TypeInv, DeleteDeadLeases PROVE TypeInv'
  OBVIOUS
<1> USE MapAssumption, ServerAssumption
<1> PICK visited \in Visited(DeadRows, "select_dead") :
       /\ map' = [f \in EnabledFamilies |-> map[f] \cup BitsOf(visited, f)]
       /\ DeleteRows \/ UNCHANGED db
  BY DEF DeleteDeadLeases
<1>1. visited \in SUBSET {k \in Family \X Tables : IsRow(db[k[1]][k[2]])}
  BY DEF Visited, DeadRows, IsDead
<1>2. map' \in [EnabledFamilies -> SUBSET Bits]
  BY <1>1, BitsOfRows DEF TypeInv, TypeOK
<1>3. db' \in [Family -> [Tables -> Row]] /\ RowsInMap'
  BY DEF DeleteRows, TypeInv, TypeOK, RowsInMap, IsRow, NoRow, Row
<1> QED
  BY <1>2, <1>3 DEF DeleteDeadLeases, TypeInv, TypeOK, NoReply, Reply

\* Every step keeps the types.
LEMMA TypeStep == TypeInv /\ [Next]_vars => TypeInv'
<1> SUFFICES ASSUME TypeInv, [Next]_vars PROVE TypeInv'
  OBVIOUS
<1> USE MapAssumption, ServerAssumption
<1>1. CASE Start
  <2>1. map' \in [EnabledFamilies -> SUBSET Bits]
    BY <1>1 DEF Start, AllFree
  <2> QED
    BY <1>1, <2>1 DEF Start, TypeInv, TypeOK, RowsInMap, IsRow, NoReply, Reply
<1>2. ASSUME NEW f \in Family, NEW i \in Id, HandleReq(f, i)
      PROVE  TypeInv'
  BY <1>2, TypeReq
<1>3. ASSUME NEW f \in Family, NEW i \in Id, HandleRelease(f, i)
      PROVE  TypeInv'
  BY <1>3, TypeRelease
<1>4. CASE DeleteDeadLeases
  BY <1>4, TypeSweep
<1>5. CASE Crash
  <2>1. up' \in BOOLEAN
    BY <1>5 DEF Crash
  <2>2. map' \in [EnabledFamilies -> SUBSET Bits]
    BY <1>5, NoMapType DEF Crash
  <2>3. db' \in [Family -> [Tables -> Row]] /\ RowsInMap'
        /\ granted' \in [Family -> [Id -> Lease]]
        /\ now' \in Nat /\ dead_leases_timer' \in Nat /\ reply' \in Reply
        /\ crashes' \in Nat /\ reboots' \in Nat
    BY <1>5 DEF Crash, TypeInv, TypeOK, RowsInMap, IsRow, NoReply, Reply
  <2> QED
    BY <2>1, <2>2, <2>3 DEF TypeInv, TypeOK
<1>6. CASE Reboot
  <2>1. up' \in BOOLEAN
    BY <1>6 DEF Reboot
  <2>2. map' \in [EnabledFamilies -> SUBSET Bits]
    BY <1>6, NoMapType DEF Reboot
  <2>3. db' \in [Family -> [Tables -> Row]] /\ RowsInMap'
        /\ now' \in Nat /\ dead_leases_timer' \in Nat /\ reply' \in Reply
        /\ crashes' \in Nat /\ reboots' \in Nat
    BY <1>6 DEF Reboot, TypeInv, TypeOK, RowsInMap, IsRow, NoReply, Reply
  <2>4. granted' \in [Family -> [Id -> Lease]]
    BY <1>6 DEF Reboot, NoLease, Lease
  <2> QED
    BY <2>1, <2>2, <2>3, <2>4 DEF TypeInv, TypeOK
<1>7. CASE Tick
  BY <1>7 DEF Tick, TypeInv, TypeOK, RowsInMap, IsRow, NoReply, Reply
<1>8. CASE UNCHANGED vars
  BY <1>8 DEF vars, TypeInv, TypeOK, RowsInMap, IsRow
<1> QED
  BY <1>1, <1>2, <1>3, <1>4, <1>5, <1>6, <1>7, <1>8 DEF Next

\* Type correctness, whichever database calls fail.
THEOREM TypeCorrect == Spec => []TypeOK
<1>1. Spec => []TypeInv
  BY TypeInit, TypeStep, PTL DEF Spec
<1> QED
  BY <1>1, PTL DEF TypeInv

\* Every row names a bit of an allocated map, so the unchecked index of
\* release_table is in bounds, whichever database calls fail.
THEOREM ReleaseInBounds == Spec => []RowsInMap
<1>1. Spec => []TypeInv
  BY TypeInit, TypeStep, PTL DEF Spec
<1> QED
  BY <1>1, PTL DEF TypeInv

-----------------------------------------------------------------------------
(* Exclusive leases.  NoDoubleLease speaks of what clients were told; it    *)
(* is kept because a live lease is a row (GrantBacked), a table has one     *)
(* row, and allocate_table never picks a bit of a live row (LiveRowBusy).   *)

\* The inductive invariant of NoDoubleLease.
SafeInv == TypeInv /\ LiveRowBusy /\ GrantBacked

\* Different tables have different bits.
LEMMA IndexInjective ==
    ASSUME NEW t \in Tables, NEW u \in Tables, Index(t) = Index(u)
    PROVE  t = u
BY MapAssumption DEF Index, Tables

\* The table of a free bit is not leased to anybody while the server runs.
LEMMA FreeNotHeld ==
    ASSUME SafeInv, up, NEW f \in EnabledFamilies, NEW b \in map[f],
           InRange(b), NEW j \in Id, Holds(f, j)
    PROVE  granted[f][j].table # TableOf(b)
<1>1. b \in Bits
  BY DEF SafeInv, TypeInv, TypeOK
<1>2. Index(TableOf(b)) = b /\ TableOf(b) \in Tables
  BY <1>1, AllocatedTable
<1>3. f \in Family
  BY ServerAssumption
<1>4. SUFFICES ASSUME granted[f][j].table = TableOf(b) PROVE FALSE
  OBVIOUS
<1>5. db[f][TableOf(b)] = [id |-> j, expires |-> granted[f][j].expires]
  BY <1>3, <1>4 DEF SafeInv, GrantBacked
<1>6. IsAlive(db[f][TableOf(b)])
  BY <1>5, ServerAssumption DEF IsAlive, IsRow, Holds
<1> QED
  BY <1>2, <1>6 DEF SafeInv, LiveRowBusy

\* A request keeps SafeInv.
LEMMA SafeReq ==
    ASSUME SafeInv, NEW f \in Family, NEW i \in Id, HandleReq(f, i)
    PROVE  (LiveRowBusy /\ GrantBacked)'
<1> USE MapAssumption, ServerAssumption
<1>0. up /\ UNCHANGED <<up, now>> /\ now \in Nat /\ TableTimeout \in Nat
  BY DEF HandleReq, SafeInv, TypeInv, TypeOK
<1>a. /\ map \in [EnabledFamilies -> SUBSET Bits]
      /\ db \in [Family -> [Tables -> Row]]
      /\ granted \in [Family -> [Id -> Lease]]
  BY DEF SafeInv, TypeInv, TypeOK
<1>1. CASE UNCHANGED <<map, db, granted>>
  BY <1>0, <1>1 DEF SafeInv, LiveRowBusy, GrantBacked, IsAlive, IsRow, Holds
<1>2. ASSUME f \in EnabledFamilies,
             NEW t \in get_table(f, i), t # 0, Reallocate(f, i, t)
      PROVE  (LiveRowBusy /\ GrantBacked)'
  <2>1. t \in Tables /\ db[f][t].id = i /\ IsRow(db[f][t])
    BY <1>2, GetTable DEF IsRow
  <2>2. Index(t) \in Bits
    BY <2>1 DEF SafeInv, TypeInv, RowsInMap
  <2>3. map' = [map EXCEPT ![f] = @ \ {Index(t)}]
    BY <1>2, <1>a, <2>2 DEF Reallocate, is_table_free, set_table, Toggle
  <2>4. CASE update_lease(f, t) /\ Grant(f, i, t)
    <3>1. LiveRowBusy'
      BY <1>0, <1>a, <1>2, <2>1, <2>3, <2>4
         DEF update_lease, SafeInv, LiveRowBusy, IsAlive, IsRow
    <3>2. ASSUME NEW g \in Family, NEW j \in Id, Holds(g, j)'
          PROVE  /\ granted'[g][j].table \in Tables
                 /\ db'[g][granted'[g][j].table] =
                       [id |-> j, expires |-> granted'[g][j].expires]
      <4>1. CASE g = f /\ j = i
        BY <1>a, <2>1, <2>4, <4>1 DEF update_lease, Grant
      <4>2. CASE ~(g = f /\ j = i)
        <5>1. granted'[g][j] = granted[g][j] /\ Holds(g, j)
          BY <1>0, <1>a, <2>4, <3>2, <4>2 DEF Grant, Holds
        <5>2. /\ granted[g][j].table \in Tables
              /\ db[g][granted[g][j].table] =
                   [id |-> j, expires |-> granted[g][j].expires]
          BY <5>1 DEF SafeInv, GrantBacked
        <5>3. ~(g = f /\ granted[g][j].table = t)
          BY <2>1, <4>2, <5>2
        <5> QED
          BY <1>a, <2>1, <2>4, <5>1, <5>2, <5>3 DEF update_lease
      <4> QED BY <4>1, <4>2
    <3> QED BY <3>1, <3>2 DEF GrantBacked
  <2>5. CASE UNCHANGED db /\ Fail(f, i)
    BY <1>0, <1>a, <2>3, <2>5
       DEF Fail, NoAnswer, SafeInv, LiveRowBusy, GrantBacked, IsAlive, IsRow, Holds
  <2> QED BY <1>2, <2>4, <2>5 DEF Reallocate
<1>3. ASSUME f \in EnabledFamilies,
             NEW b \in map[f], AllocateTable(f, i, b)
      PROVE  (LiveRowBusy /\ GrantBacked)'
  <2>1. b \in Bits
    BY <1>3, <1>a
  <2>2. CASE ~InRange(b) /\ map' = [map EXCEPT ![f] = @ \ {b}]
             /\ UNCHANGED db /\ Refuse(f, i)
    BY <1>0, <1>a, <2>2
       DEF Refuse, NoAnswer, SafeInv, LiveRowBusy, GrantBacked, IsAlive, IsRow, Holds
  <2>3. CASE /\ InRange(b)
             /\ map' = [map EXCEPT ![f] = @ \ {b}]
             /\ insert_table(f, i, TableOf(b))
             /\ Grant(f, i, TableOf(b))
    <3>1. TableOf(b) \in Tables /\ Index(TableOf(b)) = b
      BY <2>1, <2>3, AllocatedTable
    <3>2. LiveRowBusy'
      BY <1>0, <1>a, <1>3, <2>3, <3>1, IndexInjective
         DEF insert_table, SafeInv, LiveRowBusy, IsAlive, IsRow
    <3>3. ASSUME NEW g \in Family, NEW j \in Id, Holds(g, j)'
          PROVE  /\ granted'[g][j].table \in Tables
                 /\ db'[g][granted'[g][j].table] =
                       [id |-> j, expires |-> granted'[g][j].expires]
      <4>1. CASE g = f /\ j = i
        BY <1>a, <2>3, <3>1, <4>1 DEF insert_table, Grant
      <4>2. CASE ~(g = f /\ j = i)
        <5>1. granted'[g][j] = granted[g][j] /\ Holds(g, j)
          BY <1>0, <1>a, <2>3, <3>3, <4>2 DEF Grant, Holds
        <5>2. /\ granted[g][j].table \in Tables
              /\ db[g][granted[g][j].table] =
                   [id |-> j, expires |-> granted[g][j].expires]
          BY <5>1 DEF SafeInv, GrantBacked
        <5>3. ~(g = f /\ granted[g][j].table = TableOf(b))
          BY <1>0, <1>3, <2>3, <5>1, FreeNotHeld
        <5> QED
          BY <1>a, <2>3, <3>1, <5>1, <5>2, <5>3 DEF insert_table
      <4> QED BY <4>1, <4>2
    <3> QED BY <3>2, <3>3 DEF GrantBacked
  <2>4. CASE /\ InRange(b)
             /\ map' = [map EXCEPT ![f] =
                          release_table(@ \ {b}, TableOf(b))]
             /\ UNCHANGED db
             /\ Fail(f, i)
    <3>1. release_table(map[f] \ {b}, TableOf(b)) = map[f]
      BY <1>3, <2>1, <2>4, AllocatedTable DEF release_table, Toggle
    <3>2. map' = map
      BY <1>3, <1>a, <2>4, <3>1
    <3> QED
      BY <1>1, <2>4, <3>2 DEF Fail, NoAnswer
  <2> QED BY <1>3, <2>2, <2>3, <2>4 DEF AllocateTable
<1> QED
  BY <1>1, <1>2, <1>3 DEF HandleReq, AllocateNew, Exhausted, Refuse, Fail, NoAnswer

\* A release keeps SafeInv: the bit it flips has lost its row.
LEMMA SafeRelease ==
    ASSUME SafeInv, NEW f \in Family, NEW i \in Id, HandleRelease(f, i)
    PROVE  (LiveRowBusy /\ GrantBacked)'
<1> USE MapAssumption, ServerAssumption
<1>0. UNCHANGED <<up, now>> /\ now \in Nat
  BY DEF HandleRelease, SafeInv, TypeInv, TypeOK
<1>a. /\ map \in [EnabledFamilies -> SUBSET Bits]
      /\ db \in [Family -> [Tables -> Row]]
      /\ granted \in [Family -> [Id -> Lease]]
  BY DEF SafeInv, TypeInv, TypeOK
<1>1. ASSUME NEW g \in Family, NEW j \in Id, Holds(g, j)'
      PROVE  /\ ~(g = f /\ j = i)
             /\ granted'[g][j] = granted[g][j]
             /\ granted[g][j].table \in Tables
             /\ db[g][granted[g][j].table] =
                  [id |-> j, expires |-> granted[g][j].expires]
  BY <1>0, <1>a, <1>1
     DEF HandleRelease, NoLease, Holds, SafeInv, GrantBacked
<1>2. CASE UNCHANGED <<map, db>>
  <2>1. LiveRowBusy'
    BY <1>0, <1>2 DEF SafeInv, LiveRowBusy, IsAlive, IsRow
  <2>2. GrantBacked'
    <3> SUFFICES ASSUME NEW g \in Family, NEW j \in Id, Holds(g, j)'
                 PROVE  /\ granted'[g][j].table \in Tables
                        /\ db'[g][granted'[g][j].table] =
                             [id |-> j, expires |-> granted'[g][j].expires]
      BY DEF GrantBacked
    <3>1. granted'[g][j] = granted[g][j] /\ granted[g][j].table \in Tables
      BY <1>1
    <3>2. db[g][granted[g][j].table] =
             [id |-> j, expires |-> granted[g][j].expires]
      BY <1>1
    <3> QED BY <1>2, <3>1, <3>2
  <2> QED BY <2>1, <2>2
<1>3. ASSUME NEW t \in get_table(f, i), t # 0, ReleaseRow(f, i, t)
      PROVE  (LiveRowBusy /\ GrantBacked)'
  <2>1. t \in Tables /\ db[f][t].id = i
    BY <1>3, GetTable
  <2>2. ASSUME NEW g \in Family, NEW u \in Tables
        PROVE  db'[g][u] = IF g = f /\ db[g][u].id = i
                           THEN NoRow ELSE db[g][u]
    BY <1>3, <1>a DEF ReleaseRow, remove_table
  <2>3. LiveRowBusy'
    <3> SUFFICES ASSUME up', NEW g \in EnabledFamilies, NEW u \in Tables,
                        IsAlive(db[g][u])'
                 PROVE  Index(u) \notin map'[g]
      BY DEF LiveRowBusy
    <3>1. db'[g][u] = db[g][u] /\ ~(g = f /\ db[g][u].id = i)
      BY <2>2 DEF IsAlive, IsRow, NoRow
    <3>2. Index(u) \notin map[g]
      BY <1>0, <3>1 DEF SafeInv, LiveRowBusy, IsAlive, IsRow
    <3>3. g = f => Index(u) # Index(t)
      BY <2>1, <3>1, IndexInjective
    <3> QED
      BY <1>3, <1>a, <3>2, <3>3 DEF ReleaseRow, release_table, Toggle
  <2>4. GrantBacked'
    <3> SUFFICES ASSUME NEW g \in Family, NEW j \in Id, Holds(g, j)'
                 PROVE  /\ granted'[g][j].table \in Tables
                        /\ db'[g][granted'[g][j].table] =
                             [id |-> j, expires |-> granted'[g][j].expires]
      BY DEF GrantBacked
    <3>1. granted'[g][j] = granted[g][j] /\ granted[g][j].table \in Tables
      BY <1>1
    <3>2. /\ db[g][granted[g][j].table] =
               [id |-> j, expires |-> granted[g][j].expires]
          /\ ~(g = f /\ j = i)
      BY <1>1
    <3> QED
      BY <2>2, <3>1, <3>2
  <2> QED BY <2>3, <2>4
<1> QED BY <1>2, <1>3 DEF HandleRelease

\* The sweep keeps SafeInv: it touches the bits and rows of dead leases only.
LEMMA SafeSweep ==
    SafeInv /\ DeleteDeadLeases => (LiveRowBusy /\ GrantBacked)'
<1> SUFFICES ASSUME SafeInv, DeleteDeadLeases
             PROVE  (LiveRowBusy /\ GrantBacked)'
  OBVIOUS
<1> USE MapAssumption, ServerAssumption
<1>0. UNCHANGED <<up, now, granted>> /\ now \in Nat
  BY DEF DeleteDeadLeases, SafeInv, TypeInv, TypeOK
<1>a. /\ map \in [EnabledFamilies -> SUBSET Bits]
      /\ db \in [Family -> [Tables -> Row]]
      /\ granted \in [Family -> [Id -> Lease]]
  BY DEF SafeInv, TypeInv, TypeOK
<1> PICK visited \in Visited(DeadRows, "select_dead") :
       /\ map' = [f \in EnabledFamilies |-> map[f] \cup BitsOf(visited, f)]
       /\ DeleteRows \/ UNCHANGED db
  BY DEF DeleteDeadLeases
<1>1. visited \subseteq DeadRows
  BY DEF Visited
<1>2. ASSUME NEW f \in Family, NEW t \in Tables
      PROVE  \/ db'[f][t] = db[f][t]
             \/ IsDead(db[f][t]) /\ db'[f][t] = NoRow
  BY DEF DeleteRows
<1>3. LiveRowBusy'
  <2> SUFFICES ASSUME up', NEW g \in EnabledFamilies, NEW u \in Tables,
                      IsAlive(db[g][u])'
               PROVE  Index(u) \notin map'[g]
    BY DEF LiveRowBusy
  <2>1. db'[g][u] = db[g][u] /\ IsAlive(db[g][u])
    BY <1>0, <1>2 DEF IsAlive, IsRow, NoRow
  <2>2. Index(u) \notin map[g]
    BY <1>0, <2>1 DEF SafeInv, LiveRowBusy
  <2>3. ~IsDead(db[g][u])
    BY <1>0, <1>a, <2>1 DEF IsAlive, IsDead, Row
  <2>4. Index(u) \notin BitsOf(visited, g)
    BY <1>1, <2>3, IndexInjective DEF BitsOf, DeadRows
  <2> QED BY <2>2, <2>4
<1>4. GrantBacked'
  <2> SUFFICES ASSUME NEW g \in Family, NEW j \in Id, Holds(g, j)'
               PROVE  /\ granted'[g][j].table \in Tables
                      /\ db'[g][granted'[g][j].table] =
                           [id |-> j, expires |-> granted'[g][j].expires]
    BY DEF GrantBacked
  <2>1. /\ granted[g][j].table \in Tables
        /\ db[g][granted[g][j].table] =
             [id |-> j, expires |-> granted[g][j].expires]
        /\ granted[g][j].expires > now /\ granted[g][j].expires \in Nat
    BY <1>0, <1>a DEF SafeInv, GrantBacked, Holds, Lease
  <2>2. ~IsDead(db[g][granted[g][j].table])
    BY <1>0, <2>1 DEF IsDead
  <2> QED
    BY <1>0, <1>2, <2>1, <2>2
<1> QED BY <1>3, <1>4

\* Every step keeps SafeInv, as long as the query that builds the map does
\* not fail.
LEMMA SafeStep ==
    ASSUME "build" \notin Faults
    PROVE  SafeInv /\ [Next]_vars => SafeInv'
<1> SUFFICES ASSUME SafeInv, [Next]_vars PROVE (LiveRowBusy /\ GrantBacked)'
  BY TypeStep DEF SafeInv
<1> USE MapAssumption, ServerAssumption
<1>0. /\ now \in Nat
      /\ map \in [EnabledFamilies -> SUBSET Bits]
      /\ db \in [Family -> [Tables -> Row]]
      /\ granted \in [Family -> [Id -> Lease]]
  BY DEF SafeInv, TypeInv, TypeOK
<1>1. CASE Start
  <2>1. map' = [f \in EnabledFamilies |-> AllFree \ BitsOf(AliveRows, f)]
    BY <1>1 DEF Start, Visited
  <2>2. UNCHANGED <<db, now, granted>>
    BY <1>1 DEF Start
  <2>3. LiveRowBusy'
    <3> SUFFICES ASSUME NEW g \in EnabledFamilies, NEW u \in Tables,
                        IsAlive(db[g][u])'
                 PROVE  Index(u) \notin map'[g]
      BY DEF LiveRowBusy
    <3>1. <<g, u>> \in AliveRows
      BY <2>2 DEF AliveRows, IsAlive, IsRow
    <3>2. Index(u) \in BitsOf(AliveRows, g)
      BY <3>1 DEF BitsOf
    <3> QED BY <2>1, <3>2
  <2>4. GrantBacked'
    BY <2>2 DEF SafeInv, GrantBacked, Holds
  <2> QED BY <2>3, <2>4
<1>2. ASSUME NEW f \in Family, NEW i \in Id, HandleReq(f, i)
      PROVE  (LiveRowBusy /\ GrantBacked)'
  BY <1>2, SafeReq
<1>3. ASSUME NEW f \in Family, NEW i \in Id, HandleRelease(f, i)
      PROVE  (LiveRowBusy /\ GrantBacked)'
  BY <1>3, SafeRelease
<1>4. CASE DeleteDeadLeases
  BY <1>4, SafeSweep
<1>5. CASE Crash
  BY <1>5 DEF Crash, SafeInv, LiveRowBusy, GrantBacked, Holds
<1>6. CASE Reboot
  BY <1>6 DEF Reboot, LiveRowBusy, GrantBacked, Holds, NoLease
<1>7. CASE Tick
  BY <1>0, <1>7 DEF Tick, SafeInv, LiveRowBusy, GrantBacked, Holds, IsAlive,
                    IsRow, Row, Lease
<1>8. CASE UNCHANGED vars
  BY <1>8 DEF vars, SafeInv, LiveRowBusy, GrantBacked, Holds, IsAlive, IsRow
<1> QED
  BY <1>1, <1>2, <1>3, <1>4, <1>5, <1>6, <1>7, <1>8 DEF Next

\* Initially nobody holds a lease.
LEMMA SafeInit == Init => SafeInv
BY TypeInit DEF Init, SafeInv, LiveRowBusy, GrantBacked, Holds, NoLease

\* SafeInv is enough for NoDoubleLease: one table has one row, and that row
\* one identity.
LEMMA SafeImpliesNoDoubleLease == SafeInv => NoDoubleLease
<1> SUFFICES ASSUME SafeInv, NEW f \in Family, NEW i \in Id, NEW j \in Id,
                    Holds(f, i), Holds(f, j),
                    granted[f][i].table = granted[f][j].table
             PROVE  i = j
  BY DEF NoDoubleLease
<1> DEFINE row == db[f][granted[f][i].table]
<1>1. row = [id |-> i, expires |-> granted[f][i].expires]
  BY DEF SafeInv, GrantBacked
<1>2. row = [id |-> j, expires |-> granted[f][j].expires]
  BY DEF SafeInv, GrantBacked
<1> HIDE DEF row
<1>3. row.id = i
  BY <1>1
<1>4. row.id = j
  BY <1>2
<1> QED BY <1>3, <1>4

\* A lease that a client was told, and that still runs, is stored under its
\* table: whatever other database calls fail, crashes and reboots.
THEOREM LeasesAreStored ==
    ASSUME "build" \notin Faults
    PROVE  Spec => []GrantBacked
<1>1. Spec => []SafeInv
  BY SafeInit, SafeStep, PTL DEF Spec
<1> QED
  BY <1>1, PTL DEF SafeInv

\* The bit of a live row is busy, so that allocate_table does not pick it:
\* whatever other database calls fail, crashes and reboots.
THEOREM LiveTablesAreBusy ==
    ASSUME "build" \notin Faults
    PROVE  Spec => []LiveRowBusy
<1>1. Spec => []SafeInv
  BY SafeInit, SafeStep, PTL DEF Spec
<1> QED
  BY <1>1, PTL DEF SafeInv

\* Two identities never hold the same table: whatever other database calls
\* fail, crashes and reboots.
THEOREM ExclusiveLeases ==
    ASSUME "build" \notin Faults
    PROVE  Spec => []NoDoubleLease
<1>1. Spec => []SafeInv
  BY SafeInit, SafeStep, PTL DEF Spec
<1> QED
  BY <1>1, SafeImpliesNoDoubleLease, PTL

-----------------------------------------------------------------------------
(* TableServer implements LeaseService when neither the query for the       *)
(* identity's row nor the one that builds the map fails.                    *)

\* The invariant under which each step is a step of LeaseService.
ServiceInv == SafeInv /\ OneRowPerIdentity

\* handle_req allocates a new table only for an identity without a row.
LEMMA NewOnlyWithoutRow ==
    ASSUME "select" \notin Faults, NEW f \in Family, NEW i \in Id,
           0 \in get_table(f, i)
    PROVE  RowsOf(f, i) = {}
<1>1. 0 \notin Tables
  BY MapAssumption DEF Tables
<1> QED
  BY <1>1 DEF get_table, RowsOf

\* The table of a live lease is a row of its holder.
LEMMA HeldRow ==
    ASSUME SafeInv, NEW f \in Family, NEW i \in Id, Holds(f, i)
    PROVE  granted[f][i].table \in RowsOf(f, i)
<1> DEFINE row == db[f][granted[f][i].table]
<1>1. /\ granted[f][i].table \in Tables
      /\ row = [id |-> i, expires |-> granted[f][i].expires]
  BY DEF SafeInv, GrantBacked
<1> HIDE DEF row
<1>2. row.id = i
  BY <1>1
<1> QED
  BY <1>1, <1>2 DEF RowsOf, row

\* The rows of an identity stay unique.
LEMMA OneRowStep ==
    ASSUME "select" \notin Faults, TypeInv, OneRowPerIdentity, [Next]_vars
    PROVE  OneRowPerIdentity'
<1> USE MapAssumption, ServerAssumption
<1>0. /\ map \in [EnabledFamilies -> SUBSET Bits]
      /\ db \in [Family -> [Tables -> Row]]
  BY DEF TypeInv, TypeOK
<1>1. ASSUME \A g \in Family, u \in Tables :
                db'[g][u].id = db[g][u].id \/ db'[g][u].id = None
      PROVE  OneRowPerIdentity'
  BY <1>1, ServerAssumption DEF OneRowPerIdentity
<1>2. ASSUME NEW f \in Family, NEW i \in Id, HandleReq(f, i)
      PROVE  OneRowPerIdentity'
  <2>1. CASE UNCHANGED db
    BY <1>1, <2>1
  <2>2. ASSUME NEW t \in get_table(f, i), t # 0, update_lease(f, t)
        PROVE  OneRowPerIdentity'
    <3>1. t \in Tables
      BY <2>2, GetTable
    <3>2. \A g \in Family, u \in Tables : db'[g][u].id = db[g][u].id
      BY <1>0, <2>2, <3>1 DEF update_lease
    <3> QED BY <1>1, <3>2
  <2>3. ASSUME f \in EnabledFamilies, 0 \in get_table(f, i),
               NEW b \in map[f], InRange(b), insert_table(f, i, TableOf(b))
        PROVE  OneRowPerIdentity'
    <3>1. TableOf(b) \in Tables
      BY <1>0, <2>3, AllocatedTable
    <3>2. \A u \in Tables : db[f][u].id # i
      BY <2>3, NewOnlyWithoutRow DEF RowsOf
    <3>3. \A g \in Family, u \in Tables :
             db'[g][u].id = IF g = f /\ u = TableOf(b) THEN i ELSE db[g][u].id
      BY <1>0, <2>3, <3>1 DEF insert_table
    <3> SUFFICES ASSUME NEW g \in Family, NEW j \in Id,
                        NEW t \in Tables, NEW u \in Tables,
                        db'[g][t].id = j, db'[g][u].id = j
                 PROVE  t = u
      BY DEF OneRowPerIdentity
    <3> QED
      BY <3>2, <3>3 DEF OneRowPerIdentity
  <2> QED
    BY <1>2, <2>1, <2>2, <2>3
       DEF HandleReq, Reallocate, AllocateNew, Exhausted, AllocateTable
<1>3. ASSUME NEW f \in Family, NEW i \in Id, HandleRelease(f, i)
      PROVE  OneRowPerIdentity'
  <2>1. \A g \in Family, u \in Tables :
           db'[g][u] = db[g][u] \/ db'[g][u] = NoRow
    BY <1>0, <1>3 DEF HandleRelease, ReleaseRow, remove_table
  <2> QED BY <1>1, <2>1 DEF NoRow
<1>4. CASE DeleteDeadLeases
  <2>1. \A g \in Family, u \in Tables :
           db'[g][u] = db[g][u] \/ db'[g][u] = NoRow
    BY <1>4 DEF DeleteDeadLeases, DeleteRows
  <2> QED BY <1>1, <2>1 DEF NoRow
<1>5. CASE UNCHANGED db
  BY <1>1, <1>5
<1> QED
  BY <1>2, <1>3, <1>4, <1>5 DEF Next, Start, Crash, Reboot, Tick, vars

\* Initially there are no rows.
LEMMA ServiceInit == Init => ServiceInv
BY SafeInit, ServerAssumption DEF ServiceInv, Init, OneRowPerIdentity, NoRow

\* The invariant of the refinement.
LEMMA ServiceInvariant ==
    ASSUME "build" \notin Faults, "select" \notin Faults
    PROVE  Spec => []ServiceInv
<1>1. ServiceInv /\ [Next]_vars => ServiceInv'
  BY SafeStep, OneRowStep DEF ServiceInv, SafeInv
<1> QED
  BY <1>1, ServiceInit, PTL DEF Spec

\* Each identity has at most one row per family.
THEOREM UniqueRows ==
    ASSUME "build" \notin Faults, "select" \notin Faults
    PROVE  Spec => []OneRowPerIdentity
<1>1. Spec => []ServiceInv
  BY ServiceInvariant
<1> QED
  BY <1>1, PTL DEF ServiceInv

\* A grant of the server is a grant of the service.
LEMMA GrantRefines ==
    ASSUME "select" \notin Faults, ServiceInv,
           NEW f \in Family, NEW i \in Id, HandleReq(f, i)
    PROVE  (\E t \in Tables : Service!Grant(f, i, t)) \/ UNCHANGED <<granted, now>>
<1> USE MapAssumption, ServerAssumption
<1>0. up /\ UNCHANGED now
  BY DEF HandleReq
<1>a. map \in [EnabledFamilies -> SUBSET Bits]
  BY DEF ServiceInv, SafeInv, TypeInv, TypeOK
<1>1. CASE Refuse(f, i) \/ Fail(f, i)
  BY <1>0, <1>1 DEF Refuse, Fail, NoAnswer
<1>2. ASSUME NEW t \in get_table(f, i), t # 0, Grant(f, i, t)
      PROVE  \E u \in Tables : Service!Grant(f, i, u)
  <2>1. t \in Tables /\ db[f][t].id = i
    BY <1>2, GetTable
  <2>2. Holds(f, i) => granted[f][i].table = t
    <3> SUFFICES ASSUME Holds(f, i) PROVE granted[f][i].table = t
      OBVIOUS
    <3>1. granted[f][i].table \in RowsOf(f, i)
      BY HeldRow DEF ServiceInv
    <3> QED
      BY <2>1, <3>1 DEF ServiceInv, OneRowPerIdentity, RowsOf
  <2>3. ASSUME NEW j \in Id \ {i}, Holds(f, j)
        PROVE  granted[f][j].table # t
    <3>1. db[f][granted[f][j].table] =
             [id |-> j, expires |-> granted[f][j].expires]
      BY <2>3 DEF ServiceInv, SafeInv, GrantBacked
    <3> QED BY <2>1, <2>3, <3>1
  <2>4. Service!Grant(f, i, t)
    BY <1>0, <1>2, <2>2, <2>3 DEF Service!Grant, Service!Held, Holds, Grant
  <2> QED BY <2>1, <2>4
<1>3. ASSUME f \in EnabledFamilies, 0 \in get_table(f, i),
             NEW b \in map[f], InRange(b), Grant(f, i, TableOf(b))
      PROVE  \E u \in Tables : Service!Grant(f, i, u)
  <2>1. TableOf(b) \in Tables
    BY <1>a, <1>3, AllocatedTable
  <2>2. ~Holds(f, i)
    BY <1>3, NewOnlyWithoutRow, HeldRow DEF ServiceInv
  <2>3. \A j \in Id \ {i} : Holds(f, j) => granted[f][j].table # TableOf(b)
    BY <1>0, <1>3, FreeNotHeld DEF ServiceInv
  <2>4. Service!Grant(f, i, TableOf(b))
    BY <1>0, <1>3, <2>2, <2>3
       DEF Service!Grant, Service!Held, Holds, Grant
  <2> QED BY <2>1, <2>4
<1> QED
  BY <1>1, <1>2, <1>3
     DEF HandleReq, Reallocate, AllocateNew, Exhausted, AllocateTable

\* Every step of the server is a step of the service or leaves what the
\* clients were told, and the clock, alone.
LEMMA StepRefines ==
    ASSUME "select" \notin Faults, ServiceInv, [Next]_vars
    PROVE  [Service!Next]_(Service!vars)
<1>1. ASSUME NEW f \in Family, NEW i \in Id, HandleReq(f, i)
      PROVE  [Service!Next]_(Service!vars)
  BY <1>1, GrantRefines DEF Service!Next, Service!vars
<1>2. ASSUME NEW f \in Family, NEW i \in Id, HandleRelease(f, i)
      PROVE  [Service!Next]_(Service!vars)
  <2>1. Service!Release(f, i)
    BY <1>2 DEF HandleRelease, Service!Release, Service!NoLease, NoLease
  <2> QED BY <2>1 DEF Service!Next
<1>3. CASE Tick
  BY <1>3 DEF Tick, Service!Next, Service!Tick
<1>4. CASE Reboot
  BY <1>4 DEF Reboot, Service!Next, Service!Reboot, Service!NoLease, NoLease
<1>5. CASE UNCHANGED <<granted, now>>
  BY <1>5 DEF Service!vars
<1> QED
  BY <1>1, <1>2, <1>3, <1>4, <1>5
     DEF Next, Start, DeleteDeadLeases, Crash, vars

\* The server with its bitmap and database implements the lease service: a
\* lease is exclusive, renewed on the same table, and ends before its time
\* only by its holder's release.
THEOREM ServerImplementsService ==
    ASSUME "build" \notin Faults, "select" \notin Faults
    PROVE  Spec => ServiceSpec
<1>1. Init => Service!Init
  BY DEF Init, Service!Init, Service!NoLease, NoLease
<1>2. ServiceInv /\ [Next]_vars => [Service!Next]_(Service!vars)
  BY StepRefines
<1>3. Spec => []ServiceInv
  BY ServiceInvariant
<1> QED
  BY <1>1, <1>2, <1>3, PTL DEF Spec, ServiceSpec, Service!Spec

-----------------------------------------------------------------------------
(***************************************************************************)
(* NoLeak and RefusedOnlyWhenFull, for a server that runs without a crash:  *)
(* the bitmap and the database agree exactly.  After a restart they do not  *)
(* (the rows of dead leases have free bits), and the run LeakAfterRestart   *)
(* shows what follows.  Nor do they when the query for the identity's row,  *)
(* or one of the two statements of the sweep, fails: the bit is flipped      *)
(* without its row, or the row deleted without its bit.                     *)
(***************************************************************************)

\* The conditions under which the two agree.
Undisturbed ==
    /\ MaxCrashes = 0 /\ MaxReboots = 0
    /\ {"select", "select_dead", "delete_dead"} \cap Faults = {}

\* A bit of the range is free exactly when its table has no row; before the
\* server runs there are no rows.
MapExact ==
    /\ ~up => \A f \in Family, t \in Tables : ~IsRow(db[f][t])
    /\ up => \A f \in EnabledFamilies, t \in Tables :
                Index(t) \in Bits =>
                    (Index(t) \in map[f] <=> ~IsRow(db[f][t]))

\* The inductive invariant of NoLeak and RefusedOnlyWhenFull.
ExactInv ==
    /\ TypeInv /\ OneRowPerIdentity /\ MapExact
    /\ RefusedOnlyWhenFull
    /\ crashes = 0 /\ reboots = 0

-----------------------------------------------------------------------------

\* From one full word on, every configured table has a bit.
LEMMA EveryTableHasBit ==
    ASSUME NumTables >= WordBits, NEW t \in Tables
    PROVE  Index(t) \in Bits
<1> DEFINE q == NumTables \div WordBits
           r == NumTables % WordBits
<1>1. /\ NumTables = WordBits * q + r /\ r \in 0 .. WordBits - 1 /\ q \in Nat
      /\ WordBits \in Nat \ {0} /\ NumTables \in Nat
  BY MapAssumption
<1>2. num_table_elements = IF r # 0 THEN q + 1 ELSE q
  BY MapAssumption DEF num_table_elements
<1> HIDE DEF q, r
<1>3. NumTables <= WordBits * num_table_elements
  <2>1. CASE r = 0
    BY <1>1, <1>2, <2>1
  <2>2. CASE r # 0
    <3>1. WordBits * (q + 1) = WordBits * q + WordBits
      BY <1>1
    <3> QED BY <1>1, <1>2, <2>2, <3>1
  <2> QED BY <2>1, <2>2
<1>4. num_table_elements \in Nat /\ WordBits * num_table_elements \in Nat
  BY <1>1, <1>2
<1>5. Index(t) \in 0 .. NumTables - 1
  BY MapAssumption DEF Index, Tables
<1> QED
  BY <1>1, <1>3, <1>4, <1>5 DEF Bits

\* The bit of a configured table is below NumTables.
LEMMA TableInRange ==
    ASSUME NEW t \in Tables
    PROVE  Index(t) \in 0 .. NumTables - 1 /\ InRange(Index(t))
BY MapAssumption DEF Index, Tables, InRange

\* A request of an identity without a row is refused only when every table
\* has a row.
LEMMA RefusedWhenFull ==
    ASSUME NumTables >= WordBits, TypeInv, MapExact, up,
           NEW f \in EnabledFamilies, NEW i \in Id, RowsOf(f, i) = {},
           \/ map[f] = {}
           \/ \E b \in map[f] : LowestFree(map[f], b) /\ ~InRange(b),
           NEW t \in Tables
    PROVE  IsRow(db[f][t]) /\ db[f][t].id # i
<1>1. Index(t) \in Bits
  BY EveryTableHasBit
<1>2. Index(t) \notin map[f]
  <2> SUFFICES ASSUME NEW b \in map[f], LowestFree(map[f], b), ~InRange(b),
                      Index(t) \in map[f]
               PROVE  FALSE
    OBVIOUS
  <2>1. b <= Index(t) /\ b \in Int
    BY DEF LowestFree, TypeInv, TypeOK, Bits
  <2>2. Index(t) \in 0 .. NumTables - 1
    BY TableInRange
  <2> QED
    BY <2>1, <2>2, MapAssumption DEF InRange
<1> QED
  BY <1>1, <1>2 DEF MapExact, RowsOf

\* A request keeps the map exact.
LEMMA ExactReq ==
    ASSUME Undisturbed, NumTables >= WordBits, ExactInv,
           NEW f \in Family, NEW i \in Id, HandleReq(f, i)
    PROVE  (MapExact /\ RefusedOnlyWhenFull)'
<1> USE MapAssumption, ServerAssumption
<1>0. up /\ up'
  BY DEF HandleReq
<1>a. /\ map \in [EnabledFamilies -> SUBSET Bits]
      /\ db \in [Family -> [Tables -> Row]]
  BY DEF ExactInv, TypeInv, TypeOK
<1>1. CASE f \notin EnabledFamilies
  <2>1. UNCHANGED <<map, db>> /\ reply'.family = f
    BY <1>1 DEF HandleReq, Refuse, NoAnswer
  <2> QED
    BY <1>0, <1>1, <2>1 DEF ExactInv, MapExact, RefusedOnlyWhenFull, IsRow
<1>2. ASSUME f \in EnabledFamilies,
             NEW t \in get_table(f, i), t # 0, Reallocate(f, i, t)
      PROVE  (MapExact /\ RefusedOnlyWhenFull)'
  <2>1. t \in Tables /\ db[f][t].id = i /\ IsRow(db[f][t])
    BY <1>2, GetTable DEF IsRow
  <2>2. Index(t) \in Bits /\ Index(t) \notin map[f]
    BY <1>0, <1>2, <2>1 DEF ExactInv, TypeInv, RowsInMap, MapExact
  <2>3. map' = map
    BY <1>2, <1>a, <2>2 DEF Reallocate, is_table_free
  <2>4. \A g \in Family, u \in Tables : db'[g][u].id = db[g][u].id
    BY <1>2, <1>a, <2>1 DEF Reallocate, update_lease
  <2>5. MapExact'
    BY <1>0, <2>3, <2>4 DEF ExactInv, MapExact, IsRow
  <2>6. reply'.type # "refused"
    BY <1>2 DEF Reallocate, Grant, Fail, NoAnswer
  <2> QED BY <2>5, <2>6 DEF RefusedOnlyWhenFull
<1>3. ASSUME f \in EnabledFamilies, 0 \in get_table(f, i), AllocateNew(f, i)
      PROVE  (MapExact /\ RefusedOnlyWhenFull)'
  <2>0. RowsOf(f, i) = {}
    BY <1>3, NewOnlyWithoutRow DEF Undisturbed
  <2>1. CASE Exhausted(f, i)
    <3>1. UNCHANGED <<map, db>> /\ reply'.family = f /\ reply'.id = i
      BY <2>1 DEF Exhausted, Refuse, NoAnswer
    <3>2. \A t \in Tables : IsRow(db[f][t]) /\ db[f][t].id # i
      BY <1>0, <1>3, <2>0, <2>1, RefusedWhenFull DEF Exhausted, ExactInv
    <3>3. MapExact'
      BY <1>0, <3>1 DEF ExactInv, MapExact, IsRow
    <3>4. RefusedOnlyWhenFull'
      BY <3>1, <3>2 DEF RefusedOnlyWhenFull, IsRow
    <3> QED BY <3>3, <3>4
  <2>2. ASSUME NEW b \in map[f], LowestFree(map[f], b), ~InRange(b),
               map' = [map EXCEPT ![f] = @ \ {b}],
               UNCHANGED db, Refuse(f, i)
        PROVE  (MapExact /\ RefusedOnlyWhenFull)'
    <3>1. reply'.family = f /\ reply'.id = i
      BY <2>2 DEF Refuse, NoAnswer
    <3>2. \A t \in Tables : IsRow(db[f][t]) /\ db[f][t].id # i
      BY <1>0, <1>3, <2>0, <2>2, RefusedWhenFull DEF ExactInv
    <3>3. \A t \in Tables : Index(t) # b
      BY <2>2, TableInRange
    <3>4. MapExact'
      BY <1>0, <1>3, <1>a, <2>2, <3>3 DEF ExactInv, MapExact, IsRow
    <3>5. RefusedOnlyWhenFull'
      BY <2>2, <3>1, <3>2 DEF RefusedOnlyWhenFull, IsRow
    <3> QED BY <3>4, <3>5
  <2>3. ASSUME NEW b \in map[f], InRange(b),
               map' = [map EXCEPT ![f] = @ \ {b}],
               insert_table(f, i, TableOf(b)), Grant(f, i, TableOf(b))
        PROVE  (MapExact /\ RefusedOnlyWhenFull)'
    <3>1. b \in Bits /\ TableOf(b) \in Tables /\ Index(TableOf(b)) = b
      BY <1>3, <1>a, <2>3, AllocatedTable
    <3>2. \A g \in Family, u \in Tables :
             db'[g][u].id = IF g = f /\ u = TableOf(b) THEN i ELSE db[g][u].id
      BY <1>a, <2>3, <3>1 DEF insert_table
    <3>3. \A u \in Tables : u # TableOf(b) => Index(u) # b
      BY <3>1, IndexInjective
    <3>4. ASSUME NEW g \in EnabledFamilies, NEW u \in Tables, Index(u) \in Bits
          PROVE  Index(u) \in map'[g] <=> ~IsRow(db'[g][u])
      <4>1. Index(u) \in map[g] <=> db[g][u].id = None
        BY <1>0, <3>4 DEF ExactInv, MapExact, IsRow
      <4>2. CASE g = f /\ u = TableOf(b)
        BY <1>a, <2>3, <3>1, <3>2, <4>2 DEF IsRow
      <4>3. CASE g = f /\ u # TableOf(b)
        BY <1>a, <2>3, <3>2, <3>3, <4>1, <4>3 DEF IsRow
      <4>4. CASE g # f
        BY <1>a, <2>3, <3>2, <4>1, <4>4 DEF IsRow
      <4> QED BY <4>2, <4>3, <4>4
    <3>5. MapExact'
      BY <1>0, <3>4 DEF MapExact
    <3>6. reply'.type # "refused"
      BY <2>3 DEF Grant
    <3> QED BY <3>5, <3>6 DEF RefusedOnlyWhenFull
  <2>4. ASSUME NEW b \in map[f], InRange(b),
               map' = [map EXCEPT ![f] = release_table(@ \ {b}, TableOf(b))],
               UNCHANGED db, Fail(f, i)
        PROVE  (MapExact /\ RefusedOnlyWhenFull)'
    <3>1. b \in Bits /\ Index(TableOf(b)) = b
      BY <1>3, <1>a, <2>4, AllocatedTable
    <3>2. release_table(map[f] \ {b}, TableOf(b)) = map[f]
      BY <2>4, <3>1 DEF release_table, Toggle
    <3>3. map' = map
      BY <1>3, <1>a, <2>4, <3>2
    <3>4. reply'.type # "refused"
      BY <2>4 DEF Fail, NoAnswer
    <3> QED
      BY <1>0, <2>4, <3>3, <3>4
         DEF ExactInv, MapExact, RefusedOnlyWhenFull, IsRow
  <2> QED
    BY <1>3, <2>1, <2>2, <2>3, <2>4 DEF AllocateNew, AllocateTable
<1> QED
  BY <1>1, <1>2, <1>3 DEF HandleReq

\* A release gives back the one bit whose row it deletes.
LEMMA ExactRelease ==
    ASSUME ExactInv, NEW f \in Family, NEW i \in Id, HandleRelease(f, i)
    PROVE  (MapExact /\ RefusedOnlyWhenFull)'
<1> USE MapAssumption, ServerAssumption
<1>0. up /\ up'
  BY DEF HandleRelease
<1>a. /\ map \in [EnabledFamilies -> SUBSET Bits]
      /\ db \in [Family -> [Tables -> Row]]
  BY DEF ExactInv, TypeInv, TypeOK
<1>1. RefusedOnlyWhenFull'
  <2>1. reply'.type # "refused"
    BY DEF HandleRelease, ReleaseRow
  <2> QED BY <2>1 DEF RefusedOnlyWhenFull
<1>2. CASE UNCHANGED <<map, db>>
  BY <1>0, <1>1, <1>2 DEF ExactInv, MapExact, IsRow
<1>3. ASSUME NEW t \in get_table(f, i), t # 0, ReleaseRow(f, i, t)
      PROVE  MapExact'
  <2>1. t \in Tables /\ db[f][t].id = i /\ IsRow(db[f][t])
    BY <1>3, GetTable DEF IsRow
  <2>2. f \in EnabledFamilies /\ Index(t) \in Bits
    BY <2>1 DEF ExactInv, TypeInv, RowsInMap
  <2>3. Index(t) \notin map[f]
    BY <1>0, <2>1, <2>2 DEF ExactInv, MapExact
  <2>4. map' = [map EXCEPT ![f] = @ \cup {Index(t)}]
    BY <1>3, <1>a, <2>2, <2>3 DEF ReleaseRow, release_table, Toggle
  <2>5. \A g \in Family, u \in Tables :
           db'[g][u].id = IF g = f /\ db[g][u].id = i THEN None
                          ELSE db[g][u].id
    BY <1>3, <1>a DEF ReleaseRow, remove_table, NoRow
  <2>6. \A u \in Tables : db[f][u].id = i <=> u = t
    BY <2>1 DEF ExactInv, OneRowPerIdentity
  <2>7. ASSUME NEW g \in EnabledFamilies, NEW u \in Tables, Index(u) \in Bits
        PROVE  Index(u) \in map'[g] <=> ~IsRow(db'[g][u])
    <3>1. Index(u) \in map[g] <=> db[g][u].id = None
      BY <1>0, <2>7 DEF ExactInv, MapExact, IsRow
    <3>2. CASE g = f /\ u = t
      BY <1>a, <2>2, <2>4, <2>5, <2>6, <3>2 DEF IsRow
    <3>3. CASE g = f /\ u # t
      <4>1. Index(u) # Index(t)
        BY <2>1, <3>3, IndexInjective
      <4> QED BY <1>a, <2>2, <2>4, <2>5, <2>6, <3>1, <3>3, <4>1 DEF IsRow
    <3>4. CASE g # f
      BY <1>a, <2>4, <2>5, <3>1, <3>4 DEF IsRow
    <3> QED BY <3>2, <3>3, <3>4
  <2> QED BY <1>0, <2>7 DEF MapExact
<1> QED BY <1>1, <1>2, <1>3 DEF HandleRelease

\* The sweep frees the bits of the rows it deletes.
LEMMA ExactSweep ==
    ASSUME Undisturbed, ExactInv, DeleteDeadLeases
    PROVE  (MapExact /\ RefusedOnlyWhenFull)'
<1> USE MapAssumption, ServerAssumption
<1>0. up /\ up' /\ reply' = NoReply
  BY DEF DeleteDeadLeases
<1>a. /\ map \in [EnabledFamilies -> SUBSET Bits]
      /\ db \in [Family -> [Tables -> Row]]
  BY DEF ExactInv, TypeInv, TypeOK
<1>1. /\ map' = [f \in EnabledFamilies |-> map[f] \cup BitsOf(DeadRows, f)]
      /\ DeleteRows
  BY DEF DeleteDeadLeases, Visited, Undisturbed
<1>2. ASSUME NEW g \in EnabledFamilies, NEW u \in Tables, Index(u) \in Bits
      PROVE  Index(u) \in map'[g] <=> ~IsRow(db'[g][u])
  <2>1. Index(u) \in map[g] <=> ~IsRow(db[g][u])
    BY <1>0, <1>2 DEF ExactInv, MapExact
  <2>2. Index(u) \in BitsOf(DeadRows, g) <=> IsDead(db[g][u])
    <3>1. IsDead(db[g][u]) => Index(u) \in BitsOf(DeadRows, g)
      <4> SUFFICES ASSUME IsDead(db[g][u])
                   PROVE  Index(u) \in BitsOf(DeadRows, g)
        OBVIOUS
      <4>1. <<g, u>> \in {r \in DeadRows : r[1] = g}
        BY DEF DeadRows
      <4> QED BY <4>1 DEF BitsOf
    <3>2. Index(u) \in BitsOf(DeadRows, g) => IsDead(db[g][u])
      <4> SUFFICES ASSUME Index(u) \in BitsOf(DeadRows, g)
                   PROVE  IsDead(db[g][u])
        OBVIOUS
      <4>1. PICK k \in DeadRows : k[1] = g /\ Index(k[2]) = Index(u)
        BY DEF BitsOf
      <4>2. k[2] \in Tables /\ IsDead(db[k[1]][k[2]])
        BY DEF DeadRows
      <4>3. k[2] = u
        BY <4>1, <4>2, IndexInjective
      <4> QED BY <4>1, <4>2, <4>3
    <3> QED BY <3>1, <3>2
  <2>3. IsRow(db'[g][u]) <=> IsRow(db[g][u]) /\ ~IsDead(db[g][u])
    BY <1>1 DEF DeleteRows, IsRow, NoRow
  <2> QED BY <1>1, <2>1, <2>2, <2>3 DEF IsDead
<1>3. MapExact'
  BY <1>0, <1>2 DEF MapExact
<1>4. RefusedOnlyWhenFull'
  BY <1>0 DEF RefusedOnlyWhenFull, NoReply
<1> QED BY <1>3, <1>4

\* Every step keeps ExactInv.
LEMMA ExactStep ==
    ASSUME Undisturbed, NumTables >= WordBits
    PROVE  ExactInv /\ [Next]_vars => ExactInv'
<1> SUFFICES ASSUME ExactInv, [Next]_vars PROVE ExactInv'
  OBVIOUS
<1> USE MapAssumption, ServerAssumption
<1>0. TypeInv' /\ OneRowPerIdentity'
  BY TypeStep, OneRowStep DEF ExactInv, Undisturbed
<1>1. crashes' = 0 /\ reboots' = 0
  BY DEF ExactInv, Undisturbed, Next, Start, HandleReq, HandleRelease,
         DeleteDeadLeases, Crash, Reboot, Tick, vars
<1> SUFFICES (MapExact /\ RefusedOnlyWhenFull)'
  BY <1>0, <1>1 DEF ExactInv
<1>2. CASE Start
  <2>1. \A f \in Family, t \in Tables : ~IsRow(db[f][t])
    BY <1>2 DEF Start, ExactInv, MapExact
  <2>2. AliveRows = {}
    BY <2>1 DEF AliveRows, IsAlive
  <2>3. map' = [f \in EnabledFamilies |-> AllFree]
    BY <1>2, <2>2 DEF Start, Visited, BitsOf
  <2>4. UNCHANGED db /\ up' /\ reply' = NoReply
    BY <1>2 DEF Start
  <2>5. MapExact'
    BY <2>1, <2>3, <2>4 DEF MapExact, AllFree, IsRow
  <2> QED BY <2>4, <2>5 DEF RefusedOnlyWhenFull, NoReply
<1>3. ASSUME NEW f \in Family, NEW i \in Id, HandleReq(f, i)
      PROVE  (MapExact /\ RefusedOnlyWhenFull)'
  BY <1>3, ExactReq
<1>4. ASSUME NEW f \in Family, NEW i \in Id, HandleRelease(f, i)
      PROVE  (MapExact /\ RefusedOnlyWhenFull)'
  BY <1>4, ExactRelease
<1>5. CASE DeleteDeadLeases
  BY <1>5, ExactSweep
<1>6. CASE Crash \/ Reboot
  BY <1>6 DEF Crash, Reboot, ExactInv, Undisturbed
<1>7. CASE Tick
  BY <1>7 DEF Tick, ExactInv, MapExact, IsRow, RefusedOnlyWhenFull, NoReply
<1>8. CASE UNCHANGED vars
  BY <1>8 DEF vars, ExactInv, MapExact, IsRow, RefusedOnlyWhenFull
<1> QED
  BY <1>2, <1>3, <1>4, <1>5, <1>6, <1>7, <1>8 DEF Next

\* Initially there are no rows.
LEMMA ExactInit == Init => ExactInv
<1> SUFFICES ASSUME Init PROVE ExactInv
  OBVIOUS
<1>1. TypeInv
  BY TypeInit
<1>2. \A f \in Family, t \in Tables : db[f][t].id = None
  BY DEF Init, NoRow
<1>3. OneRowPerIdentity /\ MapExact
  BY <1>2, ServerAssumption DEF Init, OneRowPerIdentity, MapExact, IsRow
<1> QED
  BY <1>1, <1>3 DEF Init, ExactInv, RefusedOnlyWhenFull, NoReply

\* Without restarts and with queries that run to their end, a bit of the range
\* is busy only as long as its table has a row: handle_req gives back the bit of
\* an insert that fails, handle_release and the sweep flip the bit of every row
\* they delete.  (NoLeak; run ServerTables.)
THEOREM NoTableLeaks ==
    ASSUME Undisturbed
    PROVE  Spec => []NoLeak
<1>1. CASE NumTables >= WordBits
  <2>1. ExactInv => NoLeak
    BY DEF ExactInv, MapExact, NoLeak
  <2> QED
    BY <1>1, <2>1, ExactInit, ExactStep, PTL DEF Spec
<1>2. CASE NumTables < WordBits
  <2>1. Bits = {}
    BY <1>2, MapAssumption DEF Bits, num_table_elements
  <2>2. NoLeak
    BY <2>1 DEF NoLeak
  <2> QED BY <2>2, PTL
<1> QED BY <1>1, <1>2, MapAssumption

\* Under the same conditions handle_req refuses a request only when every
\* configured table has a row of another identity.  The bound on NumTables is
\* the code's: with fewer tables than a word has bits configure_rt_tables
\* allocates no word, and every request is refused.  (RefusedOnlyWhenFull; run
\* ServerTables.)
THEOREM RefusesOnlyWhenFull ==
    ASSUME Undisturbed, NumTables >= WordBits
    PROVE  Spec => []RefusedOnlyWhenFull
<1>1. ExactInv => RefusedOnlyWhenFull
  BY DEF ExactInv
<1> QED
  BY <1>1, ExactInit, ExactStep, PTL DEF Spec

-----------------------------------------------------------------------------
(* Across restarts the map and the database disagree, but on few tables.     *)
(* Every handler changes a bit together with its row, or makes them agree, so *)
(* a disagreement only ever comes from a start, which leaves the bits of dead *)
(* rows free, and an identity has one row.                                   *)

\* Of the database calls, those that would add disagreements do not fail.
QueriesWork == {"select", "select_dead", "delete_dead"} \cap Faults = {}

\* There are twice as many tables as identities, and a word of them.
TwiceTheTables ==
    /\ IsFiniteSet(Id)
    /\ NumTables >= 2 * Cardinality(Id) /\ NumTables >= WordBits

\* The tables whose bit is free although they have a row, or busy although
\* they have none: what LeakAfterRestart loses is among the latter.
Strays(f) == {t \in Tables : Index(t) \in map[f] <=> IsRow(db[f][t])}

\* A request of an enabled family is never refused.
NeverRefused == reply.type = "refused" => reply.family \notin EnabledFamilies

\* The inductive invariant of NeverRefused.
StrayInv ==
    /\ TypeInv /\ OneRowPerIdentity /\ NeverRefused
    /\ up => \A f \in EnabledFamilies : Cardinality(Strays(f)) <= Cardinality(Id)

\* The tables are finitely many.
LEMMA TablesFinite == IsFiniteSet(Tables) /\ Cardinality(Tables) = NumTables
<1>1. TableOffset \in Int /\ TableOffset + NumTables - 1 \in Int /\ NumTables \in Nat
  BY MapAssumption
<1>2. /\ IsFiniteSet(Tables)
      /\ Cardinality(Tables) = IF TableOffset > TableOffset + NumTables - 1 THEN 0
                               ELSE TableOffset + NumTables - 1 - TableOffset + 1
  BY <1>1, FS_Interval DEF Tables
<1> QED BY <1>1, <1>2, MapAssumption

\* Identities have no more rows than they are.
LEMMA RowsFew ==
    ASSUME IsFiniteSet(Id), TypeInv, OneRowPerIdentity,
           NEW f \in Family, NEW I \in SUBSET Id,
           NEW R \in SUBSET Tables, \A t \in R : db[f][t].id \in I
    PROVE  Cardinality(R) <= Cardinality(I)
<1> DEFINE g == [t \in R |-> db[f][t].id]
<1>1. IsFiniteSet(I) /\ IsFiniteSet(R)
  BY TablesFinite, FS_Subset
<1>2. g \in [R -> I]
  OBVIOUS
<1>3. \A t, u \in R : g[t] = g[u] => t = u
  BY DEF OneRowPerIdentity
<1>4. Cardinality(I) \in Nat /\ Cardinality(R) \in Nat
  BY <1>1, FS_CardinalityType
<1>5. ASSUME Cardinality(I) < Cardinality(R) PROVE FALSE
  <2> HIDE DEF g
  <2> QED BY <1>1, <1>2, <1>3, <1>5, FS_PigeonHole
<1> QED BY <1>4, <1>5

\* Fewer strays stay few.
LEMMA StraysFewer ==
    ASSUME NEW f, NEW S \in SUBSET Strays(f),
           Cardinality(Strays(f)) <= Cardinality(Id), IsFiniteSet(Id)
    PROVE  Cardinality(S) <= Cardinality(Id)
<1>1. IsFiniteSet(Strays(f))
  BY TablesFinite, FS_Subset DEF Strays
<1>2. Cardinality(S) <= Cardinality(Strays(f)) /\ IsFiniteSet(S)
  BY <1>1, FS_Subset
<1>3. /\ Cardinality(S) \in Nat /\ Cardinality(Strays(f)) \in Nat
      /\ Cardinality(Id) \in Nat
  BY <1>1, <1>2, FS_CardinalityType
<1> QED BY <1>2, <1>3

\* An identity without a row finds a free table.
LEMMA FreeTable ==
    ASSUME TwiceTheTables, StrayInv, up, NEW f \in EnabledFamilies,
           NEW i \in Id, RowsOf(f, i) = {}
    PROVE  \E t \in Tables : Index(t) \in map[f]
<1> SUFFICES ASSUME \A t \in Tables : Index(t) \notin map[f]
             PROVE  FALSE
  OBVIOUS
<1> DEFINE R == {t \in Tables : IsRow(db[f][t])}
<1>0. f \in Family /\ TypeInv /\ OneRowPerIdentity /\ IsFiniteSet(Id)
      /\ db \in [Family -> [Tables -> Row]]
  BY ServerAssumption DEF StrayInv, TypeInv, TypeOK, TwiceTheTables
<1>1. \A t \in R : db[f][t].id \in Id \ {i}
  BY <1>0 DEF RowsOf, Row, IsRow
<1>2. Cardinality(R) <= Cardinality(Id \ {i})
  BY <1>0, <1>1, RowsFew
<1>3. IsFiniteSet(Id \ {i}) /\ Cardinality(Id \ {i}) = Cardinality(Id) - 1
  BY <1>0, FS_RemoveElement
<1>4. Tables \subseteq R \cup Strays(f)
  BY DEF Strays
<1>5. IsFiniteSet(R) /\ IsFiniteSet(Strays(f))
  BY TablesFinite, FS_Subset DEF Strays
<1>6. Cardinality(Strays(f)) <= Cardinality(Id)
  BY DEF StrayInv
<1> HIDE DEF R
<1>7. /\ IsFiniteSet(R \cup Strays(f))
      /\ Cardinality(R \cup Strays(f)) =
            Cardinality(R) + Cardinality(Strays(f))
               - Cardinality(R \cap Strays(f))
  BY <1>5, FS_Union
<1>8. Cardinality(Tables) <= Cardinality(R \cup Strays(f))
  BY <1>4, <1>7, FS_Subset
<1>9. /\ Cardinality(R) \in Nat /\ Cardinality(Strays(f)) \in Nat
      /\ Cardinality(R \cap Strays(f)) \in Nat /\ Cardinality(Id) \in Nat
  <2>1. IsFiniteSet(R \cap Strays(f))
    BY <1>5, FS_Subset
  <2> QED BY <1>0, <1>5, <2>1, FS_CardinalityType
<1> QED
  BY <1>2, <1>3, <1>6, <1>7, <1>8, <1>9, TablesFinite, MapAssumption
     DEF TwiceTheTables

\* A step that makes no new stray of f.
LEMMA StrayKept ==
    ASSUME StrayInv, IsFiniteSet(Id), up, NEW f \in EnabledFamilies,
           \A t \in Tables : t \in Strays(f)' => t \in Strays(f)
    PROVE  Cardinality(Strays(f)') <= Cardinality(Id)
<1>1. Strays(f)' \in SUBSET Strays(f)
  BY DEF Strays
<1>2. Cardinality(Strays(f)) <= Cardinality(Id)
  BY DEF StrayInv
<1> QED BY <1>1, <1>2, StraysFewer

\* A request makes no stray, and is not refused.
LEMMA StrayReq ==
    ASSUME QueriesWork, TwiceTheTables, StrayInv,
           NEW f \in Family, NEW i \in Id, HandleReq(f, i)
    PROVE  /\ NeverRefused'
           /\ \A g \in EnabledFamilies, u \in Tables :
                 u \in Strays(g)' => u \in Strays(g)
<1> USE MapAssumption, ServerAssumption
<1>a. /\ map \in [EnabledFamilies -> SUBSET Bits] /\ up
      /\ db \in [Family -> [Tables -> Row]]
  BY DEF StrayInv, TypeInv, TypeOK, HandleReq
<1>1. CASE f \notin EnabledFamilies
  <2>1. UNCHANGED <<map, db>> /\ reply'.family = f
    BY <1>1 DEF HandleReq, Refuse, NoAnswer
  <2> QED BY <1>1, <2>1 DEF NeverRefused, Strays, IsRow
<1>2. ASSUME f \in EnabledFamilies,
             NEW t \in get_table(f, i), t # 0, Reallocate(f, i, t)
      PROVE  /\ NeverRefused'
             /\ \A g \in EnabledFamilies, u \in Tables :
                   u \in Strays(g)' => u \in Strays(g)
  <2>1. t \in Tables /\ IsRow(db[f][t])
    BY <1>2, GetTable DEF IsRow
  <2>2. Index(t) \in Bits
    BY <2>1 DEF StrayInv, TypeInv, RowsInMap
  <2>3. map' = [map EXCEPT ![f] = @ \ {Index(t)}]
    BY <1>2, <1>a, <2>2 DEF Reallocate, is_table_free, set_table, Toggle
  <2>4. \A g \in Family, u \in Tables : db'[g][u].id = db[g][u].id
    BY <1>2, <1>a, <2>1 DEF Reallocate, update_lease
  <2>5. NeverRefused'
    BY <1>2 DEF Reallocate, Grant, Fail, NoAnswer, NeverRefused
  <2>6. ASSUME NEW g \in EnabledFamilies, NEW u \in Tables, u \in Strays(g)'
        PROVE  u \in Strays(g)
    <3>1. CASE g = f /\ u = t
      BY <1>a, <2>1, <2>3, <2>4, <2>6, <3>1 DEF Strays, IsRow
    <3>2. CASE g = f /\ u # t
      <4>1. Index(u) # Index(t)
        BY <2>1, <3>2, IndexInjective
      <4> QED BY <1>a, <2>3, <2>4, <2>6, <3>2, <4>1 DEF Strays, IsRow
    <3>3. CASE g # f
      BY <1>a, <2>3, <2>4, <2>6, <3>3 DEF Strays, IsRow
    <3> QED BY <3>1, <3>2, <3>3
  <2> QED BY <2>5, <2>6
<1>3. ASSUME f \in EnabledFamilies, 0 \in get_table(f, i), AllocateNew(f, i)
      PROVE  /\ NeverRefused'
             /\ \A g \in EnabledFamilies, u \in Tables :
                   u \in Strays(g)' => u \in Strays(g)
  <2>1. RowsOf(f, i) = {}
    BY <1>3, NewOnlyWithoutRow DEF QueriesWork
  <2>2. PICK t \in Tables : Index(t) \in map[f]
    BY <1>a, <1>3, <2>1, FreeTable
  <2>3. PICK b \in map[f] : LowestFree(map[f], b) /\ AllocateTable(f, i, b)
    BY <1>3, <2>2 DEF AllocateNew, Exhausted
  <2>4. b \in Bits /\ InRange(b)
    <3>1. b <= Index(t) /\ b \in Bits
      BY <1>3, <1>a, <2>2, <2>3 DEF LowestFree
    <3>2. Index(t) \in 0 .. NumTables - 1
      BY TableInRange
    <3> QED BY <3>1, <3>2 DEF InRange, Bits
  <2>5. TableOf(b) \in Tables /\ Index(TableOf(b)) = b
    BY <2>4, AllocatedTable
  <2>6. CASE /\ map' = [map EXCEPT ![f] = @ \ {b}]
             /\ insert_table(f, i, TableOf(b)) /\ Grant(f, i, TableOf(b))
    <3>1. \A g \in Family, u \in Tables :
             db'[g][u].id = IF g = f /\ u = TableOf(b) THEN i ELSE db[g][u].id
      BY <1>a, <2>5, <2>6 DEF insert_table
    <3>2. NeverRefused'
      BY <2>6 DEF Grant, NeverRefused
    <3>3. ASSUME NEW g \in EnabledFamilies, NEW u \in Tables, u \in Strays(g)'
          PROVE  u \in Strays(g)
      <4>1. CASE g = f /\ u = TableOf(b)
        BY <1>a, <2>5, <2>6, <3>1, <3>3, <4>1 DEF Strays, IsRow
      <4>2. CASE g = f /\ u # TableOf(b)
        <5>1. Index(u) # b
          BY <2>5, <4>2, IndexInjective
        <5> QED BY <1>a, <2>6, <3>1, <3>3, <4>2, <5>1 DEF Strays, IsRow
      <4>3. CASE g # f
        BY <1>a, <2>6, <3>1, <3>3, <4>3 DEF Strays, IsRow
      <4> QED BY <4>1, <4>2, <4>3
    <3> QED BY <3>2, <3>3
  <2>7. CASE /\ map' = [map EXCEPT ![f] = release_table(@ \ {b}, TableOf(b))]
             /\ UNCHANGED db /\ Fail(f, i)
    <3>1. release_table(map[f] \ {b}, TableOf(b)) = map[f]
      BY <2>3, <2>5 DEF release_table, Toggle
    <3>2. map' = map
      BY <1>3, <1>a, <2>7, <3>1
    <3> QED BY <2>7, <3>2 DEF Fail, NoAnswer, NeverRefused, Strays, IsRow
  <2> QED BY <2>3, <2>4, <2>6, <2>7 DEF AllocateTable
<1> QED BY <1>1, <1>2, <1>3 DEF HandleReq

\* A release flips the bit whose row it deletes: a stray stays one.
LEMMA StrayRelease ==
    ASSUME StrayInv, NEW f \in Family, NEW i \in Id, HandleRelease(f, i),
           NEW g \in EnabledFamilies, NEW u \in Tables, u \in Strays(g)'
    PROVE  u \in Strays(g)
<1> USE MapAssumption, ServerAssumption
<1>a. /\ map \in [EnabledFamilies -> SUBSET Bits]
      /\ db \in [Family -> [Tables -> Row]]
  BY DEF StrayInv, TypeInv, TypeOK
<1>1. CASE UNCHANGED <<map, db>>
  BY <1>1 DEF Strays, IsRow
<1>2. ASSUME NEW t \in get_table(f, i), t # 0, ReleaseRow(f, i, t)
      PROVE  u \in Strays(g)
  <2>1. t \in Tables /\ db[f][t].id = i /\ IsRow(db[f][t])
    BY <1>2, GetTable DEF IsRow
  <2>2. f \in EnabledFamilies
    BY <2>1 DEF StrayInv, TypeInv, RowsInMap
  <2>3. map' = [map EXCEPT ![f] = Toggle(@, Index(t))]
    BY <1>2 DEF ReleaseRow, release_table
  <2>4. \A h \in Family, v \in Tables :
           db'[h][v].id = IF h = f /\ db[h][v].id = i THEN None
                          ELSE db[h][v].id
    BY <1>2, <1>a DEF ReleaseRow, remove_table, NoRow
  <2>5. \A v \in Tables : db[f][v].id = i <=> v = t
    BY <2>1 DEF StrayInv, OneRowPerIdentity
  <2>6. CASE g = f /\ u = t
    BY <1>a, <2>1, <2>2, <2>3, <2>4, <2>6 DEF Strays, IsRow, Toggle
  <2>7. CASE g = f /\ u # t
    <3>1. Index(u) # Index(t)
      BY <2>1, <2>7, IndexInjective
    <3>2. Index(u) \in map'[f] <=> Index(u) \in map[f]
      BY <1>a, <2>2, <2>3, <3>1 DEF Toggle
    <3> QED BY <2>4, <2>5, <2>7, <3>2 DEF Strays, IsRow
  <2>8. CASE g # f
    BY <1>a, <2>3, <2>4, <2>8 DEF Strays, IsRow
  <2> QED BY <2>6, <2>7, <2>8
<1> QED BY <1>1, <1>2 DEF HandleRelease

\* The sweep frees the bits of the rows it deletes.
LEMMA StraySweep ==
    ASSUME QueriesWork, StrayInv, DeleteDeadLeases,
           NEW g \in EnabledFamilies, NEW u \in Tables, u \in Strays(g)'
    PROVE  u \in Strays(g)
<1> USE MapAssumption, ServerAssumption
<1>1. /\ map' = [f \in EnabledFamilies |-> map[f] \cup BitsOf(DeadRows, f)]
      /\ DeleteRows
  BY DEF DeleteDeadLeases, Visited, QueriesWork
<1>2. Index(u) \in BitsOf(DeadRows, g) <=> IsDead(db[g][u])
  <2>1. ASSUME IsDead(db[g][u]) PROVE Index(u) \in BitsOf(DeadRows, g)
    <3>1. <<g, u>> \in {r \in DeadRows : r[1] = g}
      BY <2>1 DEF DeadRows
    <3> QED BY <3>1 DEF BitsOf
  <2>2. ASSUME Index(u) \in BitsOf(DeadRows, g) PROVE IsDead(db[g][u])
    <3>1. PICK k \in DeadRows : k[1] = g /\ Index(k[2]) = Index(u)
      BY <2>2 DEF BitsOf
    <3>2. k[2] \in Tables /\ IsDead(db[k[1]][k[2]])
      BY DEF DeadRows
    <3>3. k[2] = u
      BY <3>1, <3>2, IndexInjective
    <3> QED BY <3>1, <3>2, <3>3
  <2> QED BY <2>1, <2>2
<1>3. IsRow(db'[g][u]) <=> IsRow(db[g][u]) /\ ~IsDead(db[g][u])
  BY <1>1 DEF DeleteRows, IsRow, NoRow
<1>4. Index(u) \in map'[g] <=> Index(u) \in map[g] \/ IsDead(db[g][u])
  BY <1>1, <1>2
<1> QED BY <1>3, <1>4 DEF Strays, IsDead

\* After a start only tables with rows are strays.
LEMMA StrayStart ==
    ASSUME TwiceTheTables, StrayInv, Start, NEW f \in EnabledFamilies
    PROVE  Cardinality(Strays(f)') <= Cardinality(Id)
<1> USE MapAssumption, ServerAssumption
<1>1. PICK visited \in SUBSET AliveRows :
          map' = [g \in EnabledFamilies |-> AllFree \ BitsOf(visited, g)]
  BY DEF Start, Visited
<1>2. UNCHANGED db /\ db \in [Family -> [Tables -> Row]] /\ f \in Family
  BY DEF Start, StrayInv, TypeInv, TypeOK
<1>3. ASSUME NEW t \in Tables, t \in Strays(f)' PROVE db[f][t].id \in Id
  <2>1. CASE ~IsRow(db[f][t])
    <3>1. Index(t) \in AllFree
      BY EveryTableHasBit DEF TwiceTheTables, AllFree
    <3>2. Index(t) \notin BitsOf(visited, f)
      <4> SUFFICES ASSUME Index(t) \in BitsOf(visited, f) PROVE FALSE
        OBVIOUS
      <4>1. PICK k \in visited : k[1] = f /\ Index(k[2]) = Index(t)
        BY DEF BitsOf
      <4>2. k[2] \in Tables /\ IsRow(db[k[1]][k[2]])
        BY <1>1 DEF AliveRows, IsAlive
      <4>3. k[2] = t
        BY <4>1, <4>2, IndexInjective
      <4> QED BY <2>1, <4>1, <4>2, <4>3
    <3> QED BY <1>1, <1>2, <1>3, <2>1, <3>1, <3>2 DEF Strays, IsRow
  <2>2. CASE IsRow(db[f][t])
    BY <1>2, <2>2 DEF IsRow, Row
  <2> QED BY <2>1, <2>2
<1>4. Strays(f)' \in SUBSET Tables
  BY DEF Strays
<1> QED
  BY <1>2, <1>3, <1>4, RowsFew DEF StrayInv, TwiceTheTables

\* Every step keeps StrayInv.
LEMMA StrayStep ==
    ASSUME QueriesWork, TwiceTheTables
    PROVE  StrayInv /\ [Next]_vars => StrayInv'
<1> SUFFICES ASSUME StrayInv, [Next]_vars PROVE StrayInv'
  OBVIOUS
<1> USE MapAssumption, ServerAssumption
<1>0. TypeInv' /\ OneRowPerIdentity' /\ IsFiniteSet(Id)
  BY TypeStep, OneRowStep DEF StrayInv, QueriesWork, TwiceTheTables
<1>1. SUFFICES /\ NeverRefused'
               /\ up' => \A f \in EnabledFamilies :
                            Cardinality(Strays(f)') <= Cardinality(Id)
  BY <1>0 DEF StrayInv
<1>2. CASE Start
  BY <1>2, StrayStart DEF Start, NeverRefused, NoReply
<1>3. ASSUME NEW f \in Family, NEW i \in Id, HandleReq(f, i)
      PROVE  /\ NeverRefused' /\ \A g \in EnabledFamilies :
                            Cardinality(Strays(g)') <= Cardinality(Id)
  BY <1>0, <1>3, StrayReq, StrayKept DEF HandleReq
<1>4. ASSUME NEW f \in Family, NEW i \in Id, HandleRelease(f, i)
      PROVE  /\ NeverRefused' /\ \A g \in EnabledFamilies :
                            Cardinality(Strays(g)') <= Cardinality(Id)
  <2>1. reply'.type # "refused" /\ up
    BY <1>4 DEF HandleRelease, ReleaseRow
  <2> QED BY <1>0, <1>4, <2>1, StrayRelease, StrayKept DEF NeverRefused
<1>5. CASE DeleteDeadLeases
  <2>1. reply' = NoReply /\ up
    BY <1>5 DEF DeleteDeadLeases
  <2> QED BY <1>0, <1>5, <2>1, StraySweep, StrayKept DEF NeverRefused, NoReply
<1>6. CASE Crash \/ Reboot
  BY <1>6 DEF Crash, Reboot, NeverRefused, NoReply
<1>7. CASE Tick
  <2>1. UNCHANGED <<map, db, up>> /\ reply' = NoReply
    BY <1>7 DEF Tick
  <2>2. \A f : Strays(f)' = Strays(f)
    BY <2>1 DEF Strays, IsRow
  <2> QED BY <2>1, <2>2 DEF StrayInv, NeverRefused, NoReply
<1>8. CASE UNCHANGED vars
  <2>1. UNCHANGED <<map, db, up, reply>>
    BY <1>8 DEF vars
  <2>2. \A f : Strays(f)' = Strays(f)
    BY <2>1 DEF Strays, IsRow
  <2> QED BY <2>1, <2>2 DEF StrayInv, NeverRefused
<1> QED
  BY <1>2, <1>3, <1>4, <1>5, <1>6, <1>7, <1>8 DEF Next

\* Initially the server does not run.
LEMMA StrayInit == Init => StrayInv
<1> SUFFICES ASSUME Init PROVE StrayInv
  OBVIOUS
<1>1. TypeInv /\ OneRowPerIdentity
  BY ServiceInit DEF ServiceInv, SafeInv
<1> QED BY <1>1 DEF Init, StrayInv, NeverRefused, NoReply

\* Twice as many tables as identities are enough: however often the server
\* crashes, is rebooted, and loses tables to releases of dead leases (the run
\* LeakAfterRestart), a request is not refused.  Also when inserts, updates,
\* deletes and the startup query fail.  (README: "If there are tables
\* available, the server will reply".)
THEOREM TwiceIsEnough ==
    ASSUME QueriesWork, TwiceTheTables
    PROVE  Spec => []NeverRefused
<1>1. StrayInv => NeverRefused
  BY DEF StrayInv
<1> QED
  BY <1>1, StrayInit, StrayStep, PTL DEF Spec
=============================================================================
