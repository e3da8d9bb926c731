----------------------- MODULE AllocatorSystemProofs -----------------------
(***************************************************************************)
(* Proofs about AllocatorSystem, for every set of clients and addresses,   *)
(* every configuration of the server, and all its bounds.                  *)
(*                                                                         *)
(* The components' proofs are used as they stand: the theorems of          *)
(* TableServerProofs and TableClientProofs, instantiated the way           *)
(* AllocatorSystem instantiates their components.  The last part shows     *)
(* that what the clients believe implements LeaseService.                  *)
(***************************************************************************)
EXTENDS AllocatorSystem, SequenceTheorems, FiniteSetTheorems, TLAPS

\* The components' proofs, with the constants of Server and Client.
SP == INSTANCE TableServerProofs WITH
          Family <- {Inet}, EnabledFamilies <- {Inet},
          Faults <- {}, LastEvent <- MaxNow, MaxReboots <- 0
CP == INSTANCE TableClientProofs WITH
          V4 <- Id, Offered <- [i \in Id |-> Tables], Prompt <- TRUE,
          ClientFaults <- {}, LastEvent <- MaxNow

-----------------------------------------------------------------------------
(* The components' assumptions hold, and the proofs' operators are those of *)
(* the components.                                                          *)

\* What the components assume of their constants holds.
LEMMA ComponentAssumptions ==
    /\ SP!MapAssumption /\ SP!ServerAssumption
    /\ CP!ClientAssumption
<1>1. SP!MapAssumption /\ SP!ServerAssumption
  BY SystemAssumption DEF SP!FaultPoints
<1>2. [i \in Id |-> Tables] \in [Id -> SUBSET (Nat \ {0})]
  BY SystemAssumption DEF Tables
<1>3. CP!ClientAssumption
  BY <1>2, SystemAssumption
<1> QED BY <1>1, <1>3

\* The server's operators.
LEMMA SameServer ==
    /\ Server!Init <=> SP!Init
    /\ \A f \in {Inet}, i \in Id :
          /\ Server!HandleReq(f, i) <=> SP!HandleReq(f, i)
          /\ Server!HandleRelease(f, i) <=> SP!HandleRelease(f, i)
    /\ Server!DeleteDeadLeases <=> SP!DeleteDeadLeases
    /\ Server!Start <=> SP!Start
    /\ Server!Crash <=> SP!Crash
    /\ Server!Tick <=> SP!Tick
    /\ Server!vars = SP!vars
    /\ Server!TypeOK <=> SP!TypeOK
    /\ Server!TypeOK' <=> SP!TypeOK'
<1>1. Server!Init <=> SP!Init
  BY DEF Server!Init, Server!NoMap, Server!NoRow, Server!NoReply,
         Server!NoLease, Server!Tables, SP!Init, SP!NoMap, SP!NoRow,
         SP!NoReply, SP!NoLease, SP!Tables
<1>2. \A f \in {Inet}, i \in Id :
         Server!HandleReq(f, i) <=> SP!HandleReq(f, i)
  BY DEF Server!HandleReq, Server!get_table, Server!Reallocate,
         Server!AllocateNew, Server!Exhausted, Server!AllocateTable,
         Server!Refuse, Server!Fail, Server!Grant, Server!NoAnswer,
         Server!RowsOf, Server!insert_table, Server!update_lease,
         Server!is_table_free, Server!set_table, Server!release_table,
         Server!Toggle, Server!LowestFree, Server!InRange, Server!TableOf,
         Server!Bits, Server!num_table_elements, Server!Tables, Server!Index,
         SP!HandleReq, SP!get_table, SP!Reallocate, SP!AllocateNew,
         SP!Exhausted, SP!AllocateTable, SP!Refuse, SP!Fail, SP!Grant,
         SP!NoAnswer, SP!RowsOf, SP!insert_table, SP!update_lease,
         SP!is_table_free, SP!set_table, SP!release_table, SP!Toggle,
         SP!LowestFree, SP!InRange, SP!TableOf, SP!Bits,
         SP!num_table_elements, SP!Tables, SP!Index
<1>3. \A f \in {Inet}, i \in Id :
         Server!HandleRelease(f, i) <=> SP!HandleRelease(f, i)
  BY DEF Server!HandleRelease, Server!get_table, Server!RowsOf,
         Server!ReleaseRow, Server!remove_table, Server!release_table,
         Server!Toggle, Server!NoRow, Server!NoLease, Server!Tables,
         Server!Index, SP!HandleRelease, SP!get_table, SP!RowsOf,
         SP!ReleaseRow, SP!remove_table, SP!release_table, SP!Toggle,
         SP!NoRow, SP!NoLease, SP!Tables, SP!Index
<1>4. Server!DeleteDeadLeases <=> SP!DeleteDeadLeases
  BY DEF Server!DeleteDeadLeases, Server!Visited, Server!DeadRows,
         Server!IsDead, Server!IsRow, Server!BitsOf, Server!DeleteRows,
         Server!NoRow, Server!NoReply, Server!Tables, Server!Index,
         SP!DeleteDeadLeases, SP!Visited, SP!DeadRows, SP!IsDead, SP!IsRow,
         SP!BitsOf, SP!DeleteRows, SP!NoRow, SP!NoReply, SP!Tables, SP!Index
<1>5. Server!Start <=> SP!Start
  BY DEF Server!Start, Server!Visited, Server!AliveRows, Server!IsAlive,
         Server!IsRow, Server!BitsOf, Server!AllFree, Server!NoReply,
         Server!Bits, Server!num_table_elements, Server!Tables, Server!Index,
         SP!Start, SP!Visited, SP!AliveRows, SP!IsAlive, SP!IsRow, SP!BitsOf,
         SP!AllFree, SP!NoReply, SP!Bits, SP!num_table_elements, SP!Tables,
         SP!Index
<1>6. (Server!Crash <=> SP!Crash) /\ (Server!Tick <=> SP!Tick)
  BY DEF Server!Crash, Server!Tick, Server!NoMap, Server!NoReply, SP!Crash,
         SP!Tick, SP!NoMap, SP!NoReply
<1>7. Server!vars = SP!vars
  BY DEF Server!vars, SP!vars
<1>8. (Server!TypeOK <=> SP!TypeOK) /\ (Server!TypeOK' <=> SP!TypeOK')
  BY DEF Server!TypeOK, Server!Bits, Server!num_table_elements, Server!Tables,
         Server!Row, Server!Reply, Server!Lease, SP!TypeOK, SP!Bits,
         SP!num_table_elements, SP!Tables, SP!Row, SP!Reply, SP!Lease
<1> QED BY <1>1, <1>2, <1>3, <1>4, <1>5, <1>6, <1>7, <1>8

\* The client's operators.
LEMMA SameClient ==
    /\ Client!Init <=> CP!Init
    /\ \A p \in Proc :
          /\ Client!Launch(p) <=> CP!Launch(p)
          /\ Client!SocketTimeout(p) <=> CP!SocketTimeout(p)
          /\ Client!RequestTimeout(p) <=> CP!RequestTimeout(p)
          /\ Client!Receive(p) <=> CP!Receive(p)
          /\ Client!AddressRemoved(p) <=> CP!AddressRemoved(p)
    /\ Client!Serve <=> CP!Serve
    /\ Client!ServerGone <=> CP!ServerGone
    /\ Client!Tick <=> CP!Tick
    /\ Client!vars = CP!vars
    /\ Client!TypeOK <=> CP!TypeOK
    /\ Client!TypeOK' <=> CP!TypeOK'
<1>1. Client!Init <=> CP!Init
  BY DEF Client!Init, Client!Fresh, Client!NoTimer, Client!NoOutput, CP!Init,
         CP!Fresh, CP!NoTimer, CP!NoOutput
<1>2. \A p \in Proc : Client!Launch(p) <=> CP!Launch(p)
  BY DEF Client!Launch, Client!Running, Client!Fresh, Client!NoTimer,
         Client!NoOutput, CP!Launch, CP!Running, CP!Fresh, CP!NoTimer,
         CP!NoOutput
<1>3. \A p \in Proc : Client!SocketTimeout(p) <=> CP!SocketTimeout(p)
  BY DEF Client!SocketTimeout, Client!Running, Client!AddressFree,
         Client!Armed, Client!CountSent, Client!Queue, CP!SocketTimeout,
         CP!Running, CP!AddressFree, CP!Armed, CP!CountSent, CP!Queue
<1>4. \A p \in Proc : Client!RequestTimeout(p) <=> CP!RequestTimeout(p)
  BY DEF Client!RequestTimeout, Client!Running, Client!BelowLimit,
         Client!Armed, Client!Counted, Client!CountSent, Client!Queue,
         Client!GiveUp, Client!Exited, Client!NoTimer, CP!RequestTimeout,
         CP!Running, CP!BelowLimit, CP!Armed, CP!Counted, CP!CountSent,
         CP!Queue, CP!GiveUp, CP!Exited, CP!NoTimer
<1>5. \A p \in Proc : Client!Receive(p) <=> CP!Receive(p)
  BY DEF Client!Receive, Client!Running, Client!ReceiveNoTable,
         Client!ReceiveLease, Client!ReceiveLeaseNoNetlink, Client!NewRules,
         Client!WithLease, Client!KindsSent, Client!Kinds, Client!AllSent,
         Client!Cardinality, Client!RuleOf, Client!Printed, Client!Exited,
         Client!Armed, Client!NoTimer, CP!Receive, CP!Running,
         CP!ReceiveNoTable, CP!ReceiveLease, CP!ReceiveLeaseNoNetlink,
         CP!NewRules, CP!WithLease, CP!KindsSent, CP!Kinds, CP!AllSent,
         CP!Cardinality, CP!RuleOf, CP!Printed, CP!Exited, CP!Armed,
         CP!NoTimer
<1>6. \A p \in Proc : Client!AddressRemoved(p) <=> CP!AddressRemoved(p)
  BY DEF Client!AddressRemoved, Client!Running, Client!DeleteRules,
         Client!KindsSent, Client!Kinds, Client!Deletions, Client!Cardinality,
         Client!Matches, Client!RuleOf, Client!Queue, Client!Exited,
         Client!NoTimer, CP!AddressRemoved, CP!Running, CP!DeleteRules,
         CP!KindsSent, CP!Kinds, CP!Deletions, CP!Cardinality, CP!Matches,
         CP!RuleOf, CP!Queue, CP!Exited, CP!NoTimer
<1>7. /\ Client!Serve <=> CP!Serve
      /\ Client!ServerGone <=> CP!ServerGone
      /\ Client!Tick <=> CP!Tick
      /\ Client!vars = CP!vars
  BY DEF Client!Serve, Client!Deliver, Client!ServerGone, Client!Tick,
         Client!Due, Client!Running, Client!AddressFree, Client!clientVars,
         Client!vars, CP!Serve, CP!Deliver, CP!ServerGone, CP!Tick, CP!Due,
         CP!Running, CP!AddressFree, CP!clientVars, CP!vars
<1>8. (Client!TypeOK <=> CP!TypeOK) /\ (Client!TypeOK' <=> CP!TypeOK')
  BY DEF Client!TypeOK, Client!Ctx, Client!Rule, CP!TypeOK, CP!Ctx, CP!Rule
<1> QED BY <1>1, <1>2, <1>3, <1>4, <1>5, <1>6, <1>7, <1>8

-----------------------------------------------------------------------------
(* Every step of the host is a step of the server and one of the client, or  *)
(* leaves it alone.                                                          *)

\* The components' types and the invariants these rest on.
PartsInv == SP!TypeInv /\ CP!CountInv

\* The datagram at the head of the queue.
LEMMA HeadType ==
    ASSUME PartsInv, toServer # <<>>
    PROVE  /\ Head(toServer).cmd \in {"REQ", "REL"} /\ Head(toServer).id \in Id
           /\ toServer \in Seq([cmd : {"REQ", "REL"}, id : Id])
<1>1. toServer \in Seq([cmd : {"REQ", "REL"}, id : Id])
  BY DEF PartsInv, CP!CountInv, CP!TypeOK
<1>2. Head(toServer) \in [cmd : {"REQ", "REL"}, id : Id]
  BY <1>1, HeadTailProperties
<1> QED BY <1>1, <1>2

\* What handle_req leaves: a lease of a configured table from now on, or no
\* answer.
LEMMA RequestAnswer ==
    ASSUME PartsInv, NEW i \in Id, Server!HandleReq(Inet, i)
    PROVE  \/ reply'.type \in {"refused", "failed"}
           \/ /\ reply'.type = "granted"
              /\ \E t \in Tables : granted'[Inet][i] =
                     [table |-> t, expires |-> now + TableTimeout]
<1> USE ComponentAssumptions
<1>0. /\ SP!HandleReq(Inet, i)
      /\ map \in [{Inet} -> SUBSET SP!Bits]
      /\ granted \in [{Inet} -> [Id -> SP!Lease]]
  BY SameServer DEF PartsInv, SP!TypeInv, SP!TypeOK
<1>1. ASSUME NEW t \in Tables, SP!Grant(Inet, i, t)
      PROVE  /\ reply'.type = "granted"
             /\ granted'[Inet][i] = [table |-> t, expires |-> now + TableTimeout]
  BY <1>0, <1>1 DEF SP!Grant
<1>2. CASE SP!Refuse(Inet, i) \/ SP!Fail(Inet, i)
  BY <1>2 DEF SP!Refuse, SP!Fail, SP!NoAnswer
<1>3. ASSUME NEW t \in SP!get_table(Inet, i), t # 0, SP!Reallocate(Inet, i, t),
             ~(SP!Refuse(Inet, i) \/ SP!Fail(Inet, i))
      PROVE  t \in Tables /\ SP!Grant(Inet, i, t)
  <2>1. t \in SP!Tables
    BY <1>3, SP!GetTable
  <2> QED BY <1>3, <2>1 DEF SP!Reallocate, SP!Tables, Tables
<1>4. ASSUME SP!AllocateNew(Inet, i),
             ~(SP!Refuse(Inet, i) \/ SP!Fail(Inet, i))
      PROVE  \E t \in Tables : SP!Grant(Inet, i, t)
  <2>1. PICK b \in map[Inet] : SP!InRange(b) /\ SP!Grant(Inet, i, SP!TableOf(b))
    BY <1>4 DEF SP!AllocateNew, SP!Exhausted, SP!AllocateTable
  <2>2. b \in SP!Bits
    BY <1>0, <2>1
  <2>3. SP!TableOf(b) \in SP!Tables
    BY <2>1, <2>2, SP!AllocatedTable
  <2> QED BY <2>1, <2>3 DEF SP!Tables, Tables
<1> QED
  BY <1>0, <1>1, <1>2, <1>3, <1>4 DEF SP!HandleReq

\* What handle_release leaves.
LEMMA ReleaseAnswer ==
    ASSUME NEW i \in Id, Server!HandleRelease(Inet, i)
    PROVE  reply'.type \in {"released", "failed"}
BY DEF Server!HandleRelease, Server!ReleaseRow

\* A step of the host is a step of the server.
LEMMA ServerStep ==
    ASSUME PartsInv, [Next]_vars
    PROVE  [SP!Next]_(SP!vars)
<1>1. CASE HandleDatagram
  <2> DEFINE i == Head(toServer).id
  <2>1. i \in Id
    BY <1>1, HeadType DEF HandleDatagram
  <2>2. Server!HandleReq(Inet, i) \/ Server!HandleRelease(Inet, i)
    BY <1>1 DEF HandleDatagram
  <2> HIDE DEF i
  <2> QED BY <2>1, <2>2, SameServer DEF SP!Next
<1>2. CASE Sweep
  BY <1>2, SameServer DEF Sweep, SP!Next
<1>3. CASE StartServer
  BY <1>3, SameServer DEF StartServer, SP!Next
<1>4. CASE CrashServer
  BY <1>4, SameServer DEF CrashServer, SP!Next
<1>5. CASE Tick
  BY <1>5, SameServer DEF Tick, SP!Next
<1>6. CASE UNCHANGED serverVars /\ UNCHANGED now
  BY <1>6 DEF serverVars, SP!vars
<1>7. ASSUME NEW p \in Proc, ClientStep(p) \/ HookStep(p)
      PROVE  UNCHANGED serverVars /\ UNCHANGED now
  <2>1. CASE ClientTimeout(p)
    BY <2>1 DEF ClientTimeout, Client!SocketTimeout, Client!RequestTimeout
  <2>2. CASE ClientReceive(p)
    BY <2>2 DEF ClientReceive, Client!Receive
  <2>3. CASE ClientAddressRemoved(p)
    BY <2>3 DEF ClientAddressRemoved, Client!AddressRemoved
  <2>4. CASE HookAddAddress(p)
    BY <2>4 DEF HookAddAddress
  <2>5. CASE HookStartClient(p)
    BY <2>5 DEF HookStartClient, Client!Launch
  <2>6. CASE HookConfigure(p)
    BY <2>6 DEF HookConfigure
  <2> QED BY <1>7, <2>1, <2>2, <2>3, <2>4, <2>5, <2>6 DEF ClientStep, HookStep
<1>8. ASSUME NEW i \in Id, AddressGone(i)
      PROVE  UNCHANGED serverVars /\ UNCHANGED now
  BY <1>8 DEF AddressGone
<1>9. CASE UNCHANGED vars
  BY <1>9, <1>6 DEF vars
<1> QED
  BY <1>1, <1>2, <1>3, <1>4, <1>5, <1>6, <1>7, <1>8, <1>9 DEF Next

\* The server at the other end of the socket is one of those that TableClient
\* allows.
LEMMA AnswerIsServed ==
    ASSUME PartsInv, HandleDatagram
    PROVE  Client!Serve
<1> DEFINE m == Head(toServer)
<1>1. m.cmd \in {"REQ", "REL"} /\ m.id \in Id /\ toServer # <<>>
  BY HeadType DEF HandleDatagram
<1>2. /\ toServer' = Tail(toServer)
      /\ UNCHANGED <<ctx, rules, now, sent, launches>>
  BY DEF HandleDatagram, Server!HandleReq, Server!HandleRelease
<1>3. Answer(Inet, m.id)
  BY DEF HandleDatagram
<1>4. CASE m.cmd = "REQ" /\ Server!HandleReq(Inet, m.id)
  <2>1. CASE reply'.type \in {"refused", "failed"}
    BY <1>1, <1>2, <1>3, <2>1 DEF Answer, Client!Serve
  <2>2. ASSUME NEW t \in Tables, reply'.type = "granted",
               granted'[Inet][m.id] = [table |-> t, expires |-> now + TableTimeout]
        PROVE  Client!Serve
    <3>1. Client!Deliver(m.id, [table |-> t, expires |-> now + TableTimeout])
      BY <1>3, <2>2 DEF Answer
    <3>2. t \in [i \in Id |-> Tables][m.id]
      BY <1>1, <2>2
    <3> QED BY <1>1, <1>2, <1>4, <3>1, <3>2 DEF Client!Serve
  <2> QED BY <1>1, <1>4, <2>1, <2>2, RequestAnswer
<1>5. CASE m.cmd = "REL" /\ Server!HandleRelease(Inet, m.id)
  <2>1. CASE reply'.type = "failed"
    BY <1>1, <1>2, <1>3, <2>1 DEF Answer, Client!Serve
  <2>2. CASE reply'.type = "released"
    BY <1>1, <1>2, <1>3, <1>5, <2>2 DEF Answer, Client!Serve, Server!NoLease
  <2> QED BY <1>1, <1>5, <2>1, <2>2, ReleaseAnswer
<1> QED BY <1>4, <1>5 DEF HandleDatagram

\* A step of the host is a step of the clients.
LEMMA ClientsStep ==
    ASSUME PartsInv, [Next]_vars
    PROVE  [Client!Next]_(Client!vars)
<1>1. CASE HandleDatagram
  BY <1>1, AnswerIsServed DEF Client!Next
<1>2. CASE CrashServer
  <2>1. /\ toServer' = <<>>
        /\ UNCHANGED <<ctx, inbox, rules, now, sent, launches>>
    BY <1>2 DEF CrashServer, Server!Crash
  <2> QED BY <2>1 DEF Client!Next, Client!ServerGone, Client!vars
<1>3. CASE Tick
  BY <1>3 DEF Tick, Client!Next
<1>4. CASE UNCHANGED clientVars /\ UNCHANGED now
  BY <1>4 DEF clientVars, Client!vars
<1>5. CASE Sweep \/ StartServer
  BY <1>4, <1>5 DEF Sweep, StartServer, Server!DeleteDeadLeases, Server!Start
<1>6. ASSUME NEW p \in Proc, ClientStep(p) \/ HookStep(p)
      PROVE  [Client!Next]_(Client!vars)
  <2>1. CASE ClientTimeout(p)
    BY <2>1 DEF ClientTimeout, Client!Next, Client!Callback
  <2>2. CASE ClientReceive(p)
    BY <2>2 DEF ClientReceive, Client!Next, Client!Callback
  <2>3. CASE ClientAddressRemoved(p)
    BY <2>3 DEF ClientAddressRemoved, Client!Next
  <2>4. CASE HookAddAddress(p) \/ HookConfigure(p)
    BY <1>4, <2>4 DEF HookAddAddress, HookConfigure
  <2>5. CASE HookStartClient(p)
    BY <2>5 DEF HookStartClient, Client!Next
  <2> QED BY <1>6, <2>1, <2>2, <2>3, <2>4, <2>5 DEF ClientStep, HookStep
<1>7. ASSUME NEW i \in Id, AddressGone(i)
      PROVE  [Client!Next]_(Client!vars)
  BY <1>7 DEF AddressGone, Client!vars
<1>8. CASE UNCHANGED vars
  BY <1>4, <1>8 DEF vars
<1> QED
  BY <1>1, <1>2, <1>3, <1>4, <1>5, <1>6, <1>7, <1>8 DEF Next

\* The same, in the operators of the client's proofs.
LEMMA ClientsProofStep ==
    ASSUME PartsInv, [Next]_vars
    PROVE  [CP!Next]_(CP!vars)
<1>1. ~\E p \in Proc : Client!SocketError(p)
  BY DEF Client!SocketError
<1>2. \A p \in Proc : Client!NetlinkTimeout(p) <=> CP!NetlinkTimeout(p)
  BY DEF Client!NetlinkTimeout, Client!Running, Client!NewRules,
         Client!KindsSent, Client!Kinds, Client!AllSent,
         Client!Cardinality, Client!RuleOf,
         CP!NetlinkTimeout, CP!Running, CP!NewRules,
         CP!KindsSent, CP!Kinds, CP!AllSent, CP!Cardinality, CP!RuleOf
<1>3. CASE Client!Next
  BY <1>1, <1>2, <1>3, SameClient
     DEF Client!Next, CP!Next, Client!Callback, CP!Callback
<1>4. CASE UNCHANGED Client!vars
  BY <1>4 DEF Client!vars, CP!vars
<1> QED BY ClientsStep, <1>3, <1>4

\* Every step keeps the types of the components.
LEMMA PartsStep == PartsInv /\ [Next]_vars => PartsInv'
<1> SUFFICES ASSUME PartsInv, [Next]_vars PROVE PartsInv'
  OBVIOUS
<1>1. SP!TypeInv'
  BY ServerStep, SP!TypeStep, ComponentAssumptions DEF PartsInv
<1>2. CP!CountInv'
  BY ClientsProofStep, CP!CountStep, ComponentAssumptions DEF PartsInv
<1> QED BY <1>1, <1>2 DEF PartsInv

\* Initially both hold.
LEMMA PartsInit == Init => PartsInv
BY SP!TypeInit, CP!CountInit, SameServer, SameClient, ComponentAssumptions
   DEF Init, PartsInv

\* Each step of the host is a step of TableClient: this server, its crashes,
\* its queue and the scripts are among the environments that TableClient is
\* checked and proved against.  (ClientSpec; run System.)
THEOREM HostImplementsClient == Spec => ClientSpec
<1>1. Init => Client!Init
  BY DEF Init
<1>2. PartsInv /\ [Next]_vars => [Client!Next]_(Client!vars)
  BY ClientsStep
<1> QED
  BY <1>1, <1>2, PartsInit, PartsStep, PTL DEF Spec, ClientSpec, Client!Spec

-----------------------------------------------------------------------------
(* What the components' invariants say together.                             *)

\* The server's invariants (live rows are busy, leases stored, one row for an
\* identity) and the client's (replies read in the second of their grant,
\* tables only from the server).
ComponentsInv == SP!ServiceInv /\ CP!TimerInv /\ CP!OfferInv

\* They include the types.
LEMMA ComponentsTyped == ComponentsInv => PartsInv
BY DEF ComponentsInv, PartsInv, SP!ServiceInv, SP!SafeInv, CP!OfferInv

\* Every step keeps them.
LEMMA ComponentsStep == ComponentsInv /\ [Next]_vars => ComponentsInv'
<1> SUFFICES ASSUME ComponentsInv, [Next]_vars PROVE ComponentsInv'
  OBVIOUS
<1>1. PartsInv
  BY ComponentsTyped
<1>2. SP!ServiceInv'
  <2>1. SP!SafeInv /\ SP!OneRowPerIdentity /\ SP!TypeInv
    BY DEF ComponentsInv, SP!ServiceInv, SP!SafeInv
  <2>2. SP!SafeInv'
    BY <1>1, <2>1, ServerStep, SP!SafeStep, ComponentAssumptions
  <2>3. SP!OneRowPerIdentity'
    BY <1>1, <2>1, ServerStep, SP!OneRowStep, ComponentAssumptions
  <2> QED BY <2>2, <2>3 DEF SP!ServiceInv
<1>3. CP!TimerInv' /\ CP!OfferInv'
  BY <1>1, ClientsProofStep, CP!TimerStep, CP!OfferStep, ComponentAssumptions
     DEF ComponentsInv
<1> QED BY <1>2, <1>3 DEF ComponentsInv

\* They hold initially.
LEMMA ComponentsInit == Init => ComponentsInv
BY SP!ServiceInit, CP!TimerInit, CP!OfferInit, SameServer, SameClient,
   ComponentAssumptions
   DEF Init, ComponentsInv

-----------------------------------------------------------------------------
(* What each step of a client changes.                                       *)

\* The types of one client.
LEMMA OneClient ==
    ASSUME PartsInv, NEW p \in Proc
    PROVE  /\ ctx \in [Proc -> CP!Ctx] /\ ctx[p] \in CP!Ctx
           /\ ctx[p].sock => Running(p)
           /\ inbox \in [Proc -> Seq([table : Nat, expires : Nat])]
           /\ toServer \in Seq([cmd : {"REQ", "REL"}, id : Id])
           /\ now \in Nat /\ IdOf[p] \in Id
BY SystemAssumption DEF PartsInv, CP!CountInv, CP!TypeOK, CP!Bounded, Running

\* The part of a context that a lease is about stays.
SameLease(c, d) ==
    /\ d.rt_table = c.rt_table /\ d.lease_expires = c.lease_expires
    /\ d.rules_added = c.rules_added

\* A request is sent, or lost.
MaySend(p) ==
    toServer' \in {toServer, Append(toServer, [cmd |-> "REQ", id |-> IdOf[p]])}

\* A request is sent and the client goes on, or it has failed too often and
\* reports 0.
LEMMA TimeoutShape ==
    ASSUME PartsInv, NEW p \in Proc, ClientTimeout(p)
    PROVE  /\ Running(p)
           /\ UNCHANGED <<serverVars, hookVars, rules, now>>
           /\ removed' = {q \in removed : ctx'[q].state = "running"}
           /\ \E d : /\ ctx' = [ctx EXCEPT ![p] = d]
                     /\ SameLease(ctx[p], d)
                     /\ \/ /\ d.state = "running" /\ d.output = ctx[p].output
                           /\ UNCHANGED inbox /\ MaySend(p)
                        \/ /\ d.state = "stopped" /\ d.output = 0
                           /\ ctx[p].rt_table = 0
                           /\ inbox' = [inbox EXCEPT ![p] = <<>>]
                           /\ UNCHANGED toServer
<1>0. ctx[p] \in CP!Ctx
  BY OneClient
<1>1. /\ Running(p)
      /\ UNCHANGED <<serverVars, hookVars, rules, now>>
      /\ removed' = {q \in removed : ctx'[q].state = "running"}
  BY DEF ClientTimeout, Forget, Client!SocketTimeout, Client!RequestTimeout,
         Client!Running, Running
<1>2. CASE Client!SocketTimeout(p)
  <2> DEFINE d == Client!Armed([ctx[p] EXCEPT !.sock = TRUE], Retransmit)
  <2>1. /\ ctx' = [ctx EXCEPT ![p] = d] /\ UNCHANGED inbox /\ MaySend(p)
    BY <1>2 DEF Client!SocketTimeout, Client!Queue, MaySend
  <2>2. SameLease(ctx[p], d) /\ d.state = "running" /\ d.output = ctx[p].output
    BY <1>0, <1>1 DEF Client!Armed, CP!Ctx, SameLease, Running
  <2> HIDE DEF d
  <2> QED BY <1>1, <2>1, <2>2
<1>3. CASE Client!RequestTimeout(p)
  <2>1. CASE /\ ctx' = [ctx EXCEPT ![p] =
                          Client!Armed(IF @.rt_table # 0 THEN @
                                       ELSE Client!Counted(@), Retransmit)]
             /\ UNCHANGED inbox /\ MaySend(p)
    <3> DEFINE d == Client!Armed(IF ctx[p].rt_table # 0 THEN ctx[p]
                                 ELSE Client!Counted(ctx[p]), Retransmit)
    <3>1. ctx' = [ctx EXCEPT ![p] = d]
      BY <2>1
    <3>2. SameLease(ctx[p], d) /\ d.state = "running"
          /\ d.output = ctx[p].output
      BY <1>0, <1>1 DEF Client!Armed, Client!Counted, CP!Ctx, SameLease, Running
    <3> HIDE DEF d
    <3> QED BY <1>1, <2>1, <3>1, <3>2
  <2>2. CASE Client!GiveUp(p) /\ ctx[p].rt_table = 0 /\ UNCHANGED toServer
    <3> DEFINE d == [Client!Exited(Client!Counted(ctx[p]), "stopped")
                        EXCEPT !.output = ctx[p].rt_table]
    <3>1. ctx' = [ctx EXCEPT ![p] = d] /\ inbox' = [inbox EXCEPT ![p] = <<>>]
      BY <2>2 DEF Client!GiveUp
    <3>2. SameLease(ctx[p], d) /\ d.state = "stopped" /\ d.output = 0
      BY <1>0, <2>2 DEF Client!Exited, Client!Counted, CP!Ctx, SameLease
    <3> HIDE DEF d
    <3> QED BY <1>1, <2>2, <3>1, <3>2
  <2> QED BY <1>3, <2>1, <2>2 DEF Client!RequestTimeout, Client!Queue, MaySend
<1> QED BY <1>2, <1>3 DEF ClientTimeout

\* The first reply is taken: one without a table only changes the expiry; one
\* with a table is the new lease, and its rules are there afterwards or, if
\* there were any before, the rules stay what they are.
LEMMA ReceiveShape ==
    ASSUME PartsInv, NEW p \in Proc, ClientReceive(p)
    PROVE  /\ Running(p) /\ inbox[p] # <<>>
           /\ Head(inbox[p]) \in [table : Nat, expires : Nat]
           /\ UNCHANGED <<serverVars, hookVars, toServer, now>>
           /\ removed' = {q \in removed : ctx'[q].state = "running"}
           /\ inbox' = [inbox EXCEPT ![p] = Tail(@)]
           /\ \E d :
                 /\ ctx' = [ctx EXCEPT ![p] = d] /\ d.state = "running"
                 /\ d.lease_expires = Head(inbox[p]).expires
                 /\ \/ /\ Head(inbox[p]).table = 0
                       /\ d.rt_table = ctx[p].rt_table
                       /\ d.rules_added = ctx[p].rules_added
                       /\ d.output = ctx[p].output
                       /\ UNCHANGED rules
                    \/ /\ Head(inbox[p]).table # 0
                       /\ d.rt_table = Head(inbox[p]).table
                       /\ d.rules_added
                       /\ d.output = IF ctx[p].daemonized THEN ctx[p].output
                                     ELSE Head(inbox[p]).table
                       /\ rules' = IF ctx[p].rules_added THEN rules
                                   ELSE rules \cup
                                        {Client!RuleOf(k, IdOf[p], d.rt_table) :
                                            k \in {"addr", "nw", "def"}}
<1> DEFINE r == Head(inbox[p])
<1>0. /\ Client!Receive(p) /\ CP!Receive(p)
      /\ UNCHANGED <<serverVars, hookVars>>
      /\ removed' = {q \in removed : ctx'[q].state = "running"}
  BY SameClient DEF ClientReceive, Forget
<1>1. /\ Running(p) /\ inbox[p] # <<>> /\ UNCHANGED <<toServer, now>>
      /\ inbox' = [inbox EXCEPT ![p] = Tail(@)]
      /\ Client!ReceiveNoTable(p, r) \/ Client!ReceiveLease(p, r)
  BY <1>0, OneClient DEF Client!Receive, Client!Running, Running
<1>2. r \in [table : Nat, expires : Nat] /\ ctx[p] \in CP!Ctx /\ now \in Nat
  BY <1>1, OneClient, HeadTailProperties
<1>3. CASE Client!ReceiveNoTable(p, r)
  <2> DEFINE d == Client!Armed([ctx[p] EXCEPT !.lease_expires = r.expires],
                               Retransmit)
  <2>1. ctx' = [ctx EXCEPT ![p] = d] /\ UNCHANGED rules /\ r.table = 0
    BY <1>3 DEF Client!ReceiveNoTable
  <2>2. /\ d.state = "running" /\ d.lease_expires = r.expires
        /\ d.rt_table = ctx[p].rt_table /\ d.output = ctx[p].output
        /\ d.rules_added = ctx[p].rules_added
    BY <1>1, <1>2 DEF Client!Armed, CP!Ctx, Running
  <2> HIDE DEF d
  <2> QED BY <1>0, <1>1, <1>2, <2>1, <2>2
<1>4. CASE Client!ReceiveLease(p, r)
  <2> DEFINE c == CP!WithLease(ctx[p], r)
             K == {"addr", "nw", "def"}
             d == IF c.rules_added THEN c ELSE [c EXCEPT !.rules_added = TRUE]
  <2>1. r.table # 0
    BY <1>4 DEF Client!ReceiveLease
  <2>2. c \in CP!Ctx
    BY <1>2, CP!WithLeaseType, ComponentAssumptions DEF CP!Answer
  <2>3. /\ c.state = "running" /\ c.rt_table = r.table
        /\ c.lease_expires = r.expires
        /\ c.rules_added = ctx[p].rules_added
        /\ c.output = IF ctx[p].daemonized THEN ctx[p].output ELSE r.table
    BY <1>1, <1>2 DEF CP!WithLease, CP!Printed, CP!Ctx, Running
  <2>4. PICK kinds \in CP!KindsSent : CP!NewRules(p, c, kinds)
    BY <1>4 DEF Client!ReceiveLease, Client!KindsSent, CP!KindsSent,
                Client!Kinds, CP!Kinds, Client!NewRules, CP!NewRules,
                Client!AllSent, CP!AllSent, Client!Cardinality, CP!Cardinality,
                Client!RuleOf, CP!RuleOf, Client!WithLease, CP!WithLease,
                Client!Printed, CP!Printed
  <2>5. kinds = K /\ CP!AllSent(kinds)
    BY <2>4, CP!KindsSentType, CP!AllSentKinds, ComponentAssumptions
  <2> HIDE DEF c
  <2>6. /\ ctx' = [ctx EXCEPT ![p] = d]
        /\ rules' = IF c.rules_added THEN rules
                    ELSE rules \cup {CP!RuleOf(k, IdOf[p], c.rt_table) : k \in K}
    BY <2>4, <2>5 DEF CP!NewRules
  <2>7. /\ d.state = "running" /\ d.rt_table = r.table
        /\ d.lease_expires = r.expires /\ d.rules_added
        /\ d.output = IF ctx[p].daemonized THEN ctx[p].output ELSE r.table
    BY <2>2, <2>3 DEF CP!Ctx
  <2>8. rules' = IF ctx[p].rules_added THEN rules
                 ELSE rules \cup {Client!RuleOf(k, IdOf[p], d.rt_table) : k \in K}
    BY <2>3, <2>6, <2>7 DEF CP!RuleOf, Client!RuleOf
  <2> HIDE DEF d
  <2> QED BY <1>0, <1>1, <1>2, <2>1, <2>6, <2>7, <2>8
<1> QED BY <1>1, <1>3, <1>4

\* What a reply with a table leaves in the client.
LEMMA ReceiveTable ==
    ASSUME PartsInv, NEW p \in Proc, ClientReceive(p),
           Head(inbox[p]).table # 0
    PROVE  \E d : /\ ctx' = [ctx EXCEPT ![p] = d] /\ d.state = "running"
                  /\ d.lease_expires = Head(inbox[p]).expires
                  /\ d.rt_table = Head(inbox[p]).table
                  /\ d.output = IF ctx[p].daemonized THEN ctx[p].output
                                ELSE Head(inbox[p]).table
BY ReceiveShape

\* The client of a removed address deletes rules, sends a release and ends.
LEMMA RemovedShape ==
    ASSUME PartsInv, NEW p \in Proc, ClientAddressRemoved(p)
    PROVE  /\ Running(p) /\ p \in removed
           /\ UNCHANGED <<serverVars, hookVars, now>>
           /\ removed' = {q \in removed : ctx'[q].state = "running"}
           /\ inbox' = [inbox EXCEPT ![p] = <<>>]
           /\ toServer' \in {toServer, Append(toServer, [cmd |-> "REL",
                                                         id |-> IdOf[p]])}
           /\ \E D \in CP!Deletions({"addr", "nw", "def"}, IdOf[p],
                                    ctx[p].rt_table) : rules' = rules \ D
           /\ \E d : /\ ctx' = [ctx EXCEPT ![p] = d]
                     /\ SameLease(ctx[p], d)
                     /\ d.state = "stopped" /\ d.output = ctx[p].output
<1>0. /\ p \in removed /\ Client!AddressRemoved(p) /\ CP!AddressRemoved(p)
      /\ UNCHANGED <<serverVars, hookVars>>
      /\ removed' = {q \in removed : ctx'[q].state = "running"}
  BY SameClient DEF ClientAddressRemoved, Forget
<1>1. /\ Running(p) /\ UNCHANGED now /\ inbox' = [inbox EXCEPT ![p] = <<>>]
      /\ toServer' \in {toServer, Append(toServer, [cmd |-> "REL",
                                                    id |-> IdOf[p]])}
  BY <1>0 DEF CP!AddressRemoved, CP!Running, CP!Queue, Running
<1>2. \E D \in CP!Deletions({"addr", "nw", "def"}, IdOf[p], ctx[p].rt_table) :
         rules' = rules \ D
  <2>1. PICK kinds \in CP!KindsSent :
            \E D \in CP!Deletions(kinds, IdOf[p], ctx[p].rt_table) :
                rules' = rules \ D
    BY <1>0 DEF CP!AddressRemoved, CP!DeleteRules
  <2>2. kinds = {"addr", "nw", "def"}
    BY <2>1, CP!KindsSentType, ComponentAssumptions
  <2> QED BY <2>1, <2>2
<1> DEFINE d == CP!Exited(ctx[p], "stopped")
<1>3. ctx' = [ctx EXCEPT ![p] = d]
  BY <1>0 DEF CP!AddressRemoved
<1>4. SameLease(ctx[p], d) /\ d.state = "stopped" /\ d.output = ctx[p].output
  BY OneClient DEF CP!Exited, CP!Ctx, SameLease
<1> HIDE DEF d
<1> QED BY <1>0, <1>1, <1>2, <1>3, <1>4

\* A client starts, without a table.
LEMMA LaunchShape ==
    ASSUME NEW p \in Proc, HookStartClient(p)
    PROVE  /\ ~Running(p) /\ hook[p] = "address"
           /\ hook' = [hook EXCEPT ![p] = "waiting"]
           /\ UNCHANGED <<serverVars, addr, routes, rules, inbox, toServer, now,
                          removed>>
           /\ "flap" \notin Unlucky =>
                 \A k \in 1 .. Len(toServer) : toServer[k].id # IdOf[p]
           /\ \E d : /\ ctx' = [ctx EXCEPT ![p] = d]
                     /\ d.state = "running" /\ d.rt_table = 0
                     /\ d.lease_expires = 0 /\ ~d.rules_added
                     /\ d.output = NoOutput
<1>1. /\ ~Running(p) /\ hook[p] = "address"
      /\ hook' = [hook EXCEPT ![p] = "waiting"]
      /\ UNCHANGED <<serverVars, addr, routes, rules, inbox, toServer, now,
                     removed>>
      /\ ctx' = [ctx EXCEPT ![p] = Client!Fresh]
      /\ "flap" \notin Unlucky =>
            \A k \in 1 .. Len(toServer) : toServer[k].id # IdOf[p]
  BY DEF HookStartClient, Hook!StartClient, Client!Launch, Client!Running,
         Running
<1>2. /\ Client!Fresh.state = "running" /\ Client!Fresh.rt_table = 0
      /\ Client!Fresh.lease_expires = 0 /\ ~Client!Fresh.rules_added
      /\ Client!Fresh.output = NoOutput
  BY DEF Client!Fresh, Client!NoOutput, NoOutput
<1> QED BY <1>1, <1>2

\* A step of the server touches neither contexts nor rules nor scripts.
LEMMA ServerShape ==
    ASSUME HandleDatagram \/ Sweep \/ StartServer \/ CrashServer
    PROVE  UNCHANGED <<ctx, rules, removed, hookVars, now>>
<1>1. CASE HandleDatagram
  BY <1>1 DEF HandleDatagram, Server!HandleReq, Server!HandleRelease
<1>2. CASE Sweep
  BY <1>2 DEF Sweep, Server!DeleteDeadLeases, clientVars
<1>3. CASE StartServer
  BY <1>3 DEF StartServer, Server!Start, clientVars
<1>4. CASE CrashServer
  BY <1>4 DEF CrashServer, Server!Crash
<1> QED BY <1>1, <1>2, <1>3, <1>4

\* The scripts leave the clients, and the passing of time all but itself.
LEMMA QuietShape ==
    /\ \A p \in Proc : HookAddAddress(p) \/ HookConfigure(p) =>
          UNCHANGED <<serverVars, clientVars, now>>
    /\ Tick => UNCHANGED <<ctx, inbox, toServer, rules, removed, hookVars, db>>
               /\ now' = now + 1 /\ removed = {}
    /\ \A i \in Id : AddressGone(i) =>
          UNCHANGED <<serverVars, ctx, inbox, toServer, rules, now>>
<1>1. \A p \in Proc : HookAddAddress(p) \/ HookConfigure(p) =>
          UNCHANGED <<serverVars, clientVars, now>>
  BY DEF HookAddAddress, HookConfigure
<1>2. Tick => UNCHANGED <<ctx, inbox, toServer, rules, removed, hookVars, db>>
              /\ now' = now + 1 /\ removed = {}
  BY DEF Tick, Client!Tick, Client!clientVars, Server!Tick
<1>3. \A i \in Id : AddressGone(i) =>
          UNCHANGED <<serverVars, ctx, inbox, toServer, rules, now>>
  BY DEF AddressGone
<1> QED BY <1>1, <1>2, <1>3

-----------------------------------------------------------------------------
(* Types of the host.                                                        *)

\* What a script may read is a table, 0, or nothing.
OutputType == \A p \in Proc : ctx[p].output \in Nat \cup {NoOutput}

\* The inductive invariant of TypeOK: the parts' and the host's types.
HostTypeInv ==
    /\ PartsInv /\ OutputType
    /\ Hook!TypeOK /\ outage \in Nat /\ removed \subseteq Proc

\* Every step keeps the values that clients print tables, 0 or nothing.
LEMMA OutputStep ==
    ASSUME PartsInv, OutputType, [Next]_vars
    PROVE  OutputType'
<1>0. ctx \in [Proc -> CP!Ctx]
  BY DEF PartsInv, CP!CountInv, CP!TypeOK
<1>1. CASE UNCHANGED ctx
  BY <1>1 DEF OutputType
<1>2. ASSUME NEW p \in Proc, NEW d, ctx' = [ctx EXCEPT ![p] = d],
             d.output \in Nat \cup {NoOutput}
      PROVE  OutputType'
  BY <1>0, <1>2 DEF OutputType
<1>3. ASSUME NEW p \in Proc, ClientTimeout(p) PROVE OutputType'
  <2>1. PICK d : /\ ctx' = [ctx EXCEPT ![p] = d]
                 /\ d.output = ctx[p].output \/ d.output = 0
    BY <1>3, TimeoutShape
  <2> QED BY <1>2, <2>1 DEF OutputType
<1>4. ASSUME NEW p \in Proc, ClientReceive(p) PROVE OutputType'
  <2>1. Head(inbox[p]).table \in Nat
    BY <1>4, ReceiveShape
  <2>2. PICK d : /\ ctx' = [ctx EXCEPT ![p] = d]
                 /\ d.output = ctx[p].output \/ d.output = Head(inbox[p]).table
    BY <1>4, ReceiveShape
  <2> QED BY <1>2, <2>1, <2>2 DEF OutputType
<1>5. ASSUME NEW p \in Proc, ClientAddressRemoved(p) PROVE OutputType'
  <2>1. PICK d : ctx' = [ctx EXCEPT ![p] = d] /\ d.output = ctx[p].output
    BY <1>5, RemovedShape
  <2> QED BY <1>2, <2>1 DEF OutputType
<1>6. ASSUME NEW p \in Proc, HookStartClient(p) PROVE OutputType'
  <2>1. PICK d : ctx' = [ctx EXCEPT ![p] = d] /\ d.output = NoOutput
    BY <1>6, LaunchShape
  <2> QED BY <1>2, <2>1 DEF OutputType
<1>7. CASE HandleDatagram \/ Sweep \/ StartServer \/ CrashServer
  BY <1>1, <1>7, ServerShape
<1>8. ASSUME NEW p \in Proc, HookAddAddress(p) \/ HookConfigure(p)
      PROVE  OutputType'
  BY <1>1, <1>8, QuietShape DEF clientVars
<1>9. CASE Tick \/ \E i \in Id : AddressGone(i)
  BY <1>1, <1>9, QuietShape
<1>10. CASE UNCHANGED vars
  BY <1>1, <1>10 DEF vars, clientVars
<1> QED
  BY <1>3, <1>4, <1>5, <1>6, <1>7, <1>8, <1>9, <1>10
     DEF Next, ClientStep, HookStep

\* Every step keeps the types of addresses, routes and scripts.
LEMMA HookTypeStep ==
    ASSUME HostTypeInv, [Next]_vars
    PROVE  Hook!TypeOK'
<1> USE SystemAssumption
<1>0. \A p \in Proc : IdOf[p] \in Id
  OBVIOUS
<1>1. CASE UNCHANGED hookVars
  BY <1>1 DEF HostTypeInv, Hook!TypeOK, hookVars
<1>2. ASSUME NEW p \in Proc, HookAddAddress(p) PROVE Hook!TypeOK'
  <2>1. Hook!Route(IdOf[p], MainTable) \in [addr : Id, table : Nat]
    BY <1>0 DEF Hook!Route
  <2> QED
    BY <1>0, <1>2, <2>1 DEF HookAddAddress, Hook!AddAddress, HostTypeInv,
                            Hook!TypeOK
<1>3. ASSUME NEW p \in Proc, HookStartClient(p) PROVE Hook!TypeOK'
  BY <1>3 DEF HookStartClient, Hook!StartClient, HostTypeInv, Hook!TypeOK
<1>4. ASSUME NEW p \in Proc, HookConfigure(p) PROVE Hook!TypeOK'
  <2>1. CASE Hook!ConfigureNothing(p)
    BY <2>1 DEF Hook!ConfigureNothing, HostTypeInv, Hook!TypeOK
  <2>2. CASE Hook!Configure(p, ctx[p].output)
    <3> DEFINE t == IF ctx[p].output = 0 THEN MainTable ELSE ctx[p].output
    <3>1. t \in Nat
      BY <1>4, <2>2 DEF Hook!Configure, HostTypeInv, OutputType
    <3>2. Hook!MoveRoutes(IdOf[p], t) /\ UNCHANGED addr
          /\ hook' = [hook EXCEPT ![p] = "idle"]
      BY <2>2 DEF Hook!Configure
    <3> HIDE DEF t
    <3>3. Hook!Route(IdOf[p], t) \in [addr : Id, table : Nat]
      BY <1>0, <3>1 DEF Hook!Route
    <3> QED BY <3>2, <3>3 DEF Hook!MoveRoutes, HostTypeInv, Hook!TypeOK
  <2> QED BY <1>4, <2>1, <2>2 DEF HookConfigure
<1>5. ASSUME NEW i \in Id, AddressGone(i) PROVE Hook!TypeOK'
  BY <1>5 DEF AddressGone, Hook!RemoveAddress, HostTypeInv, Hook!TypeOK
<1>6. ASSUME NEW p \in Proc, ClientStep(p) PROVE Hook!TypeOK'
  BY <1>1, <1>6 DEF ClientStep, ClientTimeout, ClientReceive,
                    ClientAddressRemoved
<1>7. CASE HandleDatagram \/ Sweep \/ StartServer \/ CrashServer
  BY <1>1, <1>7, ServerShape
<1>8. CASE Tick
  BY <1>1, <1>8, QuietShape
<1>9. CASE UNCHANGED vars
  BY <1>1, <1>9 DEF vars
<1> QED
  BY <1>2, <1>3, <1>4, <1>5, <1>6, <1>7, <1>8, <1>9 DEF Next, HookStep

\* Every step keeps the counters and the netlink messages.
LEMMA RemovedTypeStep ==
    ASSUME HostTypeInv, [Next]_vars
    PROVE  outage' \in Nat /\ removed' \subseteq Proc
<1>1. CASE outage' = outage /\ removed' = removed
  BY <1>1 DEF HostTypeInv
<1>2. CASE HandleDatagram \/ Sweep \/ StartServer \/ CrashServer
  BY <1>1, <1>2, ServerShape DEF HandleDatagram, Sweep, StartServer, CrashServer
<1>3. ASSUME NEW p \in Proc, ClientStep(p)
      PROVE  outage' = outage /\ removed' \subseteq removed
  BY <1>3 DEF ClientStep, ClientTimeout, ClientReceive, ClientAddressRemoved,
              Forget, serverVars
<1>4. ASSUME NEW p \in Proc, HookStep(p)
      PROVE  outage' = outage /\ removed' = removed
  BY <1>4 DEF HookStep, HookAddAddress, HookStartClient, HookConfigure,
              serverVars, clientVars
<1>5. ASSUME NEW i \in Id, AddressGone(i)
      PROVE  outage' = outage /\ removed' \subseteq removed \cup Proc
  BY <1>5 DEF AddressGone, serverVars
<1>6. CASE Tick
  BY <1>6 DEF Tick, HostTypeInv
<1>7. CASE UNCHANGED vars
  BY <1>1, <1>7 DEF vars, serverVars, clientVars
<1> QED
  BY <1>1, <1>2, <1>3, <1>4, <1>5, <1>6, <1>7 DEF Next, HostTypeInv

\* The variables of all components keep their types while they run together:
\* no script reads, and no route gets, anything but a table.  (TypeOK; run
\* System.)
THEOREM HostTypeCorrect == Spec => []TypeOK
<1>1. Init => HostTypeInv
  <2>1. Init => OutputType
    BY DEF Init, Client!Init, Client!Fresh, Client!NoOutput, OutputType, NoOutput
  <2>2. Init => Hook!TypeOK /\ outage \in Nat /\ removed \subseteq Proc
    BY DEF Init, Hook!Init, Hook!TypeOK
  <2> QED BY <2>1, <2>2, PartsInit DEF HostTypeInv
<1>2. HostTypeInv /\ [Next]_vars => HostTypeInv'
  BY PartsStep, OutputStep, HookTypeStep, RemovedTypeStep DEF HostTypeInv
<1>3. HostTypeInv => TypeOK
  BY SameServer, SameClient
     DEF HostTypeInv, PartsInv, SP!TypeInv, CP!CountInv, TypeOK
<1> QED
  BY <1>1, <1>2, <1>3, PTL DEF Spec

-----------------------------------------------------------------------------
(* BeliefBacked.  A client may hold a lease only as long as the server does   *)
(* not release it behind its back, which takes that an address has one client *)
(* and that a client does not start before the release of its predecessor is  *)
(* handled (the run SameAddressTwice shows the former).  Renewals keep the    *)
(* row at least as long as any client counts on it, because replies are read  *)
(* in the second they are sent.                                               *)

\* Each address has one client: the name of its socket is unique.
OneProcessEach == \A p, q \in Proc : IdOf[p] = IdOf[q] => p = q

\* The rows of the database have table t for identity i, at least until e.
Backed(rows, i, t, e) ==
    t \in Tables /\ rows[t].id = i /\ rows[t].expires >= e

\* A reply r to identity i tells of a lease that the rows have, or of none.
BackedReply(rows, r, i) ==
    IF r.table = 0 THEN r.expires = 0 ELSE Backed(rows, i, r.table, r.expires)

\* The same of each reply in the queue s.
BackedMail(rows, s, i) == \A k \in 1 .. Len(s) : BackedReply(rows, s[k], i)

\* A client whose release is under way has ended.
ReleaseLast ==
    \A k \in 1 .. Len(toServer) : toServer[k].cmd = "REL" =>
        \A p \in Proc : IdOf[p] = toServer[k].id => ~Running(p)

\* A client counts on no more than a full lease, and on one the rows have.
BackedClient(rows, c, i, n) ==
    /\ c.lease_expires <= n + TableTimeout
    /\ c.state = "running" /\ c.rt_table # 0 /\ c.lease_expires > n =>
          Backed(rows, i, c.rt_table, c.lease_expires)

\* The inductive invariant of BeliefBacked.
BeliefInv ==
    /\ ComponentsInv
    /\ ReleaseLast
    /\ \A p \in Proc : /\ BackedClient(db[Inet], ctx[p], IdOf[p], now)
                       /\ BackedMail(db[Inet], inbox[p], IdOf[p])

\* An emptied or shortened queue has no new replies; a good one may join.
LEMMA MailQueue ==
    ASSUME NEW rows, NEW s \in Seq([table : Nat, expires : Nat]), NEW i,
           BackedMail(rows, s, i)
    PROVE  /\ BackedMail(rows, <<>>, i)
           /\ s # <<>> => BackedMail(rows, Tail(s), i)
           /\ \A r \in [table : Nat, expires : Nat] :
                 BackedReply(rows, r, i) => BackedMail(rows, Append(s, r), i)
           /\ s # <<>> => BackedReply(rows, Head(s), i)
<1>1. BackedMail(rows, <<>>, i)
  BY DEF BackedMail
<1>2. ASSUME s # <<>> PROVE BackedMail(rows, Tail(s), i)
  <2>1. /\ Len(Tail(s)) = Len(s) - 1
        /\ \A k \in 1 .. Len(Tail(s)) : Tail(s)[k] = s[k + 1]
    BY <1>2, HeadTailProperties
  <2>2. \A k \in 1 .. Len(Tail(s)) : k + 1 \in 1 .. Len(s)
    BY <2>1, LenProperties
  <2> QED BY <2>1, <2>2 DEF BackedMail
<1>3. ASSUME NEW r \in [table : Nat, expires : Nat], BackedReply(rows, r, i)
      PROVE  BackedMail(rows, Append(s, r), i)
  <2>1. /\ Len(Append(s, r)) = Len(s) + 1 /\ Append(s, r)[Len(s) + 1] = r
        /\ \A k \in 1 .. Len(s) : Append(s, r)[k] = s[k]
    BY AppendProperties
  <2>2. Len(s) \in Nat
    BY LenProperties
  <2>3. ASSUME NEW k \in 1 .. Len(Append(s, r))
        PROVE  k \in 1 .. Len(s) \/ k = Len(s) + 1
    BY <2>1, <2>2
  <2> QED BY <1>3, <2>1, <2>3 DEF BackedMail
<1>4. ASSUME s # <<>> PROVE BackedReply(rows, Head(s), i)
  <2>1. Head(s) = s[1] /\ 1 \in 1 .. Len(s)
    BY <1>4, HeadTailProperties, EmptySeq, LenProperties
  <2> QED BY <2>1 DEF BackedMail
<1> QED BY <1>1, <1>2, <1>3, <1>4

\* Only a client that runs has replies queued, and they are of this second.
LEMMA MailIsFresh ==
    ASSUME ComponentsInv, NEW p \in Proc
    PROVE  /\ inbox[p] # <<>> => Running(p)
           /\ \A k \in 1 .. Len(inbox[p]) :
                 inbox[p][k].table # 0 =>
                     inbox[p][k].expires = now + TableTimeout
           /\ inbox[p] # <<>> /\ Head(inbox[p]).table # 0 =>
                 Head(inbox[p]).expires = now + TableTimeout
<1>1. /\ inbox[p] # <<>> => ctx[p].sock
      /\ \A k \in 1 .. Len(inbox[p]) :
            inbox[p][k].table # 0 => inbox[p][k].expires = now + TableTimeout
  BY DEF ComponentsInv, CP!TimerInv, CP!FreshMail
<1>2. inbox[p] # <<>> => Head(inbox[p]) = inbox[p][1] /\ 1 \in 1 .. Len(inbox[p])
  BY ComponentsTyped, OneClient, HeadTailProperties, EmptySeq, LenProperties
<1> QED BY <1>1, <1>2, ComponentsTyped, OneClient

\* A step of one client keeps the invariant if what it counts on afterwards is
\* backed.
LEMMA BeliefOne ==
    ASSUME BeliefInv, ComponentsInv', NEW p \in Proc, NEW d,
           ctx' = [ctx EXCEPT ![p] = d], UNCHANGED <<db, now>>,
           BackedClient(db[Inet], d, IdOf[p], now),
           \/ UNCHANGED inbox
           \/ inbox' = [inbox EXCEPT ![p] = <<>>]
           \/ inbox[p] # <<>> /\ inbox' = [inbox EXCEPT ![p] = Tail(@)],
           ReleaseLast'
    PROVE  BeliefInv'
<1>0. /\ ctx \in [Proc -> CP!Ctx]
      /\ inbox \in [Proc -> Seq([table : Nat, expires : Nat])]
  BY ComponentsTyped, OneClient DEF BeliefInv
<1>2. ASSUME NEW q \in Proc
      PROVE  BackedClient(db[Inet], ctx'[q], IdOf[q], now)
  BY <1>0 DEF BeliefInv
<1>3. ASSUME NEW q \in Proc
      PROVE  BackedMail(db[Inet], inbox'[q], IdOf[q])
  <2>1. /\ BackedMail(db[Inet], inbox[q], IdOf[q])
        /\ inbox[q] \in Seq([table : Nat, expires : Nat])
    BY <1>0 DEF BeliefInv
  <2>2. /\ BackedMail(db[Inet], <<>>, IdOf[q])
        /\ inbox[q] # <<>> => BackedMail(db[Inet], Tail(inbox[q]), IdOf[q])
    BY <2>1, MailQueue
  <2> QED BY <1>0, <2>1, <2>2
<1> QED BY <1>2, <1>3 DEF BeliefInv

\* The clients' steps keep ReleaseLast: a request may join the queue, a client
\* that ends may send its release, and a client starts only when no datagram of
\* its address is queued.
LEMMA ReleaseQueue ==
    ASSUME ComponentsInv, ReleaseLast, NEW p \in Proc, NEW d,
           ctx' = [ctx EXCEPT ![p] = d],
           \/ Running(p) /\ MaySend(p)
           \/ Running(p) /\ UNCHANGED toServer
           \/ /\ OneProcessEach /\ d.state # "running"
              /\ toServer' \in {toServer,
                                Append(toServer, [cmd |-> "REL", id |-> IdOf[p]])}
           \/ /\ UNCHANGED toServer
              /\ \A k \in 1 .. Len(toServer) : toServer[k].id # IdOf[p]
    PROVE  ReleaseLast'
<1>0. /\ ctx \in [Proc -> CP!Ctx]
      /\ toServer \in Seq([cmd : {"REQ", "REL"}, id : Id]) /\ IdOf[p] \in Id
      /\ Len(toServer) \in Nat
  BY ComponentsTyped, OneClient, LenProperties
<1>1. SUFFICES ASSUME NEW k \in 1 .. Len(toServer'), toServer'[k].cmd = "REL",
                      NEW q \in Proc, IdOf[q] = toServer'[k].id
               PROVE  ctx'[q].state # "running"
  BY DEF ReleaseLast, Running
<1>2. ASSUME NEW m \in [cmd : {"REQ", "REL"}, id : Id], toServer' = Append(toServer, m)
      PROVE  \/ k \in 1 .. Len(toServer) /\ toServer'[k] = toServer[k]
             \/ toServer'[k] = m
  BY <1>0, <1>1, <1>2, AppendProperties
<1>3. CASE k \in 1 .. Len(toServer) /\ toServer'[k] = toServer[k]
  <2>1. ctx[q].state # "running" /\ toServer[k].id = IdOf[q]
    BY <1>1, <1>3 DEF ReleaseLast, Running
  <2>2. CASE p # q
    BY <1>0, <2>1, <2>2
  <2>3. CASE p = q
    <3>1. ~Running(p) /\ toServer[k].id = IdOf[p]
      BY <2>1, <2>3 DEF Running
    <3>2. d.state # "running"
      BY <1>3, <3>1
    <3> QED BY <1>0, <2>3, <3>2
  <2> QED BY <2>2, <2>3
<1>4. CASE UNCHANGED toServer
  BY <1>1, <1>3, <1>4
<1>5. CASE Running(p) /\ MaySend(p)
  <2>1. [cmd |-> "REQ", id |-> IdOf[p]] \in [cmd : {"REQ", "REL"}, id : Id]
    BY <1>0
  <2> QED BY <1>1, <1>2, <1>3, <1>4, <1>5, <2>1 DEF MaySend
<1>6. CASE /\ OneProcessEach /\ d.state # "running"
           /\ toServer' = Append(toServer, [cmd |-> "REL", id |-> IdOf[p]])
  <2>1. [cmd |-> "REL", id |-> IdOf[p]] \in [cmd : {"REQ", "REL"}, id : Id]
    BY <1>0
  <2>2. CASE toServer'[k] = [cmd |-> "REL", id |-> IdOf[p]]
    BY <1>0, <1>1, <1>6, <2>2 DEF OneProcessEach
  <2> QED BY <1>2, <1>3, <1>6, <2>1, <2>2
<1> QED
  BY <1>4, <1>5, <1>6

\* A row that is alive is taken over by no request, of whatever identity: its
\* bit is busy.
LEMMA RequestKeepsRow ==
    ASSUME ComponentsInv, NEW i \in Id, Server!HandleReq(Inet, i),
           NEW j \in Id, NEW t, NEW e \in Nat, e > now, e <= now + TableTimeout,
           Backed(db[Inet], j, t, e)
    PROVE  Backed(db'[Inet], j, t, e)
<1> USE ComponentAssumptions
<1>0. /\ SP!HandleReq(Inet, i) /\ SP!SafeInv /\ up
      /\ map \in [{Inet} -> SUBSET SP!Bits]
      /\ db \in [{Inet} -> [SP!Tables -> SP!Row]]
      /\ now \in Nat
  BY SameServer DEF ComponentsInv, SP!ServiceInv, SP!SafeInv, SP!TypeInv,
                    SP!TypeOK, SP!HandleReq
<1>1. /\ t \in SP!Tables /\ db[Inet][t].id = j /\ db[Inet][t].expires >= e
      /\ db[Inet][t].expires \in Nat /\ SP!Tables = Tables
  BY <1>0 DEF Backed, Tables, SP!Tables, SP!Row
<1>2. CASE UNCHANGED db
  BY <1>2 DEF Backed
<1>3. ASSUME NEW u \in SP!Tables, SP!update_lease(Inet, u) PROVE Backed(db'[Inet], j, t, e)
  <2>1. /\ db'[Inet][t].id = j
        /\ db'[Inet][t].expires \in {db[Inet][t].expires, now + TableTimeout}
    BY <1>0, <1>1, <1>3 DEF SP!update_lease
  <2> QED BY <1>1, <2>1 DEF Backed
<1>4. ASSUME NEW b \in map[Inet], SP!InRange(b),
             SP!insert_table(Inet, i, SP!TableOf(b))
      PROVE  Backed(db'[Inet], j, t, e)
  <2>1. SP!TableOf(b) \in SP!Tables /\ SP!Index(SP!TableOf(b)) = b
    BY <1>0, <1>4, SP!AllocatedTable
  <2>2. SP!IsAlive(db[Inet][t])
    BY <1>0, <1>1 DEF SP!IsAlive, SP!IsRow
  <2>3. SP!Index(t) \notin map[Inet]
    BY <1>0, <1>1, <2>2 DEF SP!SafeInv, SP!LiveRowBusy
  <2>4. t # SP!TableOf(b)
    BY <1>4, <2>1, <2>3
  <2>5. db'[Inet][t] = db[Inet][t]
    BY <1>0, <1>1, <1>4, <2>1, <2>4 DEF SP!insert_table
  <2> QED BY <1>1, <2>5 DEF Backed
<1>5. ASSUME NEW u \in SP!get_table(Inet, i), u # 0, SP!Reallocate(Inet, i, u)
      PROVE  Backed(db'[Inet], j, t, e)
  <2>1. u \in SP!Tables
    BY <1>5, SP!GetTable
  <2> QED BY <1>2, <1>3, <1>5, <2>1 DEF SP!Reallocate
<1>6. ASSUME SP!AllocateNew(Inet, i) PROVE Backed(db'[Inet], j, t, e)
  BY <1>2, <1>4, <1>6 DEF SP!AllocateNew, SP!Exhausted, SP!AllocateTable
<1> QED BY <1>0, <1>2, <1>5, <1>6 DEF SP!HandleReq

\* A release deletes the rows of its own identity only.
LEMMA ReleaseKeepsRow ==
    ASSUME ComponentsInv, NEW i \in Id, Server!HandleRelease(Inet, i),
           NEW j \in Id, j # i, NEW t, NEW e, Backed(db[Inet], j, t, e)
    PROVE  Backed(db'[Inet], j, t, e)
<1>0. db \in [{Inet} -> [SP!Tables -> SP!Row]] /\ SP!HandleRelease(Inet, i)
      /\ SP!Tables = Tables
  BY SameServer DEF ComponentsInv, SP!ServiceInv, SP!SafeInv, SP!TypeInv,
                    SP!TypeOK, SP!Tables, Tables
<1>1. CASE UNCHANGED db
  BY <1>1 DEF Backed
<1>2. CASE SP!remove_table(Inet, i)
  BY <1>0, <1>2 DEF SP!remove_table, Backed
<1> QED BY <1>0, <1>1, <1>2 DEF SP!HandleRelease, SP!ReleaseRow

\* The sweep deletes dead rows only.
LEMMA SweepKeepsRow ==
    ASSUME ComponentsInv, Server!DeleteDeadLeases, NEW j \in Id, NEW t,
           NEW e \in Nat, e > now, Backed(db[Inet], j, t, e)
    PROVE  Backed(db'[Inet], j, t, e)
<1>0. /\ db \in [{Inet} -> [SP!Tables -> SP!Row]] /\ SP!DeleteDeadLeases
      /\ SP!Tables = Tables /\ now \in Nat
  BY SameServer DEF ComponentsInv, SP!ServiceInv, SP!SafeInv, SP!TypeInv,
                    SP!TypeOK, SP!Tables, Tables
<1>1. CASE UNCHANGED db
  BY <1>1 DEF Backed
<1>2. CASE SP!DeleteRows
  <2>1. ~SP!IsDead(db[Inet][t])
    <3>1. db[Inet][t].expires \in Nat /\ db[Inet][t].expires >= e
      BY <1>0 DEF Backed, SP!Row
    <3> QED BY <1>0, <3>1 DEF SP!IsDead
  <2>2. db'[Inet][t] = db[Inet][t]
    BY <1>0, <1>2, <2>1 DEF SP!DeleteRows, Backed
  <2> QED BY <2>2 DEF Backed
<1> QED BY <1>0, <1>1, <1>2 DEF SP!DeleteDeadLeases

\* If all live leases stay backed, so do the clients and the replies they have.
LEMMA BeliefKept ==
    ASSUME BeliefInv, NEW rows,
           \A p \in Proc : Running(p) => \A t, e :
               /\ e \in Nat /\ e > now /\ e <= now + TableTimeout
               /\ Backed(db[Inet], IdOf[p], t, e)
               => Backed(rows, IdOf[p], t, e)
    PROVE  \A p \in Proc : /\ BackedClient(rows, ctx[p], IdOf[p], now)
                           /\ BackedMail(rows, inbox[p], IdOf[p])
<1> SUFFICES ASSUME NEW p \in Proc
             PROVE  /\ BackedClient(rows, ctx[p], IdOf[p], now)
                    /\ BackedMail(rows, inbox[p], IdOf[p])
  OBVIOUS
<1>0. /\ ctx[p] \in CP!Ctx /\ now \in Nat /\ TableTimeout \in Nat \ {0}
      /\ inbox[p] \in Seq([table : Nat, expires : Nat]) /\ ComponentsInv
  BY ComponentsTyped, OneClient, SystemAssumption DEF BeliefInv
<1>1. BackedClient(rows, ctx[p], IdOf[p], now)
  <2>1. BackedClient(db[Inet], ctx[p], IdOf[p], now)
    BY DEF BeliefInv
  <2>2. ctx[p].lease_expires \in Nat
    BY <1>0 DEF CP!Ctx
  <2> QED BY <2>1, <2>2 DEF BackedClient, Running
<1>2. BackedMail(rows, inbox[p], IdOf[p])
  <2> SUFFICES ASSUME NEW k \in 1 .. Len(inbox[p])
               PROVE  BackedReply(rows, inbox[p][k], IdOf[p])
    BY DEF BackedMail
  <2>1. BackedReply(db[Inet], inbox[p][k], IdOf[p])
    BY DEF BeliefInv, BackedMail
  <2>2. CASE inbox[p][k].table # 0
    <3>1. inbox[p] # <<>>
      BY <1>0, EmptySeq
    <3>2. inbox[p][k].expires = now + TableTimeout /\ Running(p)
      BY <1>0, <2>2, <3>1, MailIsFresh
    <3>3. inbox[p][k].expires \in Nat /\ inbox[p][k].expires > now
      BY <1>0, <3>2
    <3>4. inbox[p][k].expires <= now + TableTimeout
      BY <1>0, <3>2
    <3> QED BY <2>1, <2>2, <3>2, <3>3, <3>4 DEF BackedReply
  <2> QED BY <2>1, <2>2 DEF BackedReply
<1> QED BY <1>1, <1>2

\* A datagram is handled.  What the server answers is what its database has.
LEMMA BeliefDatagram ==
    ASSUME BeliefInv, ComponentsInv', HandleDatagram
    PROVE  BeliefInv'
<1> DEFINE i == Head(toServer).id
<1>0. /\ i \in Id /\ toServer # <<>> /\ UNCHANGED <<ctx, now>>
      /\ toServer \in Seq([cmd : {"REQ", "REL"}, id : Id])
      /\ toServer' = Tail(toServer) /\ ComponentsInv /\ PartsInv
      /\ Answer(Inet, i)
  BY HeadType, ComponentsTyped, ServerShape DEF HandleDatagram, BeliefInv
<1>a. /\ inbox \in [Proc -> Seq([table : Nat, expires : Nat])]
      /\ \A p \in Proc : IdOf[p] \in Id
      /\ now \in Nat /\ TableTimeout \in Nat \ {0}
  BY <1>0, SystemAssumption DEF PartsInv, CP!CountInv, CP!TypeOK
<1>b. \/ Server!HandleReq(Inet, i)
      \/ Head(toServer).cmd = "REL" /\ Server!HandleRelease(Inet, i)
  BY DEF HandleDatagram
<1> HIDE DEF i
<1>1. ReleaseLast'
  <2>1. /\ Len(toServer') = Len(toServer) - 1 /\ Len(toServer) \in Nat
        /\ \A k \in 1 .. Len(toServer') : toServer'[k] = toServer[k + 1]
    BY <1>0, HeadTailProperties, LenProperties
  <2>2. \A k \in 1 .. Len(toServer') : k + 1 \in 1 .. Len(toServer)
    BY <2>1
  <2> QED BY <1>0, <2>1, <2>2 DEF BeliefInv, ReleaseLast, Running
<1>2. \A p \in Proc : Running(p) => \A t, e :
         /\ e \in Nat /\ e > now /\ e <= now + TableTimeout
         /\ Backed(db[Inet], IdOf[p], t, e)
         => Backed(db'[Inet], IdOf[p], t, e)
  <2>1. CASE Server!HandleReq(Inet, i)
    BY <1>0, <1>a, <2>1, RequestKeepsRow
  <2>2. CASE Head(toServer).cmd = "REL" /\ Server!HandleRelease(Inet, i)
    <3>1. Head(toServer) = toServer[1] /\ 1 \in 1 .. Len(toServer)
      BY <1>0, HeadTailProperties, EmptySeq, LenProperties
    <3>2. \A p \in Proc : Running(p) => IdOf[p] # i
      BY <2>2, <3>1 DEF BeliefInv, ReleaseLast, i
    <3> QED BY <1>0, <1>a, <2>2, <3>2, ReleaseKeepsRow
  <2> QED BY <1>b, <2>1, <2>2
<1>3. \A p \in Proc : /\ BackedClient(db'[Inet], ctx[p], IdOf[p], now)
                      /\ BackedMail(db'[Inet], inbox[p], IdOf[p])
  BY <1>2, BeliefKept
<1>4. CASE UNCHANGED inbox
  BY <1>0, <1>1, <1>3, <1>4 DEF BeliefInv
<1>5. ASSUME NEW r \in [table : Nat, expires : Nat], Client!Deliver(i, r),
             BackedReply(db'[Inet], r, i)
      PROVE  BeliefInv'
  <2>1. ASSUME NEW p \in Proc PROVE BackedMail(db'[Inet], inbox'[p], IdOf[p])
    <3>1. \/ inbox'[p] = inbox[p]
          \/ inbox'[p] = Append(inbox[p], r) /\ IdOf[p] = i
      BY <1>5 DEF Client!Deliver
    <3>2. /\ inbox[p] \in Seq([table : Nat, expires : Nat])
          /\ BackedMail(db'[Inet], inbox[p], IdOf[p])
      BY <1>3, <1>a
    <3>3. CASE inbox'[p] = Append(inbox[p], r) /\ IdOf[p] = i
      BY <1>5, <3>2, <3>3, MailQueue
    <3> QED BY <3>1, <3>2, <3>3
  <2> QED BY <1>0, <1>1, <1>3, <2>1 DEF BeliefInv
<1>6. CASE Server!HandleReq(Inet, i)
  <2>1. CASE reply'.type \in {"refused", "failed"}
    BY <1>0, <1>4, <2>1 DEF Answer
  <2>2. ASSUME NEW t \in Tables, reply'.type = "granted",
               granted'[Inet][i] = [table |-> t, expires |-> now + TableTimeout]
        PROVE  BeliefInv'
    <3>1. db'[Inet][t] = [id |-> i, expires |-> now + TableTimeout]
      <4>1. SP!GrantBacked'
        BY DEF ComponentsInv, SP!ServiceInv, SP!SafeInv
      <4>2. granted'[Inet][i].expires > now'
        BY <1>0, <1>a, <2>2
      <4>3. \A j \in Id : granted'[Inet][j].expires > now' =>
                db'[Inet][granted'[Inet][j].table] =
                    [id |-> j, expires |-> granted'[Inet][j].expires]
        BY <4>1 DEF SP!GrantBacked, SP!Holds
      <4> QED BY <1>0, <2>2, <4>2, <4>3
    <3>2. t \in Nat /\ t # 0
      BY <2>2, SystemAssumption DEF Tables
    <3>3. ASSUME NEW r, r = [table |-> t, expires |-> now + TableTimeout]
          PROVE  BeliefInv'
      <4>1. /\ r \in [table : Nat, expires : Nat]
            /\ r.table = t /\ r.expires = now + TableTimeout
        BY <1>a, <3>2, <3>3
      <4>2. BackedReply(db'[Inet], r, i)
        BY <1>a, <3>1, <3>2, <4>1 DEF BackedReply, Backed
      <4>3. Client!Deliver(i, r)
        BY <1>0, <2>2, <3>3 DEF Answer
      <4> QED BY <1>5, <4>1, <4>2, <4>3
    <3> QED BY <3>3
  <2> QED BY <1>0, <1>6, <2>1, <2>2, RequestAnswer
<1>7. CASE Server!HandleRelease(Inet, i)
  <2>1. CASE reply'.type = "failed"
    BY <1>0, <1>4, <2>1 DEF Answer
  <2>2. CASE reply'.type = "released"
    <3>1. Client!Deliver(i, Server!NoLease)
      BY <1>0, <2>2 DEF Answer
    <3>2. /\ Server!NoLease \in [table : Nat, expires : Nat]
          /\ BackedReply(db'[Inet], Server!NoLease, i)
      BY DEF Server!NoLease, BackedReply
    <3> QED BY <1>5, <3>1, <3>2
  <2> QED BY <1>0, <1>7, <2>1, <2>2, ReleaseAnswer
<1> QED BY <1>b, <1>6, <1>7

\* A second passes when no reply waits: those would be due.
LEMMA BeliefTick ==
    ASSUME BeliefInv, ComponentsInv', Tick
    PROVE  BeliefInv'
<1>0. /\ UNCHANGED <<ctx, inbox, toServer, db>> /\ now' = now + 1
      /\ ComponentsInv /\ now \in Nat /\ TableTimeout \in Nat
      /\ ctx \in [Proc -> CP!Ctx]
  BY QuietShape, ComponentsTyped, SystemAssumption
     DEF BeliefInv, PartsInv, CP!CountInv, CP!TypeOK
<1>1. ReleaseLast'
  BY <1>0 DEF BeliefInv, ReleaseLast, Running
<1>2. ASSUME NEW p \in Proc PROVE BackedClient(db[Inet], ctx[p], IdOf[p], now + 1)
  <2>1. BackedClient(db[Inet], ctx[p], IdOf[p], now)
    BY DEF BeliefInv
  <2>2. ctx[p].lease_expires \in Nat
    BY <1>0 DEF CP!Ctx
  <2> QED BY <1>0, <2>1, <2>2 DEF BackedClient
<1> QED BY <1>0, <1>1, <1>2 DEF BeliefInv

\* The server's own steps.
LEMMA BeliefServer ==
    ASSUME BeliefInv, ComponentsInv', Sweep \/ StartServer \/ CrashServer
    PROVE  BeliefInv'
<1>0. UNCHANGED <<ctx, now, inbox>> /\ toServer' \in {toServer, <<>>}
  BY ServerShape DEF Sweep, StartServer, CrashServer, clientVars
<1>1. ReleaseLast'
  BY <1>0 DEF BeliefInv, ReleaseLast, Running
<1>2. \A p \in Proc : Running(p) => \A t, e :
         /\ e \in Nat /\ e > now /\ e <= now + TableTimeout
         /\ Backed(db[Inet], IdOf[p], t, e)
         => Backed(db'[Inet], IdOf[p], t, e)
  <2>1. CASE Sweep
    BY <2>1, SweepKeepsRow, SystemAssumption DEF Sweep, BeliefInv
  <2>2. CASE StartServer \/ CrashServer
    <3>1. UNCHANGED db
      BY <2>2 DEF StartServer, CrashServer, Server!Start, Server!Crash
    <3> QED BY <3>1
  <2> QED BY <2>1, <2>2
<1>3. \A p \in Proc : /\ BackedClient(db'[Inet], ctx[p], IdOf[p], now)
                      /\ BackedMail(db'[Inet], inbox[p], IdOf[p])
  BY <1>2, BeliefKept
<1> QED BY <1>0, <1>1, <1>3 DEF BeliefInv

\* The steps of the clients.
LEMMA BeliefClient ==
    ASSUME OneProcessEach, BeliefInv, ComponentsInv', NEW p \in Proc,
           ClientStep(p)
    PROVE  BeliefInv'
<1>0. /\ PartsInv /\ ComponentsInv /\ ReleaseLast
      /\ BackedClient(db[Inet], ctx[p], IdOf[p], now)
      /\ BackedMail(db[Inet], inbox[p], IdOf[p])
      /\ inbox[p] \in Seq([table : Nat, expires : Nat])
      /\ now \in Nat /\ TableTimeout \in Nat \ {0}
  BY ComponentsTyped, OneClient, SystemAssumption DEF BeliefInv
<1>1. CASE ClientTimeout(p)
  <2>1. /\ Running(p) /\ UNCHANGED <<db, now>>
        /\ \E d : /\ ctx' = [ctx EXCEPT ![p] = d] /\ SameLease(ctx[p], d)
                  /\ \/ d.state = "running" /\ UNCHANGED inbox /\ MaySend(p)
                     \/ /\ inbox' = [inbox EXCEPT ![p] = <<>>]
                        /\ UNCHANGED toServer
    BY <1>0, <1>1, TimeoutShape DEF serverVars
  <2>2. PICK d : /\ ctx' = [ctx EXCEPT ![p] = d] /\ SameLease(ctx[p], d)
                 /\ \/ UNCHANGED inbox /\ MaySend(p)
                    \/ /\ inbox' = [inbox EXCEPT ![p] = <<>>]
                       /\ UNCHANGED toServer
    BY <2>1
  <2>3. BackedClient(db[Inet], d, IdOf[p], now)
    BY <1>0, <2>1, <2>2 DEF SameLease, BackedClient, Running
  <2>4. ReleaseLast'
    BY <1>0, <2>1, <2>2, ReleaseQueue
  <2> QED BY <2>1, <2>2, <2>3, <2>4, BeliefOne
<1>2. CASE ClientReceive(p)
  <2> DEFINE r == Head(inbox[p])
  <2>1. /\ Running(p) /\ UNCHANGED <<db, now, toServer>> /\ inbox[p] # <<>>
        /\ inbox' = [inbox EXCEPT ![p] = Tail(@)]
        /\ r \in [table : Nat, expires : Nat]
    BY <1>0, <1>2, ReceiveShape DEF serverVars
  <2>2. PICK d : /\ ctx' = [ctx EXCEPT ![p] = d]
                 /\ d.lease_expires = r.expires
                 /\ r.table = 0 \/ d.rt_table = r.table
    BY <1>0, <1>2, ReceiveShape
  <2>3. /\ BackedReply(db[Inet], r, IdOf[p])
        /\ r.table # 0 => r.expires = now + TableTimeout
    BY <1>0, <2>1, MailQueue, MailIsFresh
  <2>4. BackedClient(db[Inet], d, IdOf[p], now)
    BY <1>0, <2>1, <2>2, <2>3 DEF BackedReply, BackedClient
  <2>5. ReleaseLast'
    BY <1>0, <2>1, <2>2, ReleaseQueue
  <2> QED BY <2>1, <2>2, <2>4, <2>5, BeliefOne
<1>3. CASE ClientAddressRemoved(p)
  <2>1. /\ Running(p) /\ UNCHANGED <<db, now>>
        /\ inbox' = [inbox EXCEPT ![p] = <<>>]
        /\ toServer' \in {toServer, Append(toServer, [cmd |-> "REL",
                                                      id |-> IdOf[p]])}
    BY <1>0, <1>3, RemovedShape DEF serverVars
  <2>2. PICK d : /\ ctx' = [ctx EXCEPT ![p] = d] /\ SameLease(ctx[p], d)
                 /\ d.state = "stopped"
    BY <1>0, <1>3, RemovedShape
  <2>3. BackedClient(db[Inet], d, IdOf[p], now)
    BY <1>0, <2>2 DEF SameLease, BackedClient
  <2>4. ReleaseLast'
    BY <1>0, <2>1, <2>2, ReleaseQueue
  <2> QED BY <2>1, <2>2, <2>3, <2>4, BeliefOne
<1> QED BY <1>1, <1>2, <1>3 DEF ClientStep

\* The steps of the scripts.
LEMMA BeliefHook ==
    ASSUME "flap" \notin Unlucky, BeliefInv, ComponentsInv', NEW p \in Proc,
           HookStep(p)
    PROVE  BeliefInv'
<1>1. CASE HookStartClient(p)
  <2>1. /\ UNCHANGED <<db, now, toServer, inbox>>
        /\ \A k \in 1 .. Len(toServer) : toServer[k].id # IdOf[p]
    BY <1>1, LaunchShape DEF serverVars
  <2>2. PICK d : /\ ctx' = [ctx EXCEPT ![p] = d]
                 /\ d.rt_table = 0 /\ d.lease_expires = 0
    BY <1>1, LaunchShape
  <2>3. BackedClient(db[Inet], d, IdOf[p], now)
    <3>1. now \in Nat /\ TableTimeout \in Nat
      BY ComponentsTyped, OneClient, SystemAssumption DEF BeliefInv
    <3> QED BY <2>2, <3>1 DEF BackedClient
  <2>4. ReleaseLast'
    BY <2>1, <2>2, ReleaseQueue DEF BeliefInv
  <2> QED BY <2>1, <2>2, <2>3, <2>4, BeliefOne
<1>2. CASE HookAddAddress(p) \/ HookConfigure(p)
  BY <1>2, QuietShape DEF clientVars, serverVars, BeliefInv, ReleaseLast, Running
<1> QED BY <1>1, <1>2 DEF HookStep

\* Every step of the host keeps the invariant.
LEMMA BeliefStep ==
    ASSUME OneProcessEach, "flap" \notin Unlucky, BeliefInv, [Next]_vars
    PROVE  BeliefInv'
<1>1. ComponentsInv'
  BY ComponentsStep DEF BeliefInv
<1>2. CASE HandleDatagram
  BY <1>1, <1>2, BeliefDatagram
<1>3. CASE Sweep \/ StartServer \/ CrashServer
  BY <1>1, <1>3, BeliefServer
<1>4. ASSUME NEW p \in Proc, ClientStep(p) \/ HookStep(p) PROVE BeliefInv'
  BY <1>1, <1>4, BeliefClient, BeliefHook
<1>5. ASSUME NEW i \in Id, AddressGone(i) PROVE BeliefInv'
  BY <1>1, <1>5, QuietShape DEF serverVars, BeliefInv, ReleaseLast, Running
<1>6. CASE Tick
  BY <1>1, <1>6, BeliefTick
<1>7. CASE UNCHANGED vars
  BY <1>1, <1>7
     DEF vars, clientVars, serverVars, BeliefInv, ReleaseLast, Running
<1> QED BY <1>2, <1>3, <1>4, <1>5, <1>6, <1>7 DEF Next

\* Initially no client counts on anything.
LEMMA BeliefInit == Init => BeliefInv
<1> SUFFICES ASSUME Init PROVE BeliefInv
  OBVIOUS
<1>1. /\ toServer = <<>> /\ now = 0 /\ \A p \in Proc : inbox[p] = <<>>
      /\ \A p \in Proc : ctx[p].lease_expires = 0
  BY DEF Init, Client!Init, Client!Fresh
<1>2. ReleaseLast
  BY <1>1 DEF ReleaseLast
<1>3. ASSUME NEW p \in Proc
      PROVE  /\ BackedClient(db[Inet], ctx[p], IdOf[p], now)
             /\ BackedMail(db[Inet], inbox[p], IdOf[p])
  <2>1. TableTimeout \in Nat
    BY SystemAssumption
  <2>2. BackedClient(db[Inet], ctx[p], IdOf[p], now)
    BY <1>1, <2>1 DEF BackedClient
  <2>3. BackedMail(db[Inet], inbox[p], IdOf[p])
    BY <1>1 DEF BackedMail
  <2> QED BY <2>2, <2>3
<1> QED BY <1>2, <1>3, ComponentsInit DEF BeliefInv

\* What a client believes the server knows.  While a client counts on a lease,
\* the database has its table under its name for at least as long: whatever
\* crashes, sweeps, retransmissions, renewals and releases of other addresses
\* happen.  It takes that an address has one client, and that a client starts
\* after the datagrams of its predecessor are handled.  (BeliefBacked; run
\* System; the run SameAddressTwice has two clients on one address.)
THEOREM BelievedLeasesAreStored ==
    ASSUME OneProcessEach, "flap" \notin Unlucky
    PROVE  Spec => []BeliefBacked
<1>1. BeliefInv /\ [Next]_vars => BeliefInv'
  BY BeliefStep
<1>2. BeliefInv => BeliefBacked
  BY DEF BeliefInv, BeliefBacked, BackedClient, Backed, HasLease, Running
<1> QED
  BY <1>1, <1>2, BeliefInit, PTL DEF Spec

-----------------------------------------------------------------------------
(* End to end: what the clients believe is what LeaseService promises.  A    *)
(* reply is read in the second in which it was sent, so its lease has its    *)
(* full time left; the row behind it and the row behind what a client still  *)
(* believes are rows of one identity, which has one; and a row has one       *)
(* identity.  A reply without a table would leave a client with a table that *)
(* has run out: it never gets one, because its release is its last datagram. *)

\* A reply without a table reaches no client that runs.
TableMail ==
    \A p \in Proc : \A k \in 1 .. Len(inbox[p]) : inbox[p][k].table # 0

\* The invariant that the refinement needs.
ServedInv == BeliefInv /\ TableMail

\* What a client with context c believes.
LeaseOf(c) ==
    IF c.state = "running" /\ c.rt_table # 0
    THEN [table |-> c.rt_table, expires |-> c.lease_expires]
    ELSE Server!NoLease

\* The belief of an address is that of its client, if it has one.
BeliefsAre ==
    /\ \A p \in Proc : Believed[Inet][IdOf[p]] = LeaseOf(ctx[p])
    /\ \A i \in Id : (\A p \in Proc : IdOf[p] # i) =>
          Believed[Inet][i] = Server!NoLease
    /\ Believed = [f \in {Inet} |-> [i \in Id |-> Believed[Inet][i]]]

\* Where an address has one client, its belief is that client's.
LEMMA BelievedOf == OneProcessEach => BeliefsAre
<1> SUFFICES ASSUME OneProcessEach PROVE BeliefsAre
  OBVIOUS
<1>1. \A i \in Id : Believed[Inet][i] =
          IF \E p \in Proc : IdOf[p] = i /\ HasLease(p)
          THEN LET p == CHOOSE q \in Proc : IdOf[q] = i /\ HasLease(q)
               IN  [table |-> ctx[p].rt_table, expires |-> ctx[p].lease_expires]
          ELSE Server!NoLease
  BY DEF Believed
<1>2. ASSUME NEW p \in Proc PROVE Believed[Inet][IdOf[p]] = LeaseOf(ctx[p])
  <2> DEFINE Mine(q) == IdOf[q] = IdOf[p] /\ HasLease(q)
  <2>0. IdOf[p] \in Id
    BY SystemAssumption
  <2>1. \A q \in Proc : Mine(q) => q = p
    BY DEF OneProcessEach
  <2>2. CASE HasLease(p)
    <3>1. (CHOOSE q \in Proc : Mine(q)) = p
      BY <2>1, <2>2
    <3>2. \E q \in Proc : Mine(q)
      BY <2>2
    <3>3. Believed[Inet][IdOf[p]] =
            [table |-> ctx[p].rt_table, expires |-> ctx[p].lease_expires]
      BY <1>1, <2>0, <3>1, <3>2
    <3> QED
      BY <2>2, <3>3 DEF LeaseOf, HasLease, Running
  <2>3. CASE ~HasLease(p)
    <3>1. ~ \E q \in Proc : Mine(q)
      BY <2>1, <2>3
    <3>2. Believed[Inet][IdOf[p]] = Server!NoLease
      BY <1>1, <2>0, <3>1
    <3> QED
      BY <2>3, <3>2 DEF LeaseOf, HasLease, Running
  <2> QED
    BY <2>2, <2>3
<1>3. Believed = [f \in {Inet} |-> [i \in Id |-> Believed[Inet][i]]]
  BY DEF Believed
<1> QED
  BY <1>1, <1>2, <1>3 DEF BeliefsAre

\* A step of one client changes one belief.
LEMMA BelievedStep ==
    ASSUME OneProcessEach, ctx \in [Proc -> CP!Ctx], NEW p \in Proc, NEW d,
           ctx' = [ctx EXCEPT ![p] = d]
    PROVE  Believed' = [Believed EXCEPT ![Inet][IdOf[p]] = LeaseOf(d)]
<1>1. BeliefsAre /\ BeliefsAre'
  BY BelievedOf, PTL DEF OneProcessEach
<1> DEFINE B == Believed[Inet]
<1>2. ASSUME NEW i \in Id
      PROVE  Believed'[Inet][i] = IF i = IdOf[p] THEN LeaseOf(d) ELSE B[i]
  <2>1. CASE i = IdOf[p]
    BY <1>1, <2>1 DEF BeliefsAre, LeaseOf, Server!NoLease
  <2>2. ASSUME NEW q \in Proc, i = IdOf[q], i # IdOf[p]
        PROVE  Believed'[Inet][i] = B[i]
    BY <1>1, <2>2 DEF BeliefsAre, LeaseOf, Server!NoLease
  <2>3. CASE \A q \in Proc : i # IdOf[q]
    BY <1>1, <2>3 DEF BeliefsAre, Server!NoLease
  <2> QED
    BY <2>1, <2>2, <2>3
<1> QED
  BY <1>1, <1>2 DEF BeliefsAre

\* An emptied or shortened queue has no new replies.
LEMMA TableMailOne ==
    ASSUME PartsInv, TableMail, NEW p \in Proc,
           \/ UNCHANGED inbox
           \/ inbox' = [inbox EXCEPT ![p] = <<>>]
           \/ inbox[p] # <<>> /\ inbox' = [inbox EXCEPT ![p] = Tail(@)]
    PROVE  TableMail'
<1> SUFFICES ASSUME NEW q \in Proc, NEW k \in 1 .. Len(inbox'[q])
             PROVE  inbox'[q][k].table # 0
  BY DEF TableMail
<1>1. inbox \in [Proc -> Seq([table : Nat, expires : Nat])]
  BY OneClient
<1>2. CASE inbox'[q] = inbox[q]
  BY <1>2 DEF TableMail
<1>3. CASE inbox'[q] = <<>>
  BY <1>3
<1>4. CASE inbox[q] # <<>> /\ inbox'[q] = Tail(inbox[q])
  <2>1. inbox'[q][k] = inbox[q][k + 1] /\ k + 1 \in 1 .. Len(inbox[q])
    BY <1>1, <1>4, HeadTailProperties, LenProperties
  <2> QED
    BY <2>1 DEF TableMail
<1> QED
  BY <1>1, <1>2, <1>3, <1>4

\* The server's answer to a release finds no client.
LEMMA TableMailDatagram ==
    ASSUME ServedInv, HandleDatagram
    PROVE  TableMail'
<1> DEFINE i == Head(toServer).id
<1>0. /\ i \in Id /\ toServer # <<>> /\ UNCHANGED ctx
      /\ toServer \in Seq([cmd : {"REQ", "REL"}, id : Id])
      /\ PartsInv /\ Answer(Inet, i)
      /\ inbox \in [Proc -> Seq([table : Nat, expires : Nat])]
  BY HeadType, ComponentsTyped, ServerShape
     DEF HandleDatagram, ServedInv, BeliefInv, PartsInv, CP!CountInv, CP!TypeOK
<1>1. \/ Server!HandleReq(Inet, i)
      \/ Head(toServer).cmd = "REL" /\ Server!HandleRelease(Inet, i)
  BY DEF HandleDatagram
<1>2. CASE UNCHANGED inbox
  BY <1>2 DEF ServedInv, TableMail
<1>3. ASSUME Head(toServer).cmd = "REL", NEW r, Client!Deliver(i, r)
      PROVE  UNCHANGED inbox
  <2>1. Head(toServer) = toServer[1] /\ 1 \in 1 .. Len(toServer)
    BY <1>0, HeadTailProperties, EmptySeq, LenProperties
  <2>2. \A p \in Proc : IdOf[p] = i => ~ctx[p].sock
    BY <1>0, <1>3, <2>1, OneClient DEF ServedInv, BeliefInv, ReleaseLast
  <2> QED
    BY <1>0, <1>3, <2>2 DEF Client!Deliver
<1>4. ASSUME NEW r, r.table # 0, Client!Deliver(i, r) PROVE TableMail'
  <2> SUFFICES ASSUME NEW q \in Proc, NEW k \in 1 .. Len(inbox'[q])
               PROVE  inbox'[q][k].table # 0
    BY DEF TableMail
  <2>1. CASE inbox'[q] = inbox[q]
    BY <2>1 DEF ServedInv, TableMail
  <2>2. CASE inbox'[q] = Append(inbox[q], r)
    <3> DEFINE s == inbox[q]
    <3>1. s \in Seq([table : Nat, expires : Nat])
      BY <1>0
    <3>2. k \in 1 .. Len(s) \/ k = Len(s) + 1
      BY <2>2, <3>1
    <3>3. k \in 1 .. Len(s) => inbox'[q][k] = s[k]
      BY <2>2, <3>1
    <3>4. k = Len(s) + 1 => inbox'[q][k] = r
      BY <2>2, <3>1
    <3> QED
      BY <1>4, <3>2, <3>3, <3>4 DEF ServedInv, TableMail
  <2> QED
    BY <1>4, <2>1, <2>2 DEF Client!Deliver
<1> HIDE DEF i
<1>5. CASE Server!HandleReq(Inet, i)
  <2>1. CASE reply'.type \in {"refused", "failed"}
    BY <1>0, <1>2, <2>1 DEF Answer
  <2>2. ASSUME NEW t \in Tables, reply'.type = "granted",
               granted'[Inet][i] = [table |-> t, expires |-> now + TableTimeout]
        PROVE  TableMail'
    <3>1. granted'[Inet][i].table # 0
      BY <2>2, SystemAssumption DEF Tables
    <3>2. Client!Deliver(i, granted'[Inet][i])
      BY <1>0, <2>2 DEF Answer
    <3> QED
      BY <1>4, <3>1, <3>2
  <2> QED
    BY <1>0, <1>5, <2>1, <2>2, RequestAnswer
<1>6. CASE Head(toServer).cmd = "REL" /\ Server!HandleRelease(Inet, i)
  <2>1. CASE reply'.type = "failed"
    BY <1>0, <1>2, <2>1 DEF Answer
  <2>2. CASE reply'.type = "released"
    <3>1. Client!Deliver(i, Server!NoLease)
      BY <1>0, <2>2 DEF Answer
    <3> QED
      BY <1>2, <1>3, <1>6, <3>1
  <2> QED
    BY <1>0, <1>6, <2>1, <2>2, ReleaseAnswer
<1> QED
  BY <1>1, <1>5, <1>6

\* Every step of the host keeps the invariant.
LEMMA ServedStep ==
    ASSUME OneProcessEach, "flap" \notin Unlucky, ServedInv, [Next]_vars
    PROVE  ServedInv'
<1>0. BeliefInv' /\ PartsInv /\ TableMail
  BY BeliefStep, ComponentsTyped DEF ServedInv, BeliefInv
<1> SUFFICES TableMail'
  BY <1>0 DEF ServedInv
<1>1. CASE UNCHANGED inbox
  BY <1>0, <1>1 DEF TableMail
<1>2. CASE HandleDatagram
  BY <1>2, TableMailDatagram
<1>3. CASE Sweep \/ StartServer \/ CrashServer
  BY <1>1, <1>3 DEF Sweep, StartServer, CrashServer, clientVars
<1>4. ASSUME NEW p \in Proc, ClientStep(p) PROVE TableMail'
  <2>1. CASE ClientTimeout(p)
    <3>1. UNCHANGED inbox \/ inbox' = [inbox EXCEPT ![p] = <<>>]
      BY <1>0, <2>1, TimeoutShape
    <3> QED
      BY <1>0, <3>1, TableMailOne
  <2>2. CASE ClientReceive(p)
    BY <1>0, <2>2, ReceiveShape, TableMailOne
  <2>3. CASE ClientAddressRemoved(p)
    BY <1>0, <2>3, RemovedShape, TableMailOne
  <2> QED
    BY <1>4, <2>1, <2>2, <2>3 DEF ClientStep
<1>5. ASSUME NEW p \in Proc, HookStep(p) PROVE TableMail'
  <2>1. UNCHANGED inbox
    BY <1>5, LaunchShape, QuietShape DEF HookStep, clientVars
  <2> QED
    BY <1>1, <2>1
<1>6. ASSUME NEW i \in Id, AddressGone(i) PROVE TableMail'
  BY <1>1, <1>6 DEF AddressGone
<1>7. CASE Tick
  BY <1>1, <1>7, QuietShape
<1>8. CASE UNCHANGED vars
  BY <1>1, <1>8 DEF vars, clientVars
<1> QED
  BY <1>2, <1>3, <1>4, <1>5, <1>6, <1>7, <1>8 DEF Next

-----------------------------------------------------------------------------
(* The steps, as steps of LeaseService.                                      *)

\* A reply that a client reads is a Grant of LeaseService.
LEMMA ReadIsGrant ==
    ASSUME OneProcessEach, ServedInv, NEW p \in Proc, ClientReceive(p)
    PROVE  HostService!Next
<1> DEFINE r == Head(inbox[p])
           i == IdOf[p]
<1>0. /\ PartsInv /\ ComponentsInv /\ i \in Id /\ BeliefsAre
      /\ now \in Nat /\ TableTimeout \in Nat \ {0}
      /\ ctx \in [Proc -> CP!Ctx]
      /\ inbox[p] \in Seq([table : Nat, expires : Nat])
  BY ComponentsTyped, OneClient, SystemAssumption, BelievedOf
     DEF ServedInv, BeliefInv
<1>1. inbox[p] # <<>> /\ UNCHANGED now /\ r.table # 0
  <2>1. inbox[p] # <<>> /\ UNCHANGED now
    BY <1>0, ReceiveShape
  <2>2. r = inbox[p][1] /\ 1 \in 1 .. Len(inbox[p])
    BY <1>0, <2>1, HeadTailProperties, EmptySeq, LenProperties
  <2> QED
    BY <2>1, <2>2 DEF ServedInv, TableMail
<1>2. PICK d : /\ ctx' = [ctx EXCEPT ![p] = d] /\ d.state = "running"
               /\ d.lease_expires = r.expires /\ d.rt_table = r.table
  BY <1>0, <1>1, ReceiveTable
<1>3. Backed(db[Inet], i, r.table, r.expires) /\ r.expires = now + TableTimeout
  <2>1. BackedReply(db[Inet], r, i)
    BY <1>0, <1>1, MailQueue DEF ServedInv, BeliefInv
  <2> QED
    BY <1>0, <1>1, <2>1, MailIsFresh DEF BackedReply
<1>4. r.table \in Tables
  BY <1>3 DEF Backed
<1>5. LeaseOf(d) = [table |-> r.table, expires |-> now + TableTimeout]
  BY <1>1, <1>2, <1>3 DEF LeaseOf
<1>6. Believed' = [Believed EXCEPT ![Inet][i] =
                      [table |-> r.table, expires |-> now + TableTimeout]]
  <2>1. OneProcessEach
    OBVIOUS
  <2>2. Believed' = [Believed EXCEPT ![Inet][IdOf[p]] = LeaseOf(d)]
    BY <1>0, <1>2, <2>1, BelievedStep, Zenon
  <2> QED
    BY <1>5, <2>2
\* What a client holds is a row of its identity.
<1>7. ASSUME NEW j \in Id, Believed[Inet][j].expires > now
      PROVE  /\ Believed[Inet][j].table \in Tables
             /\ db[Inet][Believed[Inet][j].table].id = j
  <2>1. Server!NoLease.expires = 0 /\ ~(0 > now)
    BY <1>0 DEF Server!NoLease
  <2>2. PICK q \in Proc : IdOf[q] = j
    BY <1>0, <1>7, <2>1 DEF BeliefsAre
  <2>3. LeaseOf(ctx[q]).expires > now /\ Believed[Inet][j] = LeaseOf(ctx[q])
    BY <1>0, <1>7, <2>2 DEF BeliefsAre
  <2>4. /\ ctx[q].state = "running" /\ ctx[q].rt_table # 0
        /\ ctx[q].lease_expires > now /\ LeaseOf(ctx[q]).table = ctx[q].rt_table
    BY <2>1, <2>3 DEF LeaseOf
  <2> QED
    BY <2>2, <2>3, <2>4 DEF ServedInv, BeliefInv, BackedClient, Backed
<1>8. Believed[Inet][i].expires > now => Believed[Inet][i].table = r.table
  <2>1. SP!OneRowPerIdentity /\ Tables = SP!Tables
    BY <1>0 DEF ComponentsInv, SP!ServiceInv, Tables, SP!Tables
  <2> QED
    BY <1>0, <1>3, <1>4, <1>7, <2>1 DEF SP!OneRowPerIdentity, Backed
<1>9. \A j \in Id \ {i} : Believed[Inet][j].expires > now =>
          Believed[Inet][j].table # r.table
  BY <1>3, <1>7 DEF Backed
<1>10. HostService!Grant(Inet, i, r.table)
  BY <1>1, <1>6, <1>8, <1>9 DEF HostService!Grant, HostService!Held
<1> QED
  BY <1>0, <1>4, <1>10 DEF HostService!Next

\* Every step of the host is one of LeaseService or leaves it alone.
LEMMA HostServiceStep ==
    ASSUME OneProcessEach, ServedInv, [Next]_vars
    PROVE  [HostService!Next]_(HostService!vars)
<1>0. /\ PartsInv /\ BeliefsAre /\ ctx \in [Proc -> CP!Ctx]
  BY ComponentsTyped, BelievedOf DEF ServedInv, BeliefInv, PartsInv,
     CP!CountInv, CP!TypeOK
<1>1. UNCHANGED ctx => UNCHANGED Believed
  BY DEF Believed, HasLease, Running, Server!NoLease
<1>2. CASE UNCHANGED <<ctx, now>>
  BY <1>1, <1>2 DEF HostService!vars
<1>3. CASE HandleDatagram \/ Sweep \/ StartServer \/ CrashServer
  BY <1>2, <1>3, ServerShape
<1>4. ASSUME NEW p \in Proc, NEW d, ctx' = [ctx EXCEPT ![p] = d],
             LeaseOf(d) = LeaseOf(ctx[p]), UNCHANGED now
      PROVE  UNCHANGED HostService!vars
  <2>1. Believed' = [Believed EXCEPT ![Inet][IdOf[p]] = LeaseOf(ctx[p])]
    <3>1. Believed' = [Believed EXCEPT ![Inet][IdOf[p]] = LeaseOf(d)]
      BY <1>0, <1>4, BelievedStep, Zenon
    <3> QED
      BY <1>4, <3>1
  <2>2. Believed[Inet][IdOf[p]] = LeaseOf(ctx[p])
    BY <1>0 DEF BeliefsAre
  <2>3. Believed' = Believed
    BY <1>0, <2>1, <2>2 DEF BeliefsAre
  <2> QED
    BY <1>4, <2>3 DEF HostService!vars
<1>5. ASSUME NEW p \in Proc, ClientTimeout(p) PROVE UNCHANGED HostService!vars
  <2>1. UNCHANGED now /\ Running(p)
    BY <1>0, <1>5, TimeoutShape
  <2>2. PICK d : /\ ctx' = [ctx EXCEPT ![p] = d] /\ SameLease(ctx[p], d)
                 /\ d.state = "running" \/ ctx[p].rt_table = 0
    BY <1>0, <1>5, TimeoutShape
  <2>3. LeaseOf(d) = LeaseOf(ctx[p])
    BY <2>1, <2>2 DEF LeaseOf, SameLease, Running
  <2> QED
    BY <1>4, <2>1, <2>2, <2>3
<1>6. ASSUME NEW p \in Proc, ClientAddressRemoved(p) PROVE HostService!Next
  <2>1. UNCHANGED now
    BY <1>0, <1>6, RemovedShape
  <2>2. PICK d : ctx' = [ctx EXCEPT ![p] = d] /\ d.state = "stopped"
    BY <1>0, <1>6, RemovedShape
  <2>3. LeaseOf(d) = HostService!NoLease
    BY <2>2 DEF LeaseOf, Server!NoLease, HostService!NoLease
  <2>4. Believed' = [Believed EXCEPT ![Inet][IdOf[p]] = HostService!NoLease]
    BY <1>0, <2>2, <2>3, BelievedStep
  <2>5. HostService!Release(Inet, IdOf[p])
    BY <2>1, <2>4 DEF HostService!Release
  <2> QED
    BY <2>5, SystemAssumption DEF HostService!Next
<1>7. ASSUME NEW p \in Proc, HookStartClient(p) PROVE UNCHANGED HostService!vars
  <2>1. UNCHANGED now /\ ~Running(p)
    BY <1>7, LaunchShape
  <2>2. PICK d : ctx' = [ctx EXCEPT ![p] = d] /\ d.rt_table = 0
    BY <1>7, LaunchShape
  <2>3. LeaseOf(d) = LeaseOf(ctx[p])
    BY <2>1, <2>2 DEF LeaseOf, Running
  <2> QED
    BY <1>4, <2>1, <2>2, <2>3
<1>8. ASSUME NEW p \in Proc, HookAddAddress(p) \/ HookConfigure(p)
      PROVE  UNCHANGED HostService!vars
  BY <1>2, <1>8, QuietShape DEF clientVars, HostService!vars, Believed,
     HasLease, Running, Server!NoLease
<1>9. CASE \E i \in Id : AddressGone(i)
  BY <1>2, <1>9, QuietShape
<1>10. CASE Tick
  BY <1>1, <1>10, QuietShape DEF HostService!Next, HostService!Tick
<1>11. CASE UNCHANGED vars
  BY <1>2, <1>11 DEF vars, clientVars
<1> QED
  BY <1>3, <1>5, <1>6, <1>7, <1>8, <1>9, <1>10, <1>11, ReadIsGrant
     DEF Next, ClientStep, HookStep

\* The clients get what LeaseService promises: across lost datagrams,
\* retransmissions, late sweeps, crashes and restarts of the server, what the
\* running clients believe of their leases is exclusive, is renewed on the
\* same table for its full time, and ends early only with its client.  It takes
\* what BelievedLeasesAreStored takes.  (HostServiceSpec; run System.)
THEOREM HostImplementsService ==
    ASSUME OneProcessEach, "flap" \notin Unlucky
    PROVE  Spec => HostServiceSpec
<1>1. Init => HostService!Init /\ ServedInv
  <2> SUFFICES ASSUME Init PROVE HostService!Init /\ ServedInv
    OBVIOUS
  <2>1. /\ now = 0 /\ \A p \in Proc : inbox[p] = <<>>
        /\ \A p \in Proc : ~HasLease(p)
    BY DEF Init, Client!Init, Client!Fresh, HasLease, Running
  <2>2. Believed = [f \in {Inet} |-> [i \in Id |-> HostService!NoLease]]
    BY <2>1 DEF Believed, HostService!NoLease, Server!NoLease
  <2>3. TableMail
    BY <2>1 DEF TableMail
  <2> QED
    BY <2>1, <2>2, <2>3, BeliefInit DEF HostService!Init, ServedInv
<1>2. ServedInv /\ [Next]_vars => ServedInv'
  BY ServedStep
<1>3. ServedInv /\ [Next]_vars => [HostService!Next]_(HostService!vars)
  BY HostServiceStep
<1> QED
  BY <1>1, <1>2, <1>3, PTL DEF Spec, HostServiceSpec, HostService!Spec
=============================================================================
