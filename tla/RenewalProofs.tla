--------------------------- MODULE RenewalProofs ---------------------------
(***************************************************************************)
(* LeaseKept: no lease runs out under a running client.  A client renews   *)
(* at half its lease and then asks again every Retransmit seconds.  A      *)
(* request is lost in a second in which the server is down, and of those   *)
(* there are at most one for each crash and one for each second of outage. *)
(* From the same bound, NoFalseFailure: no client gives up while a table   *)
(* is there for it.                                                        *)
(***************************************************************************)
EXTENDS AllocatorSystemProofs

\* A lease outlasts the losses: what is left after the first renewal is due is
\* longer than the retransmissions that an outage can cost.
OutlastsOutage ==
    /\ TableTimeout \in 2 .. UintMod - 1
    /\ Retransmit * (MaxOutage + MaxCrashes) < TableTimeout - TableTimeout \div 2

\* The server's socket has room for a request and a release of every other
\* address.
RoomForAll == IsFiniteSet(Id) /\ MaxInFlight >= 2 * Cardinality(Id) - 1

\* When a client renews: this long after the grant.
Half == TableTimeout \div 2

\* The seconds that lost requests have cost so far, at most.
Losses == Retransmit * (outage + crashes)

\* A request of p is at the server, or the reply at p.
Request(p) == [cmd |-> "REQ", id |-> IdOf[p]]
Asked(p)   == \E k \in 1 .. Len(toServer) : toServer[k] = Request(p)
Pending(p) == Asked(p) \/ inbox[p] # <<>>

\* No datagram is queued twice at the server's socket.
NoDuplicates ==
    \A j, k \in 1 .. Len(toServer) : toServer[j] = toServer[k] => j = k

\* A request is answered in the second it is sent, and nothing is sent while
\* one is pending.
Waits(p) ==
    /\ Running(p) /\ Pending(p) => ctx[p].request_timer = now + Retransmit
    /\ inbox[p] # <<>> =>
          /\ ~Asked(p) /\ Len(inbox[p]) = 1 /\ Head(inbox[p]).table # 0

\* A client with a lease is never late by more than its lost requests cost.
\* While the server is down, the second's request is counted before it is lost.
Renews(p) == HasLease(p) =>
    /\ ctx[p].sock /\ ctx[p].request_timer >= now
    /\ ctx[p].request_timer + TableTimeout
          + (IF ~up /\ ctx[p].request_timer = now THEN Retransmit ELSE 0)
       <= ctx[p].lease_expires + Half + Losses
          + (IF Pending(p) THEN Retransmit ELSE 0)

\* The inductive invariant of LeaseKept.
KeptInv ==
    /\ BeliefInv
    /\ ~up => toServer = <<>>
    /\ outage \in 0 .. MaxOutage /\ crashes \in 0 .. MaxCrashes
    /\ NoDuplicates
    /\ \A p \in Proc : Waits(p) /\ Renews(p)

-----------------------------------------------------------------------------
(* Arithmetic and types.                                                     *)

\* The numbers.
LEMMA Numbers ==
    ASSUME OutlastsOutage
    PROVE  /\ TableTimeout \in Nat /\ Half \in Nat /\ Half >= 1
           /\ Half < TableTimeout
           /\ (TableTimeout % UintMod) \div 2 = Half
           /\ Retransmit \in Nat /\ Retransmit >= 1
           /\ MaxOutage \in Nat /\ MaxCrashes \in Nat
<1>1. /\ UintMod \in Nat \ {0} /\ Retransmit \in Nat \ {0}
      /\ MaxOutage \in Nat /\ MaxCrashes \in Nat
  BY SystemAssumption
<1>2. TableTimeout \in Nat /\ TableTimeout >= 2 /\ TableTimeout < UintMod
  BY <1>1 DEF OutlastsOutage
<1>3. TableTimeout % UintMod = TableTimeout
  BY <1>1, <1>2
<1>4. Half \in Nat /\ Half >= 1 /\ Half < TableTimeout
  BY <1>2 DEF Half
<1> QED BY <1>1, <1>2, <1>3, <1>4 DEF Half

\* A crash, and a second of outage, cost one retransmission.
LEMMA LossesGrow ==
    ASSUME NEW m \in Nat, NEW n \in Nat
    PROVE  /\ Retransmit * m \in Nat
           /\ Retransmit * (m + 1) = Retransmit * m + Retransmit
           /\ m <= n => Retransmit * m <= Retransmit * n
<1>1. Retransmit \in Nat
  BY SystemAssumption
<1>2. Retransmit * m \in Nat
  BY <1>1
<1>3. Retransmit * (m + 1) = Retransmit * m + Retransmit
  BY <1>1
<1>4. ASSUME m <= n PROVE Retransmit * m <= Retransmit * n
  <2>1. PICK d \in Nat : n = m + d
    <3>1. n - m \in Nat /\ n = m + (n - m)
      BY <1>4
    <3> QED BY <3>1
  <2>2. Retransmit * n = Retransmit * m + Retransmit * d
    BY <1>1, <2>1
  <2>3. Retransmit * d \in Nat
    BY <1>1
  <2> QED BY <1>2, <2>2, <2>3
<1> QED BY <1>2, <1>3, <1>4

\* A queue has room for a datagram.
LEMMA QueueBound == MaxInFlight \in Nat /\ MaxInFlight >= 1
BY SystemAssumption

\* The types of what Renews compares.
LEMMA KeptTyped ==
    ASSUME KeptInv, NEW p \in Proc
    PROVE  /\ PartsInv /\ ctx \in [Proc -> CP!Ctx] /\ ctx[p] \in CP!Ctx
           /\ ctx[p].request_timer \in Int /\ ctx[p].lease_expires \in Nat
           /\ now \in Nat /\ Losses \in Nat /\ outage \in Nat /\ crashes \in Nat
           /\ inbox \in [Proc -> Seq([table : Nat, expires : Nat])]
           /\ toServer \in Seq([cmd : {"REQ", "REL"}, id : Id])
           /\ Len(toServer) \in Nat /\ IdOf[p] \in Id
           /\ up \in BOOLEAN
<1>1. /\ PartsInv /\ ctx \in [Proc -> CP!Ctx] /\ ctx[p] \in CP!Ctx
      /\ now \in Nat /\ inbox \in [Proc -> Seq([table : Nat, expires : Nat])]
      /\ toServer \in Seq([cmd : {"REQ", "REL"}, id : Id]) /\ IdOf[p] \in Id
  BY ComponentsTyped, OneClient DEF KeptInv, BeliefInv
<1>2. ctx[p].request_timer \in Int /\ ctx[p].lease_expires \in Nat
  BY <1>1 DEF CP!Ctx
<1>3. outage \in Nat /\ crashes \in Nat
  BY SystemAssumption DEF KeptInv
<1>4. Losses \in Nat
  BY <1>3, LossesGrow DEF Losses
<1>5. up \in BOOLEAN
  BY <1>1 DEF PartsInv, SP!TypeInv, SP!TypeOK
<1> QED BY <1>1, <1>2, <1>3, <1>4, <1>5, LenProperties

\* The invariant is enough: a lease ends later than the losses.
LEMMA KeptEnough ==
    ASSUME OutlastsOutage, KeptInv
    PROVE  LeaseKept
<1> SUFFICES ASSUME NEW p \in Proc, HasLease(p)
             PROVE  ctx[p].lease_expires > now
  BY DEF LeaseKept
<1>1. Losses <= Retransmit * (MaxOutage + MaxCrashes)
  <2>1. /\ outage + crashes \in Nat /\ MaxOutage + MaxCrashes \in Nat
        /\ outage + crashes <= MaxOutage + MaxCrashes
    BY Numbers DEF KeptInv
  <2> QED BY <2>1, LossesGrow DEF Losses
<1>2. Losses + Half < TableTimeout
  <2> DEFINE m == Retransmit * (MaxOutage + MaxCrashes)
  <2>1. m \in Nat
    <3>1. MaxOutage + MaxCrashes \in Nat
      BY Numbers
    <3> QED BY <3>1, LossesGrow
  <2>2. m < TableTimeout - Half
    BY DEF OutlastsOutage, Half
  <2>3. Losses <= m
    BY <1>1
  <2>4. Losses \in Nat /\ Half \in Nat /\ TableTimeout \in Nat
    BY Numbers, KeptTyped
  <2> HIDE DEF m
  <2> QED BY <2>1, <2>2, <2>3, <2>4
<1>3. /\ Running(p) /\ Waits(p) /\ ctx[p].request_timer >= now
      /\ ctx[p].request_timer + TableTimeout
            + (IF ~up /\ ctx[p].request_timer = now THEN Retransmit ELSE 0)
         <= ctx[p].lease_expires + Half + Losses
            + (IF Pending(p) THEN Retransmit ELSE 0)
  BY DEF KeptInv, Renews, HasLease
<1>4. /\ Losses \in Nat /\ Half \in Nat /\ TableTimeout \in Nat /\ now \in Nat
      /\ Retransmit \in Nat /\ ctx[p].request_timer \in Int
      /\ ctx[p].lease_expires \in Nat
  BY Numbers, KeptTyped
<1>5. CASE Pending(p)
  <2>1. ctx[p].request_timer = now + Retransmit
    BY <1>3, <1>5 DEF Waits
  <2> QED BY <1>2, <1>3, <1>4, <1>5, <2>1
<1>6. CASE ~Pending(p)
  BY <1>2, <1>3, <1>4, <1>6
<1> QED BY <1>5, <1>6

-----------------------------------------------------------------------------
(* The queue at the server's socket.                                         *)

\* A datagram joins.
LEMMA DatagramJoins ==
    ASSUME toServer \in Seq([cmd : {"REQ", "REL"}, id : Id]), NoDuplicates,
           NEW m \in [cmd : {"REQ", "REL"}, id : Id],
           \A k \in 1 .. Len(toServer) : toServer[k] # m,
           toServer' = Append(toServer, m)
    PROVE  /\ NoDuplicates'
           /\ \A q \in Proc : Asked(q)' <=> Asked(q) \/ m = Request(q)
<1>1. /\ Len(toServer) \in Nat /\ Len(toServer') = Len(toServer) + 1
      /\ toServer'[Len(toServer) + 1] = m
      /\ \A k \in 1 .. Len(toServer) : toServer'[k] = toServer[k]
  BY AppendProperties, LenProperties
<1>2. \A k : k \in 1 .. Len(toServer') <=>
                 k \in 1 .. Len(toServer) \/ k = Len(toServer) + 1
  BY <1>1
<1>3. NoDuplicates'
  BY <1>1, <1>2 DEF NoDuplicates
<1>4. ASSUME NEW q \in Proc PROVE Asked(q)' <=> Asked(q) \/ m = Request(q)
  BY <1>1, <1>2 DEF Asked
<1> QED BY <1>3, <1>4

\* The first datagram is taken.
LEMMA DatagramLeaves ==
    ASSUME toServer \in Seq([cmd : {"REQ", "REL"}, id : Id]), NoDuplicates,
           toServer # <<>>, toServer' = Tail(toServer)
    PROVE  /\ NoDuplicates'
           /\ \A q \in Proc :
                 Asked(q)' <=> Asked(q) /\ Head(toServer) # Request(q)
<1>1. /\ Len(toServer) \in Nat /\ Len(toServer) >= 1
      /\ Len(toServer') = Len(toServer) - 1
      /\ Head(toServer) = toServer[1]
      /\ \A k \in 1 .. Len(toServer') : toServer'[k] = toServer[k + 1]
  BY HeadTailProperties, EmptySeq, LenProperties
<1>2. \A k \in 1 .. Len(toServer') : k + 1 \in 1 .. Len(toServer)
  BY <1>1
<1>3. NoDuplicates'
  <2> SUFFICES ASSUME NEW j \in 1 .. Len(toServer'), NEW k \in 1 .. Len(toServer'),
                      toServer'[j] = toServer'[k]
               PROVE  j = k
    BY DEF NoDuplicates
  <2>1. j + 1 = k + 1
    BY <1>1, <1>2 DEF NoDuplicates
  <2> QED BY <2>1
<1>4. ASSUME NEW q \in Proc
      PROVE  Asked(q)' <=> Asked(q) /\ Head(toServer) # Request(q)
  <2>1. ASSUME Asked(q)' PROVE Asked(q) /\ Head(toServer) # Request(q)
    <3>1. PICK k \in 1 .. Len(toServer') : toServer'[k] = Request(q)
      BY <2>1 DEF Asked
    <3>2. k + 1 \in 1 .. Len(toServer) /\ toServer[k + 1] = Request(q)
      BY <1>1, <1>2, <3>1
    <3>3. 1 \in 1 .. Len(toServer) /\ k + 1 # 1
      BY <1>1
    <3> QED BY <1>1, <3>2, <3>3 DEF Asked, NoDuplicates
  <2>2. ASSUME Asked(q), Head(toServer) # Request(q) PROVE Asked(q)'
    <3>1. PICK k \in 1 .. Len(toServer) : toServer[k] = Request(q)
      BY <2>2 DEF Asked
    <3>2. k - 1 \in 1 .. Len(toServer') /\ (k - 1) + 1 = k
      BY <1>1, <2>2, <3>1
    <3>3. toServer'[k - 1] = Request(q)
      BY <1>1, <3>1, <3>2
    <3> QED BY <3>2, <3>3 DEF Asked
  <2> QED BY <2>1, <2>2
<1> QED BY <1>3, <1>4

\* A running client that has not asked has no datagram queued, and the socket
\* has room for one.
LEMMA RoomToAsk ==
    ASSUME RoomForAll, KeptInv, NEW p \in Proc, Running(p), ~Asked(p)
    PROVE  /\ \A k \in 1 .. Len(toServer) : toServer[k].id # IdOf[p]
           /\ Len(toServer) < MaxInFlight
<1> DEFINE n == Len(toServer)
           Others == Id \ {IdOf[p]}
           T == {"REQ", "REL"} \X Others
<1>0. /\ toServer \in Seq([cmd : {"REQ", "REL"}, id : Id]) /\ n \in Nat
      /\ IdOf[p] \in Id /\ NoDuplicates /\ ReleaseLast
      /\ \A k \in 1 .. n : toServer[k] \in [cmd : {"REQ", "REL"}, id : Id]
  BY KeptTyped, ElementOfSeq DEF KeptInv, BeliefInv
<1>1. ASSUME NEW k \in 1 .. n PROVE toServer[k].id # IdOf[p]
  <2>1. CASE toServer[k].cmd = "REL"
    BY <1>0, <2>1 DEF ReleaseLast
  <2>2. CASE toServer[k].cmd = "REQ"
    <3>1. toServer[k].id = IdOf[p] => toServer[k] = Request(p)
      BY <1>0, <2>2 DEF Request
    <3> QED BY <3>1 DEF Asked
  <2> QED BY <1>0, <2>1, <2>2
<1>2. IsFiniteSet(T) /\ Cardinality(T) = 2 * (Cardinality(Id) - 1)
  <2>1. IsFiniteSet({"REQ", "REL"}) /\ Cardinality({"REQ", "REL"}) = 2
    <3>1. /\ IsFiniteSet({"REQ"}) /\ Cardinality({"REQ"}) = 1
          /\ "REL" \notin {"REQ"} /\ {"REQ", "REL"} = {"REQ"} \cup {"REL"}
      BY FS_Singleton
    <3> QED BY <3>1, FS_AddElement
  <2>2. IsFiniteSet(Others) /\ Cardinality(Others) = Cardinality(Id) - 1
    BY <1>0, FS_RemoveElement DEF RoomForAll
  <2> HIDE DEF Others
  <2>3. IsFiniteSet(T) /\ Cardinality(T) = 2 * Cardinality(Others)
    BY <2>1, <2>2, FS_Product
  <2> QED BY <2>2, <2>3
<1>3. ASSUME n >= MaxInFlight PROVE FALSE
  <2> DEFINE f == [k \in 1 .. n |-> <<toServer[k].cmd, toServer[k].id>>]
  <2>1. f \in [1 .. n -> T]
    BY <1>0, <1>1
  <2>2. IsFiniteSet(1 .. n) /\ Cardinality(1 .. n) = n
    BY <1>0, FS_Interval
  <2>3. Cardinality(T) < n
    <3>1. Cardinality(Id) \in Nat /\ MaxInFlight \in Nat
      BY SystemAssumption, FS_CardinalityType DEF RoomForAll
    <3> HIDE DEF T, n
    <3> QED BY <1>0, <1>2, <1>3, <3>1 DEF RoomForAll
  <2>4. PICK x \in 1 .. n, y \in 1 .. n : x # y /\ f[x] = f[y]
    <3> HIDE DEF f, T
    <3> QED BY <1>2, <2>1, <2>2, <2>3, FS_PigeonHole
  <2>5. toServer[x] = toServer[y]
    BY <1>0, <2>4
  <2> QED BY <1>0, <2>4, <2>5 DEF NoDuplicates
<1>4. n < MaxInFlight
  BY <1>0, <1>3, QueueBound
<1> QED BY <1>0, <1>1, <1>4

-----------------------------------------------------------------------------
(* The timers that the callbacks arm.                                        *)

\* A client that is due sends a request and waits Retransmit for the answer.
LEMMA TimeoutTiming ==
    ASSUME PartsInv, NEW p \in Proc, ClientTimeout(p), ctx'[p].state = "running"
    PROVE  /\ Send /\ UNCHANGED inbox
           /\ \/ ~ctx[p].sock
              \/ ctx[p].sock /\ now >= ctx[p].request_timer
           /\ \E d : /\ ctx' = [ctx EXCEPT ![p] = d] /\ SameLease(ctx[p], d)
                     /\ d.state = "running" /\ d.sock
                     /\ d.request_timer = now + Retransmit
<1>0. /\ ctx \in [Proc -> CP!Ctx] /\ ctx[p] \in CP!Ctx
      /\ Running(p) /\ now \in Nat
  BY OneClient, TimeoutShape
<1>1. CASE Client!SocketTimeout(p) /\ Send
  <2> DEFINE d == Client!Armed([ctx[p] EXCEPT !.sock = TRUE], Retransmit)
  <2>1. ctx' = [ctx EXCEPT ![p] = d] /\ UNCHANGED inbox /\ ~ctx[p].sock
    BY <1>1 DEF Client!SocketTimeout
  <2>2. /\ SameLease(ctx[p], d) /\ d.state = "running" /\ d.sock
        /\ d.request_timer = now + Retransmit
    BY <1>0 DEF Client!Armed, CP!Ctx, SameLease, Running
  <2> HIDE DEF d
  <2> QED BY <1>1, <2>1, <2>2
<1>2. CASE Client!RequestTimeout(p) /\ Send
  <2>1. ctx[p].sock /\ now >= ctx[p].request_timer
    BY <1>0, <1>2 DEF Client!RequestTimeout, Client!NoTimer, PartsInv,
                      CP!CountInv, CP!Bounded, CP!NoTimer, Running
  <2>2. CASE Client!GiveUp(p)
    <3> DEFINE d == [Client!Exited(Client!Counted(ctx[p]), "stopped")
                        EXCEPT !.output = ctx[p].rt_table]
    <3>1. ctx' = [ctx EXCEPT ![p] = d]
      BY <2>2 DEF Client!GiveUp
    <3>2. d.state = "stopped"
      BY <1>0 DEF Client!Exited, Client!Counted, CP!Ctx
    <3> HIDE DEF d
    <3> QED BY <1>0, <3>1, <3>2
  <2>3. CASE /\ ctx' = [ctx EXCEPT ![p] =
                          Client!Armed(IF @.rt_table # 0 THEN @
                                       ELSE Client!Counted(@), Retransmit)]
             /\ UNCHANGED inbox
    <3> DEFINE d == Client!Armed(IF ctx[p].rt_table # 0 THEN ctx[p]
                                 ELSE Client!Counted(ctx[p]), Retransmit)
    <3>1. ctx' = [ctx EXCEPT ![p] = d]
      BY <2>3
    <3>2. /\ SameLease(ctx[p], d) /\ d.state = "running" /\ d.sock
          /\ d.request_timer = now + Retransmit
      BY <1>0, <2>1 DEF Client!Armed, Client!Counted, CP!Ctx, SameLease, Running
    <3> HIDE DEF d
    <3> QED BY <1>2, <2>1, <2>3, <3>1, <3>2
  <2> QED BY <1>2, <2>2, <2>3 DEF Client!RequestTimeout
<1> QED BY <1>1, <1>2 DEF ClientTimeout

\* A client that gets a table renews at half of what the lease then has.
LEMMA ReceiveTiming ==
    ASSUME PartsInv, NEW p \in Proc, ClientReceive(p), Head(inbox[p]).table # 0
    PROVE  /\ ctx'[p].sock /\ ctx'[p].lease_expires = Head(inbox[p]).expires
           /\ ctx'[p].request_timer =
                 now + (((Head(inbox[p]).expires - now) % UintMod) \div 2)
<1> DEFINE r == Head(inbox[p])
           c == CP!WithLease(ctx[p], r)
           d == IF c.rules_added THEN c ELSE [c EXCEPT !.rules_added = TRUE]
<1>0. /\ ctx \in [Proc -> CP!Ctx] /\ ctx[p] \in CP!Ctx /\ now \in Nat
      /\ r \in [table : Nat, expires : Nat]
      /\ Client!Receive(p) /\ ctx[p].sock /\ IdOf[p] \in Id
  BY OneClient, ReceiveShape DEF ClientReceive, Client!Receive
<1>1. c \in CP!Ctx
  BY <1>0, CP!WithLeaseType, ComponentAssumptions DEF CP!Answer
<1>2. PICK kinds \in CP!KindsSent : CP!NewRules(p, c, kinds)
  BY <1>0 DEF Client!Receive, Client!ReceiveNoTable, Client!ReceiveLease,
              Client!KindsSent, CP!KindsSent,
              Client!Kinds, CP!Kinds, Client!NewRules, CP!NewRules,
              Client!AllSent, CP!AllSent, Client!Cardinality, CP!Cardinality,
              Client!RuleOf, CP!RuleOf, Client!WithLease, CP!WithLease,
              Client!Printed, CP!Printed
<1>3. kinds = {"addr", "nw", "def"} /\ CP!AllSent(kinds)
  BY <1>2, CP!KindsSentType, CP!AllSentKinds, ComponentAssumptions
<1>4. /\ c.sock /\ c.lease_expires = r.expires
      /\ c.request_timer = now + (((r.expires - now) % UintMod) \div 2)
  BY <1>0 DEF CP!WithLease, CP!Ctx
<1> HIDE DEF c
<1>5. ctx' = [ctx EXCEPT ![p] = d]
  BY <1>2, <1>3 DEF CP!NewRules
<1>6. /\ d.sock /\ d.lease_expires = r.expires
      /\ d.request_timer = now + (((r.expires - now) % UintMod) \div 2)
  BY <1>1, <1>4 DEF CP!Ctx
<1> HIDE DEF d
<1> QED BY <1>0, <1>5, <1>6

-----------------------------------------------------------------------------
(* Every step keeps KeptInv.                                                 *)

\* A step of one client p leaves the others where they are.
LEMMA KeptOne ==
    ASSUME KeptInv, BeliefInv', NEW p \in Proc,
           UNCHANGED <<up, outage, crashes, now>>,
           ~up => UNCHANGED toServer, NoDuplicates',
           \A q \in Proc : q # p =>
               /\ ctx'[q] = ctx[q] /\ inbox'[q] = inbox[q]
               /\ Asked(q)' <=> Asked(q),
           Waits(p)', Renews(p)'
    PROVE  KeptInv'
<1>1. ASSUME NEW q \in Proc, q # p PROVE Waits(q)' /\ Renews(q)'
  <2>1. Pending(q)' <=> Pending(q)
    BY <1>1 DEF Pending
  <2>2. Losses' = Losses
    BY DEF Losses
  <2>3. Waits(q)'
    BY <1>1, <2>1 DEF KeptInv, Waits, Running
  <2>4. Renews(q)'
    BY <1>1, <2>1, <2>2 DEF KeptInv, Renews, HasLease, Running
  <2> QED BY <2>3, <2>4
<1> QED BY <1>1 DEF KeptInv

\* A request is sent by a client that has none pending, and is lost only when
\* the server is down.
LEMMA RequestSent ==
    ASSUME OneProcessEach, OutlastsOutage, RoomForAll, KeptInv,
           NEW p \in Proc, ClientTimeout(p), ctx'[p].state = "running"
    PROVE  /\ ~Pending(p) /\ UNCHANGED inbox
           /\ ~ctx[p].sock \/ now >= ctx[p].request_timer
           /\ ~up => UNCHANGED toServer
           /\ NoDuplicates' /\ (Asked(p)' <=> up)
           /\ \A q \in Proc : q # p => (Asked(q)' <=> Asked(q))
<1>0. /\ PartsInv /\ ctx \in [Proc -> CP!Ctx] /\ Running(p)
      /\ UNCHANGED <<up, outage, crashes, now>> /\ IdOf[p] \in Id
      /\ inbox \in [Proc -> Seq([table : Nat, expires : Nat])]
      /\ toServer \in Seq([cmd : {"REQ", "REL"}, id : Id])
      /\ now \in Nat /\ Retransmit \in Nat /\ Retransmit >= 1
      /\ \A q \in Proc : q # p => IdOf[q] # IdOf[p]
  BY KeptTyped, TimeoutShape, Numbers DEF serverVars, OneProcessEach
<1>1. /\ Send /\ UNCHANGED inbox
      /\ ~ctx[p].sock \/ now >= ctx[p].request_timer
  BY <1>0, TimeoutTiming
<1>2. PICK d : /\ ctx' = [ctx EXCEPT ![p] = d] /\ SameLease(ctx[p], d)
               /\ d.state = "running" /\ d.sock
               /\ d.request_timer = now + Retransmit
  BY <1>0, TimeoutTiming
<1>3. ~Pending(p)
  <2>1. ctx[p].request_timer # now + Retransmit
    <3>1. CASE ~ctx[p].sock
      BY <1>0, <3>1, KeptTyped DEF PartsInv, CP!CountInv, CP!Bounded, CP!NoTimer, Running
    <3>2. CASE now >= ctx[p].request_timer
      BY <1>0, <3>2, KeptTyped
    <3> QED BY <1>1, <3>1, <3>2
  <2> QED BY <1>0, <2>1 DEF KeptInv, Waits
<1>4. /\ ctx'[p] = d /\ \A q \in Proc : q # p => ctx'[q] = ctx[q]
      /\ inbox'[p] = <<>> /\ inbox[p] = <<>>
  BY <1>0, <1>1, <1>2, <1>3 DEF Pending
<1>5. /\ Len(toServer) < MaxInFlight
      /\ \A k \in 1 .. Len(toServer) : toServer[k] # Request(p)
  BY <1>0, <1>3, RoomToAsk DEF Pending, Asked
<1>6. MaySend(p)
  <2>1. \E e : /\ ctx' = [ctx EXCEPT ![p] = e]
               /\ MaySend(p) \/ e.state = "stopped"
    BY <1>0, TimeoutShape
  <2> QED BY <1>0, <2>1
<1>7. IF up THEN toServer' = Append(toServer, Request(p)) ELSE UNCHANGED toServer
  BY <1>1, <1>5, <1>6 DEF Send, MaySend, Request
<1>8. Request(p) \in [cmd : {"REQ", "REL"}, id : Id]
      /\ \A q \in Proc : Request(q) = Request(p) => q = p
  BY <1>0 DEF Request
<1>9. /\ NoDuplicates'
      /\ Asked(p)' <=> up
      /\ \A q \in Proc : q # p => (Asked(q)' <=> Asked(q))
  <2>1. CASE up
    BY <1>0, <1>5, <1>7, <1>8, <2>1, DatagramJoins DEF KeptInv
  <2>2. CASE ~up
    BY <1>3, <1>7, <2>2 DEF KeptInv, NoDuplicates, Asked, Pending
  <2> QED BY <2>1, <2>2
<1> QED BY <1>1, <1>3, <1>7, <1>9

\* A request is sent.  If the server runs it will be answered in this second.
\* If not, the second was counted when it began.
LEMMA KeptTimeout ==
    ASSUME OneProcessEach, OutlastsOutage, RoomForAll, KeptInv, BeliefInv',
           NEW p \in Proc, ClientTimeout(p)
    PROVE  KeptInv'
<1>0. /\ PartsInv /\ ctx \in [Proc -> CP!Ctx] /\ Running(p)
      /\ UNCHANGED <<up, outage, crashes, now>> /\ IdOf[p] \in Id
      /\ inbox \in [Proc -> Seq([table : Nat, expires : Nat])]
      /\ toServer \in Seq([cmd : {"REQ", "REL"}, id : Id])
      /\ now \in Nat /\ Retransmit \in Nat /\ Retransmit >= 1
      /\ \A q \in Proc : q # p => IdOf[q] # IdOf[p]
  BY KeptTyped, TimeoutShape, Numbers DEF serverVars, OneProcessEach
<1>1. CASE ctx'[p].state # "running"
  <2>1. PICK d : /\ ctx' = [ctx EXCEPT ![p] = d]
                 /\ \/ d.state = "running"
                    \/ /\ inbox' = [inbox EXCEPT ![p] = <<>>]
                       /\ UNCHANGED toServer
    BY <1>0, TimeoutShape
  <2>2. /\ \A q \in Proc : q # p => ctx'[q] = ctx[q] /\ inbox'[q] = inbox[q]
        /\ inbox'[p] = <<>> /\ UNCHANGED toServer
    BY <1>0, <1>1, <2>1
  <2>3. NoDuplicates' /\ \A q \in Proc : Asked(q)' <=> Asked(q)
    BY <2>2 DEF KeptInv, NoDuplicates, Asked
  <2>4. Waits(p)' /\ Renews(p)'
    BY <1>1, <2>2 DEF Waits, Renews, HasLease, Running
  <2> QED BY <1>0, <2>2, <2>3, <2>4, KeptOne
<1>2. CASE ctx'[p].state = "running"
  <2>1. /\ UNCHANGED inbox /\ ~Pending(p)
        /\ ~ctx[p].sock \/ now >= ctx[p].request_timer
        /\ ~up => UNCHANGED toServer
    BY <1>2, RequestSent
  <2>2. PICK d : /\ ctx' = [ctx EXCEPT ![p] = d] /\ SameLease(ctx[p], d)
                 /\ d.state = "running" /\ d.sock
                 /\ d.request_timer = now + Retransmit
    BY <1>0, <1>2, TimeoutTiming
  <2>3. /\ ctx'[p] = d /\ \A q \in Proc : q # p => ctx'[q] = ctx[q]
        /\ inbox'[p] = <<>> /\ inbox[p] = <<>>
    BY <1>0, <2>1, <2>2 DEF Pending
  <2>4. /\ NoDuplicates'
        /\ Asked(p)' <=> up
        /\ \A q \in Proc : q # p => (Asked(q)' <=> Asked(q))
    BY <1>2, RequestSent
  <2>5. Waits(p)'
    BY <1>0, <2>2, <2>3 DEF Waits
  <2>6. Renews(p)'
    <3> SUFFICES ASSUME HasLease(p)'
                 PROVE  now + Retransmit + TableTimeout
                           <= ctx[p].lease_expires + Half + Losses
                              + (IF up THEN Retransmit ELSE 0)
      <4>1. Losses' = Losses
        BY <1>0 DEF Losses
      <4>2. Pending(p)' <=> up
        BY <2>3, <2>4 DEF Pending
      <4>3. now + Retransmit # now /\ now + Retransmit >= now
        BY <1>0
      <4>4. now + Retransmit + TableTimeout + 0 = now + Retransmit + TableTimeout
        BY <1>0, Numbers
      <4> QED BY <1>0, <2>2, <2>3, <4>1, <4>2, <4>3, <4>4 DEF Renews, SameLease
    <3>1. HasLease(p)
      BY <1>0, <2>2, <2>3 DEF HasLease, SameLease
    <3>2. /\ ctx[p].sock /\ ctx[p].request_timer >= now
          /\ ctx[p].request_timer + TableTimeout
                + (IF ~up /\ ctx[p].request_timer = now THEN Retransmit ELSE 0)
             <= ctx[p].lease_expires + Half + Losses
                + (IF Pending(p) THEN Retransmit ELSE 0)
      BY <3>1 DEF KeptInv, Renews
    <3>3. /\ ctx[p].request_timer \in Int /\ ctx[p].lease_expires \in Nat
          /\ Losses \in Nat /\ Half \in Nat /\ TableTimeout \in Nat
      BY KeptTyped, Numbers
    <3>4. ctx[p].request_timer = now
      BY <1>0, <2>1, <3>2, <3>3
    <3>5. now + TableTimeout + (IF ~up THEN Retransmit ELSE 0)
             <= ctx[p].lease_expires + Half + Losses + 0
      BY <2>1, <3>2, <3>4
    <3>6. CASE up
      BY <1>0, <3>3, <3>5, <3>6
    <3>7. CASE ~up
      BY <1>0, <3>3, <3>5, <3>7
    <3> QED BY <3>6, <3>7
  <2> QED BY <1>0, <2>1, <2>3, <2>4, <2>5, <2>6, KeptOne
<1> QED BY <1>1, <1>2

\* A reply is a new lease: the next renewal is Half ahead, the expiry a whole.
LEMMA KeptReceive ==
    ASSUME OutlastsOutage, KeptInv, BeliefInv', NEW p \in Proc, ClientReceive(p)
    PROVE  KeptInv'
<1> DEFINE r == Head(inbox[p])
<1>0. /\ PartsInv /\ Running(p) /\ inbox[p] # <<>>
      /\ UNCHANGED <<up, outage, crashes, now, toServer>>
      /\ inbox' = [inbox EXCEPT ![p] = Tail(@)]
      /\ now \in Nat /\ Losses \in Nat
      /\ inbox \in [Proc -> Seq([table : Nat, expires : Nat])]
  BY KeptTyped, ReceiveShape DEF serverVars
<1>1. ~Asked(p) /\ Len(inbox[p]) = 1 /\ r.table # 0
  BY <1>0 DEF KeptInv, Waits
<1>2. r.expires = now + TableTimeout
  BY <1>0, <1>1, MailIsFresh DEF KeptInv, BeliefInv
<1>3. /\ ctx'[p].sock /\ ctx'[p].lease_expires = now + TableTimeout
      /\ ctx'[p].request_timer = now + Half
  <2>1. (now + TableTimeout) - now = TableTimeout
    BY <1>0, Numbers
  <2> QED BY <1>0, <1>1, <1>2, <2>1, ReceiveTiming, Numbers
<1>4. \A q \in Proc : q # p => ctx'[q] = ctx[q] /\ inbox'[q] = inbox[q]
  <2>1. ctx \in [Proc -> CP!Ctx]
    BY KeptTyped
  <2>2. PICK d : ctx' = [ctx EXCEPT ![p] = d]
    BY <1>0, <1>1, ReceiveTable
  <2>3. \A q \in Proc : q # p => ctx'[q] = ctx[q]
    BY <2>1, <2>2
  <2>4. \A q \in Proc : q # p => inbox'[q] = inbox[q]
    BY <1>0
  <2> QED
    BY <2>3, <2>4
<1>5. inbox'[p] = <<>>
  <2>1. Len(Tail(inbox[p])) = 0 /\ Tail(inbox[p]) \in Seq([table : Nat, expires : Nat])
    BY <1>0, <1>1, HeadTailProperties
  <2> QED BY <1>0, <2>1, EmptySeq
<1>6. NoDuplicates' /\ \A q \in Proc : Asked(q)' <=> Asked(q)
  BY <1>0 DEF KeptInv, NoDuplicates, Asked
<1>7. ~Pending(p)'
  BY <1>1, <1>5, <1>6 DEF Pending
<1>8. Waits(p)'
  BY <1>5, <1>7 DEF Waits
<1>9. Renews(p)'
  <2>1. Losses' = Losses
    BY <1>0 DEF Losses
  <2>2. /\ now + Half >= now /\ now + Half # now
        /\ now + Half + TableTimeout + 0 <= now + TableTimeout + Half + Losses + 0
    <3>1. Half \in Nat /\ Half >= 1 /\ TableTimeout \in Nat
      BY Numbers
    <3> QED BY <1>0, <3>1
  <2> QED BY <1>0, <1>3, <1>7, <2>1, <2>2 DEF Renews
<1> QED BY <1>0, <1>4, <1>6, <1>8, <1>9, KeptOne

\* A client that ends leaves at most a release.
LEMMA KeptRemoved ==
    ASSUME OneProcessEach, KeptInv, BeliefInv', NEW p \in Proc,
           ClientAddressRemoved(p)
    PROVE  KeptInv'
<1> DEFINE m == [cmd |-> "REL", id |-> IdOf[p]]
<1>0. /\ PartsInv /\ ctx \in [Proc -> CP!Ctx] /\ Running(p) /\ IdOf[p] \in Id
      /\ UNCHANGED <<up, outage, crashes, now>>
      /\ inbox' = [inbox EXCEPT ![p] = <<>>]
      /\ toServer' \in {toServer, Append(toServer, m)}
      /\ inbox \in [Proc -> Seq([table : Nat, expires : Nat])]
      /\ toServer \in Seq([cmd : {"REQ", "REL"}, id : Id])
  BY KeptTyped, RemovedShape DEF serverVars
<1>1. /\ ctx'[p].state = "stopped"
      /\ \A q \in Proc : q # p => ctx'[q] = ctx[q] /\ inbox'[q] = inbox[q]
      /\ inbox'[p] = <<>>
  <2>1. PICK d : ctx' = [ctx EXCEPT ![p] = d] /\ d.state = "stopped"
    BY <1>0, RemovedShape
  <2> QED BY <1>0, <2>1
<1>2. ~up => UNCHANGED toServer
  BY DEF ClientAddressRemoved, Client!AddressRemoved, Send
<1>3. \A k \in 1 .. Len(toServer) : toServer[k] # m
  BY <1>0 DEF KeptInv, BeliefInv, ReleaseLast
<1>4. m \in [cmd : {"REQ", "REL"}, id : Id] /\ \A q \in Proc : m # Request(q)
  <2>1. \A q \in Proc : Request(q).cmd = "REQ" /\ m.cmd = "REL"
    BY DEF Request
  <2> QED BY <1>0, <2>1
<1>5. NoDuplicates' /\ \A q \in Proc : Asked(q)' <=> Asked(q)
  <2>1. CASE UNCHANGED toServer
    BY <2>1 DEF KeptInv, NoDuplicates, Asked
  <2>2. CASE toServer' = Append(toServer, m)
    <3> HIDE DEF m
    <3> QED BY <1>0, <1>3, <1>4, <2>2, DatagramJoins DEF KeptInv
  <2> QED BY <1>0, <2>1, <2>2
<1>6. Waits(p)' /\ Renews(p)'
  BY <1>1 DEF Waits, Renews, HasLease, Running
<1> QED BY <1>0, <1>1, <1>2, <1>5, <1>6, KeptOne

\* A client starts without a lease and with nothing pending.
LEMMA KeptLaunch ==
    ASSUME "flap" \notin Unlucky, KeptInv, BeliefInv', NEW p \in Proc,
           HookStartClient(p)
    PROVE  KeptInv'
<1>0. /\ ~Running(p) /\ UNCHANGED <<up, outage, crashes, now, toServer, inbox>>
      /\ \A k \in 1 .. Len(toServer) : toServer[k].id # IdOf[p]
  BY LaunchShape DEF serverVars
<1>1. ctx'[p].rt_table = 0 /\ \A q \in Proc : q # p => ctx'[q] = ctx[q]
  BY LaunchShape, KeptTyped
<1>2. NoDuplicates' /\ \A q \in Proc : Asked(q)' <=> Asked(q)
  BY <1>0 DEF KeptInv, NoDuplicates, Asked
<1>3. inbox[p] = <<>>
  BY <1>0, MailIsFresh DEF KeptInv, BeliefInv
<1>4. ~Asked(p)
  BY <1>0 DEF Asked, Request
<1>5. Waits(p)' /\ Renews(p)'
  BY <1>0, <1>1, <1>2, <1>3, <1>4 DEF Waits, Renews, Pending, HasLease
<1> QED BY <1>0, <1>1, <1>2, <1>5, KeptOne

\* A datagram is handled.  A client with a lease has a row, so its request is
\* answered.
LEMMA KeptDatagram ==
    ASSUME OneProcessEach, OutlastsOutage, KeptInv, BeliefInv', HandleDatagram
    PROVE  KeptInv'
<1> DEFINE i == Head(toServer).id
<1>0. /\ i \in Id /\ toServer # <<>> /\ PartsInv /\ UNCHANGED <<ctx, now>>
      /\ toServer \in Seq([cmd : {"REQ", "REL"}, id : Id])
      /\ toServer' = Tail(toServer) /\ Answer(Inet, i)
      /\ Head(toServer) \in [cmd : {"REQ", "REL"}, id : Id]
      /\ \/ Head(toServer).cmd = "REQ" /\ Server!HandleReq(Inet, i)
         \/ Head(toServer).cmd = "REL" /\ Server!HandleRelease(Inet, i)
  BY HeadType, ComponentsTyped, ServerShape, HeadTailProperties
     DEF HandleDatagram, KeptInv, BeliefInv
<1>1. up /\ UNCHANGED <<up, outage, crashes>>
  BY <1>0 DEF HandleDatagram, Server!HandleReq, Server!HandleRelease
<1>2. /\ NoDuplicates'
      /\ \A q \in Proc : Asked(q)' <=> Asked(q) /\ Head(toServer) # Request(q)
  BY <1>0, DatagramLeaves DEF KeptInv
<1>3. \A q \in Proc :
         /\ ctx[q] \in CP!Ctx /\ IdOf[q] \in Id
         /\ inbox[q] \in Seq([table : Nat, expires : Nat])
         /\ ctx[q].sock => Running(q)
  BY <1>0, OneClient
<1>4. Losses' = Losses
  BY <1>1 DEF Losses
<1>5. \A q \in Proc : Head(toServer) = Request(q) <=>
                         Head(toServer).cmd = "REQ" /\ i = IdOf[q]
  BY <1>0 DEF Request
<1> HIDE DEF i
\* Nothing happens to a client that gets no reply and did not send the datagram.
<1>6. ASSUME NEW q \in Proc, inbox'[q] = inbox[q], Head(toServer) # Request(q)
      PROVE  Waits(q)' /\ Renews(q)'
  <2>1. (Asked(q)' <=> Asked(q)) /\ (Pending(q)' <=> Pending(q))
    BY <1>2, <1>6 DEF Pending
  <2> QED
    BY <1>0, <1>1, <1>4, <1>6, <2>1
       DEF KeptInv, Waits, Renews, HasLease, Running
<1>7. CASE Head(toServer).cmd = "REL" /\ Server!HandleRelease(Inet, i)
  <2>1. ASSUME NEW q \in Proc PROVE inbox'[q] = inbox[q]
    <3>1. Head(toServer) = toServer[1] /\ 1 \in 1 .. Len(toServer)
      BY <1>0, HeadTailProperties, EmptySeq, LenProperties
    <3>2. i = IdOf[q] => ~ctx[q].sock
      BY <1>3, <1>7, <3>1 DEF KeptInv, BeliefInv, ReleaseLast, i
    <3>3. reply'.type \in {"released", "failed"}
      BY <1>0, <1>7, ReleaseAnswer
    <3> QED BY <1>0, <3>2, <3>3 DEF Answer, Client!Deliver
  <2>2. \A q \in Proc : Head(toServer) # Request(q)
    BY <1>5, <1>7
  <2>3. \A q \in Proc : Waits(q)' /\ Renews(q)'
    BY <1>6, <2>1, <2>2
  <2> QED BY <1>1, <1>2, <2>3 DEF KeptInv
<1>8. CASE Head(toServer).cmd = "REQ" /\ Server!HandleReq(Inet, i)
  <2>1. \/ reply'.type \in {"refused", "failed"} /\ UNCHANGED inbox
        \/ \E t \in Tables : /\ reply'.type = "granted"
                             /\ Client!Deliver(i, [table |-> t,
                                                   expires |-> now + TableTimeout])
    BY <1>0, <1>8, RequestAnswer DEF Answer
  <2>2. ASSUME NEW q \in Proc PROVE Waits(q)' /\ Renews(q)'
    <3>1. CASE IdOf[q] # i
      <4>1. inbox'[q] = inbox[q]
        BY <2>1, <3>1 DEF Client!Deliver
      <4> QED BY <1>5, <1>6, <3>1, <4>1
    <3>2. CASE IdOf[q] = i
      <4>1. /\ Head(toServer) = Request(q) /\ Asked(q) /\ ~Asked(q)'
            /\ inbox[q] = <<>>
        <5>1. Head(toServer) = Request(q)
          BY <1>5, <1>8, <3>2
        <5>2. Head(toServer) = toServer[1] /\ 1 \in 1 .. Len(toServer)
          BY <1>0, HeadTailProperties, EmptySeq, LenProperties
        <5>3. Asked(q)
          BY <5>1, <5>2 DEF Asked
        <5> QED BY <1>2, <5>1, <5>3 DEF KeptInv, Waits
      <4>2. Running(q) => ctx[q].request_timer = now + Retransmit
        BY <4>1 DEF KeptInv, Waits, Pending
      <4>3. \/ inbox'[q] = <<>>
            \/ \E r : r.table # 0 /\ inbox'[q] = Append(<<>>, r)
        <5>1. \A t \in Tables :
                 [table |-> t, expires |-> now + TableTimeout].table # 0
          BY SystemAssumption DEF Tables
        <5> QED BY <2>1, <4>1, <5>1 DEF Client!Deliver
      <4>4. Waits(q)'
        <5>1. \A r : Len(Append(<<>>, r)) = 1 /\ Head(Append(<<>>, r)) = r
          OBVIOUS
        <5> QED BY <1>0, <4>1, <4>2, <4>3, <5>1 DEF Waits, Running
      <4>5. Renews(q)'
        <5> SUFFICES ASSUME HasLease(q) PROVE Pending(q)'
          <6>1. Pending(q)
            BY <4>1 DEF Pending
          <6> QED BY <1>0, <1>1, <1>4, <6>1
                  DEF KeptInv, Renews, HasLease, Running
        <5>1. Running(q) /\ ctx[q].sock
          BY DEF KeptInv, Renews, HasLease
        <5>2. reply'.type = "granted"
          <6>1. Backed(db[Inet], i, ctx[q].rt_table, ctx[q].lease_expires)
            BY <3>2, KeptEnough
               DEF KeptInv, BeliefInv, BackedClient, LeaseKept, HasLease, Running
          <6>2. ctx[q].rt_table \in SP!RowsOf(Inet, i)
            BY <6>1 DEF Backed, SP!RowsOf, Tables, SP!Tables
          <6>3. 0 \notin SP!get_table(Inet, i)
            <7>1. 0 \notin SP!Tables
              BY SystemAssumption DEF SP!Tables
            <7> QED BY <6>2, <7>1 DEF SP!get_table, SP!RowsOf
          <6>4. SP!HandleReq(Inet, i)
            BY <1>0, <1>8, SameServer
          <6>5. \E t \in SP!get_table(Inet, i) : SP!Reallocate(Inet, i, t)
            BY <6>3, <6>4 DEF SP!HandleReq
          <6> QED BY <6>5 DEF SP!Reallocate, SP!Grant
        <5>3. PICK t \in Tables :
                  Client!Deliver(i, [table |-> t, expires |-> now + TableTimeout])
          BY <2>1, <5>2
        <5>4. Len(inbox[q]) < MaxInFlight
          <6>1. Len(inbox[q]) = 0
            BY <4>1
          <6> QED BY <6>1, QueueBound
        <5>5. \E r : inbox'[q] = Append(<<>>, r)
          BY <3>2, <4>1, <5>1, <5>3, <5>4 DEF Client!Deliver
        <5>6. \A r : Append(<<>>, r) # <<>>
          OBVIOUS
        <5> QED BY <5>5, <5>6 DEF Pending
      <4> QED BY <4>4, <4>5
    <3> QED BY <3>1, <3>2
  <2> QED BY <1>1, <1>2, <2>2 DEF KeptInv
<1> QED BY <1>0, <1>7, <1>8

\* The server starts or sweeps: the bounds do not change.  A crash costs the
\* requests of its second, and is counted for that.
LEMMA KeptServer ==
    ASSUME OutlastsOutage, KeptInv, BeliefInv',
           Sweep \/ StartServer \/ CrashServer
    PROVE  KeptInv'
<1>0. UNCHANGED <<ctx, now, inbox, outage>>
  BY ServerShape DEF Sweep, StartServer, CrashServer, clientVars
<1>1. CASE Sweep \/ StartServer
  <2>1. /\ UNCHANGED <<toServer, crashes>> /\ up' = TRUE
        /\ Losses' = Losses
    BY <1>0, <1>1 DEF Sweep, StartServer, clientVars, Server!DeleteDeadLeases,
                      Server!Start, Losses
  <2>2. ASSUME NEW q \in Proc PROVE Waits(q)' /\ Renews(q)'
    <3>1. (Asked(q)' <=> Asked(q)) /\ (Pending(q)' <=> Pending(q))
      BY <1>0, <2>1 DEF Asked, Pending
    <3>2. Waits(q)'
      BY <1>0, <3>1 DEF KeptInv, Waits, Running
    <3>3. ASSUME HasLease(q)
          PROVE  ctx[q].request_timer + TableTimeout + 0
                    <= ctx[q].lease_expires + Half + Losses
                       + (IF Pending(q) THEN Retransmit ELSE 0)
      <4>1. ctx[q].request_timer + TableTimeout
               + (IF ~up /\ ctx[q].request_timer = now THEN Retransmit ELSE 0)
            <= ctx[q].lease_expires + Half + Losses
               + (IF Pending(q) THEN Retransmit ELSE 0)
        BY <3>3 DEF KeptInv, Renews
      <4>2. /\ ctx[q].request_timer \in Int /\ ctx[q].lease_expires \in Nat
            /\ Losses \in Nat /\ Half \in Nat /\ TableTimeout \in Nat
            /\ Retransmit \in Nat
        BY KeptTyped, Numbers
      <4> QED BY <4>1, <4>2
    <3> QED
      BY <1>0, <2>1, <3>1, <3>2, <3>3 DEF KeptInv, Renews, HasLease, Running
  <2> QED BY <1>0, <2>1, <2>2 DEF KeptInv, NoDuplicates
<1>2. CASE CrashServer
  <2>1. /\ toServer' = <<>> /\ up /\ ~up' /\ crashes' = crashes + 1
        /\ crashes < MaxCrashes
    BY <1>2 DEF CrashServer, Server!Crash
  <2>2. /\ outage \in Nat /\ crashes \in Nat /\ MaxCrashes \in Nat
        /\ crashes' \in 0 .. MaxCrashes
    BY <2>1, Numbers DEF KeptInv
  <2>3. Losses' = Losses + Retransmit
    <3>1. outage' + crashes' = (outage + crashes) + 1 /\ outage + crashes \in Nat
      BY <1>0, <2>1, <2>2
    <3> QED BY <3>1, LossesGrow DEF Losses
  <2>4. NoDuplicates' /\ \A q \in Proc : ~Asked(q)'
    BY <2>1 DEF NoDuplicates, Asked
  <2>5. ASSUME NEW q \in Proc PROVE Waits(q)' /\ Renews(q)'
    <3>1. Pending(q)' <=> inbox[q] # <<>>
      BY <1>0, <2>4 DEF Pending
    <3>2. Waits(q)'
      BY <1>0, <2>4, <3>1 DEF KeptInv, Waits, Running, Pending
    <3>3. ASSUME HasLease(q)
          PROVE  ctx[q].request_timer + TableTimeout
                    + (IF ctx[q].request_timer = now THEN Retransmit ELSE 0)
                    <= ctx[q].lease_expires + Half + (Losses + Retransmit)
                       + (IF inbox[q] # <<>> THEN Retransmit ELSE 0)
      <4>1. ctx[q].request_timer + TableTimeout + 0
            <= ctx[q].lease_expires + Half + Losses
               + (IF Pending(q) THEN Retransmit ELSE 0)
        BY <2>1, <3>3 DEF KeptInv, Renews
      <4>2. /\ ctx[q].request_timer \in Int /\ ctx[q].lease_expires \in Nat
            /\ Losses \in Nat /\ Half \in Nat /\ TableTimeout \in Nat
            /\ Retransmit \in Nat /\ Retransmit >= 1 /\ now \in Nat
        BY KeptTyped, Numbers
      <4> DEFINE a == IF ctx[q].request_timer = now THEN Retransmit ELSE 0
                 b == IF inbox[q] # <<>> THEN Retransmit ELSE 0
      <4>3. a \in {0, Retransmit} /\ b \in Nat
        BY <4>2
      <4>4. CASE Pending(q)
        <5>1. ctx[q].request_timer = now + Retransmit
          BY <3>3, <4>4 DEF KeptInv, Waits, HasLease
        <5>2. a = 0
          BY <4>2, <5>1
        <5>3. ctx[q].request_timer + TableTimeout
              <= ctx[q].lease_expires + Half + Losses + Retransmit
          BY <4>1, <4>2, <4>4
        <5> HIDE DEF a, b
        <5>4. ctx[q].request_timer + TableTimeout + a
              <= ctx[q].lease_expires + Half + (Losses + Retransmit) + b
          BY <4>2, <4>3, <5>2, <5>3
        <5> QED BY <5>4 DEF a, b
      <4>5. CASE ~Pending(q)
        <5>1. ctx[q].request_timer + TableTimeout
              <= ctx[q].lease_expires + Half + Losses
          BY <4>1, <4>2, <4>5
        <5> HIDE DEF a, b
        <5>2. ctx[q].request_timer + TableTimeout + a
              <= ctx[q].lease_expires + Half + (Losses + Retransmit) + b
          BY <4>2, <4>3, <5>1
        <5> QED BY <5>2 DEF a, b
      <4> QED BY <4>4, <4>5
    <3> QED
      BY <1>0, <2>1, <2>3, <3>1, <3>2, <3>3
         DEF KeptInv, Renews, HasLease, Running
  <2> QED BY <1>0, <2>1, <2>2, <2>4, <2>5 DEF KeptInv
<1> QED BY <1>1, <1>2

\* A second passes: nothing is pending or due.  While the server is down, the
\* second that begins may cost a request, and is counted for that.
LEMMA KeptTick ==
    ASSUME OutlastsOutage, KeptInv, BeliefInv', Tick
    PROVE  KeptInv'
<1>0. /\ UNCHANGED <<ctx, inbox, toServer>> /\ now' = now + 1
      /\ UNCHANGED <<up, crashes>>
      /\ IF up THEN toServer = <<>> /\ UNCHANGED outage
               ELSE outage < MaxOutage /\ outage' = outage + 1
      /\ \A q \in Proc : ~Client!Due(q)
  BY QuietShape DEF Tick, Server!Tick, Client!Tick
<1>1. toServer = <<>> /\ \A q \in Proc : ~Asked(q) /\ ~Asked(q)'
  BY <1>0 DEF KeptInv, Asked
<1>2. \A q \in Proc : inbox[q] = <<>>
  BY <1>0, MailIsFresh DEF Client!Due, Client!Running, Running, KeptInv, BeliefInv
<1>3. \A q \in Proc : ~Pending(q) /\ ~Pending(q)'
  BY <1>0, <1>1, <1>2 DEF Pending
<1>4. /\ outage \in Nat /\ crashes \in Nat /\ MaxOutage \in Nat
      /\ outage' \in 0 .. MaxOutage
  BY <1>0, Numbers DEF KeptInv
<1>5. Losses' = IF up THEN Losses ELSE Losses + Retransmit
  <2>1. CASE up
    BY <1>0, <2>1 DEF Losses
  <2>2. CASE ~up
    <3>1. outage' + crashes' = (outage + crashes) + 1 /\ outage + crashes \in Nat
      BY <1>0, <1>4, <2>2
    <3> QED BY <2>2, <3>1, LossesGrow DEF Losses
  <2> QED BY <2>1, <2>2
<1>6. ASSUME NEW q \in Proc PROVE Waits(q)' /\ Renews(q)'
  <2>1. Waits(q)'
    BY <1>0, <1>2, <1>3 DEF Waits
  <2>2. ASSUME HasLease(q)
        PROVE  /\ ctx[q].sock /\ ctx[q].request_timer >= now + 1
               /\ ctx[q].request_timer + TableTimeout
                     + (IF ~up /\ ctx[q].request_timer = now + 1
                        THEN Retransmit ELSE 0)
                  <= ctx[q].lease_expires + Half
                     + (IF up THEN Losses ELSE Losses + Retransmit) + 0
    <3>1. /\ ctx[q].sock /\ ctx[q].request_timer >= now
          /\ ctx[q].request_timer + TableTimeout
                + (IF ~up /\ ctx[q].request_timer = now THEN Retransmit ELSE 0)
             <= ctx[q].lease_expires + Half + Losses + 0
      BY <1>3, <2>2 DEF KeptInv, Renews
    <3>2. /\ ctx[q].request_timer \in Int /\ ctx[q].lease_expires \in Nat
          /\ Losses \in Nat /\ Half \in Nat /\ TableTimeout \in Nat
          /\ Retransmit \in Nat /\ Retransmit >= 1 /\ now \in Nat
      BY KeptTyped, Numbers
    <3>3. ctx[q].request_timer > now
      BY <1>0, <2>2, <3>1, <3>2 DEF Client!Due, Client!Running, HasLease, Running
    <3>4. CASE up
      BY <3>1, <3>2, <3>3, <3>4
    <3>5. CASE ~up
      BY <3>1, <3>2, <3>3, <3>5
    <3> QED BY <3>4, <3>5
  <2>3. Renews(q)'
    BY <1>0, <1>3, <1>5, <2>2 DEF Renews, HasLease, Running
  <2> QED BY <2>1, <2>3
<1> QED BY <1>0, <1>1, <1>4, <1>6 DEF KeptInv, NoDuplicates

\* The scripts do not touch the exchange.
LEMMA KeptQuiet ==
    ASSUME KeptInv, BeliefInv',
           UNCHANGED <<ctx, inbox, toServer, now, up, outage, crashes>>
    PROVE  KeptInv'
BY DEF KeptInv, NoDuplicates, Waits, Renews, Pending, Asked, Losses, HasLease,
       Running

\* Every step keeps the invariant.
LEMMA KeptStep ==
    ASSUME OneProcessEach, OutlastsOutage, RoomForAll, "flap" \notin Unlucky,
           KeptInv, [Next]_vars
    PROVE  KeptInv'
<1>1. BeliefInv'
  BY BeliefStep DEF KeptInv
<1>2. CASE HandleDatagram
  BY <1>1, <1>2, KeptDatagram
<1>3. CASE Sweep \/ StartServer \/ CrashServer
  BY <1>1, <1>3, KeptServer
<1>4. ASSUME NEW p \in Proc, ClientStep(p) PROVE KeptInv'
  BY <1>1, <1>4, KeptTimeout, KeptReceive, KeptRemoved DEF ClientStep
<1>5. ASSUME NEW p \in Proc, HookStep(p) PROVE KeptInv'
  <2>1. CASE HookStartClient(p)
    BY <1>1, <2>1, KeptLaunch
  <2>2. CASE HookAddAddress(p) \/ HookConfigure(p)
    BY <1>1, <2>2, QuietShape, KeptQuiet DEF clientVars, serverVars
  <2> QED BY <1>5, <2>1, <2>2 DEF HookStep
<1>6. ASSUME NEW i \in Id, AddressGone(i) PROVE KeptInv'
  BY <1>1, <1>6, QuietShape, KeptQuiet DEF serverVars
<1>7. CASE Tick
  BY <1>1, <1>7, KeptTick
<1>8. CASE UNCHANGED vars
  BY <1>1, <1>8, KeptQuiet DEF vars, clientVars, serverVars
<1> QED BY <1>2, <1>3, <1>4, <1>5, <1>6, <1>7, <1>8 DEF Next

\* Initially there are no leases.
LEMMA KeptInit == Init => KeptInv
<1> SUFFICES ASSUME Init PROVE KeptInv
  OBVIOUS
<1>1. /\ toServer = <<>> /\ outage = 0 /\ crashes = 0
      /\ \A p \in Proc : inbox[p] = <<>> /\ ctx[p].rt_table = 0
  BY DEF Init, Client!Init, Client!Fresh, Server!Init
<1>2. ASSUME NEW p \in Proc PROVE Waits(p) /\ Renews(p)
  BY <1>1 DEF Waits, Renews, Pending, Asked, HasLease
<1>3. outage \in 0 .. MaxOutage /\ crashes \in 0 .. MaxCrashes
  BY <1>1, SystemAssumption
<1> QED BY <1>1, <1>2, <1>3, BeliefInit DEF KeptInv, NoDuplicates

\* Renewal at half the lease is early enough: if the server's crashes and
\* seconds of outage, at one retransmission each, are fewer than the rest of
\* the lease, no lease runs out under a running client.  The retransmissions
\* of client_request_timeout_handle_cb are the only recovery there is.
\* (LeaseKept; run System.)
THEOREM LeasesNeverRunOut ==
    ASSUME OneProcessEach, OutlastsOutage, RoomForAll, "flap" \notin Unlucky
    PROVE  Spec => []LeaseKept
<1>1. KeptInv /\ [Next]_vars => KeptInv'
  BY KeptStep
<1>2. KeptInv => LeaseKept
  BY KeptEnough
<1> QED
  BY <1>1, <1>2, KeptInit, PTL DEF Spec

-----------------------------------------------------------------------------
(***************************************************************************)
(* NoFalseFailure: no script is told that there is no table.  A client is  *)
(* answered in the second in which it asks, unless the server is down in   *)
(* it, and gives up only after FailLimit requests.                         *)
(***************************************************************************)

\* A client outlasts the losses: the seconds of outage, with one request for
\* each time that the server is down, are fewer than those of its attempts.
OutlastsFailures ==
    Retransmit * (MaxCrashes + 1) + MaxOutage < Retransmit * FailLimit

\* Two tables for every address, and a word of them.
TablesForAll == NumTables >= 2 * Cardinality(Id) /\ NumTables >= WordBits

\* The server's condition.
LEMMA TablesSuffice ==
    ASSUME RoomForAll, TablesForAll
    PROVE  SP!QueriesWork /\ SP!TwiceTheTables
<1>1. SP!Cardinality(Id) = Cardinality(Id)
  BY DEF SP!Cardinality, Cardinality, SP!IsFiniteSet, IsFiniteSet
<1>2. SP!IsFiniteSet(Id) <=> IsFiniteSet(Id)
  BY DEF SP!IsFiniteSet, IsFiniteSet
<1> QED
  BY <1>1, <1>2 DEF RoomForAll, TablesForAll, SP!QueriesWork, SP!TwiceTheTables

\* The requests of p without an answer.
Unanswered(p) == ctx[p].num_failed + (IF Pending(p) THEN 0 ELSE 1)

\* The seconds that they have cost: each time the server is down costs one
\* request and as many more as fit into it.  While it is down, the time until
\* the next request is not used up yet.
Allowance(p) ==
    Retransmit * crashes + outage
        + (IF up THEN Retransmit ELSE ctx[p].request_timer - now)

\* A client without a table is within its allowance.
Tries(p) == Running(p) /\ ctx[p].rt_table = 0 =>
    IF ctx[p].sock
    THEN /\ ctx[p].request_timer \in now .. now + Retransmit
         /\ Retransmit * Unanswered(p) <= Allowance(p)
    ELSE ctx[p].num_failed = 0

\* The inductive invariant of NoFalseFailure.
FirstInv ==
    /\ KeptInv /\ SP!StrayInv /\ NoFalseFailure
    /\ \A p \in Proc : Tries(p)

-----------------------------------------------------------------------------
(* Types, and the steps of one client.                                       *)

\* The types of what Tries compares.
LEMMA FirstTyped ==
    ASSUME KeptInv, NEW p \in Proc
    PROVE  /\ ctx[p].num_failed \in Nat /\ Unanswered(p) \in Nat
           /\ ctx[p].request_timer \in Int /\ now \in Nat
           /\ Retransmit \in Nat /\ Retransmit >= 1
           /\ crashes \in Nat /\ outage \in Nat
           /\ Retransmit * crashes \in Nat
           /\ Retransmit * Unanswered(p) \in Nat
<1>1. /\ ctx[p] \in CP!Ctx /\ ctx[p].request_timer \in Int /\ now \in Nat
      /\ crashes \in Nat /\ outage \in Nat
  BY KeptTyped
<1>2. ctx[p].num_failed \in Nat
  BY <1>1, SystemAssumption DEF CP!Ctx
<1>3. Unanswered(p) \in Nat
  BY <1>2 DEF Unanswered
<1>4. Retransmit \in Nat /\ Retransmit >= 1
  BY SystemAssumption
<1>5. Retransmit * crashes \in Nat /\ Retransmit * Unanswered(p) \in Nat
  BY <1>1, <1>3, LossesGrow
<1> QED BY <1>1, <1>2, <1>3, <1>4, <1>5

\* A client that nothing happens to keeps its allowance: at most it is answered.
LEMMA TriesSame ==
    ASSUME KeptInv, NEW q \in Proc, Tries(q),
           ctx'[q] = ctx[q], UNCHANGED <<up, outage, crashes, now>>,
           Pending(q) => Pending(q)'
    PROVE  Tries(q)'
<1>1. /\ Unanswered(q) \in Nat /\ Unanswered(q)' \in Nat
      /\ Unanswered(q)' <= Unanswered(q)
  BY FirstTyped DEF Unanswered
<1>2. Allowance(q)' = Allowance(q) /\ Allowance(q) \in Int
  BY FirstTyped DEF Allowance
<1>3. Retransmit * Unanswered(q)' <= Retransmit * Unanswered(q)
  BY <1>1, LossesGrow
<1>4. Retransmit * Unanswered(q)' \in Nat /\ Retransmit * Unanswered(q) \in Nat
  BY <1>1, LossesGrow
<1>5. Retransmit * Unanswered(q) <= Allowance(q)
      => Retransmit * Unanswered(q)' <= Allowance(q)'
  BY <1>2, <1>3, <1>4
<1> QED BY <1>5 DEF Tries, Running

\* A client without a table counts each request but the first, and gives up at
\* the limit.
LEMMA TimeoutCounts ==
    ASSUME PartsInv, NEW p \in Proc, ClientTimeout(p), ctx[p].rt_table = 0
    PROVE  /\ ctx[p].sock => now >= ctx[p].request_timer
           /\ \/ /\ ctx'[p].state = "running"
                 /\ ctx'[p].num_failed = IF ctx[p].sock THEN ctx[p].num_failed + 1
                                         ELSE ctx[p].num_failed
              \/ ctx[p].sock /\ ctx[p].num_failed + 1 >= FailLimit
<1>0. /\ ctx \in [Proc -> CP!Ctx] /\ ctx[p] \in CP!Ctx
      /\ Running(p) /\ now \in Nat
  BY OneClient, TimeoutShape
<1>1. CASE Client!SocketTimeout(p)
  <2> DEFINE d == Client!Armed([ctx[p] EXCEPT !.sock = TRUE], Retransmit)
  <2>1. ctx' = [ctx EXCEPT ![p] = d] /\ ~ctx[p].sock
    BY <1>1 DEF Client!SocketTimeout
  <2>2. d.state = "running" /\ d.num_failed = ctx[p].num_failed
    BY <1>0 DEF Client!Armed, CP!Ctx, Running
  <2> HIDE DEF d
  <2> QED BY <1>0, <2>1, <2>2
<1>2. CASE Client!RequestTimeout(p)
  <2>1. ctx[p].sock /\ now >= ctx[p].request_timer
    BY <1>0, <1>2 DEF Client!RequestTimeout, Client!NoTimer, PartsInv,
                      CP!CountInv, CP!Bounded, CP!NoTimer, Running
  <2>2. CASE ~Client!BelowLimit(ctx[p])
    <3>1. ctx[p].num_failed \in Int /\ FailLimit \in Int
      BY <1>0, SystemAssumption DEF CP!Ctx
    <3> QED BY <2>1, <2>2, <3>1 DEF Client!BelowLimit
  <2>3. CASE ctx' = [ctx EXCEPT ![p] =
                       Client!Armed(IF @.rt_table # 0 THEN @
                                    ELSE Client!Counted(@), Retransmit)]
    <3> DEFINE d == Client!Armed(Client!Counted(ctx[p]), Retransmit)
    <3>1. ctx' = [ctx EXCEPT ![p] = d]
      BY <2>3
    <3>2. d.state = "running" /\ d.num_failed = ctx[p].num_failed + 1
      BY <1>0 DEF Client!Armed, Client!Counted, CP!Ctx, Running
    <3> HIDE DEF d
    <3> QED BY <1>0, <2>1, <3>1, <3>2
  <2> QED BY <1>2, <2>2, <2>3 DEF Client!RequestTimeout
<1> QED BY <1>1, <1>2 DEF ClientTimeout

\* A client that is due and has no answer is below the limit.
LEMMA NeverGivesUp ==
    ASSUME OutlastsFailures, KeptInv, NEW p \in Proc, Tries(p), Running(p),
           ctx[p].rt_table = 0, ctx[p].sock, now >= ctx[p].request_timer,
           ~Pending(p)
    PROVE  ctx[p].num_failed + 1 < FailLimit
<1> DEFINE n == ctx[p].num_failed + 1
<1>1. /\ ctx[p].request_timer = now /\ Unanswered(p) = n /\ n \in Nat
      /\ Retransmit * n <= Allowance(p)
  BY FirstTyped DEF Tries, Unanswered
<1>2. /\ Allowance(p) <= Retransmit * crashes + outage + Retransmit
      /\ Allowance(p) \in Int
  BY <1>1, FirstTyped DEF Allowance
<1>3. /\ crashes <= MaxCrashes /\ outage <= MaxOutage
      /\ MaxCrashes \in Nat /\ MaxOutage \in Nat /\ FailLimit \in Nat
  BY SystemAssumption DEF KeptInv
<1>4. /\ Retransmit * crashes <= Retransmit * MaxCrashes
      /\ Retransmit * MaxCrashes \in Nat
      /\ Retransmit * (MaxCrashes + 1) = Retransmit * MaxCrashes + Retransmit
      /\ Retransmit * FailLimit \in Nat /\ Retransmit * n \in Nat
      /\ FailLimit <= n => Retransmit * FailLimit <= Retransmit * n
  BY <1>1, <1>3, FirstTyped, LossesGrow
<1> HIDE DEF n
<1>5. Retransmit * n < Retransmit * FailLimit
  <2> DEFINE a == Retransmit * n
             b == Retransmit * FailLimit
             c == Retransmit * crashes
             m == Retransmit * MaxCrashes
  <2>1. /\ a \in Nat /\ b \in Nat /\ c \in Nat /\ m \in Nat
        /\ a <= Allowance(p) /\ c <= m
        /\ Allowance(p) <= c + outage + Retransmit /\ Allowance(p) \in Int
        /\ Retransmit \in Nat /\ outage \in Nat
    BY <1>1, <1>2, <1>4, FirstTyped
  <2>2. m + Retransmit + MaxOutage < b
    BY <1>4 DEF OutlastsFailures
  <2> HIDE DEF a, b, c, m
  <2>3. a < b
    BY <1>3, <2>1, <2>2
  <2> QED BY <2>3 DEF a, b
<1> QED BY <1>1, <1>3, <1>4, <1>5 DEF n

-----------------------------------------------------------------------------
(* Every step keeps FirstInv.                                                *)

\* A step of one client p leaves the others where they are.
LEMMA FirstOne ==
    ASSUME FirstInv, KeptInv', SP!StrayInv', NEW p \in Proc,
           UNCHANGED <<up, outage, crashes, now>>,
           \A q \in Proc : q # p =>
               /\ ctx'[q] = ctx[q]
               /\ Pending(q) => Pending(q)',
           Tries(p)', ctx'[p].output # 0
    PROVE  FirstInv'
<1>1. ASSUME NEW q \in Proc, q # p PROVE Tries(q)' /\ ctx'[q].output # 0
  BY <1>1, TriesSame DEF FirstInv, NoFalseFailure
<1> QED BY <1>1 DEF FirstInv, NoFalseFailure

\* A request is sent: by a client that asked before and was not answered, or
\* that asks for the first time.
LEMMA FirstTimeout ==
    ASSUME OneProcessEach, OutlastsOutage, RoomForAll, OutlastsFailures,
           FirstInv, KeptInv', SP!StrayInv', NEW p \in Proc, ClientTimeout(p)
    PROVE  FirstInv'
<1>0. /\ PartsInv /\ Running(p) /\ KeptInv /\ Tries(p)
      /\ UNCHANGED <<up, outage, crashes, now>>
  BY KeptTyped, TimeoutShape DEF serverVars, FirstInv
<1>1. ctx'[p].state = "running"
  <2> SUFFICES ASSUME ctx'[p].state # "running" PROVE FALSE
    OBVIOUS
  <2>1. /\ ctx[p].rt_table = 0
    BY <1>0, TimeoutShape, KeptTyped
  <2>2. /\ ctx[p].sock /\ now >= ctx[p].request_timer
        /\ ctx[p].num_failed + 1 >= FailLimit
    BY <1>0, <2>1, TimeoutCounts
  <2>3. ctx[p].request_timer # now + Retransmit
    BY <1>0, <2>2, FirstTyped
  <2>4. ~Pending(p)
    BY <1>0, <2>3 DEF KeptInv, Waits
  <2>5. ctx[p].num_failed + 1 < FailLimit
    BY <1>0, <2>1, <2>2, <2>4, NeverGivesUp
  <2> QED BY <1>0, <2>2, <2>5, FirstTyped, SystemAssumption
<1>2. /\ ~Pending(p) /\ UNCHANGED inbox /\ (Asked(p)' <=> up)
      /\ \A q \in Proc : q # p => (Asked(q)' <=> Asked(q))
  BY <1>0, <1>1, RequestSent
<1>3. PICK d : /\ ctx' = [ctx EXCEPT ![p] = d] /\ SameLease(ctx[p], d)
               /\ d.state = "running" /\ d.sock
               /\ d.request_timer = now + Retransmit
  BY <1>0, <1>1, TimeoutTiming
<1>4. /\ ctx'[p] = d /\ \A q \in Proc : q # p => ctx'[q] = ctx[q]
      /\ d.output # 0
  <2>1. ctx'[p] = d /\ \A q \in Proc : q # p => ctx'[q] = ctx[q]
    BY <1>0, <1>3, KeptTyped
  <2>2. ctx'[p].output = ctx[p].output
    BY <1>0, <1>1, TimeoutShape, KeptTyped
  <2> QED BY <2>1, <2>2 DEF FirstInv, NoFalseFailure
<1>5. Pending(p)' <=> up
  BY <1>2 DEF Pending
<1>6. Tries(p)'
  <2> SUFFICES ASSUME ctx[p].rt_table = 0
               PROVE  Retransmit * (d.num_failed + IF up THEN 0 ELSE 1)
                         <= Retransmit * crashes + outage + Retransmit
    <3>1. /\ now + Retransmit \in now .. now + Retransmit
          /\ now + Retransmit - now = Retransmit
      BY <1>0, FirstTyped
    <3>2. Unanswered(p)' = d.num_failed + IF up THEN 0 ELSE 1
      BY <1>4, <1>5 DEF Unanswered
    <3>3. Allowance(p)' = Retransmit * crashes + outage + Retransmit
      <4>1. ctx'[p].request_timer - now' = Retransmit
        <5>1. now' = now
          BY <1>0
        <5>2. ctx'[p].request_timer = now + Retransmit
          BY <1>3, <1>4
        <5> QED BY <1>0, <5>1, <5>2, FirstTyped
      <4>2. (IF up' THEN Retransmit ELSE ctx'[p].request_timer - now')
               = Retransmit
        BY <4>1
      <4> QED BY <1>0, <4>2 DEF Allowance
    <3>4. ctx'[p].rt_table = ctx[p].rt_table /\ ctx'[p].sock
      BY <1>3, <1>4 DEF SameLease
    <3> QED BY <1>0, <1>3, <1>4, <3>1, <3>2, <3>3, <3>4 DEF Tries
  <2> DEFINE a == d.num_failed + IF up THEN 0 ELSE 1
  <2>1. d.num_failed = IF ctx[p].sock THEN ctx[p].num_failed + 1
                       ELSE ctx[p].num_failed
    <3>1. \/ ctx[p].sock /\ ctx[p].num_failed + 1 >= FailLimit
          \/ ctx'[p].num_failed = IF ctx[p].sock THEN ctx[p].num_failed + 1
                                  ELSE ctx[p].num_failed
      BY <1>0, TimeoutCounts
    <3>2. ctx[p].sock => now >= ctx[p].request_timer
      BY <1>0, TimeoutCounts
    <3>3. ctx[p].sock => ctx[p].num_failed + 1 < FailLimit
      BY <1>0, <1>2, <3>2, NeverGivesUp
    <3> QED BY <1>0, <1>4, <3>1, <3>3, FirstTyped, SystemAssumption
  <2>2. CASE ctx[p].sock
    <3>1. ctx[p].request_timer = now /\ Unanswered(p) = ctx[p].num_failed + 1
      BY <1>0, <1>2, <2>2, FirstTyped, TimeoutCounts DEF Tries, Unanswered
    <3>2. /\ Retransmit * Unanswered(p) <= Allowance(p)
          /\ Allowance(p) = Retransmit * crashes + outage
                               + (IF up THEN Retransmit ELSE 0)
      BY <1>0, <2>2, <3>1, FirstTyped DEF Tries, Allowance
    <3>3. a = Unanswered(p) + IF up THEN 0 ELSE 1
      BY <1>0, <2>1, <2>2, <3>1, FirstTyped
    <3>4. Retransmit * a = Retransmit * Unanswered(p)
                              + (IF up THEN 0 ELSE Retransmit)
      <4>1. CASE up
        BY <1>0, <3>3, <4>1, FirstTyped
      <4>2. CASE ~up
        BY <1>0, <3>3, <4>2, FirstTyped, LossesGrow
      <4> QED BY <4>1, <4>2
    <3> HIDE DEF a
    <3>5. Retransmit * a <= Retransmit * crashes + outage + Retransmit
      <4> DEFINE x == Retransmit * Unanswered(p)
                 y == Retransmit * crashes
      <4>1. /\ x \in Nat /\ y \in Nat /\ outage \in Nat /\ Retransmit \in Nat
            /\ x <= y + outage + (IF up THEN Retransmit ELSE 0)
        BY <1>0, <3>2, FirstTyped
      <4> HIDE DEF x, y
      <4>2. x + (IF up THEN 0 ELSE Retransmit) <= y + outage + Retransmit
        BY <4>1
      <4> QED BY <3>4, <4>2 DEF x, y
    <3> QED BY <3>5 DEF a
  <2>3. CASE ~ctx[p].sock
    <3>1. a = IF up THEN 0 ELSE 1
      BY <1>0, <2>1, <2>3 DEF Tries
    <3>2. Retransmit * 0 = 0 /\ Retransmit * 1 = Retransmit
      BY <1>0, FirstTyped
    <3>3. Retransmit * a \in {0, Retransmit}
      BY <3>1, <3>2
    <3>4. /\ Retransmit * crashes \in Nat /\ outage \in Nat
          /\ Retransmit \in Nat
      BY <1>0, FirstTyped
    <3> HIDE DEF a
    <3>5. Retransmit * a <= Retransmit * crashes + outage + Retransmit
      BY <3>3, <3>4
    <3> QED BY <3>5 DEF a
  <2> QED BY <2>2, <2>3
<1>7. \A q \in Proc : q # p => (Pending(q) => Pending(q)')
  BY <1>2 DEF Pending
<1> QED BY <1>0, <1>4, <1>6, <1>7, FirstOne

\* A reply is a table, and what is printed of it is not 0.
LEMMA FirstReceive ==
    ASSUME FirstInv, KeptInv', SP!StrayInv', NEW p \in Proc, ClientReceive(p)
    PROVE  FirstInv'
<1>0. /\ PartsInv /\ Running(p) /\ inbox[p] # <<>> /\ KeptInv
      /\ UNCHANGED <<up, outage, crashes, now, toServer>>
      /\ inbox' = [inbox EXCEPT ![p] = Tail(@)]
      /\ inbox \in [Proc -> Seq([table : Nat, expires : Nat])]
  BY KeptTyped, ReceiveShape DEF serverVars, FirstInv
<1>1. Head(inbox[p]).table # 0
  BY <1>0 DEF KeptInv, Waits
<1>2. PICK d : /\ ctx' = [ctx EXCEPT ![p] = d] /\ d.rt_table # 0
               /\ d.output = IF ctx[p].daemonized THEN ctx[p].output
                             ELSE Head(inbox[p]).table
  <2>1. PICK d : /\ ctx' = [ctx EXCEPT ![p] = d]
                 /\ d.rt_table = Head(inbox[p]).table
                 /\ d.output = IF ctx[p].daemonized THEN ctx[p].output
                               ELSE Head(inbox[p]).table
    BY <1>0, <1>1, ReceiveTable
  <2> QED BY <1>1, <2>1
<1>3. ctx'[p] = d /\ \A q \in Proc : q # p => ctx'[q] = ctx[q]
  BY <1>0, <1>2, KeptTyped
<1>4. Tries(p)' /\ ctx'[p].output # 0
  BY <1>1, <1>2, <1>3 DEF Tries, FirstInv, NoFalseFailure
<1>5. \A q \in Proc : q # p => (Pending(q) => Pending(q)')
  BY <1>0 DEF Pending, Asked
<1> QED BY <1>0, <1>3, <1>4, <1>5, FirstOne

\* The client of a removed address ends.
LEMMA FirstRemoved ==
    ASSUME FirstInv, KeptInv', SP!StrayInv', NEW p \in Proc,
           ClientAddressRemoved(p)
    PROVE  FirstInv'
<1>0. /\ PartsInv /\ KeptInv /\ UNCHANGED <<up, outage, crashes, now>>
      /\ inbox' = [inbox EXCEPT ![p] = <<>>]
      /\ toServer' \in {toServer, Append(toServer, [cmd |-> "REL",
                                                    id |-> IdOf[p]])}
      /\ inbox \in [Proc -> Seq([table : Nat, expires : Nat])]
      /\ toServer \in Seq([cmd : {"REQ", "REL"}, id : Id]) /\ IdOf[p] \in Id
  BY KeptTyped, RemovedShape DEF serverVars, FirstInv
<1>1. /\ ctx'[p].state = "stopped" /\ ctx'[p].output = ctx[p].output
      /\ \A q \in Proc : q # p => ctx'[q] = ctx[q]
  BY <1>0, RemovedShape, KeptTyped
<1>2. Tries(p)' /\ ctx'[p].output # 0
  BY <1>1 DEF Tries, Running, FirstInv, NoFalseFailure
<1>3. /\ Len(toServer) \in Nat /\ Len(toServer') >= Len(toServer)
      /\ Len(toServer') \in Nat
      /\ \A k \in 1 .. Len(toServer) : toServer'[k] = toServer[k]
  <2> DEFINE m == [cmd |-> "REL", id |-> IdOf[p]]
  <2>1. m \in [cmd : {"REQ", "REL"}, id : Id]
    BY <1>0
  <2>2. CASE toServer' = Append(toServer, m)
    BY <1>0, <2>1, <2>2, AppendProperties, LenProperties
  <2>3. CASE toServer' = toServer
    BY <1>0, <2>3, LenProperties
  <2> QED BY <1>0, <2>2, <2>3
<1>4. \A q \in Proc : Asked(q) => Asked(q)'
  BY <1>3 DEF Asked
<1>5. \A q \in Proc : q # p => (Pending(q) => Pending(q)')
  BY <1>0, <1>4 DEF Pending
<1> QED BY <1>0, <1>1, <1>2, <1>5, FirstOne

\* A client that starts has asked for nothing yet.
LEMMA FirstLaunch ==
    ASSUME FirstInv, KeptInv', SP!StrayInv', NEW p \in Proc, HookStartClient(p)
    PROVE  FirstInv'
<1>0. UNCHANGED <<up, outage, crashes, now, toServer, inbox>>
  BY LaunchShape DEF serverVars
<1>1. ctx' = [ctx EXCEPT ![p] = Client!Fresh]
  BY DEF HookStartClient, Client!Launch
<1>2. ctx'[p] = Client!Fresh /\ \A q \in Proc : q # p => ctx'[q] = ctx[q]
  BY <1>1, KeptTyped DEF FirstInv
<1>3. Tries(p)' /\ ctx'[p].output # 0
  BY <1>2 DEF Tries, Client!Fresh, Client!NoOutput
<1>4. \A q \in Proc : Pending(q) => Pending(q)'
  BY <1>0 DEF Pending, Asked
<1> QED BY <1>0, <1>2, <1>3, <1>4, FirstOne

\* With a table for every request, handle_req answers each.
LEMMA RequestGranted ==
    ASSUME PartsInv, SP!NeverRefused', NEW i \in Id, Server!HandleReq(Inet, i)
    PROVE  reply'.type = "granted"
<1>1. SP!HandleReq(Inet, i)
  BY SameServer
<1>2. \/ \E t \in SP!get_table(Inet, i) : SP!Reallocate(Inet, i, t)
      \/ SP!AllocateNew(Inet, i)
  BY <1>1 DEF SP!HandleReq
<1>3. ASSUME NEW t \in SP!get_table(Inet, i), SP!Reallocate(Inet, i, t)
      PROVE  reply'.type = "granted"
  BY <1>3 DEF SP!Reallocate, SP!Grant
<1>4. CASE SP!AllocateNew(Inet, i)
  <2>1. \A b \in map[Inet] : SP!AllocateTable(Inet, i, b) =>
           reply'.type = "granted" \/ SP!Refuse(Inet, i)
    BY DEF SP!AllocateTable, SP!Grant
  <2>2. reply'.type = "granted" \/ SP!Refuse(Inet, i)
    BY <1>4, <2>1 DEF SP!AllocateNew, SP!Exhausted
  <2>3. ~SP!Refuse(Inet, i)
    BY DEF SP!Refuse, SP!NoAnswer, SP!NeverRefused
  <2> QED BY <2>2, <2>3
<1> QED BY <1>2, <1>3, <1>4

\* A datagram is handled: a request that is taken from the queue is replied to.
LEMMA FirstDatagram ==
    ASSUME OneProcessEach, FirstInv, KeptInv', SP!StrayInv', HandleDatagram
    PROVE  FirstInv'
<1> DEFINE i == Head(toServer).id
<1>0. /\ i \in Id /\ toServer # <<>> /\ PartsInv /\ KeptInv
      /\ UNCHANGED <<ctx, now>>
      /\ toServer \in Seq([cmd : {"REQ", "REL"}, id : Id])
      /\ toServer' = Tail(toServer) /\ Answer(Inet, i)
      /\ \/ Head(toServer).cmd = "REQ" /\ Server!HandleReq(Inet, i)
         \/ Head(toServer).cmd = "REL" /\ Server!HandleRelease(Inet, i)
  BY HeadType, ComponentsTyped, ServerShape
     DEF HandleDatagram, FirstInv, KeptInv, BeliefInv
<1>1. up /\ UNCHANGED <<up, outage, crashes>>
  BY <1>0 DEF HandleDatagram, Server!HandleReq, Server!HandleRelease
<1>2. \A q \in Proc : Asked(q)' <=> Asked(q) /\ Head(toServer) # Request(q)
  BY <1>0, DatagramLeaves DEF KeptInv
<1>3. \A q \in Proc : inbox[q] \in Seq([table : Nat, expires : Nat])
  BY <1>0, OneClient
<1> HIDE DEF i
\* No reply is taken from a client.
<1>4. ASSUME NEW q \in Proc, inbox[q] # <<>> PROVE inbox'[q] # <<>>
  <2>1. \/ UNCHANGED inbox
        \/ \E r : Client!Deliver(i, r)
    BY <1>0 DEF Answer
  <2>2. \A r : Append(inbox[q], r) # <<>>
    BY <1>3
  <2> QED BY <1>4, <2>1, <2>2 DEF Client!Deliver
<1>5. ASSUME NEW q \in Proc, ctx[q].sock, Pending(q) PROVE Pending(q)'
  <2>1. CASE Head(toServer) # Request(q)
    BY <1>2, <1>4, <1>5, <2>1 DEF Pending
  <2>2. CASE inbox[q] # <<>>
    BY <1>4, <2>2 DEF Pending
  <2>3. CASE Head(toServer) = Request(q) /\ inbox[q] = <<>>
    <3>1. IdOf[q] = i /\ Server!HandleReq(Inet, i)
      BY <1>0, <2>3 DEF Request, i
    <3>2. reply'.type = "granted"
      BY <1>0, <3>1, RequestGranted DEF SP!StrayInv
    <3>3. \E r : Client!Deliver(i, r)
      BY <1>0, <3>2 DEF Answer
    <3>4. Len(inbox[q]) < MaxInFlight
      <4>1. Len(inbox[q]) = 0
        BY <2>3
      <4> QED BY <4>1, QueueBound
    <3>5. \E r : inbox'[q] = Append(<<>>, r)
      BY <1>5, <2>3, <3>1, <3>3, <3>4 DEF Client!Deliver
    <3>6. \A r : Append(<<>>, r) # <<>>
      OBVIOUS
    <3> QED BY <3>5, <3>6 DEF Pending
  <2> QED BY <2>1, <2>2, <2>3
<1>6. ASSUME NEW q \in Proc PROVE Tries(q)'
  <2>1. CASE ctx[q].sock
    BY <1>0, <1>1, <1>5, <2>1, TriesSame DEF FirstInv
  <2>2. CASE ~ctx[q].sock
    BY <1>0, <2>2 DEF FirstInv, Tries, Running
  <2> QED BY <2>1, <2>2
<1> QED BY <1>0, <1>6 DEF FirstInv, NoFalseFailure

\* A sweep changes nothing for the clients.  A server that starts costs no more
\* than Retransmit from then on.  A crash costs the requests of its second.
LEMMA FirstServer ==
    ASSUME FirstInv, KeptInv', SP!StrayInv',
           Sweep \/ StartServer \/ CrashServer
    PROVE  FirstInv'
<1>0. KeptInv /\ UNCHANGED <<ctx, now, inbox, outage>>
  BY ServerShape DEF Sweep, StartServer, CrashServer, clientVars, FirstInv
<1>1. SUFFICES ASSUME NEW q \in Proc, Running(q), ctx[q].rt_table = 0,
                      ctx[q].sock
               PROVE  Retransmit * Unanswered(q)' <= Allowance(q)'
  BY <1>0 DEF FirstInv, Tries, Running, NoFalseFailure
<1> DEFINE x == Retransmit * Unanswered(q)
           y == Retransmit * crashes
           w == ctx[q].request_timer - now
<1>2. /\ x \in Nat /\ y \in Nat /\ Retransmit \in Nat /\ outage \in Nat
      /\ w \in 0 .. Retransmit
      /\ x <= y + outage + (IF up THEN Retransmit ELSE w)
  <2>1. /\ ctx[q].request_timer \in now .. now + Retransmit
        /\ Retransmit * Unanswered(q) <= Allowance(q)
    BY <1>1 DEF FirstInv, Tries
  <2>2. w \in 0 .. Retransmit
    BY <1>0, <2>1, FirstTyped
  <2> QED BY <1>0, <2>1, <2>2, FirstTyped DEF Allowance
<1>3. CASE Sweep \/ StartServer
  <2>1. UNCHANGED <<toServer, crashes>> /\ up' = TRUE
    BY <1>0, <1>3 DEF Sweep, StartServer, clientVars, Server!DeleteDeadLeases,
                      Server!Start
  <2>2. Unanswered(q)' = Unanswered(q)
    BY <1>0, <2>1 DEF Unanswered, Pending, Asked
  <2>3. Allowance(q)' = y + outage + Retransmit
    BY <1>0, <2>1 DEF Allowance
  <2>4. x <= y + outage + Retransmit
    <3> HIDE DEF x, y, w
    <3> QED BY <1>2
  <2> QED BY <2>2, <2>3, <2>4
<1>4. CASE CrashServer
  <2>1. toServer' = <<>> /\ up /\ ~up' /\ crashes' = crashes + 1
    BY <1>4 DEF CrashServer, Server!Crash
  <2>2. Retransmit * crashes' = y + Retransmit
    BY <1>0, <2>1, FirstTyped, LossesGrow
  <2>3. Allowance(q)' = y + Retransmit + outage + w
    BY <1>0, <2>1, <2>2 DEF Allowance
  <2>4. ~Asked(q)' /\ (Pending(q)' <=> inbox[q] # <<>>)
    BY <1>0, <2>1 DEF Pending, Asked
  <2>5. CASE Pending(q)
    <3>1. w = Retransmit
      BY <1>0, <1>1, <2>5, FirstTyped DEF KeptInv, Waits
    <3>2. Unanswered(q)' \in {Unanswered(q), Unanswered(q) + 1}
      BY <1>0, <2>5, FirstTyped DEF Unanswered
    <3>3. Retransmit * Unanswered(q)' \in {x, x + Retransmit}
      BY <1>0, <3>2, FirstTyped, LossesGrow
    <3>4. \A z \in {x, x + Retransmit} : z <= y + Retransmit + outage + w
      <4> HIDE DEF x, y, w
      <4> QED BY <1>2, <2>1, <3>1
    <3> QED BY <2>3, <3>3, <3>4
  <2>6. CASE ~Pending(q)
    <3>1. Unanswered(q)' = Unanswered(q)
      BY <1>0, <2>4, <2>6 DEF Unanswered, Pending
    <3>2. x <= y + Retransmit + outage + w
      <4> HIDE DEF x, y, w
      <4> QED BY <1>2, <2>1
    <3> QED BY <2>3, <3>1, <3>2
  <2> QED BY <2>5, <2>6
<1> QED BY <1>3, <1>4

\* A second passes: nobody waits for an answer, and while the server is down
\* the second is taken from the time to the next request.
LEMMA FirstTick ==
    ASSUME FirstInv, KeptInv', SP!StrayInv', Tick
    PROVE  FirstInv'
<1>0. /\ UNCHANGED <<ctx, inbox, toServer>> /\ now' = now + 1 /\ KeptInv
      /\ UNCHANGED <<up, crashes>>
      /\ outage' = IF up THEN outage ELSE outage + 1
      /\ \A q \in Proc : ~Client!Due(q)
  BY QuietShape DEF Tick, Server!Tick, Client!Tick, FirstInv
<1>1. SUFFICES ASSUME NEW q \in Proc, Running(q), ctx[q].rt_table = 0,
                      ctx[q].sock
               PROVE  /\ ctx[q].request_timer \in now + 1 .. now + 1 + Retransmit
                      /\ Retransmit * Unanswered(q)' <= Allowance(q)'
  BY <1>0 DEF FirstInv, Tries, Running, NoFalseFailure
<1>2. /\ ctx[q].request_timer \in now .. now + Retransmit
      /\ Retransmit * Unanswered(q) <= Allowance(q)
  BY <1>1 DEF FirstInv, Tries
<1>3. ctx[q].request_timer > now
  <2>1. ~(ctx[q].request_timer <= now)
    BY <1>0, <1>1 DEF Client!Due, Client!Running, Running
  <2>2. ctx[q].request_timer \in Int /\ now \in Nat
    BY <1>0, FirstTyped
  <2> QED BY <2>1, <2>2
<1>4. Unanswered(q)' = Unanswered(q)
  BY <1>0 DEF Unanswered, Pending, Asked
<1>5. Allowance(q)' = Allowance(q)
  <2>1. CASE up
    BY <1>0, <2>1 DEF Allowance
  <2>2. CASE ~up
    <3> DEFINE y == Retransmit * crashes
               w == ctx[q].request_timer
    <3>1. /\ Allowance(q) = y + outage + (w - now)
          /\ Allowance(q)' = y + (outage + 1) + (w - (now + 1))
      BY <1>0, <2>2 DEF Allowance
    <3>2. y \in Nat /\ outage \in Nat /\ w \in Int /\ now \in Nat
      BY <1>0, FirstTyped
    <3> HIDE DEF y, w
    <3> QED BY <3>1, <3>2
  <2> QED BY <2>1, <2>2
<1>6. ctx[q].request_timer \in now + 1 .. now + 1 + Retransmit
  BY <1>0, <1>2, <1>3, FirstTyped
<1> QED BY <1>2, <1>4, <1>5, <1>6

\* The scripts do not touch the exchange.
LEMMA FirstQuiet ==
    ASSUME FirstInv, KeptInv', SP!StrayInv',
           UNCHANGED <<ctx, inbox, toServer, now, up, outage, crashes>>
    PROVE  FirstInv'
BY DEF FirstInv, NoFalseFailure, Tries, Unanswered, Allowance, Pending, Asked,
       Running

\* Every step keeps the invariant.
LEMMA FirstStep ==
    ASSUME OneProcessEach, OutlastsOutage, RoomForAll, OutlastsFailures,
           TablesForAll, "flap" \notin Unlucky, FirstInv, [Next]_vars
    PROVE  FirstInv'
<1>1. KeptInv'
  BY KeptStep DEF FirstInv
<1>2. SP!StrayInv'
  <2>1. PartsInv
    BY ComponentsTyped DEF FirstInv, KeptInv, BeliefInv
  <2>2. [SP!Next]_(SP!vars)
    BY <2>1, ServerStep
  <2> QED BY <2>2, TablesSuffice, SP!StrayStep, ComponentAssumptions DEF FirstInv
<1>3. CASE HandleDatagram
  BY <1>1, <1>2, <1>3, FirstDatagram
<1>4. CASE Sweep \/ StartServer \/ CrashServer
  BY <1>1, <1>2, <1>4, FirstServer
<1>5. ASSUME NEW p \in Proc, ClientStep(p) PROVE FirstInv'
  BY <1>1, <1>2, <1>5, FirstTimeout, FirstReceive, FirstRemoved DEF ClientStep
<1>6. ASSUME NEW p \in Proc, HookStep(p) PROVE FirstInv'
  <2>1. CASE HookStartClient(p)
    BY <1>1, <1>2, <2>1, FirstLaunch
  <2>2. CASE HookAddAddress(p) \/ HookConfigure(p)
    BY <1>1, <1>2, <2>2, QuietShape, FirstQuiet DEF clientVars, serverVars
  <2> QED BY <1>6, <2>1, <2>2 DEF HookStep
<1>7. ASSUME NEW i \in Id, AddressGone(i) PROVE FirstInv'
  BY <1>1, <1>2, <1>7, QuietShape, FirstQuiet DEF serverVars
<1>8. CASE Tick
  BY <1>1, <1>2, <1>8, FirstTick
<1>9. CASE UNCHANGED vars
  BY <1>1, <1>2, <1>9, FirstQuiet DEF vars, clientVars, serverVars
<1> QED BY <1>3, <1>4, <1>5, <1>6, <1>7, <1>8, <1>9 DEF Next

\* Initially no client runs.
LEMMA FirstInit == Init => FirstInv
<1> SUFFICES ASSUME Init PROVE FirstInv
  OBVIOUS
<1>1. SP!StrayInv
  BY SP!StrayInit, SameServer, ComponentAssumptions DEF Init
<1>2. ASSUME NEW p \in Proc PROVE Tries(p) /\ ctx[p].output # 0
  BY DEF Init, Client!Init, Client!Fresh, Client!NoOutput, Tries
<1> QED BY <1>1, <1>2, KeptInit DEF FirstInv, NoFalseFailure

\* Five requests are enough: where the server's crashes and seconds of outage
\* leave one of a client's requests to a running server, and there are two
\* tables for every address, each client prints a table; none gives up in
\* client_request_timeout_handle_cb with rt_table 0.  Two tables because a
\* release after a restart can cost one (the run LeakAfterRestart).
\* (NoFalseFailure; run System.)
THEOREM NoClientGivesUpInVain ==
    ASSUME OneProcessEach, OutlastsOutage, RoomForAll, OutlastsFailures,
           TablesForAll, "flap" \notin Unlucky
    PROVE  Spec => []NoFalseFailure
<1>1. FirstInv /\ [Next]_vars => FirstInv'
  BY FirstStep
<1>2. FirstInv => NoFalseFailure
  BY DEF FirstInv
<1> QED
  BY <1>1, <1>2, FirstInit, PTL DEF Spec
=============================================================================
