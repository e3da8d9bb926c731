------------------------- MODULE TableClientProofs -------------------------
(***************************************************************************)
(* Proofs about TableClient for every set of processes and identities,     *)
(* every lease time, retry limit, queue length and bound.                  *)
(***************************************************************************)
EXTENDS TableClient, FiniteSetTheorems, SequenceTheorems, TLAPS

-----------------------------------------------------------------------------
(* Types and the number of requests.  TypeOK is not inductive: that         *)
(* num_failed stays within its limit needs that a client that reaches the   *)
(* limit ends.  TriesFiveTimes needs the exact count of what was sent.      *)

\* A running client is below the limit, and only one with a socket has its
\* request timer armed.
Bounded(c) ==
    /\ c.sock => c.state = "running"
    /\ c.state = "running" => c.num_failed < FailLimit
    /\ c.state = "running" /\ c.request_timer # NoTimer => c.sock

\* Before its first lease a client has counted all its n requests but the
\* one it waits for, and has printed nothing.
Counts(c, n) ==
    /\ c.state = "running" /\ c.rt_table = 0 =>
          /\ n = c.num_failed + IF c.sock THEN 1 ELSE 0
          /\ c.output = NoOutput /\ ~c.daemonized
    /\ c.daemonized => c.output \notin {0, NoOutput}
    /\ c.output = 0 => c.state = "stopped" /\ n = FailLimit

\* The inductive invariant of TypeOK and TriesFiveTimes.
CountInv == TypeOK /\ \A p \in Proc : Bounded(ctx[p]) /\ Counts(ctx[p], sent[p])

\* The messages on the sockets and the rules of the kernel.
Request == [cmd : {"REQ", "REL"}, id : Id]
Answer  == [table : Nat, expires : Nat]

-----------------------------------------------------------------------------
(* What the building blocks of the callbacks make of a context.             *)

\* The time left of a lease, in the code's unsigned arithmetic.
LEMMA TimeLeft ==
    ASSUME NEW x \in Int
    PROVE  /\ x % UintMod \in 0 .. UintMod - 1
           /\ (x % UintMod) \div 2 \in Nat
           /\ x >= 0 => x % UintMod <= x
<1>1. x % UintMod \in 0 .. UintMod - 1
  BY ClientAssumption
<1>2. (x % UintMod) \div 2 \in Nat
  BY <1>1
<1>3. ASSUME x >= 0 PROVE x % UintMod <= x
  BY <1>3, ClientAssumption
<1> QED BY <1>1, <1>2, <1>3

\* The building blocks map contexts to contexts.
LEMMA ArmedType ==
    ASSUME NEW c \in Ctx, NEW delay \in Nat, now \in Nat
    PROVE  Armed(c, delay) \in Ctx
BY DEF Armed, Ctx

\* So does counting a failure below the limit,
LEMMA CountedType ==
    ASSUME NEW c \in Ctx, c.num_failed < FailLimit
    PROVE  Counted(c) \in Ctx
BY ClientAssumption DEF Counted, Ctx

\* the end of the loop,
LEMMA ExitedType ==
    ASSUME NEW c \in Ctx, NEW s \in {"stopped", "crashed"}
    PROVE  Exited(c, s) \in Ctx
<1>1. NoTimer \in Int
  BY DEF NoTimer
<1>2. [c EXCEPT !.state = s, !.sock = FALSE] \in Ctx
  BY DEF Ctx
<1> QED
  BY <1>1, <1>2 DEF Exited, Ctx

\* and a lease.
LEMMA WithLeaseType ==
    ASSUME NEW c \in Ctx, NEW r \in Answer, now \in Nat
    PROVE  WithLease(c, r) \in Ctx
<1>1. now + (((r.expires - now) % UintMod) \div 2) \in Int
  BY TimeLeft DEF Answer
<1>2. Printed(c, r.table) \in Int
  BY DEF Printed, Ctx, Answer
<1>3. 0 \in 0 .. FailLimit /\ r.table \in Nat /\ r.expires \in Nat
  BY ClientAssumption DEF Answer
<1>4. ASSUME NEW t \in Nat, NEW e \in Nat, NEW n \in 0 .. FailLimit,
             NEW o \in Int, NEW due \in Int
      PROVE  [c EXCEPT !.rt_table = t, !.lease_expires = e, !.num_failed = n,
                       !.output = o, !.daemonized = TRUE,
                       !.request_timer = due] \in Ctx
  BY DEF Ctx
<1> QED
  BY <1>1, <1>2, <1>3, <1>4, Zenon DEF WithLease

\* A started process has sent nothing.
LEMMA FreshCtx == Fresh \in Ctx /\ Bounded(Fresh) /\ Counts(Fresh, 0)
<1>1. Fresh \in Ctx
  BY ClientAssumption DEF Fresh, Ctx, NoTimer, NoOutput
<1>2. Bounded(Fresh)
  BY ClientAssumption DEF Fresh, Bounded
<1>3. Counts(Fresh, 0)
  BY DEF Fresh, Counts, NoOutput
<1> QED BY <1>1, <1>2, <1>3

\* So has one that was never started.
LEMMA OffCtx ==
    LET c == [Fresh EXCEPT !.state = "off"]
    IN  c \in Ctx /\ Bounded(c) /\ Counts(c, 0)
<1> DEFINE c == [Fresh EXCEPT !.state = "off"]
<1>1. c \in Ctx
  BY FreshCtx DEF Ctx
<1>2. Bounded(c)
  BY DEF Fresh, Bounded
<1>3. Counts(c, 0)
  BY DEF Fresh, Counts, NoOutput
<1> QED BY <1>1, <1>2, <1>3

\* The socket is bound and the first request of this socket is sent.
LEMMA BoundCtx ==
    ASSUME NEW c \in Ctx, NEW n \in Nat, Bounded(c), Counts(c, n),
           now \in Nat, c.state = "running", ~c.sock
    PROVE  LET d == Armed([c EXCEPT !.sock = TRUE], Retransmit)
               m == IF c.rt_table = 0 THEN n + 1 ELSE n
           IN  d \in Ctx /\ Bounded(d) /\ Counts(d, m)
<1> DEFINE d == Armed([c EXCEPT !.sock = TRUE], Retransmit)
<1>1. [c EXCEPT !.sock = TRUE] \in Ctx
  BY DEF Ctx
<1>2. d \in Ctx
  BY <1>1, ArmedType, ClientAssumption
<1>3. Bounded(d)
  BY DEF Armed, Ctx, Bounded
<1>4. Counts(d, IF c.rt_table = 0 THEN n + 1 ELSE n)
  BY ClientAssumption DEF Armed, Ctx, Counts, NoOutput
<1> QED BY <1>2, <1>3, <1>4

\* A request that is not the last one is counted and sent again.
LEMMA RetryCtx ==
    ASSUME NEW c \in Ctx, NEW n \in Nat, Bounded(c), Counts(c, n),
           now \in Nat, c.state = "running", c.sock,
           c.rt_table # 0 \/ BelowLimit(c)
    PROVE  LET d == Armed(IF c.rt_table # 0 THEN c ELSE Counted(c), Retransmit)
               m == IF c.rt_table = 0 THEN n + 1 ELSE n
           IN  d \in Ctx /\ Bounded(d) /\ Counts(d, m)
<1>1. CASE c.rt_table # 0
  <2>1. Armed(c, Retransmit) \in Ctx
    BY ArmedType, ClientAssumption
  <2>2. Bounded(Armed(c, Retransmit)) /\ Counts(Armed(c, Retransmit), n)
    BY <1>1 DEF Armed, Ctx, Bounded, Counts
  <2> QED BY <1>1, <2>1, <2>2
<1>2. CASE c.rt_table = 0
  <2> DEFINE d == Armed(Counted(c), Retransmit)
  <2>1. d \in Ctx
    BY ArmedType, CountedType, ClientAssumption DEF Bounded
  <2>2. Bounded(d)
    BY <1>2 DEF Armed, Counted, BelowLimit, Ctx, Bounded
  <2>3. Counts(d, n + 1)
    BY <1>2 DEF Armed, Counted, Ctx, Counts, NoOutput
  <2> QED BY <1>2, <2>1, <2>2, <2>3
<1> QED BY <1>1, <1>2

\* The last request has failed: the client prints its table, 0, and ends.
LEMMA GiveUpCtx ==
    ASSUME NEW c \in Ctx, NEW n \in Nat, Bounded(c), Counts(c, n),
           c.state = "running", c.sock, c.rt_table = 0, ~BelowLimit(c)
    PROVE  LET d == [Exited(Counted(c), "stopped") EXCEPT !.output = c.rt_table]
           IN  d \in Ctx /\ Bounded(d) /\ Counts(d, n)
<1> DEFINE d == [Exited(Counted(c), "stopped") EXCEPT !.output = c.rt_table]
<1>1. Exited(Counted(c), "stopped") \in Ctx
  BY ExitedType, CountedType DEF Bounded
<1>2. d \in Ctx
  BY <1>1 DEF Ctx
<1>3. Bounded(d)
  BY DEF Exited, Counted, Ctx, Bounded, NoTimer
<1>4. n = FailLimit
  BY ClientAssumption DEF BelowLimit, Bounded, Counts, Ctx
<1>5. Counts(d, n)
  BY <1>4 DEF Exited, Counted, Ctx, Counts
<1> QED BY <1>2, <1>3, <1>5

\* A socket error that is not the last failure.
LEMMA ErrorCtx ==
    ASSUME NEW c \in Ctx, NEW n \in Nat, Bounded(c), Counts(c, n),
           c.state = "running", c.sock, c.rt_table # 0 \/ BelowLimit(c)
    PROVE  LET d == [(IF c.rt_table # 0 THEN c ELSE Counted(c)) EXCEPT
                         !.sock = FALSE, !.request_timer = NoTimer]
           IN  d \in Ctx /\ Bounded(d) /\ Counts(d, n)
<1>0. NoTimer \in Int
  BY DEF NoTimer
<1>1. ASSUME NEW b \in Ctx
      PROVE  [b EXCEPT !.sock = FALSE, !.request_timer = NoTimer] \in Ctx
  BY <1>0 DEF Ctx
<1>2. CASE c.rt_table # 0
  <2> DEFINE d == [c EXCEPT !.sock = FALSE, !.request_timer = NoTimer]
  <2>1. d \in Ctx
    BY <1>1
  <2>2. Bounded(d) /\ Counts(d, n)
    BY <1>2 DEF Ctx, Bounded, Counts, NoTimer
  <2> QED BY <1>2, <2>1, <2>2
<1>3. CASE c.rt_table = 0
  <2> DEFINE d == [Counted(c) EXCEPT !.sock = FALSE, !.request_timer = NoTimer]
  <2>1. d \in Ctx
    BY <1>1, CountedType DEF Bounded
  <2>2. Bounded(d)
    BY <1>3 DEF Counted, BelowLimit, Ctx, Bounded, NoTimer
  <2>3. Counts(d, n)
    BY <1>3 DEF Counted, Ctx, Counts, NoOutput
  <2> QED BY <1>3, <2>1, <2>2, <2>3
<1> QED BY <1>2, <1>3

\* A reply without a table.
LEMMA NoTableCtx ==
    ASSUME NEW c \in Ctx, NEW n \in Nat, Bounded(c), Counts(c, n),
           now \in Nat, c.state = "running", c.sock, NEW e \in Nat
    PROVE  LET d == Armed([c EXCEPT !.lease_expires = e], Retransmit)
           IN  d \in Ctx /\ Bounded(d) /\ Counts(d, n)
<1> DEFINE d == Armed([c EXCEPT !.lease_expires = e], Retransmit)
<1>1. [c EXCEPT !.lease_expires = e] \in Ctx
  BY DEF Ctx
<1>2. d \in Ctx
  BY <1>1, ArmedType, ClientAssumption
<1>3. Bounded(d)
  BY DEF Armed, Ctx, Bounded
<1>4. Counts(d, n)
  BY DEF Armed, Ctx, Counts
<1> QED BY <1>2, <1>3, <1>4

\* A lease: the client is in the background, so nothing it prints counts.
LEMMA LeaseCtx ==
    ASSUME NEW c \in Ctx, NEW n \in Nat, Bounded(c), Counts(c, n),
           now \in Nat, c.state = "running", c.sock,
           NEW r \in Answer, r.table # 0
    PROVE  LET d == WithLease(c, r)
           IN  d \in Ctx /\ Bounded(d) /\ Counts(d, n)
<1> DEFINE d == WithLease(c, r)
<1>1. d \in Ctx
  BY WithLeaseType
<1>2. /\ d.state = "running" /\ d.sock /\ d.num_failed = 0
      /\ d.rt_table = r.table /\ d.output = Printed(c, r.table)
  BY DEF WithLease, Ctx
<1>3. Printed(c, r.table) \notin {0, NoOutput}
  BY DEF Printed, Counts, Answer, NoOutput
<1> HIDE DEF d
<1>4. Bounded(d) /\ Counts(d, n)
  BY <1>2, <1>3, ClientAssumption DEF Bounded, Counts
<1> QED BY <1>1, <1>4 DEF d

\* What NewRules changes says nothing about requests.
LEMMA RulesCtx ==
    ASSUME NEW c \in Ctx, NEW n \in Nat, Bounded(c), Counts(c, n),
           NEW d \in {c, [c EXCEPT !.rules_added = TRUE],
                      [c EXCEPT !.netlink_timer = TRUE],
                      [c EXCEPT !.netlink_timer = FALSE]}
    PROVE  d \in Ctx /\ Bounded(d) /\ Counts(d, n)
BY DEF Ctx, Bounded, Counts

\* A client that ends without printing anything new.
LEMMA ExitCtx ==
    ASSUME NEW c \in Ctx, NEW n \in Nat, Bounded(c), Counts(c, n),
           c.state = "running", NEW s \in {"stopped", "crashed"}
    PROVE  LET d == Exited(c, s)
           IN  d \in Ctx /\ Bounded(d) /\ Counts(d, n)
<1>1. Exited(c, s) \in Ctx
  BY ExitedType
<1>2. Bounded(Exited(c, s)) /\ Counts(Exited(c, s), n)
  BY DEF Exited, Ctx, Bounded, Counts
<1> QED BY <1>1, <1>2

-----------------------------------------------------------------------------
(* The types of messages and rules.                                         *)

\* A request joins the server's queue or is lost.
LEMMA QueueType ==
    ASSUME toServer \in Seq(Request), NEW cmd \in {"REQ", "REL"}, NEW i \in Id,
           Queue(cmd, i)
    PROVE  toServer' \in Seq(Request)
<1>1. [cmd |-> cmd, id |-> i] \in Request
  BY DEF Request
<1> QED
  BY <1>1, AppendProperties DEF Queue

\* A client reads the first reply of its queue.
LEMMA InboxType ==
    ASSUME inbox \in [Proc -> Seq(Answer)], NEW p \in Proc
    PROVE  /\ inbox[p] # <<>> => Head(inbox[p]) \in Answer
           /\ inbox[p] # <<>> =>
                 [inbox EXCEPT ![p] = Tail(@)] \in [Proc -> Seq(Answer)]
           /\ [inbox EXCEPT ![p] = <<>>] \in [Proc -> Seq(Answer)]
BY HeadTailProperties

\* update_rules sends rules of the three kinds, and all of them when netlink
\* does not fail.
LEMMA KindsSentType ==
    ASSUME NEW kinds \in KindsSent
    PROVE  /\ kinds \subseteq {"addr", "nw", "def"}
           /\ "netlink" \notin ClientFaults => kinds = {"addr", "nw", "def"}
BY DEF KindsSent, Kinds

\* Only all three kinds make three.
LEMMA AllSentKinds ==
    ASSUME NEW kinds \in SUBSET {"addr", "nw", "def"}
    PROVE  AllSent(kinds) <=> kinds = {"addr", "nw", "def"}
<1>1. /\ Cardinality({"addr", "nw", "def"}) = 3
      /\ IsFiniteSet({"addr", "nw", "def"})
  <2>1. IsFiniteSet({"addr"}) /\ Cardinality({"addr"}) = 1
    BY FS_Singleton
  <2>2. IsFiniteSet({"addr"} \cup {"nw"}) /\ Cardinality({"addr"} \cup {"nw"}) = 2
    BY <2>1, FS_AddElement
  <2>3. /\ IsFiniteSet(({"addr"} \cup {"nw"}) \cup {"def"})
        /\ Cardinality(({"addr"} \cup {"nw"}) \cup {"def"}) = 3
    BY <2>2, FS_AddElement
  <2>4. {"addr", "nw", "def"} = ({"addr"} \cup {"nw"}) \cup {"def"}
    OBVIOUS
  <2> QED BY <2>3, <2>4
<1> QED
  BY <1>1, FS_Subset DEF AllSent

\* Rules of these kinds are rules.
LEMMA RuleType ==
    ASSUME NEW k \in {"addr", "nw", "def"}, NEW i \in Id, NEW t \in Nat
    PROVE  RuleOf(k, i, t) \in Rule
BY DEF RuleOf, Rule

\* A reply of any server is queued where a process has the address.
LEMMA DeliverType ==
    ASSUME inbox \in [Proc -> Seq(Answer)], NEW i \in Id, NEW r \in Answer,
           Deliver(i, r)
    PROVE  inbox' \in [Proc -> Seq(Answer)]
BY DEF Deliver

-----------------------------------------------------------------------------
(* Every step keeps CountInv.                                               *)

\* The types, with the names given above.
LEMMA Types ==
    TypeOK <=> /\ ctx \in [Proc -> Ctx]
               /\ inbox \in [Proc -> Seq(Answer)]
               /\ toServer \in Seq(Request)
               /\ rules \subseteq Rule
               /\ now \in Nat
               /\ sent \in [Proc -> Nat] /\ launches \in [Proc -> Nat]
BY DEF TypeOK, Answer, Request

\* A callback changes one process; the others keep their part of CountInv.
LEMMA OneProcess ==
    ASSUME CountInv, NEW p \in Proc, NEW c \in Ctx, NEW n \in Nat,
           Bounded(c), Counts(c, n),
           ctx' = [ctx EXCEPT ![p] = c], sent' = [sent EXCEPT ![p] = n]
    PROVE  /\ ctx' \in [Proc -> Ctx] /\ sent' \in [Proc -> Nat]
           /\ \A q \in Proc : Bounded(ctx'[q]) /\ Counts(ctx'[q], sent'[q])
<1>1. ctx \in [Proc -> Ctx] /\ sent \in [Proc -> Nat]
  BY DEF CountInv, TypeOK
<1>2. ctx' \in [Proc -> Ctx] /\ sent' \in [Proc -> Nat]
  BY <1>1
<1>3. ASSUME NEW q \in Proc
      PROVE  Bounded(ctx'[q]) /\ Counts(ctx'[q], sent'[q])
  <2>1. CASE q = p
    <3>1. ctx'[q] = c /\ sent'[q] = n
      BY <1>1, <2>1
    <3> QED BY <3>1
  <2>2. CASE q # p
    <3>1. ctx'[q] = ctx[q] /\ sent'[q] = sent[q]
      BY <1>1, <2>2
    <3> QED BY <3>1 DEF CountInv
  <2> QED BY <2>1, <2>2
<1> QED BY <1>2, <1>3

\* What CountInv says of the process that takes the step.
LEMMA ThisProcess ==
    ASSUME CountInv, NEW p \in Proc
    PROVE  /\ ctx[p] \in Ctx /\ sent[p] \in Nat /\ IdOf[p] \in Id
           /\ Bounded(ctx[p]) /\ Counts(ctx[p], sent[p])
           /\ now \in Nat
           /\ sent = [sent EXCEPT ![p] = sent[p]]
BY ClientAssumption DEF CountInv, TypeOK

\* The start of a client.
LEMMA CountLaunch ==
    ASSUME CountInv, NEW p \in Proc, Launch(p)
    PROVE  CountInv'
<1>1. ctx' = [ctx EXCEPT ![p] = Fresh] /\ sent' = [sent EXCEPT ![p] = 0]
  BY DEF Launch
<1>2. /\ ctx' \in [Proc -> Ctx] /\ sent' \in [Proc -> Nat]
      /\ \A q \in Proc : Bounded(ctx'[q]) /\ Counts(ctx'[q], sent'[q])
  BY <1>1, OneProcess, FreshCtx
<1>3. UNCHANGED <<inbox, toServer, rules, now>> /\ launches' \in [Proc -> Nat]
  BY DEF Launch, CountInv, TypeOK
<1> QED BY <1>2, <1>3 DEF CountInv, TypeOK

\* The socket is bound.
LEMMA CountSocketTimeout ==
    ASSUME CountInv, NEW p \in Proc, SocketTimeout(p)
    PROVE  CountInv'
<1>0. UNCHANGED <<inbox, rules, now, launches>>
  BY DEF SocketTimeout
<1> DEFINE c == Armed([ctx[p] EXCEPT !.sock = TRUE], Retransmit)
           n == IF ctx[p].rt_table = 0 THEN sent[p] + 1 ELSE sent[p]
<1>1. ctx' = [ctx EXCEPT ![p] = c] /\ sent' = [sent EXCEPT ![p] = n]
  BY DEF SocketTimeout, CountSent
<1>2. c \in Ctx /\ Bounded(c) /\ Counts(c, n) /\ n \in Nat
  BY ThisProcess, BoundCtx DEF SocketTimeout, Running
<1> HIDE DEF c, n
<1>3. /\ ctx' \in [Proc -> Ctx] /\ sent' \in [Proc -> Nat]
      /\ \A q \in Proc : Bounded(ctx'[q]) /\ Counts(ctx'[q], sent'[q])
  BY <1>1, <1>2, OneProcess
<1>4. toServer' \in Seq(Request)
  BY ThisProcess, QueueType, Types DEF SocketTimeout, CountInv
<1> QED BY <1>0, <1>3, <1>4, Types DEF CountInv, TypeOK, Request

\* The client gives up.
LEMMA CountGiveUp ==
    ASSUME CountInv, NEW p \in Proc, Running(p), ctx[p].sock,
           ctx[p].rt_table = 0, ~BelowLimit(ctx[p]), GiveUp(p),
           UNCHANGED <<toServer, rules, now, sent, launches>>
    PROVE  CountInv'
<1> DEFINE c == [Exited(Counted(ctx[p]), "stopped") EXCEPT
                     !.output = ctx[p].rt_table]
<1>1. ctx' = [ctx EXCEPT ![p] = c] /\ sent' = [sent EXCEPT ![p] = sent[p]]
  BY ThisProcess DEF GiveUp
<1>2. c \in Ctx /\ Bounded(c) /\ Counts(c, sent[p])
  BY ThisProcess, GiveUpCtx DEF Running
<1> HIDE DEF c
<1>3. /\ ctx' \in [Proc -> Ctx] /\ sent' \in [Proc -> Nat]
      /\ \A q \in Proc : Bounded(ctx'[q]) /\ Counts(ctx'[q], sent'[q])
  BY <1>1, <1>2, OneProcess, ThisProcess
<1>4. inbox' \in [Proc -> Seq(Answer)]
  BY InboxType, Types DEF GiveUp, CountInv
<1> QED BY <1>3, <1>4, Types DEF CountInv, TypeOK, Answer

\* A request was not answered in time.
LEMMA CountRequestTimeout ==
    ASSUME CountInv, NEW p \in Proc, RequestTimeout(p)
    PROVE  CountInv'
<1>0. /\ UNCHANGED <<rules, now, launches>> /\ Running(p)
      /\ ctx[p].request_timer # NoTimer
  BY DEF RequestTimeout
<1>a. ctx[p].sock /\ ctx[p].state = "running"
  BY <1>0, ThisProcess DEF Bounded, Running
<1>1. CASE /\ ctx[p].rt_table # 0 \/ BelowLimit(ctx[p])
           /\ ctx' = [ctx EXCEPT ![p] =
                        Armed(IF @.rt_table # 0 THEN @ ELSE Counted(@),
                              Retransmit)]
           /\ sent' = CountSent(p)
           /\ Queue("REQ", IdOf[p])
           /\ UNCHANGED inbox
  <2> DEFINE c == Armed(IF ctx[p].rt_table # 0 THEN ctx[p]
                        ELSE Counted(ctx[p]), Retransmit)
             n == IF ctx[p].rt_table = 0 THEN sent[p] + 1 ELSE sent[p]
  <2>1. ctx' = [ctx EXCEPT ![p] = c] /\ sent' = [sent EXCEPT ![p] = n]
    BY <1>1 DEF CountSent
  <2>2. c \in Ctx /\ Bounded(c) /\ Counts(c, n) /\ n \in Nat
    BY <1>a, <1>1, ThisProcess, RetryCtx
  <2> HIDE DEF c, n
  <2>3. /\ ctx' \in [Proc -> Ctx] /\ sent' \in [Proc -> Nat]
        /\ \A q \in Proc : Bounded(ctx'[q]) /\ Counts(ctx'[q], sent'[q])
    BY <2>1, <2>2, OneProcess
  <2>4. toServer' \in Seq(Request)
    BY <1>1, ThisProcess, QueueType, Types DEF CountInv
  <2> QED BY <1>0, <1>1, <2>3, <2>4, Types DEF CountInv, TypeOK, Request
<1>2. CASE /\ ctx[p].rt_table = 0 /\ ~BelowLimit(ctx[p])
           /\ GiveUp(p)
           /\ UNCHANGED <<sent, toServer>>
  BY <1>0, <1>a, <1>2, CountGiveUp
<1> QED BY <1>1, <1>2 DEF RequestTimeout

\* Rules are sent for a context c of the process.
LEMMA CountNewRules ==
    ASSUME CountInv, NEW p \in Proc, NEW c \in Ctx,
           Bounded(c), Counts(c, sent[p]),
           NEW kinds \in KindsSent, NewRules(p, c, kinds), UNCHANGED sent
    PROVE  /\ ctx' \in [Proc -> Ctx] /\ sent' \in [Proc -> Nat]
           /\ \A q \in Proc : Bounded(ctx'[q]) /\ Counts(ctx'[q], sent'[q])
           /\ rules' \subseteq Rule
<1> DEFINE d == IF c.rules_added THEN c
                ELSE IF AllSent(kinds) THEN [c EXCEPT !.rules_added = TRUE]
                ELSE [c EXCEPT !.netlink_timer = TRUE]
<1>1. ctx' = [ctx EXCEPT ![p] = d] /\ sent' = [sent EXCEPT ![p] = sent[p]]
  BY ThisProcess DEF NewRules
<1>2. d \in {c, [c EXCEPT !.rules_added = TRUE],
             [c EXCEPT !.netlink_timer = TRUE],
             [c EXCEPT !.netlink_timer = FALSE]}
  OBVIOUS
<1>3. d \in Ctx /\ Bounded(d) /\ Counts(d, sent[p]) /\ sent[p] \in Nat
  <2> HIDE DEF d
  <2> QED BY <1>2, RulesCtx, ThisProcess
<1> HIDE DEF d
<1>4. /\ ctx' \in [Proc -> Ctx] /\ sent' \in [Proc -> Nat]
      /\ \A q \in Proc : Bounded(ctx'[q]) /\ Counts(ctx'[q], sent'[q])
  BY <1>1, <1>3, OneProcess
<1>5. \A k \in kinds : RuleOf(k, IdOf[p], c.rt_table) \in Rule
  BY KindsSentType, RuleType, ThisProcess DEF Ctx
<1>6. rules' \subseteq Rule
  BY <1>5 DEF NewRules, CountInv, TypeOK
<1> QED BY <1>4, <1>6

\* A reply arrives.
LEMMA CountReceive ==
    ASSUME CountInv, NEW p \in Proc, Receive(p)
    PROVE  CountInv'
<1> DEFINE r == Head(inbox[p])
<1>0. /\ UNCHANGED <<toServer, now, sent, launches>>
      /\ ctx[p].state = "running" /\ ctx[p].sock
  BY DEF Receive, Running
<1>a. r \in Answer
  BY InboxType, Types DEF Receive, CountInv
<1>b. inbox' \in [Proc -> Seq(Answer)]
  BY InboxType, Types DEF Receive, CountInv
<1> SUFFICES /\ ctx' \in [Proc -> Ctx] /\ sent' \in [Proc -> Nat]
             /\ \A q \in Proc : Bounded(ctx'[q]) /\ Counts(ctx'[q], sent'[q])
             /\ rules' \subseteq Rule
  BY <1>0, <1>b, Types DEF CountInv, TypeOK, Answer
<1>c. sent' = [sent EXCEPT ![p] = sent[p]] /\ rules \subseteq Rule
  BY <1>0, ThisProcess DEF CountInv, TypeOK
<1>1. CASE ReceiveNoTable(p, r)
  <2> DEFINE c == Armed([ctx[p] EXCEPT !.lease_expires = r.expires], Retransmit)
  <2>1. ctx' = [ctx EXCEPT ![p] = c] /\ UNCHANGED rules
    BY <1>1 DEF ReceiveNoTable
  <2>2. c \in Ctx /\ Bounded(c) /\ Counts(c, sent[p]) /\ sent[p] \in Nat
    BY <1>0, <1>a, ThisProcess, NoTableCtx DEF Answer
  <2> HIDE DEF c
  <2> QED BY <1>c, <2>1, <2>2, OneProcess
<1>2. CASE ReceiveLease(p, r)
  <2> DEFINE c == WithLease(ctx[p], r)
  <2>1. c \in Ctx /\ Bounded(c) /\ Counts(c, sent[p])
    BY <1>0, <1>a, <1>2, ThisProcess, LeaseCtx DEF ReceiveLease
  <2> PICK kinds \in KindsSent : NewRules(p, c, kinds)
    BY <1>2 DEF ReceiveLease
  <2> HIDE DEF c
  <2> QED BY <1>0, <2>1, CountNewRules
<1>3. CASE ReceiveLeaseNoNetlink(p, r)
  <2> DEFINE c == WithLease(ctx[p], r)
             d == Exited(c, "crashed")
  <2>1. ctx' = [ctx EXCEPT ![p] = d] /\ UNCHANGED rules
    BY <1>3 DEF ReceiveLeaseNoNetlink
  <2>2. c \in Ctx /\ Bounded(c) /\ Counts(c, sent[p]) /\ sent[p] \in Nat
    BY <1>0, <1>a, <1>3, ThisProcess, LeaseCtx DEF ReceiveLeaseNoNetlink
  <2>3. c.state = "running"
    BY <1>0, ThisProcess DEF WithLease, Ctx
  <2>4. d \in Ctx /\ Bounded(d) /\ Counts(d, sent[p])
    <3> HIDE DEF c
    <3> QED BY <2>2, <2>3, ExitCtx
  <2> HIDE DEF c, d
  <2> QED BY <1>c, <2>1, <2>2, <2>4, OneProcess
<1> QED BY <1>1, <1>2, <1>3 DEF Receive

\* The socket fails.
LEMMA CountSocketError ==
    ASSUME CountInv, NEW p \in Proc, SocketError(p)
    PROVE  CountInv'
<1>0. /\ UNCHANGED <<toServer, rules, now, sent, launches>>
      /\ Running(p) /\ ctx[p].sock
  BY DEF SocketError
<1>1. CASE /\ ctx[p].rt_table # 0 \/ BelowLimit(ctx[p])
           /\ ctx' = [ctx EXCEPT ![p] =
                        [(IF @.rt_table # 0 THEN @ ELSE Counted(@)) EXCEPT
                            !.sock = FALSE, !.request_timer = NoTimer]]
           /\ inbox' = [inbox EXCEPT ![p] = <<>>]
  <2> DEFINE c == [(IF ctx[p].rt_table # 0 THEN ctx[p] ELSE Counted(ctx[p]))
                      EXCEPT !.sock = FALSE, !.request_timer = NoTimer]
  <2>1. ctx' = [ctx EXCEPT ![p] = c] /\ sent' = [sent EXCEPT ![p] = sent[p]]
    BY <1>0, <1>1, ThisProcess
  <2>2. c \in Ctx /\ Bounded(c) /\ Counts(c, sent[p]) /\ sent[p] \in Nat
    BY <1>0, <1>1, ThisProcess, ErrorCtx DEF Running
  <2> HIDE DEF c
  <2>3. /\ ctx' \in [Proc -> Ctx] /\ sent' \in [Proc -> Nat]
        /\ \A q \in Proc : Bounded(ctx'[q]) /\ Counts(ctx'[q], sent'[q])
    BY <2>1, <2>2, OneProcess
  <2>4. inbox' \in [Proc -> Seq(Answer)]
    BY <1>1, InboxType, Types DEF CountInv
  <2> QED BY <1>0, <2>3, <2>4, Types DEF CountInv, TypeOK, Answer
<1>2. CASE ctx[p].rt_table = 0 /\ ~BelowLimit(ctx[p]) /\ GiveUp(p)
  BY <1>0, <1>2, CountGiveUp
<1> QED BY <1>1, <1>2 DEF SocketError

\* The rules are tried again.
LEMMA CountNetlinkTimeout ==
    ASSUME CountInv, NEW p \in Proc, NetlinkTimeout(p)
    PROVE  CountInv'
<1> DEFINE c == [ctx[p] EXCEPT !.netlink_timer = FALSE]
<1>1. c \in Ctx /\ Bounded(c) /\ Counts(c, sent[p])
  BY ThisProcess, RulesCtx
<1>2. UNCHANGED <<inbox, toServer, now, sent, launches>>
  BY DEF NetlinkTimeout
<1> PICK kinds \in KindsSent : NewRules(p, c, kinds)
  BY DEF NetlinkTimeout
<1> HIDE DEF c
<1>3. /\ ctx' \in [Proc -> Ctx] /\ sent' \in [Proc -> Nat]
      /\ \A q \in Proc : Bounded(ctx'[q]) /\ Counts(ctx'[q], sent'[q])
      /\ rules' \subseteq Rule
  BY <1>1, <1>2, CountNewRules
<1> QED BY <1>2, <1>3 DEF CountInv, TypeOK

\* The address or link is gone.
LEMMA CountAddressRemoved ==
    ASSUME CountInv, NEW p \in Proc, AddressRemoved(p)
    PROVE  CountInv'
<1> DEFINE c == Exited(ctx[p], "stopped")
<1>0. UNCHANGED <<now, sent, launches>>
  BY DEF AddressRemoved
<1>1. ctx' = [ctx EXCEPT ![p] = c] /\ sent' = [sent EXCEPT ![p] = sent[p]]
  BY <1>0, ThisProcess DEF AddressRemoved
<1>2. c \in Ctx /\ Bounded(c) /\ Counts(c, sent[p]) /\ sent[p] \in Nat
  BY ThisProcess, ExitCtx DEF AddressRemoved, Running
<1> HIDE DEF c
<1>3. /\ ctx' \in [Proc -> Ctx] /\ sent' \in [Proc -> Nat]
      /\ \A q \in Proc : Bounded(ctx'[q]) /\ Counts(ctx'[q], sent'[q])
  BY <1>1, <1>2, OneProcess
<1>4. toServer' \in Seq(Request)
  BY ThisProcess, QueueType, Types DEF AddressRemoved, CountInv
<1>5. inbox' \in [Proc -> Seq(Answer)]
  BY InboxType, Types DEF AddressRemoved, CountInv
<1>6. rules' \subseteq Rule
  BY DEF AddressRemoved, DeleteRules, CountInv, TypeOK
<1> QED
  BY <1>0, <1>3, <1>4, <1>5, <1>6, Types
     DEF CountInv, TypeOK, Answer, Request

\* A server answers, or not.
LEMMA CountServe == CountInv /\ Serve => CountInv'
<1> SUFFICES ASSUME CountInv, Serve PROVE CountInv'
  OBVIOUS
<1> DEFINE m == Head(toServer)
<1>0. UNCHANGED <<ctx, rules, now, sent, launches>>
  BY DEF Serve
<1>1. m \in Request /\ toServer' \in Seq(Request)
  BY Types, HeadTailProperties DEF Serve, CountInv
<1>2. inbox \in [Proc -> Seq(Answer)] /\ m.id \in Id /\ now + TableTimeout \in Nat
  BY <1>1, Types, ClientAssumption DEF CountInv, Request
<1>3. ASSUME NEW t \in Offered[m.id]
      PROVE  [table |-> t, expires |-> now + TableTimeout] \in Answer
  BY <1>2, <1>3, ClientAssumption DEF Answer
<1>4. [table |-> 0, expires |-> 0] \in Answer
  BY DEF Answer
<1>5. inbox' \in [Proc -> Seq(Answer)]
  BY <1>2, <1>3, <1>4, DeliverType DEF Serve
<1> QED
  BY <1>0, <1>1, <1>5, Types DEF CountInv, TypeOK, Answer, Request

\* Every step keeps CountInv.
LEMMA CountStep == CountInv /\ [Next]_vars => CountInv'
<1> SUFFICES ASSUME CountInv, [Next]_vars PROVE CountInv'
  OBVIOUS
<1>1. CASE ServerGone
  BY <1>1 DEF ServerGone, CountInv, TypeOK
<1>2. CASE Tick
  BY <1>2 DEF Tick, clientVars, CountInv, TypeOK
<1>3. CASE UNCHANGED vars
  BY <1>3 DEF vars, CountInv, TypeOK
<1> QED
  BY <1>1, <1>2, <1>3, CountLaunch, CountSocketTimeout, CountRequestTimeout,
     CountReceive, CountSocketError, CountNetlinkTimeout, CountAddressRemoved,
     CountServe
     DEF Next, Callback

\* Nothing runs at the beginning.
LEMMA CountInit == Init => CountInv
<1> SUFFICES ASSUME Init PROVE CountInv
  OBVIOUS
<1>1. ctx \in [Proc -> Ctx]
  BY OffCtx DEF Init
<1>2. ASSUME NEW p \in Proc PROVE Bounded(ctx[p]) /\ Counts(ctx[p], sent[p])
  BY OffCtx DEF Init
<1> QED
  BY <1>1, <1>2 DEF Init, CountInv, TypeOK

\* Type correctness of the client: the failure counter stays within its
\* limit, whatever is lost and whatever fails.
THEOREM ClientTypeCorrect == Spec => []TypeOK
<1>1. Spec => []CountInv
  BY CountInit, CountStep, PTL DEF Spec
<1> QED
  BY <1>1, PTL DEF CountInv

\* A client that reports failure has sent exactly FailLimit requests: socket
\* errors, restarts and late answers never make it give up early or go on.
THEOREM GivesUpAfterFailLimit == Spec => []TriesFiveTimes
<1>1. Spec => []CountInv
  BY CountInit, CountStep, PTL DEF Spec
<1>2. CountInv => TriesFiveTimes
  BY DEF CountInv, Counts, TriesFiveTimes
<1> QED
  BY <1>1, <1>2, PTL

-----------------------------------------------------------------------------
(* NeverDormant, for callbacks that run when they are due.  The time left   *)
(* of a lease is computed when its reply is read: it is half a lease only    *)
(* because no reply is older than the current second.                       *)

\* The longest time between two requests.
Longest == Larger(Retransmit, TableTimeout \div 2)

\* The leases among the replies s were granted at time n.
FreshMail(s, n) ==
    \A k \in 1 .. Len(s) : s[k].table # 0 => s[k].expires = n + TableTimeout

\* The next request of a running client is not further away than that.
OnTime(c, n) ==
    c.state = "running" /\ c.sock => c.request_timer \in 0 .. n + Longest

\* The inductive invariant of NeverDormant.
TimerInv ==
    /\ CountInv
    /\ \A p \in Proc : /\ inbox[p] # <<>> => ctx[p].sock
                       /\ FreshMail(inbox[p], now)
                       /\ OnTime(ctx[p], now)

\* No delay that the code uses is longer than Longest.
LEMMA Delays ==
    /\ Longest \in Nat /\ Retransmit \in Nat /\ Retransmit <= Longest
    /\ (TableTimeout % UintMod) \div 2 \in Nat
    /\ (TableTimeout % UintMod) \div 2 <= Longest
<1>1. TableTimeout % UintMod \in Nat /\ TableTimeout % UintMod <= TableTimeout
  BY TimeLeft, ClientAssumption
<1>2. (TableTimeout % UintMod) \div 2 <= TableTimeout \div 2
  <2> DEFINE x == TableTimeout % UintMod
  <2> HIDE DEF x
  <2>1. x \in Nat /\ x <= TableTimeout
    BY <1>1 DEF x
  <2>2. x \div 2 <= TableTimeout \div 2
    BY <2>1, ClientAssumption
  <2> QED BY <2>2 DEF x
<1>3. TableTimeout \div 2 \in Nat /\ (TableTimeout % UintMod) \div 2 \in Nat
  BY <1>1, ClientAssumption
<1> QED
  BY <1>2, <1>3, ClientAssumption DEF Longest, Larger

\* A timer armed now is on time.
LEMMA ArmedOnTime ==
    ASSUME NEW c, now \in Nat, NEW d \in Nat, d <= Longest,
           c.request_timer = now + d
    PROVE  OnTime(c, now)
BY Delays DEF OnTime

\* Emptied and shortened queues hold nothing new.
LEMMA MailRemains ==
    ASSUME NEW s \in Seq(Answer), NEW n, FreshMail(s, n)
    PROVE  /\ FreshMail(<<>>, n)
           /\ s # <<>> => FreshMail(Tail(s), n)
           /\ s # <<>> /\ Head(s).table # 0 => Head(s).expires = n + TableTimeout
<1>1. FreshMail(<<>>, n)
  BY DEF FreshMail
<1>2. ASSUME s # <<>> PROVE FreshMail(Tail(s), n)
  BY <1>2, HeadTailProperties DEF FreshMail
<1>3. ASSUME s # <<>> PROVE Head(s) = s[1] /\ 1 \in 1 .. Len(s)
  BY <1>3
<1> QED
  BY <1>1, <1>2, <1>3 DEF FreshMail

\* A reply of this second joins them.
LEMMA MailJoins ==
    ASSUME NEW s \in Seq(Answer), NEW n, FreshMail(s, n), NEW r \in Answer,
           r.table # 0 => r.expires = n + TableTimeout
    PROVE  FreshMail(Append(s, r), n)
BY AppendProperties DEF FreshMail

\* A step of one process that leaves its queue as it is, shortens it or
\* empties it.
LEMMA OneTimer ==
    ASSUME TimerInv, CountInv', NEW p \in Proc, UNCHANGED now,
           NEW c, ctx' = [ctx EXCEPT ![p] = c], OnTime(c, now),
           \/ UNCHANGED inbox /\ (ctx[p].sock => c.sock)
           \/ inbox[p] # <<>> /\ inbox' = [inbox EXCEPT ![p] = Tail(@)] /\ c.sock
           \/ inbox' = [inbox EXCEPT ![p] = <<>>]
    PROVE  TimerInv'
<1>1. /\ inbox \in [Proc -> Seq(Answer)] /\ ctx \in [Proc -> Ctx]
  BY Types DEF TimerInv, CountInv
<1>2. ASSUME NEW q \in Proc, q # p
      PROVE  ctx'[q] = ctx[q] /\ inbox'[q] = inbox[q]
  BY <1>1, <1>2
<1>3. ctx'[p] = c
  BY <1>1
<1>4. inbox'[p] # <<>> => c.sock
  BY <1>1 DEF TimerInv
<1>5. FreshMail(inbox'[p], now)
  <2>1. inbox'[p] \in {inbox[p], <<>>} \/ (inbox[p] # <<>> /\ inbox'[p] = Tail(inbox[p]))
    BY <1>1
  <2>2. inbox[p] \in Seq(Answer) /\ FreshMail(inbox[p], now)
    BY <1>1 DEF TimerInv
  <2> QED BY <2>1, <2>2, MailRemains
<1> QED
  BY <1>2, <1>3, <1>4, <1>5 DEF TimerInv

\* A context that is not running, or has no socket, has no timer to keep.
LEMMA IdleOnTime ==
    ASSUME NEW c, ~c.sock \/ c.state # "running" PROVE OnTime(c, now)
BY DEF OnTime

\* NewRules touches neither the timer nor the socket.
LEMMA NewRulesOnTime ==
    ASSUME NEW p \in Proc, NEW c \in Ctx, NEW kinds, NewRules(p, c, kinds),
           OnTime(c, now)
    PROVE  \E d : /\ ctx' = [ctx EXCEPT ![p] = d]
                  /\ OnTime(d, now) /\ d.sock = c.sock
<1> DEFINE d == IF c.rules_added THEN c
                ELSE IF AllSent(kinds) THEN [c EXCEPT !.rules_added = TRUE]
                ELSE [c EXCEPT !.netlink_timer = TRUE]
<1>1. ctx' = [ctx EXCEPT ![p] = d]
  BY DEF NewRules
<1>2. /\ d.state = c.state /\ d.sock = c.sock
      /\ d.request_timer = c.request_timer
  BY DEF Ctx
<1> HIDE DEF d
<1>3. OnTime(d, now)
  BY <1>2 DEF OnTime
<1> QED BY <1>1, <1>2, <1>3

\* The callbacks of one process.
LEMMA TimerCallback ==
    ASSUME TimerInv, CountInv', NEW p \in Proc,
           Launch(p) \/ SocketTimeout(p) \/ RequestTimeout(p)
               \/ SocketError(p) \/ AddressRemoved(p) \/ NetlinkTimeout(p)
    PROVE  TimerInv'
<1>0. /\ UNCHANGED now /\ now \in Nat /\ ctx[p] \in Ctx
      /\ Bounded(ctx[p]) /\ OnTime(ctx[p], now)
  BY ThisProcess
     DEF Launch, SocketTimeout, RequestTimeout, SocketError, AddressRemoved,
         NetlinkTimeout, TimerInv
<1>1. CASE Launch(p)
  <2>1. UNCHANGED inbox /\ ctx' = [ctx EXCEPT ![p] = Fresh] /\ ~ctx[p].sock
    BY <1>0, <1>1 DEF Launch, Bounded, Running
  <2>2. OnTime(Fresh, now)
    BY IdleOnTime DEF Fresh
  <2> QED BY <1>0, <2>1, <2>2, OneTimer
<1>2. CASE SocketTimeout(p)
  <2> DEFINE c == Armed([ctx[p] EXCEPT !.sock = TRUE], Retransmit)
  <2>1. UNCHANGED inbox /\ ctx' = [ctx EXCEPT ![p] = c] /\ ~ctx[p].sock
    BY <1>2 DEF SocketTimeout
  <2>2. OnTime(c, now)
    <3>1. c.request_timer = now + Retransmit
      BY <1>0 DEF Armed, Ctx
    <3> HIDE DEF c
    <3> QED BY <1>0, <3>1, ArmedOnTime, Delays
  <2> HIDE DEF c
  <2> QED BY <1>0, <2>1, <2>2, OneTimer
<1>3. ASSUME GiveUp(p) PROVE TimerInv'
  <2> DEFINE c == [Exited(Counted(ctx[p]), "stopped") EXCEPT
                       !.output = ctx[p].rt_table]
  <2>1. ctx' = [ctx EXCEPT ![p] = c] /\ inbox' = [inbox EXCEPT ![p] = <<>>]
    BY <1>3 DEF GiveUp
  <2>2. OnTime(c, now)
    <3>1. c.state = "stopped"
      BY <1>0 DEF Exited, Counted, Ctx
    <3> HIDE DEF c
    <3> QED BY <3>1, IdleOnTime
  <2> HIDE DEF c
  <2> QED BY <1>0, <2>1, <2>2, OneTimer
<1>4. CASE RequestTimeout(p)
  <2>1. CASE GiveUp(p)
    BY <1>3, <2>1
  <2>2. CASE /\ ctx' = [ctx EXCEPT ![p] =
                          Armed(IF @.rt_table # 0 THEN @ ELSE Counted(@),
                                Retransmit)]
             /\ UNCHANGED inbox
    <3> DEFINE c == Armed(IF ctx[p].rt_table # 0 THEN ctx[p]
                          ELSE Counted(ctx[p]), Retransmit)
    <3>1. c.request_timer = now + Retransmit /\ c.sock = ctx[p].sock
      BY <1>0 DEF Armed, Counted, Ctx
    <3>2. ctx' = [ctx EXCEPT ![p] = c] /\ UNCHANGED inbox
      BY <2>2
    <3> HIDE DEF c
    <3>3. OnTime(c, now)
      BY <1>0, <3>1, ArmedOnTime, Delays
    <3> QED BY <1>0, <3>1, <3>2, <3>3, OneTimer
  <2> QED BY <1>4, <2>1, <2>2 DEF RequestTimeout
<1>5. CASE SocketError(p)
  <2>1. CASE GiveUp(p)
    BY <1>3, <2>1
  <2>2. CASE /\ ctx' = [ctx EXCEPT ![p] =
                        [(IF @.rt_table # 0 THEN @ ELSE Counted(@)) EXCEPT
                            !.sock = FALSE, !.request_timer = NoTimer]]
             /\ inbox' = [inbox EXCEPT ![p] = <<>>]
    <3> DEFINE c == [(IF ctx[p].rt_table # 0 THEN ctx[p] ELSE Counted(ctx[p]))
                        EXCEPT !.sock = FALSE, !.request_timer = NoTimer]
    <3>1. ~c.sock
      BY <1>0 DEF Counted, Ctx
    <3>2. ctx' = [ctx EXCEPT ![p] = c] /\ inbox' = [inbox EXCEPT ![p] = <<>>]
      BY <2>2
    <3> HIDE DEF c
    <3>3. OnTime(c, now)
      BY <3>1, IdleOnTime
    <3> QED BY <1>0, <3>2, <3>3, OneTimer
  <2> QED BY <1>5, <2>1, <2>2 DEF SocketError
<1>6. CASE AddressRemoved(p)
  <2> DEFINE c == Exited(ctx[p], "stopped")
  <2>1. ctx' = [ctx EXCEPT ![p] = c] /\ inbox' = [inbox EXCEPT ![p] = <<>>]
    BY <1>6 DEF AddressRemoved
  <2>2. c.state = "stopped"
    BY <1>0 DEF Exited, Ctx
  <2> HIDE DEF c
  <2>3. OnTime(c, now)
    BY <2>2, IdleOnTime
  <2> QED BY <1>0, <2>1, <2>3, OneTimer
<1>7. CASE NetlinkTimeout(p)
  <2> DEFINE c == [ctx[p] EXCEPT !.netlink_timer = FALSE]
  <2>1. c \in Ctx /\ c.sock = ctx[p].sock /\ OnTime(c, now)
    BY <1>0 DEF Ctx, OnTime
  <2> PICK kinds \in KindsSent : NewRules(p, c, kinds)
    BY <1>7 DEF NetlinkTimeout
  <2> HIDE DEF c
  <2> PICK d : ctx' = [ctx EXCEPT ![p] = d] /\ OnTime(d, now) /\ d.sock = c.sock
    BY <2>1, NewRulesOnTime
  <2>2. UNCHANGED inbox
    BY <1>7 DEF NetlinkTimeout
  <2> QED BY <1>0, <2>1, <2>2, OneTimer
<1> QED BY <1>1, <1>2, <1>4, <1>5, <1>6, <1>7

\* A reply is read: its lease, if it is one, was granted this second.
LEMMA TimerReceive ==
    ASSUME TimerInv, CountInv', NEW p \in Proc, Receive(p)
    PROVE  TimerInv'
<1> DEFINE r == Head(inbox[p])
<1>0. /\ UNCHANGED now /\ now \in Nat /\ ctx[p] \in Ctx
      /\ Running(p) /\ ctx[p].sock /\ inbox[p] # <<>>
  BY ThisProcess DEF Receive, TimerInv
<1>a. r \in Answer
  BY <1>0, InboxType, Types DEF TimerInv, CountInv
<1>b. r.table # 0 => r.expires = now + TableTimeout
  BY <1>0, MailRemains, Types DEF TimerInv, CountInv
<1>c. ASSUME r.table # 0
      PROVE  LET c == WithLease(ctx[p], r)
             IN  c \in Ctx /\ c.sock /\ OnTime(c, now)
  <2> DEFINE c == WithLease(ctx[p], r)
  <2>1. c \in Ctx
    BY <1>0, <1>a, WithLeaseType
  <2>2. r.expires - now = TableTimeout
    BY <1>0, <1>b, <1>c, ClientAssumption
  <2>3. c.request_timer = now + ((TableTimeout % UintMod) \div 2) /\ c.sock
    BY <1>0, <2>2 DEF WithLease, Ctx
  <2> HIDE DEF c
  <2>4. OnTime(c, now)
    BY <1>0, <2>3, ArmedOnTime, Delays
  <2> QED BY <2>1, <2>3, <2>4 DEF c
<1>1. CASE ReceiveNoTable(p, r) /\ inbox' = [inbox EXCEPT ![p] = Tail(@)]
  <2> DEFINE c == Armed([ctx[p] EXCEPT !.lease_expires = r.expires], Retransmit)
  <2>1. ctx' = [ctx EXCEPT ![p] = c]
    BY <1>1 DEF ReceiveNoTable
  <2>2. c.request_timer = now + Retransmit /\ c.sock
    BY <1>0 DEF Armed, Ctx
  <2> HIDE DEF c
  <2>3. OnTime(c, now)
    BY <1>0, <2>2, ArmedOnTime, Delays
  <2> QED BY <1>0, <1>1, <2>1, <2>2, <2>3, OneTimer
<1>2. CASE ReceiveLease(p, r) /\ inbox' = [inbox EXCEPT ![p] = Tail(@)]
  <2> DEFINE c == WithLease(ctx[p], r)
  <2>1. c \in Ctx /\ c.sock /\ OnTime(c, now)
    BY <1>c, <1>2 DEF ReceiveLease
  <2> PICK kinds \in KindsSent : NewRules(p, c, kinds)
    BY <1>2 DEF ReceiveLease
  <2> HIDE DEF c
  <2> PICK d : ctx' = [ctx EXCEPT ![p] = d] /\ OnTime(d, now) /\ d.sock = c.sock
    BY <2>1, NewRulesOnTime
  <2> QED BY <1>0, <1>2, <2>1, OneTimer
<1>3. CASE ReceiveLeaseNoNetlink(p, r) /\ inbox' = [inbox EXCEPT ![p] = <<>>]
  <2> DEFINE c == WithLease(ctx[p], r)
             d == Exited(c, "crashed")
  <2>1. ctx' = [ctx EXCEPT ![p] = d] /\ c \in Ctx
    BY <1>c, <1>3 DEF ReceiveLeaseNoNetlink
  <2>2. d.state = "crashed"
    <3> HIDE DEF c
    <3> QED BY <2>1 DEF Exited, Ctx
  <2> HIDE DEF d
  <2>3. OnTime(d, now)
    BY <2>2, IdleOnTime
  <2> QED BY <1>0, <1>3, <2>1, <2>3, OneTimer
<1> QED BY <1>1, <1>2, <1>3 DEF Receive

\* A reply is queued where there is a socket, in the second it is sent.
LEMMA TimerDeliver ==
    ASSUME TimerInv, CountInv', NEW i \in Id, NEW r \in Answer,
           r.table # 0 => r.expires = now + TableTimeout,
           Deliver(i, r), UNCHANGED <<ctx, now>>
    PROVE  TimerInv'
<1>1. inbox \in [Proc -> Seq(Answer)]
  BY Types DEF TimerInv, CountInv
<1>2. ASSUME NEW p \in Proc
      PROVE  /\ inbox'[p] # <<>> => ctx[p].sock
             /\ FreshMail(inbox'[p], now)
  <2>1. \/ inbox'[p] = inbox[p]
        \/ inbox'[p] = Append(inbox[p], r) /\ ctx[p].sock
    BY DEF Deliver
  <2>2. inbox[p] \in Seq(Answer) /\ FreshMail(inbox[p], now)
        /\ (inbox[p] # <<>> => ctx[p].sock)
    BY <1>1 DEF TimerInv
  <2> QED BY <2>1, <2>2, MailJoins
<1> QED BY <1>2 DEF TimerInv

\* The server's answers.
LEMMA TimerServe ==
    ASSUME TimerInv, CountInv', Serve
    PROVE  TimerInv'
<1> DEFINE m == Head(toServer)
<1>0. UNCHANGED <<ctx, now>> /\ now \in Nat
  BY DEF Serve, TimerInv, CountInv, TypeOK
<1>1. m \in Request
  BY Types, HeadTailProperties DEF Serve, TimerInv, CountInv
<1>2. CASE UNCHANGED inbox
  BY <1>0, <1>2 DEF TimerInv
<1>3. ASSUME NEW t \in Offered[m.id],
             Deliver(m.id, [table |-> t, expires |-> now + TableTimeout])
      PROVE  TimerInv'
  <2>1. m.id \in Id /\ t \in Nat /\ now + TableTimeout \in Nat
    BY <1>0, <1>1, <1>3, ClientAssumption DEF Request
  <2>2. [table |-> t, expires |-> now + TableTimeout] \in Answer
    BY <2>1 DEF Answer
  <2> QED BY <1>0, <1>3, <2>1, <2>2, TimerDeliver
<1>4. CASE Deliver(m.id, [table |-> 0, expires |-> 0])
  <2>1. m.id \in Id /\ [table |-> 0, expires |-> 0] \in Answer
    BY <1>1 DEF Request, Answer
  <2> QED BY <1>0, <1>4, <2>1, TimerDeliver
<1> QED BY <1>2, <1>3, <1>4 DEF Serve

\* A second passes only when every reply has been read.
LEMMA TimerTick ==
    ASSUME Prompt, TimerInv, CountInv', Tick
    PROVE  TimerInv'
<1>0. UNCHANGED <<ctx, inbox>> /\ now' = now + 1 /\ now \in Nat
  BY DEF Tick, clientVars, TimerInv, CountInv, TypeOK
<1>1. ASSUME NEW p \in Proc
      PROVE  /\ inbox[p] = <<>>
             /\ OnTime(ctx[p], now + 1)
  <2>1. inbox[p] # <<>> => Running(p)
    BY DEF TimerInv, CountInv, Bounded, Running
  <2>2. inbox[p] = <<>>
    BY <2>1 DEF Tick, Due
  <2>3. OnTime(ctx[p], now + 1)
    BY <1>0, Delays DEF TimerInv, OnTime
  <2> QED BY <2>2, <2>3
<1>2. FreshMail(<<>>, now + 1)
  BY DEF FreshMail
<1> QED BY <1>0, <1>1, <1>2 DEF TimerInv

\* Every step keeps TimerInv.
LEMMA TimerStep ==
    ASSUME Prompt
    PROVE  TimerInv /\ [Next]_vars => TimerInv'
<1> SUFFICES ASSUME TimerInv, [Next]_vars PROVE TimerInv'
  OBVIOUS
<1>0. CountInv'
  BY CountStep DEF TimerInv
<1>1. CASE ServerGone
  BY <1>0, <1>1 DEF ServerGone, TimerInv
<1>2. CASE UNCHANGED vars
  BY <1>0, <1>2 DEF vars, TimerInv
<1> QED
  BY <1>0, <1>1, <1>2, TimerCallback, TimerReceive, TimerServe, TimerTick
     DEF Next, Callback

\* Initially no socket is bound and nothing is queued.
LEMMA TimerInit == Init => TimerInv
<1> SUFFICES ASSUME Init PROVE TimerInv
  OBVIOUS
<1>1. ASSUME NEW p \in Proc
      PROVE  inbox[p] = <<>> /\ ~ctx[p].sock
  BY DEF Init, Fresh
<1> QED BY <1>1, CountInit, IdleOnTime DEF TimerInv, FreshMail

\* A client with a socket sends its next request at the latest after the
\* retransmission time or half a lease, when callbacks run in time.
THEOREM ClientNeverDormant ==
    ASSUME Prompt
    PROVE  Spec => []NeverDormant
<1>1. TimerInv => NeverDormant
  BY DEF TimerInv, OnTime, Longest, NeverDormant, Running
<1> QED
  BY <1>1, TimerInit, TimerStep, PTL DEF Spec

-----------------------------------------------------------------------------
(* Tables and rules.  A client has a table only from the server, rules only  *)
(* with a table, and a table while it runs only if it has netlink.           *)

\* The tables in the replies s are tables of the identity i.
OwnMail(s, i) ==
    \A k \in 1 .. Len(s) : s[k].table # 0 => s[k].table \in Offered[i]

\* The client c of identity i has a table only of i, and rules only with one.
OwnTable(c, i) ==
    /\ c.rt_table # 0 => /\ c.rt_table \in Offered[i]
                         /\ c.state = "running" => i \in V4
    /\ c.rules_added \/ c.netlink_timer => c.rt_table # 0

\* Where the clients' tables come from; the base of CleanInv and RulesInv.
OfferInv ==
    /\ CountInv
    /\ \A p \in Proc : OwnMail(inbox[p], IdOf[p]) /\ OwnTable(ctx[p], IdOf[p])

\* Emptied and shortened queues hold nothing new; a reply may join.
LEMMA OwnMailRemains ==
    ASSUME NEW s \in Seq(Answer), NEW i, OwnMail(s, i)
    PROVE  /\ OwnMail(<<>>, i)
           /\ s # <<>> => OwnMail(Tail(s), i)
           /\ s # <<>> /\ Head(s).table # 0 => Head(s).table \in Offered[i]
           /\ \A r \in Answer : (r.table # 0 => r.table \in Offered[i])
                                    => OwnMail(Append(s, r), i)
<1>1. OwnMail(<<>>, i)
  BY DEF OwnMail
<1>2. ASSUME s # <<>> PROVE OwnMail(Tail(s), i)
  BY <1>2, HeadTailProperties DEF OwnMail
<1>3. ASSUME s # <<>> PROVE Head(s) = s[1] /\ 1 \in 1 .. Len(s)
  BY <1>3
<1>4. ASSUME NEW r \in Answer, r.table # 0 => r.table \in Offered[i]
      PROVE  OwnMail(Append(s, r), i)
  BY <1>4, AppendProperties DEF OwnMail
<1> QED
  BY <1>1, <1>2, <1>3, <1>4 DEF OwnMail

\* A step of one process.
LEMMA OneOffer ==
    ASSUME OfferInv, CountInv', NEW p \in Proc,
           NEW c, ctx' = [ctx EXCEPT ![p] = c], OwnTable(c, IdOf[p]),
           \/ UNCHANGED inbox
           \/ inbox[p] # <<>> /\ inbox' = [inbox EXCEPT ![p] = Tail(@)]
           \/ inbox' = [inbox EXCEPT ![p] = <<>>]
    PROVE  OfferInv'
<1>1. inbox \in [Proc -> Seq(Answer)] /\ ctx \in [Proc -> Ctx]
  BY Types DEF OfferInv, CountInv
<1>2. ASSUME NEW q \in Proc, q # p
      PROVE  ctx'[q] = ctx[q] /\ inbox'[q] = inbox[q]
  BY <1>1, <1>2
<1>3. ctx'[p] = c
  BY <1>1
<1>4. OwnMail(inbox'[p], IdOf[p])
  <2>1. \/ inbox'[p] \in {inbox[p], <<>>}
        \/ inbox[p] # <<>> /\ inbox'[p] = Tail(inbox[p])
    BY <1>1
  <2>2. inbox[p] \in Seq(Answer) /\ OwnMail(inbox[p], IdOf[p])
    BY <1>1 DEF OfferInv
  <2> QED BY <2>1, <2>2, OwnMailRemains
<1> QED
  BY <1>2, <1>3, <1>4 DEF OfferInv

\* What a callback other than a lease makes of the context of one process:
\* the table and the rules it has are not changed.
Keeps(c, d) ==
    /\ d.rt_table = c.rt_table /\ d.rules_added = c.rules_added
    /\ d.netlink_timer => c.netlink_timer
    /\ c.state = "running"

\* What NewRules makes of it.
Ruled(c, d) ==
    /\ d.rt_table = c.rt_table /\ d.state = c.state
    /\ c.rules_added => d.rules_added

\* Binding the socket, retrying, giving up, a socket error and the end.
LEMMA QuietCallbacks ==
    ASSUME CountInv, NEW p \in Proc,
           SocketTimeout(p) \/ RequestTimeout(p) \/ SocketError(p)
               \/ AddressRemoved(p)
    PROVE  \E d : /\ ctx' = [ctx EXCEPT ![p] = d]
                  /\ Keeps(ctx[p], d)
                  /\ UNCHANGED inbox \/ inbox' = [inbox EXCEPT ![p] = <<>>]
                  /\ d.state = "running" \/ ctx[p].rt_table = 0 \/ AddressRemoved(p)
<1>0. ctx[p] \in Ctx /\ ctx[p].state = "running"
  BY ThisProcess
     DEF SocketTimeout, RequestTimeout, SocketError, AddressRemoved, Running
<1>1. CASE SocketTimeout(p)
  <2> DEFINE d == Armed([ctx[p] EXCEPT !.sock = TRUE], Retransmit)
  <2>1. Keeps(ctx[p], d) /\ d.state = "running"
    BY <1>0 DEF Keeps, Armed, Ctx
  <2>2. ctx' = [ctx EXCEPT ![p] = d] /\ UNCHANGED inbox
    BY <1>1 DEF SocketTimeout
  <2> HIDE DEF d
  <2> QED BY <2>1, <2>2
<1>2. ASSUME GiveUp(p), ctx[p].rt_table = 0
      PROVE  \E d : /\ ctx' = [ctx EXCEPT ![p] = d]
                    /\ Keeps(ctx[p], d)
                    /\ inbox' = [inbox EXCEPT ![p] = <<>>]
  <2> DEFINE d == [Exited(Counted(ctx[p]), "stopped") EXCEPT
                       !.output = ctx[p].rt_table]
  <2>1. Keeps(ctx[p], d)
    BY <1>0 DEF Keeps, Exited, Counted, Ctx
  <2>2. ctx' = [ctx EXCEPT ![p] = d] /\ inbox' = [inbox EXCEPT ![p] = <<>>]
    BY <1>2 DEF GiveUp
  <2> HIDE DEF d
  <2> QED BY <2>1, <2>2
<1>3. CASE RequestTimeout(p)
  <2>1. CASE GiveUp(p) /\ ctx[p].rt_table = 0
    BY <1>2, <2>1
  <2>2. CASE /\ ctx' = [ctx EXCEPT ![p] =
                          Armed(IF @.rt_table # 0 THEN @ ELSE Counted(@),
                                Retransmit)]
             /\ UNCHANGED inbox
    <3> DEFINE d == Armed(IF ctx[p].rt_table # 0 THEN ctx[p]
                          ELSE Counted(ctx[p]), Retransmit)
    <3>1. Keeps(ctx[p], d) /\ d.state = "running"
      BY <1>0 DEF Keeps, Armed, Counted, Ctx
    <3>2. ctx' = [ctx EXCEPT ![p] = d]
      BY <2>2
    <3> HIDE DEF d
    <3> QED BY <2>2, <3>1, <3>2
  <2> QED BY <1>3, <2>1, <2>2 DEF RequestTimeout
<1>4. CASE SocketError(p)
  <2>1. CASE GiveUp(p) /\ ctx[p].rt_table = 0
    BY <1>2, <2>1
  <2>2. CASE /\ ctx' = [ctx EXCEPT ![p] =
                        [(IF @.rt_table # 0 THEN @ ELSE Counted(@)) EXCEPT
                            !.sock = FALSE, !.request_timer = NoTimer]]
             /\ inbox' = [inbox EXCEPT ![p] = <<>>]
    <3> DEFINE d == [(IF ctx[p].rt_table # 0 THEN ctx[p] ELSE Counted(ctx[p]))
                        EXCEPT !.sock = FALSE, !.request_timer = NoTimer]
    <3>1. Keeps(ctx[p], d) /\ d.state = "running"
      BY <1>0 DEF Keeps, Counted, Ctx
    <3>2. ctx' = [ctx EXCEPT ![p] = d]
      BY <2>2
    <3> HIDE DEF d
    <3> QED BY <2>2, <3>1, <3>2
  <2> QED BY <1>4, <2>1, <2>2 DEF SocketError
<1>5. CASE AddressRemoved(p)
  <2> DEFINE d == Exited(ctx[p], "stopped")
  <2>1. Keeps(ctx[p], d)
    BY <1>0 DEF Keeps, Exited, Ctx
  <2>2. ctx' = [ctx EXCEPT ![p] = d] /\ inbox' = [inbox EXCEPT ![p] = <<>>]
    BY <1>5 DEF AddressRemoved
  <2> HIDE DEF d
  <2> QED BY <1>5, <2>1, <2>2
<1> QED BY <1>1, <1>3, <1>4, <1>5

\* NewRules, for a context c of the process: nothing when the rules are
\* there, else the rules for the table of c; they count as added only when all
\* three were sent.
LEMMA NewRulesStep ==
    ASSUME NEW p \in Proc, NEW c \in Ctx, NEW kinds \in KindsSent,
           NewRules(p, c, kinds)
    PROVE  \E d : /\ ctx' = [ctx EXCEPT ![p] = d]
                  /\ d.rt_table = c.rt_table /\ d.state = c.state
                  /\ \/ c.rules_added /\ d.rules_added /\ UNCHANGED rules
                     \/ /\ ~c.rules_added
                        /\ rules' = rules \cup
                              {RuleOf(k, IdOf[p], c.rt_table) : k \in kinds}
                        /\ d.rules_added <=> kinds = {"addr", "nw", "def"}
<1> DEFINE d == IF c.rules_added THEN c
                ELSE IF AllSent(kinds) THEN [c EXCEPT !.rules_added = TRUE]
                ELSE [c EXCEPT !.netlink_timer = TRUE]
<1>1. ctx' = [ctx EXCEPT ![p] = d]
  BY DEF NewRules
<1>2. d.rt_table = c.rt_table /\ d.state = c.state
  BY DEF Ctx
<1>3. AllSent(kinds) <=> kinds = {"addr", "nw", "def"}
  BY KindsSentType, AllSentKinds
<1>4. c.rules_added => d.rules_added /\ UNCHANGED rules
  BY DEF NewRules
<1>5. ASSUME ~c.rules_added
      PROVE  /\ rules' = rules \cup
                    {RuleOf(k, IdOf[p], c.rt_table) : k \in kinds}
             /\ d.rules_added <=> kinds = {"addr", "nw", "def"}
  <2>1. d.rules_added <=> AllSent(kinds)
    BY <1>5 DEF Ctx
  <2> QED BY <1>3, <1>5, <2>1 DEF NewRules
<1> HIDE DEF d
<1> QED BY <1>1, <1>2, <1>4, <1>5

\* The context that a lease leads to.
LEMMA LeaseStep ==
    ASSUME CountInv, NEW p \in Proc, Receive(p), Head(inbox[p]).table # 0
    PROVE  LET r == Head(inbox[p])
               c == WithLease(ctx[p], r)
           IN  /\ c \in Ctx /\ c.rt_table = r.table /\ c.state = "running"
               /\ c.rules_added = ctx[p].rules_added
<1> DEFINE r == Head(inbox[p])
<1>1. r \in Answer /\ ctx[p] \in Ctx /\ ctx[p].state = "running" /\ now \in Nat
  BY InboxType, ThisProcess, Types DEF Receive, CountInv, Running
<1>2. WithLease(ctx[p], r) \in Ctx
  BY <1>1, WithLeaseType
<1> QED
  BY <1>1, <1>2 DEF WithLease, Ctx

\* Every step keeps OfferInv.
LEMMA OfferStep == OfferInv /\ [Next]_vars => OfferInv'
<1> SUFFICES ASSUME OfferInv, [Next]_vars PROVE OfferInv'
  OBVIOUS
<1>0. CountInv /\ CountInv'
  BY CountStep DEF OfferInv
<1>1. ASSUME NEW p \in Proc, Launch(p) PROVE OfferInv'
  <2>1. OwnTable(Fresh, IdOf[p])
    BY DEF OwnTable, Fresh
  <2>2. ctx' = [ctx EXCEPT ![p] = Fresh] /\ UNCHANGED inbox
    BY <1>1 DEF Launch
  <2> QED BY <1>0, <2>1, <2>2, OneOffer
<1>2. ASSUME NEW p \in Proc,
             SocketTimeout(p) \/ RequestTimeout(p) \/ SocketError(p)
                 \/ AddressRemoved(p)
      PROVE  OfferInv'
  <2> PICK d : /\ ctx' = [ctx EXCEPT ![p] = d]
               /\ Keeps(ctx[p], d)
               /\ UNCHANGED inbox \/ inbox' = [inbox EXCEPT ![p] = <<>>]
    BY <1>0, <1>2, QuietCallbacks
  <2>1. OwnTable(d, IdOf[p])
    BY DEF Keeps, OwnTable, OfferInv
  <2> QED BY <1>0, <2>1, OneOffer
<1>3. ASSUME NEW p \in Proc, NetlinkTimeout(p) PROVE OfferInv'
  <2> DEFINE c == [ctx[p] EXCEPT !.netlink_timer = FALSE]
  <2>1. /\ c \in Ctx /\ c.rt_table = ctx[p].rt_table
        /\ c.state = ctx[p].state /\ ctx[p].netlink_timer
    BY <1>0, <1>3, ThisProcess DEF Ctx, NetlinkTimeout
  <2> PICK kinds \in KindsSent : NewRules(p, c, kinds)
    BY <1>3 DEF NetlinkTimeout
  <2> HIDE DEF c
  <2> PICK d : /\ ctx' = [ctx EXCEPT ![p] = d]
               /\ d.rt_table = c.rt_table /\ d.state = c.state
    BY <2>1, NewRulesStep
  <2>2. OwnTable(d, IdOf[p]) /\ UNCHANGED inbox
    BY <1>3, <2>1 DEF OwnTable, OfferInv, NetlinkTimeout
  <2> QED BY <1>0, <2>2, OneOffer
<1>4. ASSUME NEW p \in Proc, Receive(p) PROVE OfferInv'
  <2> DEFINE r == Head(inbox[p])
  <2>0. /\ inbox[p] # <<>> /\ ctx[p] \in Ctx
        /\ r.table # 0 => r.table \in Offered[IdOf[p]]
    <3>1. inbox[p] # <<>> /\ ctx[p] \in Ctx /\ inbox[p] \in Seq(Answer)
      BY <1>0, <1>4, ThisProcess, Types DEF Receive, CountInv
    <3>2. OwnMail(inbox[p], IdOf[p])
      BY DEF OfferInv
    <3> QED BY <3>1, <3>2, OwnMailRemains
  <2>1. CASE ReceiveNoTable(p, r) /\ inbox' = [inbox EXCEPT ![p] = Tail(@)]
    <3> DEFINE d == Armed([ctx[p] EXCEPT !.lease_expires = r.expires], Retransmit)
    <3>1. /\ d.rt_table = ctx[p].rt_table /\ d.state = ctx[p].state
          /\ d.rules_added = ctx[p].rules_added
          /\ d.netlink_timer = ctx[p].netlink_timer
      BY <2>0 DEF Armed, Ctx
    <3>2. ctx' = [ctx EXCEPT ![p] = d]
      BY <2>1 DEF ReceiveNoTable
    <3> HIDE DEF d
    <3>3. OwnTable(d, IdOf[p])
      BY <3>1 DEF OwnTable, OfferInv
    <3> QED BY <1>0, <2>0, <2>1, <3>2, <3>3, OneOffer
  <2>2. CASE /\ IdOf[p] \in V4 /\ ReceiveLease(p, r)
             /\ inbox' = [inbox EXCEPT ![p] = Tail(@)]
    <3> DEFINE c == WithLease(ctx[p], r)
    <3>1. c \in Ctx /\ c.rt_table = r.table /\ r.table # 0
      BY <1>0, <1>4, <2>2, LeaseStep DEF ReceiveLease
    <3> PICK kinds \in KindsSent : NewRules(p, c, kinds)
      BY <2>2 DEF ReceiveLease
    <3> HIDE DEF c
    <3> PICK d : ctx' = [ctx EXCEPT ![p] = d] /\ d.rt_table = c.rt_table
      BY <3>1, NewRulesStep
    <3>2. OwnTable(d, IdOf[p])
      BY <2>0, <2>2, <3>1 DEF OwnTable
    <3> QED BY <1>0, <2>0, <2>2, <3>2, OneOffer
  <2>3. CASE /\ ReceiveLeaseNoNetlink(p, r)
             /\ inbox' = [inbox EXCEPT ![p] = <<>>]
    <3> DEFINE c == WithLease(ctx[p], r)
               d == Exited(c, "crashed")
    <3>1. c \in Ctx /\ c.rt_table = r.table /\ r.table # 0
      BY <1>0, <1>4, <2>3, LeaseStep DEF ReceiveLeaseNoNetlink
    <3>2. ctx' = [ctx EXCEPT ![p] = d]
      BY <2>3 DEF ReceiveLeaseNoNetlink
    <3>3. d.rt_table = r.table /\ d.state = "crashed"
      <4> HIDE DEF c
      <4> QED BY <3>1 DEF Exited, Ctx
    <3> HIDE DEF d
    <3>4. OwnTable(d, IdOf[p])
      BY <2>0, <3>1, <3>3 DEF OwnTable
    <3> QED BY <1>0, <2>3, <3>2, <3>4, OneOffer
  <2> QED BY <1>4, <2>1, <2>2, <2>3 DEF Receive
<1>5. CASE Serve
  <2> DEFINE m == Head(toServer)
  <2>1. m \in Request /\ UNCHANGED ctx /\ inbox \in [Proc -> Seq(Answer)]
    BY <1>0, <1>5, Types, HeadTailProperties DEF Serve, CountInv
  <2>2. ASSUME NEW r \in Answer, Deliver(m.id, r),
               r.table # 0 => r.table \in Offered[m.id]
        PROVE  OfferInv'
    <3>1. ASSUME NEW p \in Proc PROVE OwnMail(inbox'[p], IdOf[p])
      <4>1. \/ inbox'[p] = inbox[p]
            \/ inbox'[p] = Append(inbox[p], r) /\ IdOf[p] = m.id
        BY <2>2 DEF Deliver
      <4>2. inbox[p] \in Seq(Answer) /\ OwnMail(inbox[p], IdOf[p])
        BY <2>1 DEF OfferInv
      <4> QED BY <2>2, <4>1, <4>2, OwnMailRemains
    <3> QED BY <1>0, <2>1, <3>1 DEF OfferInv
  <2>3. CASE UNCHANGED inbox
    BY <1>0, <2>1, <2>3 DEF OfferInv
  <2>4. ASSUME NEW t \in Offered[m.id],
               Deliver(m.id, [table |-> t, expires |-> now + TableTimeout])
        PROVE  OfferInv'
    <3>1. m.id \in Id /\ now \in Nat
      BY <1>0, <2>1 DEF Request, CountInv, TypeOK
    <3>2. t \in Nat /\ now + TableTimeout \in Nat
      BY <2>4, <3>1, ClientAssumption
    <3>3. [table |-> t, expires |-> now + TableTimeout] \in Answer
      BY <3>2 DEF Answer
    <3> QED BY <2>2, <2>4, <3>3
  <2>5. CASE Deliver(m.id, [table |-> 0, expires |-> 0])
    <3>1. [table |-> 0, expires |-> 0] \in Answer
      BY DEF Answer
    <3> QED BY <2>2, <2>5, <3>1
  <2> QED BY <1>5, <2>3, <2>4, <2>5 DEF Serve
<1>6. CASE UNCHANGED <<ctx, inbox>>
  BY <1>0, <1>6 DEF OfferInv
<1> QED
  BY <1>1, <1>2, <1>3, <1>4, <1>5, <1>6
     DEF Next, Callback, ServerGone, Tick, clientVars, vars

\* Initially there is no table.
LEMMA OfferInit == Init => OfferInv
<1> SUFFICES ASSUME Init PROVE OfferInv
  OBVIOUS
<1>1. ASSUME NEW p \in Proc
      PROVE  inbox[p] = <<>> /\ ctx[p].rt_table = 0
             /\ ~ctx[p].rules_added /\ ~ctx[p].netlink_timer
  BY DEF Init, Fresh
<1> QED
  BY <1>1, CountInit DEF OfferInv, OwnMail, OwnTable

-----------------------------------------------------------------------------
(* CleanExit.  Every rule of the kernel belongs to a running client that has *)
(* its table, so that an identity without a running client has none.         *)

\* The server has one table for each identity, as it has for a lease that
\* does not run out (ServerImplementsService), and no table for two.
OneTableEach == \A i \in Id : \A t, u \in Offered[i] : t = u
OwnTables    == \A i, j \in Id : i # j => Offered[i] \cap Offered[j] = {}

\* The three rules of identity i in table t.
RulesOf(i, t) == {RuleOf(k, i, t) : k \in {"addr", "nw", "def"}}

\* The rule r is one of those a process with context c and identity i
\* believes it has installed.
Owns(c, i, r) ==
    c.state = "running" /\ c.rules_added /\ r \in RulesOf(i, c.rt_table)

\* The inductive invariant of CleanExit.
CleanInv ==
    /\ OfferInv
    /\ \A p \in Proc : Running(p) /\ ctx[p].rt_table # 0 => ctx[p].rules_added
    /\ \A r \in rules : \E p \in Proc : Owns(ctx[p], IdOf[p], r)

\* A step of one process that keeps what it owns, and adds what it then owns.
LEMMA OneOwner ==
    ASSUME CleanInv, OfferInv', NEW p \in Proc,
           NEW d, ctx' = [ctx EXCEPT ![p] = d],
           ctx[p].state = "running" /\ ctx[p].rules_added =>
               /\ d.state = "running" /\ d.rules_added
               /\ d.rt_table = ctx[p].rt_table,
           d.state = "running" /\ d.rt_table # 0 => d.rules_added,
           \A r \in rules' : r \in rules \/ Owns(d, IdOf[p], r)
    PROVE  CleanInv'
<1>1. ctx \in [Proc -> Ctx]
  BY DEF CleanInv, OfferInv, CountInv, TypeOK
<1>2. ctx'[p] = d /\ \A q \in Proc : q # p => ctx'[q] = ctx[q]
  BY <1>1
<1>3. \A q \in Proc : Running(q)' /\ ctx'[q].rt_table # 0 => ctx'[q].rules_added
  BY <1>2 DEF CleanInv, Running
<1>4. ASSUME NEW r \in rules'
      PROVE  \E q \in Proc : Owns(ctx'[q], IdOf[q], r)
  <2>1. CASE Owns(d, IdOf[p], r)
    BY <1>2, <2>1
  <2>2. CASE r \in rules
    <3> PICK q \in Proc : Owns(ctx[q], IdOf[q], r)
      BY <2>2 DEF CleanInv
    <3>1. Owns(ctx'[q], IdOf[q], r)
      BY <1>2 DEF Owns
    <3> QED BY <3>1
  <2> QED BY <1>4, <2>1, <2>2
<1> QED BY <1>3, <1>4 DEF CleanInv

\* update_rules(RTM_DELRULE) with a table deletes the rules of that table.
LEMMA DeletesOwn ==
    ASSUME NEW i, NEW t, t # 0, rules \subseteq Rule,
           NEW k \in {"addr", "nw", "def"}, RuleOf(k, i, t) \in rules,
           NEW D \in Deletions({"addr", "nw", "def"}, i, t)
    PROVE  RuleOf(k, i, t) \in D
<1> DEFINE r == RuleOf(k, i, t)
<1>1. Matches(k, i, t) = {r}
  BY DEF Matches, RuleOf, Rule
<1>2. Cardinality(D \cap {r}) = 1
  BY <1>1 DEF Deletions
<1> HIDE DEF r
<1>3. ASSUME r \notin D PROVE FALSE
  <2>1. D \cap {r} = {}
    BY <1>3
  <2> QED BY <1>2, <2>1, FS_EmptySet
<1> QED BY <1>3 DEF r

\* The address is gone, and netlink does not fail: the rules that are left
\* belong to others.
LEMMA CleanAddressRemoved ==
    ASSUME "netlink" \notin ClientFaults, CleanInv, OfferInv', NEW p \in Proc,
           AddressRemoved(p)
    PROVE  CleanInv'
<1> DEFINE c == Exited(ctx[p], "stopped")
           K == {"addr", "nw", "def"}
<1>1. /\ ctx \in [Proc -> Ctx] /\ rules \subseteq Rule
      /\ ctx' = [ctx EXCEPT ![p] = c]
  BY DEF CleanInv, OfferInv, CountInv, TypeOK, AddressRemoved
<1>2. c.state = "stopped"
  BY <1>1 DEF Exited, Ctx
<1> HIDE DEF c
<1>3. ctx'[p] = c /\ \A q \in Proc : q # p => ctx'[q] = ctx[q]
  BY <1>1
<1>4. PICK D \in Deletions(K, IdOf[p], ctx[p].rt_table) : rules' = rules \ D
  BY KindsSentType DEF AddressRemoved, DeleteRules
<1>5. \A q \in Proc : Running(q)' /\ ctx'[q].rt_table # 0 => ctx'[q].rules_added
  BY <1>2, <1>3 DEF CleanInv, Running
<1>6. ASSUME NEW r \in rules'
      PROVE  \E q \in Proc : Owns(ctx'[q], IdOf[q], r)
  <2>1. r \in rules /\ r \notin D
    BY <1>4, <1>6
  <2>2. PICK q \in Proc : Owns(ctx[q], IdOf[q], r)
    BY <2>1 DEF CleanInv
  <2>3. ASSUME q = p PROVE FALSE
    <3>1. ctx[p].rt_table # 0
      BY <2>2, <2>3 DEF Owns, CleanInv, OfferInv, OwnTable
    <3>2. PICK k \in K : r = RuleOf(k, IdOf[p], ctx[p].rt_table)
      BY <2>2, <2>3 DEF Owns, RulesOf
    <3> QED BY <1>1, <1>4, <2>1, <3>1, <3>2, DeletesOwn
  <2> QED BY <1>3, <2>2, <2>3
<1> QED BY <1>5, <1>6 DEF CleanInv

\* Every step keeps CleanInv.
LEMMA CleanStep ==
    ASSUME "netlink" \notin ClientFaults, OneTableEach
    PROVE  CleanInv /\ [Next]_vars => CleanInv'
<1> SUFFICES ASSUME CleanInv, [Next]_vars PROVE CleanInv'
  OBVIOUS
<1>0. OfferInv /\ OfferInv' /\ CountInv
  BY OfferStep DEF CleanInv, OfferInv
<1>1. ASSUME NEW p \in Proc, Launch(p) PROVE CleanInv'
  <2>1. /\ ctx' = [ctx EXCEPT ![p] = Fresh] /\ UNCHANGED rules
        /\ ctx[p].state # "running"
    BY <1>1 DEF Launch, Running
  <2>2. Fresh.rt_table = 0
    BY DEF Fresh
  <2> QED BY <1>0, <2>1, <2>2, OneOwner
<1>2. ASSUME NEW p \in Proc,
             SocketTimeout(p) \/ RequestTimeout(p) \/ SocketError(p)
      PROVE  CleanInv'
  <2>1. PICK d : /\ ctx' = [ctx EXCEPT ![p] = d]
                 /\ Keeps(ctx[p], d)
                 /\ \/ d.state = "running" \/ ctx[p].rt_table = 0
                    \/ AddressRemoved(p)
    BY <1>0, <1>2, QuietCallbacks
  <2>2. UNCHANGED rules
    BY <1>2 DEF SocketTimeout, RequestTimeout, SocketError
  <2>3. CASE AddressRemoved(p)
    BY <1>0, <2>3, CleanAddressRemoved
  <2>4. CASE d.state = "running" \/ ctx[p].rt_table = 0
    <3>1. ctx[p].rules_added => ctx[p].rt_table # 0
      BY <1>0 DEF OfferInv, OwnTable
    <3>2. ctx[p].state = "running" /\ (ctx[p].rt_table # 0 => ctx[p].rules_added)
      BY <2>1 DEF Keeps, CleanInv, Running
    <3> QED BY <1>0, <2>1, <2>2, <2>4, <3>1, <3>2, OneOwner DEF Keeps
  <2> QED BY <2>1, <2>3, <2>4
<1>3. ASSUME NEW p \in Proc, AddressRemoved(p) PROVE CleanInv'
  BY <1>0, <1>3, CleanAddressRemoved
<1>4. ASSUME NEW p \in Proc, NEW c \in Ctx, NEW kinds \in KindsSent,
             NewRules(p, c, kinds), c.state = "running",
             c.rules_added = ctx[p].rules_added,
             c.rules_added => c.rt_table = ctx[p].rt_table
      PROVE  CleanInv'
  <2>1. kinds = {"addr", "nw", "def"}
    BY KindsSentType
  <2>2. PICK d : /\ ctx' = [ctx EXCEPT ![p] = d]
                 /\ d.rt_table = c.rt_table /\ d.state = c.state
                 /\ \/ c.rules_added /\ d.rules_added /\ UNCHANGED rules
                    \/ /\ ~c.rules_added
                       /\ rules' = rules \cup
                             {RuleOf(k, IdOf[p], c.rt_table) : k \in kinds}
                       /\ d.rules_added <=> kinds = {"addr", "nw", "def"}
    BY <1>4, NewRulesStep
  <2>3. \A r \in rules' : r \in rules \/ Owns(d, IdOf[p], r)
    BY <1>4, <2>1, <2>2 DEF Owns, RulesOf
  <2> QED BY <1>0, <1>4, <2>1, <2>2, <2>3, OneOwner
<1>5. ASSUME NEW p \in Proc, NetlinkTimeout(p) PROVE CleanInv'
  <2> DEFINE c == [ctx[p] EXCEPT !.netlink_timer = FALSE]
  <2>1. /\ c \in Ctx /\ c.rt_table = ctx[p].rt_table
        /\ c.state = "running" /\ c.rules_added = ctx[p].rules_added
    BY <1>0, <1>5, ThisProcess DEF Ctx, NetlinkTimeout, Running
  <2> PICK kinds \in KindsSent : NewRules(p, c, kinds)
    BY <1>5 DEF NetlinkTimeout
  <2> HIDE DEF c
  <2> QED BY <1>4, <2>1
<1>6. ASSUME NEW p \in Proc, Receive(p) PROVE CleanInv'
  <2> DEFINE r == Head(inbox[p])
  <2>0. /\ IdOf[p] \in Id /\ OwnTable(ctx[p], IdOf[p]) /\ ctx[p] \in Ctx
        /\ ctx[p].state = "running"
        /\ r.table # 0 => r.table \in Offered[IdOf[p]]
    <3>1. inbox[p] # <<>> /\ inbox[p] \in Seq(Answer)
      BY <1>0, <1>6, Types DEF Receive, CountInv
    <3>2. OwnMail(inbox[p], IdOf[p])
      BY <1>0 DEF OfferInv
    <3>3. r.table # 0 => r.table \in Offered[IdOf[p]]
      BY <3>1, <3>2, OwnMailRemains
    <3> QED BY <1>0, <1>6, <3>3, ThisProcess DEF OfferInv, Receive, Running
  <2>1. CASE ReceiveNoTable(p, r)
    <3> DEFINE d == Armed([ctx[p] EXCEPT !.lease_expires = r.expires], Retransmit)
    <3>1. /\ d.rt_table = ctx[p].rt_table /\ d.state = ctx[p].state
          /\ d.rules_added = ctx[p].rules_added
      BY <2>0 DEF Armed, Ctx
    <3>2. ctx' = [ctx EXCEPT ![p] = d] /\ UNCHANGED rules
      BY <2>1 DEF ReceiveNoTable
    <3> HIDE DEF d
    <3> QED BY <1>0, <3>1, <3>2, OneOwner DEF CleanInv, Running
  <2>2. CASE ReceiveLease(p, r)
    <3> DEFINE c == WithLease(ctx[p], r)
    <3>1. /\ c \in Ctx /\ c.rt_table = r.table /\ r.table # 0
          /\ c.state = "running" /\ c.rules_added = ctx[p].rules_added
      BY <1>0, <1>6, <2>2, LeaseStep DEF ReceiveLease
    <3> PICK kinds \in KindsSent : NewRules(p, c, kinds)
      BY <2>2 DEF ReceiveLease
    <3> HIDE DEF c
    <3>2. c.rules_added => c.rt_table = ctx[p].rt_table
      BY <2>0, <3>1 DEF OwnTable, OneTableEach
    <3> QED BY <1>4, <3>1, <3>2
  <2>3. CASE IdOf[p] \notin V4 /\ ReceiveLeaseNoNetlink(p, r)
    <3> DEFINE c == WithLease(ctx[p], r)
               d == Exited(c, "crashed")
    <3>1. c \in Ctx
      BY <1>0, <1>6, <2>3, LeaseStep DEF ReceiveLeaseNoNetlink
    <3>2. ctx' = [ctx EXCEPT ![p] = d] /\ UNCHANGED rules
      BY <2>3 DEF ReceiveLeaseNoNetlink
    <3>3. d.state = "crashed"
      <4> HIDE DEF c
      <4> QED BY <3>1 DEF Exited, Ctx
    <3> HIDE DEF d
    <3>4. ~ctx[p].rules_added
      BY <2>0, <2>3 DEF OwnTable
    <3> QED BY <1>0, <3>2, <3>3, <3>4, OneOwner
  <2> QED BY <1>6, <2>1, <2>2, <2>3 DEF Receive
<1>7. CASE UNCHANGED <<ctx, rules>>
  BY <1>0, <1>7 DEF CleanInv, Running
<1> QED
  BY <1>1, <1>2, <1>3, <1>5, <1>6, <1>7
     DEF Next, Callback, Serve, ServerGone, Tick, clientVars, vars

\* When the last process of an identity has ended in order, none of its rules
\* is left, provided that netlink does not fail and that the server has one
\* table for the identity and for nobody else: whatever datagrams are lost,
\* sockets fail and clients are started again.
THEOREM ClientLeavesNoRules ==
    ASSUME "netlink" \notin ClientFaults, OneTableEach, OwnTables
    PROVE  Spec => []CleanExit
<1>1. Init => CleanInv
  <2> SUFFICES ASSUME Init PROVE CleanInv
    OBVIOUS
  <2>1. rules = {} /\ \A p \in Proc : ctx[p].rt_table = 0
    BY DEF Init, Fresh
  <2> QED BY <2>1, OfferInit DEF CleanInv
<1>2. Spec => []CleanInv
  BY <1>1, CleanStep, PTL DEF Spec
<1>3. CleanInv => CleanExit
  <2> SUFFICES ASSUME CleanInv, NEW p \in Proc,
                      \A q \in Proc : IdOf[q] = IdOf[p] => ~Running(q),
                      NEW r \in rules
               PROVE  r.addr # IdOf[p] /\ r.table \notin Offered[IdOf[p]]
    BY DEF CleanExit
  <2>1. PICK q \in Proc : Owns(ctx[q], IdOf[q], r)
    BY DEF CleanInv
  <2>2. IdOf[q] # IdOf[p] /\ IdOf[p] \in Id /\ IdOf[q] \in Id
    BY <2>1, ClientAssumption DEF Owns, Running
  <2>3. ctx[q].rt_table \in Offered[IdOf[q]]
    BY <2>1 DEF CleanInv, OfferInv, OwnTable, Owns
  <2>4. r.table = ctx[q].rt_table /\ r.addr \in {IdOf[q], None}
    BY <2>1 DEF Owns, RulesOf, RuleOf
  <2> QED BY <2>2, <2>3, <2>4, ClientAssumption DEF OwnTables
<1> QED
  BY <1>2, <1>3, PTL

-----------------------------------------------------------------------------
(* RulesFollowLease does not hold as it stands.  The theorem says which two  *)
(* kinds of step can break it, for every server: nothing else can.           *)

\* A client that has its rules is given another table: update_rules does not
\* run again while rules_added is set.
AnotherTable ==
    \E p \in Proc :
        /\ Running(p) /\ ctx[p].rules_added
        /\ Running(p)' /\ ctx'[p].rt_table # ctx[p].rt_table

\* A client deletes rules while another that has some is in the same table, or
\* deletes without a table: 0 in the message matches the rules of any.
ForeignRemoval ==
    \E p, q \in Proc :
        /\ p # q /\ AddressRemoved(p)
        /\ Running(q) /\ ctx[q].rules_added
        /\ ctx[p].rt_table \in {0, ctx[q].rt_table}

Undisturbed == ~AnotherTable /\ ~ForeignRemoval

\* The inductive invariant of RulesFollowLease.
RulesInv == CountInv /\ RulesFollowLease

\* A step of one process that deletes no rule, and has the rules it counts on.
LEMMA OneFollower ==
    ASSUME RulesInv, CountInv', NEW p \in Proc,
           NEW d, ctx' = [ctx EXCEPT ![p] = d], rules \subseteq rules',
           d.state = "running" /\ d.rules_added =>
               \A k \in {"addr", "nw", "def"} :
                   RuleOf(k, IdOf[p], d.rt_table) \in rules'
    PROVE  RulesInv'
<1>1. ctx \in [Proc -> Ctx]
  BY DEF RulesInv, CountInv, TypeOK
<1>2. ctx'[p] = d /\ \A q \in Proc : q # p => ctx'[q] = ctx[q]
  BY <1>1
<1> SUFFICES ASSUME NEW q \in Proc, Running(q)', ctx'[q].rules_added,
                    NEW k \in {"addr", "nw", "def"}
             PROVE  RuleOf(k, IdOf[q], ctx'[q].rt_table) \in rules'
  BY DEF RulesInv, RulesFollowLease
<1>3. CASE q = p
  BY <1>2, <1>3 DEF Running
<1>4. CASE q # p
  BY <1>2, <1>4 DEF RulesInv, RulesFollowLease, Running
<1> QED BY <1>3, <1>4

\* A client deletes the rules of its table only.
LEMMA DeletesOnlyOwn ==
    ASSUME NEW p \in Proc, NEW q \in Proc,
           ctx[p].rt_table \notin {0, ctx[q].rt_table},
           NEW kinds, NEW D \in Deletions(kinds, IdOf[p], ctx[p].rt_table),
           NEW k \in {"addr", "nw", "def"}
    PROVE  RuleOf(k, IdOf[q], ctx[q].rt_table) \notin D
<1> DEFINE r == RuleOf(k, IdOf[q], ctx[q].rt_table)
<1>1. r.table = ctx[q].rt_table
  BY DEF RuleOf
<1>2. \A j \in kinds : r \notin Matches(j, IdOf[p], ctx[p].rt_table)
  BY <1>1 DEF Matches
<1> HIDE DEF r
<1>3. D \subseteq UNION {Matches(j, IdOf[p], ctx[p].rt_table) : j \in kinds}
  BY DEF Deletions
<1>4. r \notin D
  BY <1>2, <1>3
<1> QED BY <1>4 DEF r

\* Every undisturbed step keeps RulesInv.
LEMMA RulesStep ==
    RulesInv /\ [Next]_vars /\ [Undisturbed]_vars => RulesInv'
<1> SUFFICES ASSUME RulesInv, [Next]_vars, [Undisturbed]_vars
             PROVE  RulesInv'
  OBVIOUS
<1>0. CountInv /\ CountInv'
  BY CountStep DEF RulesInv
<1>1. ASSUME NEW p \in Proc, Launch(p) PROVE RulesInv'
  <2>1. ctx' = [ctx EXCEPT ![p] = Fresh] /\ UNCHANGED rules
    BY <1>1 DEF Launch
  <2>2. ~Fresh.rules_added
    BY DEF Fresh
  <2> QED BY <1>0, <2>1, <2>2, OneFollower
<1>2. ASSUME NEW p \in Proc,
             SocketTimeout(p) \/ RequestTimeout(p) \/ SocketError(p)
      PROVE  RulesInv'
  <2>1. PICK d : ctx' = [ctx EXCEPT ![p] = d] /\ Keeps(ctx[p], d)
    BY <1>0, <1>2, QuietCallbacks
  <2>2. UNCHANGED rules
    BY <1>2 DEF SocketTimeout, RequestTimeout, SocketError
  <2>3. d.rules_added => \A k \in {"addr", "nw", "def"} :
                            RuleOf(k, IdOf[p], d.rt_table) \in rules'
    BY <2>1, <2>2 DEF Keeps, RulesInv, RulesFollowLease, Running
  <2> QED BY <1>0, <2>1, <2>2, <2>3, OneFollower
<1>3. ASSUME NEW p \in Proc, AddressRemoved(p) PROVE RulesInv'
  <2> DEFINE c == Exited(ctx[p], "stopped")
  <2>1. /\ ctx \in [Proc -> Ctx] /\ ctx' = [ctx EXCEPT ![p] = c]
        /\ Running(p)
    BY <1>0, <1>3 DEF CountInv, TypeOK, AddressRemoved
  <2>2. c.state = "stopped"
    BY <2>1 DEF Exited, Ctx
  <2> HIDE DEF c
  <2>3. ctx'[p] = c /\ \A q \in Proc : q # p => ctx'[q] = ctx[q]
    BY <2>1
  <2>4. PICK kinds \in KindsSent :
             \E D \in Deletions(kinds, IdOf[p], ctx[p].rt_table) :
                 rules' = rules \ D
    BY <1>3 DEF AddressRemoved, DeleteRules
  <2>5. PICK D \in Deletions(kinds, IdOf[p], ctx[p].rt_table) :
             rules' = rules \ D
    BY <2>4
  <2>6. ASSUME NEW q \in Proc, Running(q)', ctx'[q].rules_added,
               NEW k \in {"addr", "nw", "def"}
        PROVE  RuleOf(k, IdOf[q], ctx'[q].rt_table) \in rules'
    <3>1. q # p
      BY <2>2, <2>3, <2>6 DEF Running
    <3>2. Running(q) /\ ctx[q].rules_added /\ ctx'[q] = ctx[q]
      BY <2>3, <2>6, <3>1 DEF Running
    <3>3. ctx[p].rt_table \notin {0, ctx[q].rt_table}
      <4>1. vars' # vars
        <5>1. ctx'[p].state # ctx[p].state
          BY <2>1, <2>2, <2>3 DEF Running
        <5> QED BY <5>1 DEF vars
      <4> QED BY <1>3, <3>1, <3>2, <4>1 DEF Undisturbed, ForeignRemoval
    <3>4. RuleOf(k, IdOf[q], ctx[q].rt_table) \in rules
      BY <3>2 DEF RulesInv, RulesFollowLease
    <3>5. RuleOf(k, IdOf[q], ctx[q].rt_table) \notin D
      BY <3>3, DeletesOnlyOwn
    <3> QED BY <2>5, <3>2, <3>4, <3>5
  <2> QED BY <1>0, <2>6 DEF RulesInv, RulesFollowLease
<1>4. ASSUME NEW p \in Proc, Running(p), NEW c \in Ctx, NEW kinds \in KindsSent,
             NewRules(p, c, kinds), c.state = "running",
             c.rules_added = ctx[p].rules_added
      PROVE  RulesInv'
  <2>1. PICK d : /\ ctx' = [ctx EXCEPT ![p] = d]
                 /\ d.rt_table = c.rt_table /\ d.state = c.state
                 /\ \/ c.rules_added /\ d.rules_added /\ UNCHANGED rules
                    \/ /\ ~c.rules_added
                       /\ rules' = rules \cup
                             {RuleOf(k, IdOf[p], c.rt_table) : k \in kinds}
                       /\ d.rules_added <=> kinds = {"addr", "nw", "def"}
    BY <1>4, NewRulesStep
  <2>2. ASSUME c.rules_added, d.rt_table # ctx[p].rt_table PROVE FALSE
    <3>1. ctx'[p] = d
      BY <1>0, <2>1 DEF CountInv, TypeOK
    <3>2. vars' # vars
      BY <2>2, <3>1 DEF vars
    <3> QED BY <1>4, <2>1, <2>2, <3>1, <3>2
               DEF Undisturbed, AnotherTable, Running
  <2>3. d.rules_added => \A k \in {"addr", "nw", "def"} :
                            RuleOf(k, IdOf[p], d.rt_table) \in rules'
    BY <1>4, <2>1, <2>2 DEF RulesInv, RulesFollowLease
  <2> QED BY <1>0, <2>1, <2>3, OneFollower
<1>5. ASSUME NEW p \in Proc, NetlinkTimeout(p) PROVE RulesInv'
  <2> DEFINE c == [ctx[p] EXCEPT !.netlink_timer = FALSE]
  <2>1. /\ c \in Ctx /\ c.state = "running" /\ Running(p)
        /\ c.rules_added = ctx[p].rules_added
    BY <1>0, <1>5, ThisProcess DEF Ctx, NetlinkTimeout, Running
  <2> PICK kinds \in KindsSent : NewRules(p, c, kinds)
    BY <1>5 DEF NetlinkTimeout
  <2> HIDE DEF c
  <2> QED BY <1>4, <2>1
<1>6. ASSUME NEW p \in Proc, Receive(p) PROVE RulesInv'
  <2> DEFINE r == Head(inbox[p])
  <2>0. ctx[p] \in Ctx /\ Running(p)
    BY <1>0, <1>6, ThisProcess DEF Receive
  <2>1. CASE ReceiveNoTable(p, r)
    <3> DEFINE d == Armed([ctx[p] EXCEPT !.lease_expires = r.expires], Retransmit)
    <3>1. d.rt_table = ctx[p].rt_table /\ d.rules_added = ctx[p].rules_added
      BY <2>0 DEF Armed, Ctx
    <3>2. ctx' = [ctx EXCEPT ![p] = d] /\ UNCHANGED rules
      BY <2>1 DEF ReceiveNoTable
    <3> HIDE DEF d
    <3> QED BY <1>0, <2>0, <3>1, <3>2, OneFollower DEF RulesInv, RulesFollowLease
  <2>2. CASE ReceiveLease(p, r)
    <3> DEFINE c == WithLease(ctx[p], r)
    <3>1. /\ c \in Ctx /\ c.state = "running"
          /\ c.rules_added = ctx[p].rules_added
      BY <1>0, <1>6, <2>2, LeaseStep DEF ReceiveLease
    <3> PICK kinds \in KindsSent : NewRules(p, c, kinds)
      BY <2>2 DEF ReceiveLease
    <3> HIDE DEF c
    <3> QED BY <1>4, <2>0, <3>1
  <2>3. CASE ReceiveLeaseNoNetlink(p, r)
    <3> DEFINE c == WithLease(ctx[p], r)
               d == Exited(c, "crashed")
    <3>1. c \in Ctx
      BY <1>0, <1>6, <2>3, LeaseStep DEF ReceiveLeaseNoNetlink
    <3>2. ctx' = [ctx EXCEPT ![p] = d] /\ UNCHANGED rules
      BY <2>3 DEF ReceiveLeaseNoNetlink
    <3>3. d.state = "crashed"
      <4> HIDE DEF c
      <4> QED BY <3>1 DEF Exited, Ctx
    <3> HIDE DEF d
    <3> QED BY <1>0, <3>2, <3>3, OneFollower
  <2> QED BY <1>6, <2>1, <2>2, <2>3 DEF Receive
<1>7. CASE UNCHANGED <<ctx, rules>>
  BY <1>0, <1>7 DEF RulesInv, RulesFollowLease, Running
<1> QED
  BY <1>1, <1>2, <1>3, <1>5, <1>6, <1>7
     DEF Next, Callback, Serve, ServerGone, Tick, clientVars, vars

\* A client that believes its rules are installed has all three, for the table
\* of its lease, whatever netlink failures and retries came before and whatever
\* tables the server gives to whom: only another table for a client that has
\* its rules, or a deletion in its table or with table 0, can part the two.
THEOREM OnlyTwoStepsBreakRules ==
    Spec /\ [][Undisturbed]_vars => []RulesFollowLease
<1>1. Init => RulesInv
  <2> SUFFICES ASSUME Init PROVE RulesInv
    OBVIOUS
  <2>1. \A p \in Proc : ~ctx[p].rules_added
    BY DEF Init, Fresh
  <2> QED BY <2>1, CountInit DEF RulesInv, RulesFollowLease
<1>2. RulesInv => RulesFollowLease
  BY DEF RulesInv
<1> QED
  BY <1>1, <1>2, RulesStep, PTL DEF Spec

-----------------------------------------------------------------------------
(* How a client ends.  What the caller reads while a client runs is          *)
(* ScriptGetsAnswer's liveness, which TLC checks.                            *)

\* A step of one process that goes on, has answered or loses its address.
LEMMA OneEnds ==
    ASSUME CountInv, NEW q \in Proc, NEW d, ctx' = [ctx EXCEPT ![q] = d],
           \/ ~Running(q) \/ d.state = "running" \/ d.output # NoOutput
           \/ AddressRemoved(q)
    PROVE  EndsAnswered
<1>1. ctx'[q] = d /\ \A p \in Proc : p # q => ctx'[p] = ctx[p]
  BY DEF CountInv, TypeOK
<1> SUFFICES ASSUME NEW p \in Proc, Running(p), ~Running(p)'
             PROVE  ctx'[p].output # NoOutput \/ AddressRemoved(p)
  BY DEF EndsAnswered
<1>2. p = q
  BY <1>1 DEF Running
<1> QED BY <1>1, <1>2 DEF Running

\* The client that gives up prints its table, 0.
LEMMA GiveUpAnswers ==
    ASSUME CountInv, NEW q \in Proc, Running(q), GiveUp(q)
    PROVE  EndsAnswered
<1> DEFINE c == Exited(Counted(ctx[q]), "stopped")
           d == [c EXCEPT !.output = ctx[q].rt_table]
<1>1. ctx[q] \in Ctx /\ ctx[q].num_failed < FailLimit
  BY ThisProcess DEF Bounded, Running
<1>2. c \in Ctx
  BY <1>1, CountedType, ExitedType
<1>3. ctx' = [ctx EXCEPT ![q] = d]
  BY DEF GiveUp
<1> HIDE DEF c
<1>4. d.output = ctx[q].rt_table /\ ctx[q].rt_table \in Nat
  BY <1>1, <1>2 DEF Ctx
<1> HIDE DEF d
<1>5. d.output # NoOutput
  BY <1>4 DEF NoOutput
<1> QED BY <1>3, <1>5, OneEnds

\* A datagram is read: only a client without netlink ends with it, after it
\* has printed its table.
LEMMA ReceiveAnswers ==
    ASSUME CountInv, NEW q \in Proc, Receive(q)
    PROVE  EndsAnswered
<1> DEFINE r == Head(inbox[q])
           c == WithLease(ctx[q], r)
<1>1. ctx[q] \in Ctx /\ ctx[q].state = "running" /\ Counts(ctx[q], sent[q])
      /\ r \in Answer
  BY InboxType, ThisProcess, Types DEF Receive, CountInv, Running
<1>2. CASE ReceiveNoTable(q, r)
  <2> DEFINE d == Armed([ctx[q] EXCEPT !.lease_expires = r.expires], Retransmit)
  <2>1. ctx' = [ctx EXCEPT ![q] = d] /\ d.state = "running"
    BY <1>1, <1>2 DEF ReceiveNoTable, Armed, Ctx
  <2> HIDE DEF d
  <2> QED BY <2>1, OneEnds
<1>3. CASE ReceiveLease(q, r)
  <2>1. c \in Ctx /\ c.state = "running"
    BY <1>3, LeaseStep DEF ReceiveLease
  <2> PICK kinds \in KindsSent : NewRules(q, c, kinds)
    BY <1>3 DEF ReceiveLease
  <2> HIDE DEF c
  <2>2. PICK d : ctx' = [ctx EXCEPT ![q] = d] /\ d.state = c.state
    BY <2>1, NewRulesStep
  <2> QED BY <2>1, <2>2, OneEnds
<1>4. CASE ReceiveLeaseNoNetlink(q, r)
  <2> DEFINE d == Exited(c, "crashed")
  <2>1. c \in Ctx /\ c.output = Printed(ctx[q], r.table)
    BY <1>1, <1>4, LeaseStep DEF ReceiveLeaseNoNetlink, WithLease, Ctx
  <2>2. c.output # NoOutput
    BY <1>1, <2>1 DEF Printed, Counts, Answer, NoOutput
  <2>3. ctx' = [ctx EXCEPT ![q] = d]
    BY <1>4 DEF ReceiveLeaseNoNetlink
  <2> HIDE DEF c
  <2>4. d.output = c.output
    BY <2>1 DEF Exited, Ctx
  <2> HIDE DEF d
  <2> QED BY <2>2, <2>3, <2>4, OneEnds
<1> QED BY <1>2, <1>3, <1>4 DEF Receive

\* No step ends a client without an answer but the removal of its address.
LEMMA EndsStep == CountInv /\ [Next]_vars => [EndsAnswered]_vars
<1> SUFFICES ASSUME CountInv, Next PROVE EndsAnswered
  OBVIOUS
<1>1. ASSUME NEW q \in Proc, Launch(q) PROVE EndsAnswered
  BY <1>1, OneEnds DEF Launch
<1>2. ASSUME NEW q \in Proc, SocketTimeout(q) PROVE EndsAnswered
  <2> DEFINE d == Armed([ctx[q] EXCEPT !.sock = TRUE], Retransmit)
  <2>1. ctx' = [ctx EXCEPT ![q] = d] /\ d.state = "running"
    BY <1>2, ThisProcess DEF SocketTimeout, Armed, Ctx, Running
  <2> HIDE DEF d
  <2> QED BY <2>1, OneEnds
<1>3. ASSUME NEW q \in Proc, RequestTimeout(q) PROVE EndsAnswered
  <2> DEFINE d == Armed(IF ctx[q].rt_table # 0 THEN ctx[q] ELSE Counted(ctx[q]),
                        Retransmit)
  <2>1. CASE ctx' = [ctx EXCEPT ![q] = d]
    <3>1. d.state = "running"
      BY <1>3, ThisProcess DEF RequestTimeout, Armed, Counted, Ctx, Running
    <3> HIDE DEF d
    <3> QED BY <2>1, <3>1, OneEnds
  <2> QED BY <1>3, <2>1, GiveUpAnswers DEF RequestTimeout
<1>4. ASSUME NEW q \in Proc, SocketError(q) PROVE EndsAnswered
  <2> DEFINE d == [(IF ctx[q].rt_table # 0 THEN ctx[q] ELSE Counted(ctx[q]))
                     EXCEPT !.sock = FALSE, !.request_timer = NoTimer]
  <2>1. CASE ctx' = [ctx EXCEPT ![q] = d]
    <3>1. d.state = "running"
      BY <1>4, ThisProcess DEF SocketError, Counted, Ctx, Running
    <3> HIDE DEF d
    <3> QED BY <2>1, <3>1, OneEnds
  <2> QED BY <1>4, <2>1, GiveUpAnswers DEF SocketError
<1>5. ASSUME NEW q \in Proc, NetlinkTimeout(q) PROVE EndsAnswered
  <2> DEFINE c == [ctx[q] EXCEPT !.netlink_timer = FALSE]
  <2>1. c \in Ctx /\ c.state = "running"
    BY <1>5, ThisProcess DEF Ctx, NetlinkTimeout, Running
  <2> PICK kinds \in KindsSent : NewRules(q, c, kinds)
    BY <1>5 DEF NetlinkTimeout
  <2> HIDE DEF c
  <2>2. PICK d : ctx' = [ctx EXCEPT ![q] = d] /\ d.state = c.state
    BY <2>1, NewRulesStep
  <2> QED BY <2>1, <2>2, OneEnds
<1>6. ASSUME NEW q \in Proc, AddressRemoved(q) PROVE EndsAnswered
  <2>1. ctx' = [ctx EXCEPT ![q] = Exited(ctx[q], "stopped")]
    BY <1>6 DEF AddressRemoved
  <2> QED BY <1>6, <2>1, OneEnds
<1>7. CASE UNCHANGED ctx
  BY <1>7 DEF EndsAnswered, Running
<1> QED
  BY <1>1, <1>2, <1>3, <1>4, <1>5, <1>6, <1>7, ReceiveAnswers
     DEF Next, Callback, Serve, ServerGone, Tick, clientVars

\* The process that the caller waits for never ends without having printed a
\* table or 0, whatever is lost, fails or is refused, except when its address
\* is removed: then the caller reads nothing.
THEOREM ClientEndsWithAnswer == Spec => [][EndsAnswered]_vars
<1>1. Spec => []CountInv
  BY CountInit, CountStep, PTL DEF Spec
<1> QED
  BY <1>1, EndsStep, PTL DEF Spec
=============================================================================
