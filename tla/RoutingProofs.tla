--------------------------- MODULE RoutingProofs ---------------------------
(***************************************************************************)
(* What the host is configured for: an address has a table of its own, its *)
(* rules find routes, and the rules go when the address does.              *)
(***************************************************************************)
EXTENDS RenewalProofs

-----------------------------------------------------------------------------
(* Rules, routes and addresses.  Rules belong to the client that added them  *)
(* and routes to the script that read its table, so both are right as long   *)
(* as a client keeps its table.  It does while no lease runs out: its reply  *)
(* and its lease are then both rows of its identity, which has one.          *)

\* A client has printed the table it has, and has its rules.
Printed(p) == Running(p) =>
    /\ ctx[p].output = IF ctx[p].rt_table = 0 THEN NoOutput ELSE ctx[p].rt_table
    /\ ctx[p].rules_added =>
          /\ ctx[p].rt_table # 0
          /\ Client!RuleOf("addr", IdOf[p], ctx[p].rt_table) \in rules

\* The script waits for a client without a table.  When it can read a table,
\* the client still has it, if the address is still there.
ScriptWaits(p) ==
    /\ Running(p) /\ ctx[p].rt_table = 0 => hook[p] = "waiting"
    /\ hook[p] = "waiting" /\ IdOf[p] \in addr =>
          p \notin removed /\ (Running(p) \/ ctx[p].output = 0)

\* Once the script is done the routes are in the client's table.
RouteThere(p) ==
    HasLease(p) /\ hook[p] = "idle" /\ IdOf[p] \in addr /\ p \notin removed =>
        Hook!Route(IdOf[p], ctx[p].rt_table) \in routes

\* The clients whose address is gone have a message that says so.
AddressHeld(p) ==
    /\ p \in removed => Running(p)
    /\ "early_removal" \notin Unlucky =>
          /\ hook[p] = "address" => IdOf[p] \in addr
          /\ Running(p) => IdOf[p] \in addr \/ p \in removed

\* The rules with an address are those of clients that run.
RulesOwned ==
    \A r \in rules : r.addr # None =>
        \E p \in Proc : /\ Running(p) /\ ctx[p].rules_added
                        /\ r = Client!RuleOf(r.kind, IdOf[p], ctx[p].rt_table)

\* Routes have an address; those not in the main table are those of clients
\* that run and whose address is not gone.
RoutesOwned ==
    \A r \in routes :
        /\ r.addr \in addr
        /\ r.table # MainTable =>
              \E p \in Proc : /\ HasLease(p) /\ p \notin removed
                              /\ r = Hook!Route(IdOf[p], ctx[p].rt_table)

\* The inductive invariant of the routing properties, under LeaseKept.
HostInv ==
    /\ BeliefInv /\ HostTypeInv
    /\ \A p \in Proc : /\ Printed(p) /\ ScriptWaits(p)
                       /\ RouteThere(p) /\ AddressHeld(p)
    /\ RulesOwned /\ RoutesOwned

\* A renewal never gives a client another table.
LEMMA TableStays ==
    ASSUME BeliefInv, LeaseKept, NEW p \in Proc, HasLease(p),
           inbox[p] # <<>>, Head(inbox[p]).table # 0
    PROVE  Head(inbox[p]).table = ctx[p].rt_table
<1>1. Backed(db[Inet], IdOf[p], ctx[p].rt_table, ctx[p].lease_expires)
  BY DEF BeliefInv, BackedClient, LeaseKept, HasLease, Running
<1>2. Backed(db[Inet], IdOf[p], Head(inbox[p]).table, Head(inbox[p]).expires)
  BY ComponentsTyped, OneClient, MailQueue DEF BeliefInv, BackedReply
<1>3. SP!OneRowPerIdentity /\ IdOf[p] \in Id
  BY SystemAssumption DEF BeliefInv, ComponentsInv, SP!ServiceInv
<1>4. Tables = SP!Tables
  BY DEF Tables, SP!Tables
<1> QED BY <1>1, <1>2, <1>3, <1>4 DEF Backed, SP!OneRowPerIdentity

\* A client asks, gives up, or takes a reply: a table that it has stays, and
\* the rules of a table that it gets are added.
LEMMA CallbackShape ==
    ASSUME HostInv, LeaseKept, NEW p \in Proc,
           ClientTimeout(p) \/ ClientReceive(p)
    PROVE  /\ Running(p) /\ UNCHANGED hookVars
           /\ removed' = {q \in removed : ctx'[q].state = "running"}
           /\ \E d :
                 /\ ctx' = [ctx EXCEPT ![p] = d]
                 /\ \/ /\ d.state = "running" /\ d.rt_table = ctx[p].rt_table
                       /\ d.rules_added = ctx[p].rules_added
                       /\ d.output = ctx[p].output /\ UNCHANGED rules
                    \/ /\ d.state = "running" /\ d.rt_table # 0
                       /\ ctx[p].rt_table # 0 => d.rt_table = ctx[p].rt_table
                       /\ d.rules_added /\ d.output = d.rt_table
                       /\ rules' = IF ctx[p].rules_added THEN rules
                                   ELSE rules \cup
                                        {Client!RuleOf(k, IdOf[p], d.rt_table) :
                                            k \in {"addr", "nw", "def"}}
                    \/ /\ d.state = "stopped" /\ ctx[p].rt_table = 0
                       /\ d.output = 0 /\ UNCHANGED rules
<1>0. BeliefInv /\ PartsInv /\ Printed(p)
  BY ComponentsTyped DEF HostInv, BeliefInv
<1>1. CASE ClientTimeout(p)
  <2>1. /\ Running(p) /\ UNCHANGED hookVars /\ UNCHANGED rules
        /\ removed' = {q \in removed : ctx'[q].state = "running"}
    BY <1>0, <1>1, TimeoutShape
  <2>2. PICK d : /\ ctx' = [ctx EXCEPT ![p] = d] /\ SameLease(ctx[p], d)
                 /\ \/ d.state = "running" /\ d.output = ctx[p].output
                    \/ /\ d.state = "stopped" /\ d.output = 0
                       /\ ctx[p].rt_table = 0
    BY <1>0, <1>1, TimeoutShape
  <2> QED BY <2>1, <2>2 DEF SameLease
<1>2. CASE ClientReceive(p)
  <2> DEFINE r == Head(inbox[p])
  <2>1. /\ Running(p) /\ UNCHANGED hookVars /\ inbox[p] # <<>>
        /\ removed' = {q \in removed : ctx'[q].state = "running"}
    BY <1>0, <1>2, ReceiveShape
  <2>2. PICK d :
            /\ ctx' = [ctx EXCEPT ![p] = d] /\ d.state = "running"
            /\ \/ /\ r.table = 0
                  /\ d.rt_table = ctx[p].rt_table
                  /\ d.rules_added = ctx[p].rules_added
                  /\ d.output = ctx[p].output
                  /\ UNCHANGED rules
               \/ /\ r.table # 0 /\ d.rt_table = r.table /\ d.rules_added
                  /\ d.output = IF ctx[p].daemonized THEN ctx[p].output
                                ELSE r.table
                  /\ rules' = IF ctx[p].rules_added THEN rules
                              ELSE rules \cup
                                   {Client!RuleOf(k, IdOf[p], d.rt_table) :
                                       k \in {"addr", "nw", "def"}}
    BY <1>0, <1>2, ReceiveShape
  <2>3. ctx[p].rt_table # 0 /\ r.table # 0 => r.table = ctx[p].rt_table
    BY <1>0, <2>1, TableStays DEF HasLease
  <2>4. ctx[p].rt_table = 0 => ~ctx[p].daemonized
    BY <1>0, <2>1 DEF PartsInv, CP!CountInv, CP!Counts, Running
  <2>5. r.table # 0 /\ d.rt_table = r.table
        /\ (d.output = IF ctx[p].daemonized THEN ctx[p].output ELSE r.table)
        => d.output = d.rt_table
    BY <1>0, <2>1, <2>3, <2>4 DEF Printed
  <2> HIDE DEF r
  <2>6. CASE r.table = 0
    BY <2>1, <2>2, <2>6
  <2>7. CASE r.table # 0
    BY <2>1, <2>2, <2>3, <2>5, <2>7
  <2> QED BY <2>6, <2>7
<1> QED BY <1>1, <1>2

\* The types that the steps below need.
LEMMA HostTyped ==
    ASSUME HostInv
    PROVE  /\ ctx \in [Proc -> CP!Ctx] /\ removed \subseteq Proc
           /\ hook \in [Proc -> {"idle", "address", "waiting"}]
           /\ rules \subseteq CP!Rule /\ IdOf \in [Proc -> Id] /\ None \notin Id
BY SystemAssumption
   DEF HostInv, HostTypeInv, PartsInv, CP!CountInv, CP!TypeOK, Hook!TypeOK

\* Timeouts and replies.
LEMMA HostCallback ==
    ASSUME OneProcessEach, HostInv, LeaseKept, BeliefInv', HostTypeInv',
           NEW p \in Proc, ClientTimeout(p) \/ ClientReceive(p)
    PROVE  HostInv'
<1>0. /\ Running(p) /\ UNCHANGED <<hook, addr, routes>>
      /\ removed' = {q \in removed : ctx'[q].state = "running"}
  BY CallbackShape DEF hookVars
<1> DEFINE All == {"addr", "nw", "def"}
<1>1. PICK d :
        /\ ctx' = [ctx EXCEPT ![p] = d]
        /\ \/ /\ d.state = "running" /\ d.rt_table = ctx[p].rt_table
              /\ d.rules_added = ctx[p].rules_added
              /\ d.output = ctx[p].output /\ UNCHANGED rules
           \/ /\ d.state = "running" /\ d.rt_table # 0
              /\ ctx[p].rt_table # 0 => d.rt_table = ctx[p].rt_table
              /\ d.rules_added /\ d.output = d.rt_table
              /\ rules' = IF ctx[p].rules_added THEN rules
                          ELSE rules \cup
                               {Client!RuleOf(k, IdOf[p], d.rt_table) : k \in All}
           \/ /\ d.state = "stopped" /\ ctx[p].rt_table = 0
              /\ d.output = 0 /\ UNCHANGED rules
  BY CallbackShape
<1>2. /\ ctx'[p] = d /\ \A q \in Proc : q # p => ctx'[q] = ctx[q]
      /\ rules \subseteq rules' /\ removed' \subseteq removed
      /\ removed \subseteq Proc
  BY <1>0, <1>1, HostTyped
<1>3. ctx[p].rules_added => ctx[p].rt_table # 0
  BY <1>0 DEF HostInv, Printed
<1>4. \A q \in Proc : Running(q)' => Running(q)
  BY <1>0, <1>2 DEF Running
<1>5. \A q \in Proc : q \in removed /\ Running(q)' => q \in removed'
  BY <1>0 DEF Running
<1>6. ASSUME NEW q \in Proc PROVE Printed(q)'
  <2>1. CASE q = p
    <3>1. CASE d.state = "running" /\ d.rt_table # 0 /\ ~ctx[p].rules_added
               /\ d.output = d.rt_table
               /\ rules' = rules \cup
                     {Client!RuleOf(k, IdOf[p], d.rt_table) : k \in All}
      BY <1>2, <2>1, <3>1, SystemAssumption DEF Printed, Running, NoOutput
    <3>2. CASE /\ d.state = "running" /\ UNCHANGED rules
               /\ d.rt_table = ctx[p].rt_table
               /\ d.rules_added = ctx[p].rules_added
               /\ d.output = ctx[p].output
      BY <1>0, <1>2, <2>1, <3>2 DEF HostInv, Printed, Running
    <3>3. CASE /\ d.state = "running" /\ UNCHANGED rules /\ ctx[p].rules_added
               /\ d.rt_table # 0 /\ d.rt_table = ctx[p].rt_table
               /\ d.output = d.rt_table
      <4>1. Client!RuleOf("addr", IdOf[p], ctx[p].rt_table) \in rules
        BY <1>0, <3>3 DEF HostInv, Printed
      <4> QED BY <1>2, <2>1, <3>3, <4>1 DEF Printed, Running
    <3>4. CASE d.state = "stopped"
      BY <1>2, <2>1, <3>4 DEF Printed, Running
    <3> QED BY <1>1, <1>3, <3>1, <3>2, <3>3, <3>4
  <2>2. CASE q # p
    BY <1>2, <2>2 DEF HostInv, Printed, Running
  <2> QED BY <2>1, <2>2
<1>7. ASSUME NEW q \in Proc PROVE ScriptWaits(q)'
  BY <1>0, <1>1, <1>2 DEF HostInv, ScriptWaits, Running
<1>8. ASSUME NEW q \in Proc PROVE RouteThere(q)'
  <2>1. CASE q = p
    <3> SUFFICES ASSUME HasLease(p)', hook[p] = "idle", IdOf[p] \in addr,
                        p \notin removed'
                 PROVE  Hook!Route(IdOf[p], d.rt_table) \in routes
      BY <1>0, <1>2, <2>1 DEF RouteThere
    <3>1. ctx[p].rt_table # 0 /\ p \notin removed
      BY <1>0, <1>5 DEF HostInv, ScriptWaits, HasLease
    <3>2. d.rt_table = ctx[p].rt_table
      BY <1>1, <3>1
    <3> QED BY <1>0, <3>1, <3>2 DEF HostInv, RouteThere, HasLease
  <2>2. CASE q # p
    BY <1>0, <1>2, <1>5, <2>2 DEF HostInv, RouteThere, HasLease, Running
  <2> QED BY <2>1, <2>2
<1>9. ASSUME NEW q \in Proc PROVE AddressHeld(q)'
  BY <1>0, <1>4, <1>5 DEF HostInv, AddressHeld, Running
<1>10. RulesOwned'
  <2> SUFFICES ASSUME NEW r \in rules', r.addr # None
               PROVE  \E q \in Proc :
                         /\ Running(q)' /\ ctx'[q].rules_added
                         /\ r = Client!RuleOf(r.kind, IdOf[q], ctx'[q].rt_table)
    BY DEF RulesOwned
  <2>1. CASE r \in rules
    <3>1. PICK q \in Proc :
              /\ Running(q) /\ ctx[q].rules_added
              /\ r = Client!RuleOf(r.kind, IdOf[q], ctx[q].rt_table)
      BY <2>1 DEF HostInv, RulesOwned
    <3>2. Running(q)' /\ ctx'[q].rules_added /\ ctx'[q].rt_table = ctx[q].rt_table
      BY <1>1, <1>2, <1>3, <3>1 DEF Running
    <3> QED BY <3>1, <3>2
  <2>2. CASE r \notin rules
    <3>1. /\ d.state = "running" /\ d.rules_added
          /\ \E k \in All : r = Client!RuleOf(k, IdOf[p], d.rt_table)
      BY <1>1, <2>2
    <3>2. r = Client!RuleOf(r.kind, IdOf[p], d.rt_table)
      BY <3>1 DEF Client!RuleOf
    <3> QED BY <1>2, <3>1, <3>2 DEF Running
  <2> QED BY <2>1, <2>2
<1>11. RoutesOwned'
  <2> SUFFICES ASSUME NEW r \in routes
               PROVE  /\ r.addr \in addr
                      /\ r.table # MainTable =>
                            \E q \in Proc :
                               /\ HasLease(q)' /\ q \notin removed'
                               /\ r = Hook!Route(IdOf[q], ctx'[q].rt_table)
    BY <1>0 DEF RoutesOwned
  <2>1. r.addr \in addr
    BY DEF HostInv, RoutesOwned
  <2>2. ASSUME r.table # MainTable
        PROVE  \E q \in Proc : /\ HasLease(q)' /\ q \notin removed'
                               /\ r = Hook!Route(IdOf[q], ctx'[q].rt_table)
    <3>1. PICK q \in Proc : /\ HasLease(q) /\ q \notin removed
                            /\ r = Hook!Route(IdOf[q], ctx[q].rt_table)
      BY <2>2 DEF HostInv, RoutesOwned
    <3>2. Running(q)' /\ ctx'[q].rt_table = ctx[q].rt_table
      BY <1>1, <1>2, <3>1 DEF Running, HasLease
    <3> QED BY <1>2, <3>1, <3>2 DEF HasLease
  <2> QED BY <2>1, <2>2
<1> QED BY <1>6, <1>7, <1>8, <1>9, <1>10, <1>11 DEF HostInv

\* The client of a removed address ends, and its rules are gone with it.
LEMMA HostRemoved ==
    ASSUME OneProcessEach, HostInv, BeliefInv', HostTypeInv',
           NEW p \in Proc, ClientAddressRemoved(p)
    PROVE  HostInv'
<1> DEFINE All == {"addr", "nw", "def"}
<1>0. /\ Running(p) /\ p \in removed /\ UNCHANGED <<hook, addr, routes>>
      /\ removed' = {q \in removed : ctx'[q].state = "running"}
  BY ComponentsTyped, RemovedShape DEF hookVars, HostInv, BeliefInv
<1>1. PICK D \in CP!Deletions(All, IdOf[p], ctx[p].rt_table) : rules' = rules \ D
  BY ComponentsTyped, RemovedShape DEF HostInv, BeliefInv
<1>2. /\ ctx'[p].state = "stopped" /\ \A q \in Proc : q # p => ctx'[q] = ctx[q]
      /\ removed \subseteq Proc
  <2>1. PICK d : ctx' = [ctx EXCEPT ![p] = d] /\ d.state = "stopped"
    BY ComponentsTyped, RemovedShape DEF HostInv, BeliefInv
  <2> QED BY <2>1, HostTyped
<1>3. \A q \in Proc : Running(q)' => q # p /\ ctx'[q] = ctx[q] /\ Running(q)
  BY <1>2 DEF Running
<1>4. ASSUME NEW q \in Proc, q # p
      PROVE  Client!RuleOf("addr", IdOf[q], ctx[q].rt_table) \notin D
  <2> DEFINE x == Client!RuleOf("addr", IdOf[q], ctx[q].rt_table)
  <2>1. x.kind = "addr" /\ x.addr = IdOf[q] /\ IdOf[q] # IdOf[p]
    BY <1>4 DEF Client!RuleOf, OneProcessEach
  <2>2. ASSUME x \in D PROVE FALSE
    <3>1. PICK k \in All : x \in CP!Matches(k, IdOf[p], ctx[p].rt_table)
      BY <1>1, <2>2 DEF CP!Deletions
    <3> QED BY <2>1, <3>1 DEF CP!Matches, CP!RuleOf
  <2> QED BY <2>2
<1>5. ASSUME NEW q \in Proc PROVE Printed(q)'
  BY <1>1, <1>3, <1>4 DEF HostInv, Printed
<1>6. ASSUME NEW q \in Proc PROVE ScriptWaits(q)'
  BY <1>0, <1>2, <1>3 DEF HostInv, ScriptWaits, Running
<1>7. ASSUME NEW q \in Proc PROVE RouteThere(q)'
  BY <1>0, <1>3 DEF HostInv, RouteThere, HasLease, Running
<1>8. ASSUME NEW q \in Proc PROVE AddressHeld(q)'
  BY <1>0, <1>3 DEF HostInv, AddressHeld, Running
<1>9. RulesOwned'
  <2> SUFFICES ASSUME NEW r \in rules', r.addr # None
               PROVE  \E q \in Proc :
                         /\ Running(q)' /\ ctx'[q].rules_added
                         /\ r = Client!RuleOf(r.kind, IdOf[q], ctx'[q].rt_table)
    BY DEF RulesOwned
  <2>1. r \in rules /\ r \notin D /\ r.kind \in All
    BY <1>1, HostTyped DEF CP!Rule
  <2>2. PICK q \in Proc :
            /\ Running(q) /\ ctx[q].rules_added
            /\ r = Client!RuleOf(r.kind, IdOf[q], ctx[q].rt_table)
    BY <2>1 DEF HostInv, RulesOwned
  <2>3. q # p
    <3>1. CASE q = p
      <4>1. ctx[p].rt_table # 0 /\ r = CP!RuleOf(r.kind, IdOf[p], ctx[p].rt_table)
        BY <1>0, <2>2, <3>1 DEF HostInv, Printed, Client!RuleOf, CP!RuleOf
      <4>2. ASSUME NEW k \in All, r.kind = k PROVE FALSE
        <5>1. CP!RuleOf(k, IdOf[p], ctx[p].rt_table) \in D
          BY <1>1, <2>1, <4>1, <4>2, HostTyped, CP!DeletesOwn,
             ComponentAssumptions
        <5> QED BY <2>1, <4>1, <4>2, <5>1
      <4> QED BY <2>1, <4>2
    <3> QED BY <3>1
  <2>4. ctx'[q] = ctx[q]
    BY <1>2, <2>3
  <2> QED BY <2>2, <2>4 DEF Running
<1>10. RoutesOwned'
  BY <1>0, <1>2 DEF HostInv, RoutesOwned, HasLease, Running
<1> QED BY <1>5, <1>6, <1>7, <1>8, <1>9, <1>10 DEF HostInv

\* A client is started.
LEMMA HostLaunch ==
    ASSUME HostInv, BeliefInv', HostTypeInv', NEW p \in Proc, HookStartClient(p)
    PROVE  HostInv'
<1>0. /\ ~Running(p) /\ hook[p] = "address"
      /\ hook' = [hook EXCEPT ![p] = "waiting"]
      /\ UNCHANGED <<addr, routes, rules, removed>>
  BY LaunchShape
<1>1. PICK d : /\ ctx' = [ctx EXCEPT ![p] = d]
               /\ d.state = "running" /\ d.rt_table = 0
               /\ ~d.rules_added /\ d.output = NoOutput
  BY LaunchShape
<1>2. /\ ctx'[p] = d /\ \A q \in Proc : q # p => ctx'[q] = ctx[q]
      /\ hook'[p] = "waiting" /\ \A q \in Proc : q # p => hook'[q] = hook[q]
      /\ p \notin removed
  BY <1>0, <1>1, HostTyped DEF HostInv, AddressHeld
<1>3. ASSUME NEW q \in Proc PROVE Printed(q)'
  BY <1>0, <1>1, <1>2 DEF HostInv, Printed, Running
<1>4. ASSUME NEW q \in Proc PROVE ScriptWaits(q)'
  BY <1>0, <1>1, <1>2 DEF HostInv, ScriptWaits, Running
<1>5. ASSUME NEW q \in Proc PROVE RouteThere(q)'
  BY <1>0, <1>1, <1>2 DEF HostInv, RouteThere, HasLease, Running
<1>6. ASSUME NEW q \in Proc PROVE AddressHeld(q)'
  BY <1>0, <1>1, <1>2 DEF HostInv, AddressHeld, Running
<1>7. \A q \in Proc : Running(q) => ctx'[q] = ctx[q]
  BY <1>0, <1>2
<1>8. RulesOwned'
  BY <1>0, <1>7 DEF HostInv, RulesOwned, Running
<1>9. RoutesOwned'
  BY <1>0, <1>7 DEF HostInv, RoutesOwned, HasLease, Running
<1> QED BY <1>3, <1>4, <1>5, <1>6, <1>8, <1>9 DEF HostInv

\* The script adds the address.
LEMMA HostAddAddress ==
    ASSUME OneProcessEach, HostInv, BeliefInv', HostTypeInv',
           NEW p \in Proc, HookAddAddress(p)
    PROVE  HostInv'
<1>0. /\ UNCHANGED <<ctx, rules, removed>>
      /\ hook[p] = "idle" /\ hook' = [hook EXCEPT ![p] = "address"]
      /\ addr' = addr \cup {IdOf[p]}
      /\ routes \subseteq routes'
      /\ routes' \subseteq routes \cup {Hook!Route(IdOf[p], MainTable)}
  BY DEF HookAddAddress, Hook!AddAddress, clientVars
<1>1. /\ hook'[p] = "address" /\ \A q \in Proc : q # p => hook'[q] = hook[q]
      /\ \A q \in Proc : q # p => IdOf[q] # IdOf[p]
  BY <1>0, HostTyped DEF OneProcessEach
<1>2. ASSUME NEW q \in Proc
      PROVE  Printed(q)' /\ ScriptWaits(q)' /\ RouteThere(q)' /\ AddressHeld(q)'
  BY <1>0, <1>1 DEF HostInv, Printed, ScriptWaits, RouteThere, AddressHeld,
                    HasLease, Running
<1>3. RulesOwned'
  BY <1>0 DEF HostInv, RulesOwned, Running
<1>4. RoutesOwned'
  <2> SUFFICES ASSUME NEW r \in routes'
               PROVE  /\ r.addr \in addr'
                      /\ r.table # MainTable =>
                            \E q \in Proc :
                               /\ HasLease(q)' /\ q \notin removed'
                               /\ r = Hook!Route(IdOf[q], ctx'[q].rt_table)
    BY DEF RoutesOwned
  <2>1. CASE r \in routes
    BY <1>0, <2>1 DEF HostInv, RoutesOwned, HasLease, Running
  <2>2. CASE r = Hook!Route(IdOf[p], MainTable)
    BY <1>0, <2>2 DEF Hook!Route
  <2> QED BY <1>0, <2>1, <2>2
<1> QED BY <1>2, <1>3, <1>4 DEF HostInv

\* The script reads the table and moves the routes.
LEMMA HostConfigure ==
    ASSUME OneProcessEach, HostInv, BeliefInv', HostTypeInv',
           NEW p \in Proc, HookConfigure(p)
    PROVE  HostInv'
<1> DEFINE t == IF ctx[p].output = 0 THEN MainTable ELSE ctx[p].output
<1>0. /\ UNCHANGED <<ctx, rules, removed, addr>>
      /\ hook[p] = "waiting" /\ hook' = [hook EXCEPT ![p] = "idle"]
      /\ \/ /\ ctx[p].output # NoOutput
            /\ routes' = IF IdOf[p] \in addr
                         THEN (routes \ {Hook!Route(IdOf[p], MainTable)})
                                 \cup {Hook!Route(IdOf[p], t)}
                         ELSE routes
         \/ /\ ~Running(p)
            /\ routes' = routes \ {Hook!Route(IdOf[p], MainTable)}
  BY DEF HookConfigure, Hook!Configure, Hook!ConfigureNothing, Hook!MoveRoutes,
         clientVars
<1>1. /\ hook'[p] = "idle" /\ \A q \in Proc : q # p => hook'[q] = hook[q]
      /\ \A q \in Proc : q # p => IdOf[q] # IdOf[p]
  BY <1>0, HostTyped DEF OneProcessEach
<1>2. /\ Running(p) => ctx[p].rt_table # 0 /\ t = ctx[p].rt_table
      /\ IdOf[p] \in addr => p \notin removed /\ (Running(p) \/ t = MainTable)
  <2>1. Printed(p) /\ ScriptWaits(p)
    BY DEF HostInv
  <2>2. Running(p) => ctx[p].rt_table # 0 /\ ctx[p].output = ctx[p].rt_table
    BY <1>0, <2>1 DEF Printed
  <2> QED BY <1>0, <2>1, <2>2 DEF ScriptWaits
<1> HIDE DEF t
<1>3. ASSUME NEW q \in Proc
      PROVE  Printed(q)' /\ ScriptWaits(q)' /\ AddressHeld(q)'
  BY <1>0, <1>1, <1>2 DEF HostInv, Printed, ScriptWaits, AddressHeld, Running
<1>4. ASSUME NEW q \in Proc PROVE RouteThere(q)'
  <2>1. CASE q = p
    BY <1>0, <1>2, <2>1 DEF RouteThere, HasLease, Running
  <2>2. CASE q # p
    <3>1. Hook!Route(IdOf[q], ctx[q].rt_table) # Hook!Route(IdOf[p], MainTable)
      BY <1>1, <2>2 DEF Hook!Route
    <3> QED BY <1>0, <1>1, <2>2, <3>1 DEF HostInv, RouteThere, HasLease, Running
  <2> QED BY <2>1, <2>2
<1>5. RulesOwned'
  BY <1>0 DEF HostInv, RulesOwned, Running
<1>6. RoutesOwned'
  <2> SUFFICES ASSUME NEW r \in routes'
               PROVE  /\ r.addr \in addr
                      /\ r.table # MainTable =>
                            \E q \in Proc :
                               /\ HasLease(q) /\ q \notin removed
                               /\ r = Hook!Route(IdOf[q], ctx[q].rt_table)
    BY <1>0 DEF RoutesOwned, HasLease, Running
  <2>1. CASE r \in routes
    BY <2>1 DEF HostInv, RoutesOwned
  <2>2. CASE r \notin routes
    <3>1. r = Hook!Route(IdOf[p], t) /\ IdOf[p] \in addr
      BY <1>0, <2>2
    <3>2. r.addr = IdOf[p] /\ r.table = t
      BY <3>1 DEF Hook!Route
    <3> QED BY <1>2, <3>1, <3>2 DEF HasLease
  <2> QED BY <2>1, <2>2
<1> QED BY <1>3, <1>4, <1>5, <1>6 DEF HostInv

\* An address goes: its routes with it, and its clients are told.
LEMMA HostAddressGone ==
    ASSUME HostInv, BeliefInv', HostTypeInv', NEW i \in Id, AddressGone(i)
    PROVE  HostInv'
<1>0. /\ UNCHANGED <<ctx, rules, hook>> /\ addr' = addr \ {i}
      /\ routes' = {r \in routes : r.addr # i}
      /\ removed' = removed \cup {p \in Proc : IdOf[p] = i /\ Running(p)}
      /\ "early_removal" \notin Unlucky =>
            \A p \in Proc : IdOf[p] = i => hook[p] # "address"
  BY DEF AddressGone, Hook!RemoveAddress
<1>1. ASSUME NEW q \in Proc
      PROVE  Printed(q)' /\ ScriptWaits(q)' /\ AddressHeld(q)'
  BY <1>0 DEF HostInv, Printed, ScriptWaits, AddressHeld, Running
<1>2. ASSUME NEW q \in Proc PROVE RouteThere(q)'
  BY <1>0 DEF HostInv, RouteThere, HasLease, Running, Hook!Route
<1>3. RulesOwned'
  BY <1>0 DEF HostInv, RulesOwned, Running
<1>4. RoutesOwned'
  <2> SUFFICES ASSUME NEW r \in routes, r.addr # i
               PROVE  /\ r.addr \in addr'
                      /\ r.table # MainTable =>
                            \E q \in Proc :
                               /\ HasLease(q) /\ q \notin removed'
                               /\ r = Hook!Route(IdOf[q], ctx[q].rt_table)
    BY <1>0 DEF RoutesOwned, HasLease, Running
  <2>1. r.addr \in addr'
    BY <1>0 DEF HostInv, RoutesOwned
  <2>2. ASSUME NEW q \in Proc, r = Hook!Route(IdOf[q], ctx[q].rt_table),
               q \notin removed
        PROVE  q \notin removed'
    BY <1>0, <2>2 DEF Hook!Route
  <2> QED BY <2>1, <2>2 DEF HostInv, RoutesOwned
<1> QED BY <1>1, <1>2, <1>3, <1>4 DEF HostInv

\* A step of the server, and of the clock, changes none of this.
LEMMA HostQuiet ==
    ASSUME HostInv, BeliefInv', HostTypeInv',
           UNCHANGED <<ctx, rules, removed, hook, addr, routes>>
    PROVE  HostInv'
BY DEF HostInv, Printed, ScriptWaits, RouteThere, AddressHeld, RulesOwned,
       RoutesOwned, HasLease, Running

\* While no lease runs out, every step of the host keeps the invariant.
LEMMA HostStep ==
    ASSUME OneProcessEach, "flap" \notin Unlucky, HostInv, LeaseKept, [Next]_vars
    PROVE  HostInv'
<1>1. BeliefInv' /\ HostTypeInv'
  BY BeliefStep, PartsStep, OutputStep, HookTypeStep, RemovedTypeStep
     DEF HostInv, HostTypeInv
<1>2. ASSUME NEW p \in Proc, ClientStep(p) PROVE HostInv'
  BY <1>1, <1>2, HostCallback, HostRemoved DEF ClientStep
<1>3. ASSUME NEW p \in Proc, HookStep(p) PROVE HostInv'
  BY <1>1, <1>3, HostAddAddress, HostLaunch, HostConfigure DEF HookStep
<1>4. ASSUME NEW i \in Id, AddressGone(i) PROVE HostInv'
  BY <1>1, <1>4, HostAddressGone
<1>5. CASE HandleDatagram \/ Sweep \/ StartServer \/ CrashServer
  BY <1>1, <1>5, ServerShape, HostQuiet DEF hookVars
<1>6. CASE Tick
  BY <1>1, <1>6, QuietShape, HostQuiet DEF hookVars
<1>7. CASE UNCHANGED vars
  BY <1>1, <1>7, HostQuiet DEF vars, clientVars, hookVars
<1> QED BY <1>2, <1>3, <1>4, <1>5, <1>6, <1>7 DEF Next

\* Initially there are no addresses, rules or routes.
LEMMA HostInit == Init => HostInv
<1> SUFFICES ASSUME Init PROVE HostInv
  OBVIOUS
<1>1. HostTypeInv
  <2>1. OutputType
    BY DEF Init, Client!Init, Client!Fresh, Client!NoOutput, OutputType, NoOutput
  <2>2. Hook!TypeOK /\ outage \in Nat /\ removed \subseteq Proc
    BY DEF Init, Hook!Init, Hook!TypeOK
  <2> QED BY <2>1, <2>2, PartsInit DEF HostTypeInv
<1>2. /\ rules = {} /\ routes = {} /\ removed = {}
      /\ \A p \in Proc : hook[p] = "idle" /\ ctx[p].state = "off"
  BY DEF Init, Client!Init, Client!Fresh, Hook!Init
<1> QED
  BY <1>1, <1>2, BeliefInit
     DEF HostInv, Printed, ScriptWaits, RouteThere, AddressHeld, RulesOwned,
         RoutesOwned, HasLease, Running

\* As long as no lease runs out under a running client (LeaseKept), HostInv
\* holds.
LEMMA HostKept ==
    ASSUME OneProcessEach, "flap" \notin Unlucky
    PROVE  Spec /\ []LeaseKept => []HostInv
<1>1. HostInv /\ LeaseKept /\ [Next]_vars => HostInv'
  BY HostStep
<1> QED
  BY <1>1, HostInit, PTL DEF Spec

\* Routing tables are unique to each address: as long as no lease runs out
\* under a running client, two addresses never have rules or routes in one
\* leased table, whatever crashes of the server, renewals, releases and new
\* starts of clients happen.
\* (TablesUnique; run System.  The run SharedTable shows what happens when an
\* outage is longer than a lease.)
THEOREM AddressesShareNoTable ==
    ASSUME OneProcessEach, "flap" \notin Unlucky
    PROVE  Spec /\ []LeaseKept => []TablesUnique
<1>1. HostInv /\ LeaseKept => TablesUnique
  <2> SUFFICES ASSUME HostInv, LeaseKept PROVE TablesUnique
    OBVIOUS
  <2> DEFINE Uses(a, t) ==
                 \E p \in Proc : HasLease(p) /\ a = IdOf[p] /\ t = ctx[p].rt_table
  <2>1. ASSUME NEW r \in rules, r.addr # None PROVE Uses(r.addr, r.table)
    <3>1. PICK p \in Proc :
              /\ Running(p) /\ ctx[p].rules_added
              /\ r = Client!RuleOf(r.kind, IdOf[p], ctx[p].rt_table)
      BY <2>1 DEF HostInv, RulesOwned
    <3>2. r.addr = IdOf[p] /\ r.table = ctx[p].rt_table
      BY <2>1, <3>1 DEF Client!RuleOf
    <3>3. HasLease(p)
      BY <3>1 DEF HostInv, Printed, HasLease
    <3> QED BY <3>2, <3>3
  <2>2. ASSUME NEW r \in routes, r.table # MainTable PROVE Uses(r.addr, r.table)
    <3>1. PICK p \in Proc : /\ HasLease(p)
                            /\ r = Hook!Route(IdOf[p], ctx[p].rt_table)
      BY <2>2 DEF HostInv, RoutesOwned
    <3> QED BY <3>1 DEF Hook!Route
  <2>3. ASSUME NEW a, NEW b, NEW t, Uses(a, t), Uses(b, t) PROVE a = b
    <3>1. \A p \in Proc : HasLease(p) =>
              Backed(db[Inet], IdOf[p], ctx[p].rt_table, ctx[p].lease_expires)
      BY DEF HostInv, BeliefInv, BackedClient, LeaseKept, HasLease, Running
    <3> QED BY <2>3, <3>1 DEF Backed
  <2> HIDE DEF Uses
  <2> QED BY <2>1, <2>2, <2>3 DEF TablesUnique
<1> QED
  BY <1>1, HostKept, PTL

\* Traffic from a configured address meets a rule, and the rule a route: the
\* script and the client agree on the table, as long as no lease runs out under
\* a running client.  (RulesFindRoutes; run System.)
THEOREM ScriptAndClientAgree ==
    ASSUME OneProcessEach, "flap" \notin Unlucky
    PROVE  Spec /\ []LeaseKept => []RulesFindRoutes
<1>1. HostInv => RulesFindRoutes
  BY DEF HostInv, Printed, RouteThere, HasLease, RulesFindRoutes
<1> QED
  BY <1>1, HostKept, PTL

\* Rules do not outlive their address, except until its client has read of the
\* removal, when no address goes before its client has started.
\* (RulesHaveAddress; run System.)
THEOREM RulesEndWithAddress ==
    ASSUME OneProcessEach, Unlucky = {}
    PROVE  Spec /\ []LeaseKept => []RulesHaveAddress
<1>1. HostInv => RulesHaveAddress
  <2> SUFFICES ASSUME HostInv, NEW r \in rules, r.addr # None
               PROVE  \/ r.addr \in addr
                      \/ \E p \in removed : IdOf[p] = r.addr
    BY DEF RulesHaveAddress
  <2>1. PICK p \in Proc :
            /\ Running(p) /\ r = Client!RuleOf(r.kind, IdOf[p], ctx[p].rt_table)
    BY DEF HostInv, RulesOwned
  <2>2. r.addr = IdOf[p]
    BY <2>1 DEF Client!RuleOf
  <2> QED BY <2>1, <2>2 DEF HostInv, AddressHeld
<1>2. Spec /\ []LeaseKept => []HostInv
  BY HostKept
<1> QED
  BY <1>1, <1>2, PTL

\* The guarantees of a host, without a condition on its behaviours: with one
\* client for each address, a lease that outlasts the server's outages, room
\* for every address in the server's socket, and no address that goes before
\* its client has started, tables stay unique, rules find routes and rules end
\* with their address.  (TablesUnique, RulesFindRoutes, RulesHaveAddress; run
\* System, whose constants meet these assumptions.)
THEOREM HostStaysConfigured ==
    ASSUME OneProcessEach, OutlastsOutage, RoomForAll, Unlucky = {}
    PROVE  Spec => [](TablesUnique /\ RulesFindRoutes /\ RulesHaveAddress)
<1>1. "flap" \notin Unlucky
  OBVIOUS
<1>2. Spec => []LeaseKept
  BY <1>1, LeasesNeverRunOut
<1>3. Spec /\ []LeaseKept => []TablesUnique
  BY <1>1, AddressesShareNoTable
<1>4. Spec /\ []LeaseKept => []RulesFindRoutes
  BY <1>1, ScriptAndClientAgree
<1>5. Spec /\ []LeaseKept => []RulesHaveAddress
  BY RulesEndWithAddress
<1> QED
  BY <1>2, <1>3, <1>4, <1>5, PTL

=============================================================================
