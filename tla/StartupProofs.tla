--------------------------- MODULE StartupProofs ---------------------------
(***************************************************************************)
(* The properties of Startup, for every set of configuration files and of  *)
(* command lines, every width of the integers, of an address and of the    *)
(* map's words.                                                            *)
(***************************************************************************)
EXTENDS Startup, WordsProofs

\* A row that the server may have written under configuration f.
Leased(f, k) ==
    /\ Runs(f) /\ k[1] \in f.families /\ k[2] \in NewTables(Conf(f))

\* Every row was written under a configuration that has run.
RowsKnown == \A k \in rows : \E f \in served \cup {file} : Leased(f, k)

\* The inductive invariant of AccessInBounds.
BoundsInv ==
    /\ file \in File /\ served \subseteq File
    /\ phase = "running" => Runs(file)
    /\ RowsKnown
    /\ AccessInBounds

-----------------------------------------------------------------------------
(* Arithmetic of the map.                                                   *)

\* A number below the modulus is its own remainder.
LEMMA SmallRemainder ==
    ASSUME NEW m \in Nat \ {0}, NEW b \in Nat, b < m
    PROVE  b % m = b
  OBVIOUS

\* The word of a bit below w * e is one of the first e.
LEMMA WordOfBit ==
    ASSUME NEW w \in Nat \ {0}, NEW e \in Nat, NEW b \in Nat, b < w * e
    PROVE  b \div w < e
<1>1. b = w * (b \div w) + (b % w) /\ b % w \in 0 .. w - 1 /\ b \div w \in Nat
  OBVIOUS
<1>2. SUFFICES ASSUME b \div w >= e PROVE FALSE
  BY <1>1
<1>3. w * (b \div w) >= w * e
  BY <1>1, <1>2
<1> QED
  BY <1>1, <1>3

\* From one full word on, the words have room for all num bits.
LEMMA RoomForAll ==
    ASSUME NEW w \in Nat \ {0}, NEW n \in Nat
    PROVE  n <= w * ((n \div w) + IF n % w # 0 THEN 1 ELSE 0)
<1>1. n = w * (n \div w) + (n % w) /\ n % w \in 0 .. w - 1 /\ n \div w \in Nat
  OBVIOUS
<1>2. w * ((n \div w) + 1) = w * (n \div w) + w
  BY <1>1
<1> QED
  BY <1>1, <1>2

\* The numbers of a configuration are those of their C types.
LEMMA ConfType ==
    ASSUME NEW f \in File
    PROVE  /\ Conf(f).offset \in 0 .. UintMod - 1
           /\ Conf(f).num \in 0 .. UintMod - 1
           /\ Elements(Conf(f)) \in Nat
           /\ Conf(f).families = f.families
<1>1. json_object_get_int(f.offset) \in Int /\ json_object_get_int(f.num) \in Int
  BY MessageAssumption DEF json_object_get_int, IntMax, File
<1>2. /\ Conf(f).offset = json_object_get_int(f.offset) % UintMod
      /\ Conf(f).num = json_object_get_int(f.num) % UintMod
      /\ Conf(f).families = f.families
  BY DEF Conf
<1>3. Conf(f).offset \in 0 .. UintMod - 1 /\ Conf(f).num \in 0 .. UintMod - 1
  BY <1>1, <1>2, MessageAssumption DEF AF_INET6
<1>4. Elements(Conf(f)) \in Nat
  BY <1>3, StartupAssumption, MessageAssumption DEF Elements
<1> QED
  BY <1>2, <1>3, <1>4

\* A table leased under one configuration has its bit in the map of every
\* configuration that covers it.
LEMMA CoveredInMap ==
    ASSUME NEW f \in File, NEW g \in File, NEW t \in NewTables(Conf(g)),
           Covers(Conf(f), Conf(g))
    PROVE  InMap(Conf(f), t)
<1> DEFINE c == Conf(f)
           d == Conf(g)
<1>1. PICK b \in 0 .. d.num - 1 : t = d.offset + b /\ b < WordBits * Elements(d)
  BY DEF NewTables
<1>2. /\ c.offset = d.offset /\ c.num >= d.num
      /\ c.offset \in Nat /\ c.num \in Nat /\ d.num \in Nat /\ c.num < UintMod
      /\ Elements(c) \in Nat /\ Elements(d) \in Nat
      /\ WordBits \in Nat \ {0} /\ UintMod \in Nat \ {0}
  BY ConfType, StartupAssumption, MessageAssumption DEF Covers
<1>3. c.num >= WordBits
  BY <1>1, <1>2 DEF Elements
<1>4. c.num <= WordBits * Elements(c)
  <2>1. Elements(c) = (c.num \div WordBits)
                        + IF c.num % WordBits # 0 THEN 1 ELSE 0
    BY <1>2, <1>3 DEF Elements
  <2>2. c.num <= WordBits * ((c.num \div WordBits)
                               + IF c.num % WordBits # 0 THEN 1 ELSE 0)
    <3> HIDE DEF c
    <3> QED BY <1>2, RoomForAll
  <2> QED
    BY <2>1, <2>2
<1>5. b \in Nat /\ b < WordBits * Elements(c) /\ b < UintMod
  BY <1>1, <1>2, <1>4
<1>6. Offset(c, t) = b
  <2>1. t - c.offset = b
    BY <1>1, <1>2, <1>5
  <2> QED
    BY <2>1, <1>2, <1>5, SmallRemainder DEF Offset
<1> QED
  BY <1>2, <1>5, <1>6, WordOfBit DEF InMap

\* Covering is reflexive.
LEMMA CoversItself ==
    ASSUME NEW f \in File
    PROVE  Covers(Conf(f), Conf(f))
  BY ConfType DEF Covers

\* A row known under configurations that the current one covers is mapped.
LEMMA KnownIsMapped ==
    ASSUME BoundsInv, Grown, NEW k \in rows
    PROVE  Mapped(k)
<1>1. PICK f \in served \cup {file} : Leased(f, k)
  BY DEF BoundsInv, RowsKnown
<1>2. f \in File /\ file \in File
  BY <1>1 DEF BoundsInv
<1>3. Covers(Conf(file), Conf(f))
  BY <1>1, <1>2, CoversItself DEF Grown
<1>4. InMap(Conf(file), k[2])
  BY <1>1, <1>2, <1>3, CoveredInMap DEF Leased
<1>5. k[1] \in file.families
  BY <1>1, <1>2, <1>3, ConfType DEF Covers, Leased
<1> QED
  BY <1>4, <1>5 DEF Mapped

-----------------------------------------------------------------------------
(* One lemma for each step that can disturb the invariant.                  *)

\* Initially there are no rows.
LEMMA BoundsInit == Init => BoundsInv
  BY DEF Init, ServerInit, BoundsInv, RowsKnown, AccessInBounds, NoFile, File,
         Absent

\* A start rebuilds the map from the rows of earlier configurations.
LEMMA BoundsStart ==
    ASSUME BoundsInv, NEW f \in Files, Start(f)
    PROVE  BoundsInv'
<1>1. f \in File /\ file' = f /\ rows' = rows
      /\ served' = (IF Runs(file) THEN served \cup {file} ELSE served)
  BY StartupAssumption DEF Start
<1>2. file' \in File /\ served' \subseteq File
  BY <1>1 DEF BoundsInv
<1>3. \A k \in rows : \E g \in served' : Leased(g, k)
  BY <1>1 DEF BoundsInv, RowsKnown, Leased
<1>4. RowsKnown'
  BY <1>1, <1>3 DEF RowsKnown, Leased
<1>5. phase' = "running" => Runs(file')
  BY <1>1 DEF Start
<1>6. ASSUME phase' = "undefined", ~Broken(f) PROVE ~Grown'
  <2>1. Boot(f)
    BY <1>6 DEF Start
  <2>2. PICK k \in rows : k[1] \notin f.families
    BY <2>1, <1>6 DEF Boot
  <2>3. PICK g \in served' : Leased(g, k)
    BY <1>3, <2>2
  <2>4. g \in File
    BY <1>2, <2>3
  <2>5. ~Covers(Conf(f), Conf(g))
    BY <1>1, <2>2, <2>3, <2>4, ConfType DEF Covers, Leased
  <2> QED
    BY <1>1, <2>3, <2>5 DEF Grown
<1>7. AccessInBounds'
  BY <1>1, <1>6 DEF AccessInBounds
<1> QED
  BY <1>2, <1>4, <1>5, <1>7 DEF BoundsInv

\* Rows are removed and their bits flipped: a release or the sweep.
LEMMA BoundsRemove ==
    ASSUME BoundsInv, NEW dead \in SUBSET rows, phase = "running",
           rows' = rows \ dead, Flip(dead), file' = file, served' = served
    PROVE  BoundsInv'
<1>1. RowsKnown'
  BY DEF BoundsInv, RowsKnown
<1>2. Grown => phase' = phase
  BY KnownIsMapped DEF Flip
<1>3. phase' \in {phase, "undefined"} /\ (Grown' <=> Grown)
  BY DEF Flip, Grown
<1> QED
  BY <1>1, <1>2, <1>3 DEF BoundsInv, AccessInBounds

\* A new row is within the map of the configuration that runs.
LEMMA BoundsAllocate ==
    ASSUME BoundsInv, phase = "running", NEW fam, fam \in file.families,
           NEW now, Allocate(fam, now), file' = file, served' = served
    PROVE  BoundsInv'
<1>1. PICK t \in NewTables(Conf(file)) :
          rows' = rows \cup {<<fam, t>>} /\ Flip({<<fam, t>>})
  BY DEF Allocate
<1>2. file \in File /\ Runs(file)
  BY DEF BoundsInv
<1>3. Mapped(<<fam, t>>)
  BY <1>1, <1>2, CoversItself, CoveredInMap DEF Mapped
<1>4. phase' = phase
  BY <1>1, <1>3 DEF Flip
<1>5. Leased(file, <<fam, t>>)
  BY <1>1, <1>2 DEF Leased
<1>6. RowsKnown'
  BY <1>1, <1>5 DEF BoundsInv, RowsKnown, Leased
<1> QED
  BY <1>2, <1>4, <1>6 DEF BoundsInv, AccessInBounds

\* Rows, configuration and history stay, and the process goes on or ends.
LEMMA BoundsKeep ==
    ASSUME BoundsInv, rows' = rows, file' = file, served' = served,
           phase' \in {phase, "down"}
    PROVE  BoundsInv'
<1>1. RowsKnown' /\ (Grown' <=> Grown)
  BY DEF BoundsInv, RowsKnown, Grown
<1> QED
  BY <1>1 DEF BoundsInv, AccessInBounds

\* A datagram is ignored, or its request or release is handled.
LEMMA HandleCases ==
    ASSUME NEW m, NEW now, Handle(m, now)
    PROVE  \/ Ignore(m)
           \/ HandleReq(parse_seq(m).addr_family, now)
           \/ HandleRelease(parse_seq(m).addr_family)
  BY DEF Handle, Received

\* A request or a release is handled.
LEMMA BoundsHandle ==
    ASSUME BoundsInv, NEW m, NEW now, Handle(m, now)
    PROVE  BoundsInv'
<1> DEFINE fam == parse_seq(m).addr_family
<1>1. phase = "running" /\ file' = file /\ served' = served
  BY DEF Handle
<1>2. Ignore(m) \/ HandleReq(fam, now) \/ HandleRelease(fam)
  BY HandleCases
<1> HIDE DEF fam
<1>a. CASE Ignore(m)
  BY <1>1, <1>a, BoundsKeep DEF Ignore
<1>3. CASE HandleReq(fam, now)
  <2>1. CASE rows' = rows /\ phase' = phase
    BY <1>1, <2>1, BoundsKeep
  <2>2. CASE fam \in file.families /\ Allocate(fam, now)
    BY <1>1, <2>2, BoundsAllocate
  <2> QED
    BY <1>3, <2>1, <2>2 DEF HandleReq, Reallocate, Enabled
<1>4. CASE HandleRelease(fam)
  <2>1. CASE rows' = rows /\ phase' = phase
    BY <1>1, <2>1, BoundsKeep
  <2>2. ASSUME NEW k \in rows, rows' = rows \ {k}, Flip({k}) PROVE BoundsInv'
    BY <1>1, <2>2, BoundsRemove
  <2> QED
    BY <1>4, <2>1, <2>2 DEF HandleRelease
<1> QED
  BY <1>2, <1>a, <1>3, <1>4

\* Every step keeps BoundsInv.
LEMMA BoundsStep == BoundsInv /\ [Next]_vars => BoundsInv'
<1> SUFFICES ASSUME BoundsInv, [Next]_vars PROVE BoundsInv'
  OBVIOUS
<1>1. ASSUME NEW f \in Files, Start(f) PROVE BoundsInv'
  BY <1>1, BoundsStart
<1>2. CASE Sweep
  BY <1>2, BoundsRemove DEF Sweep
<1>3. ASSUME NEW c, NEW cmd, NEW now, Exchange(c, cmd, now) PROVE BoundsInv'
  BY <1>3, BoundsHandle DEF Exchange
<1>4. CASE Exit \/ SocketTimeout \/ ReceiveError \/ Closed
  BY <1>4, BoundsKeep DEF Exit, SocketTimeout, ReceiveError, Closed
<1>5. CASE UNCHANGED vars
  BY <1>5, BoundsKeep DEF vars, serverVars
<1> QED
  BY <1>1, <1>2, <1>3, <1>4, <1>5 DEF Next, ServerStep

\* No handler of the server reaches outside the map while the configuration
\* only grows, through any number of restarts: release_table needs no bounds
\* check then, and only then.
THEOREM ServerStaysInMap == Spec => []AccessInBounds
<1>1. Spec => []BoundsInv
  BY BoundsInit, BoundsStep, PTL DEF Spec
<1> QED
  BY <1>1, PTL DEF BoundsInv

-----------------------------------------------------------------------------
(* What the client is told.                                                 *)

\* The inductive invariant of ToldTable and LeaseInFuture.
ToldInv ==
    /\ phase = "down" => told.table = 0
    /\ ToldTable
    /\ LeaseInFuture

\* A number that an int has is sent and read unchanged.
LEMMA ReadBack ==
    ASSUME NEW v \in Nat, v <= IntMax
    PROVE  json_object_get_int(v) % UintMod = v
<1>1. json_object_get_int(v) = v
  BY MessageAssumption DEF json_object_get_int, IntMax
<1>2. UintMod \in Nat \ {0} /\ v < UintMod
  BY MessageAssumption DEF IntMax
<1> QED
  BY <1>1, <1>2, SmallRemainder

\* The table of a known row is in the range of a configuration that covers
\* the one it was leased under.
LEMMA KnownInRange ==
    ASSUME NEW f \in File, NEW g \in File, NEW t \in NewTables(Conf(g)),
           Covers(Conf(f), Conf(g))
    PROVE  t \in Conf(f).offset .. Conf(f).offset + Conf(f).num - 1
<1>1. PICK b \in 0 .. Conf(g).num - 1 : t = Conf(g).offset + b
  BY DEF NewTables
<1> QED
  BY <1>1, ConfType DEF Covers

\* The client is told of a row that the configuration knows.
LEMMA ToldByTell ==
    ASSUME BoundsInv, phase = "running", file' = file, served' = served,
           NEW now \in Nat, NEW k, NEW g \in served \cup {file}, Leased(g, k),
           Tell(k, now)
    PROVE  ToldTable' /\ LeaseInFuture'
<1> DEFINE c == Conf(file)
           lease == (now + c.timeout) % UintMod
<1>1. /\ told'.table = json_object_get_int(k[2]) % UintMod
      /\ told'.lease_expires = json_object_get_int(lease) % UintMod
      /\ told'.at = now
  BY DEF Tell, parse_client_reply, gen_response
<1>2. file \in File /\ g \in File /\ Runs(file) /\ (Grown' <=> Grown)
  BY DEF BoundsInv, Grown
<1>3. ToldTable'
  <2> SUFFICES ASSUME Grown, c.offset + c.num - 1 <= IntMax
               PROVE  told'.table \in c.offset .. c.offset + c.num - 1
    BY <1>2 DEF ToldTable
  <2>1. Covers(c, Conf(g))
    BY <1>2, CoversItself DEF Grown
  <2>2. k[2] \in c.offset .. c.offset + c.num - 1
    BY <1>2, <2>1, KnownInRange DEF Leased
  <2>3. k[2] \in Nat /\ k[2] <= IntMax
    BY <1>2, <2>2, ConfType, MessageAssumption DEF IntMax
  <2> QED
    BY <1>1, <2>2, <2>3, ReadBack
<1>4. LeaseInFuture'
  <2> SUFFICES ASSUME now + c.timeout <= IntMax
               PROVE  told'.lease_expires > now
    BY <1>1, <1>2 DEF LeaseInFuture
  <2>1. c.timeout \in Nat \ {0}
    <3>1. json_object_get_int(file.timeout) \in Int
      BY <1>2, MessageAssumption DEF json_object_get_int, IntMax, File
    <3>2. c.timeout = json_object_get_int(file.timeout) % TimeoutMod
      BY DEF Conf
    <3>3. c.timeout # 0
      BY <1>2 DEF Runs, Accepted, Given
    <3> QED
      BY <3>1, <3>2, <3>3, StartupAssumption
  <2> HIDE DEF c
  <2>2. now + c.timeout \in Nat /\ now + c.timeout < UintMod
    BY <2>1, MessageAssumption DEF IntMax
  <2>3. lease = now + c.timeout
    BY <2>2, SmallRemainder, MessageAssumption
  <2>4. told'.lease_expires = now + c.timeout
    BY <1>1, <2>2, <2>3, ReadBack
  <2> QED
    BY <2>1, <2>4
<1> QED
  BY <1>3, <1>4

\* A client that is told of no table is told nothing wrong.
LEMMA ToldNothing ==
    ASSUME told'.table = 0
    PROVE  ToldInv'
  BY DEF ToldInv, ToldTable, LeaseInFuture

\* What a request or a release tells the client.
LEMMA ToldHandle ==
    ASSUME BoundsInv, ToldInv, NEW m, NEW now \in Nat, Handle(m, now)
    PROVE  ToldInv'
<1> DEFINE fam == parse_seq(m).addr_family
<1>1. phase = "running" /\ file' = file /\ served' = served
  BY DEF Handle
<1>2. Ignore(m) \/ HandleReq(fam, now) \/ HandleRelease(fam)
  BY HandleCases
<1> HIDE DEF fam
<1>3. phase' # "down"
  BY <1>1, <1>2
     DEF Ignore, HandleReq, HandleRelease, Reallocate, Allocate, Flip
<1>4. ASSUME NEW k \in rows, Reallocate(k, now) PROVE ToldInv'
  <2>1. PICK g \in served \cup {file} : Leased(g, k)
    BY <1>4 DEF BoundsInv, RowsKnown
  <2> QED
    BY <1>1, <1>3, <1>4, <2>1, ToldByTell DEF ToldInv, Reallocate
<1>5. ASSUME fam \in file.families, Allocate(fam, now) PROVE ToldInv'
  <2>1. PICK t \in NewTables(Conf(file)) : Tell(<<fam, t>>, now)
    BY <1>5 DEF Allocate
  <2>2. Leased(file, <<fam, t>>)
    BY <1>1, <1>5, <2>1 DEF Leased, BoundsInv
  <2> QED
    BY <1>1, <1>3, <2>1, <2>2, ToldByTell DEF ToldInv
<1>6. ASSUME told' = NoLease PROVE ToldInv'
  BY <1>6, ToldNothing DEF NoLease
<1> QED
  BY <1>2, <1>4, <1>5, <1>6 DEF Ignore, HandleReq, HandleRelease, Enabled

\* Every step keeps ToldInv.
LEMMA ToldStep == BoundsInv /\ ToldInv /\ [Next]_vars => ToldInv'
<1> SUFFICES ASSUME BoundsInv, ToldInv, [Next]_vars PROVE ToldInv'
  OBVIOUS
<1>1. ASSUME NEW f \in Files, Start(f) PROVE ToldInv'
  BY <1>1, ToldNothing DEF Start, ToldInv
<1>2. CASE Sweep \/ Exit
  BY <1>2, ToldNothing DEF Sweep, Exit, NoLease
<1>3. ASSUME NEW c, NEW cmd, NEW now \in Clock, Exchange(c, cmd, now)
      PROVE  ToldInv'
  BY <1>3, ToldHandle, StartupAssumption DEF Exchange
<1>4. CASE SocketTimeout \/ ReceiveError \/ Closed
  BY <1>4 DEF SocketTimeout, ReceiveError, Closed, ToldInv, ToldTable,
              LeaseInFuture, Grown
<1>5. CASE UNCHANGED vars
  BY <1>5 DEF vars, serverVars, ToldInv, ToldTable, LeaseInFuture, Grown
<1> QED
  BY <1>1, <1>2, <1>3, <1>4, <1>5 DEF Next, ServerStep

\* ToldInv holds in every state.
LEMMA ToldInvariant == Spec => []ToldInv
<1>1. Init => ToldInv
  BY DEF Init, ServerInit, NoLease, ToldInv, ToldTable, LeaseInFuture
<1> QED
  BY <1>1, BoundsInit, BoundsStep, ToldStep, PTL DEF Spec

\* The client reads a table of the configured range, as long as the
\* configuration only grows and its tables fit an int.
THEOREM TablesReadInRange == Spec => []ToldTable
  BY ToldInvariant, PTL DEF ToldInv

\* The client reads an expiry in the future of its request, whatever number
\* the configuration has for the 16 bits of table_timeout.
THEOREM LeasesReadInFuture == Spec => []LeaseInFuture
  BY ToldInvariant, PTL DEF ToldInv

-----------------------------------------------------------------------------
(* What the server reads of the client.                                     *)

\* The last exchange was with a client that its arguments let start.
ExchangeInv ==
    exchange # NoExchange =>
        \E c \in Clients, cmd \in {CMD_REQ, CMD_REL} :
            exchange = [client |-> c, read |-> Received(Request(c, cmd))]

\* Every length of a client that starts is below its buffer's.
LEMMA ClientFits ==
    ASSUME NEW c \in Clients
    PROVE  /\ c.address \in Int /\ c.address < AddrStrLen
           /\ c.ifname \in Int /\ c.ifname < IfnamSiz
           /\ c.tag \in Int /\ c.tag < MaxTag
           /\ c.family \in Family
           /\ c.quoted \in Nat /\ c.control \in Nat
<1>1. PICK a \in Args : c = parse_cmd_args(a) /\ c.accepted
  BY DEF Clients
<1>2. a \in Arguments
  BY <1>1, ArgsAssumption
<1>3. Complete(a) /\ Fits(a) /\ AddressAccepted(a)
  BY <1>1 DEF parse_cmd_args, Refused
<1>4. /\ c.address = a.address /\ c.ifname = a.ifname /\ c.family = a.family
      /\ c.tag = IF a.tag = Absent THEN 0 ELSE a.tag
      /\ c.quoted = a.quoted /\ c.control = a.control
  BY <1>1, <1>3 DEF parse_cmd_args, Refused
<1>5. a.address < AddrStrLen
  BY <1>2, <1>3, ArgsAssumption, MessageAssumption
     DEF AddressAccepted, PtonMax, Arguments, Family, AF_INET, AF_INET6,
         AF_UNSPEC
<1> QED
  BY <1>2, <1>3, <1>4, <1>5, MessageAssumption
     DEF Fits, Arguments, Absent

\* An address family is sent as an int and read into 8 bits unchanged.
LEMMA FamilyRead ==
    ASSUME NEW f \in Family
    PROVE  json_object_get_int(f) % 256 = f
<1>1. f \in {0, 2, 10}
  BY DEF Family, AF_UNSPEC, AF_INET, AF_INET6
<1>2. json_object_get_int(f) = f
  BY <1>1, MessageAssumption DEF json_object_get_int, IntMax, AF_INET6
<1> QED
  BY <1>1, <1>2

\* ExchangeInv holds in every state.
LEMMA ExchangeInvariant == Spec => []ExchangeInv
<1>1. Init => ExchangeInv
  BY DEF Init, ExchangeInv
<1>2. ExchangeInv /\ [Next]_vars => ExchangeInv'
  BY DEF ExchangeInv, Next, ServerStep, Exchange, vars
<1> QED
  BY <1>1, <1>2, PTL DEF Spec

\* A client's names, as far as they are read, are read unchanged.
LEMMA ReadUnchanged ==
    ASSUME NEW c \in Clients, NEW cmd, NEW req \in Received(Request(c, cmd))
    PROVE  /\ req.address = c.address /\ req.ifname = c.ifname
           /\ req.tag = c.tag /\ req.addr_family = c.family
<1>1. req = parse_seq(Request(c, cmd))
  BY DEF Received
<1>2. /\ req.address = Copied(c.address, AddrStrLen)
      /\ req.ifname = Copied(c.ifname, IfnamSiz)
      /\ req.tag = Copied(c.tag, MaxTag)
      /\ req.addr_family = json_object_get_int(c.family) % 256
  BY <1>1 DEF Request, create_req, parse_seq
<1> QED
  BY <1>2, ClientFits, FamilyRead DEF Copied

\* A request whose characters are two bytes at most is no partial datagram.
LEMMA RequestFits ==
    ASSUME NEW c \in Clients, NEW cmd, c.control = 0
    PROVE  Received(Request(c, cmd)) # {}
<1>1. Request(c, cmd).size = Frame(c.tag, c.family) + c.address + c.ifname
                               + c.tag + Escaped(c.quoted, c.control)
  BY DEF Request, create_req
<1>2. Frame(c.tag, c.family) \in Nat /\ Frame(c.tag, c.family) <= 72
  BY ClientFits
     DEF Frame, Digits, Family, AF_UNSPEC, AF_INET, AF_INET6
<1>3. c.quoted <= Escapable(c) /\ Escaped(c.quoted, c.control) = c.quoted
  BY TextAssumption, ClientFits DEF Escapable, Escaped
<1>4. /\ Escapable(c) \in Int
      /\ Escapable(c) <= (AddrStrLen - 1) + (IfnamSiz - 1) + (MaxTag - 1)
  BY ClientFits, MessageAssumption DEF Escapable
<1>5. Request(c, cmd).size <= ReqBuffer
  BY <1>1, <1>2, <1>3, <1>4, ClientFits, RequestAssumption, MessageAssumption
<1> QED
  BY <1>5 DEF Received

\* What parse_cmd_args accepts, parse_seq understands, and every request
\* without control characters fits the server's buffer.
THEOREM RequestsUnderstood == Spec => []RequestUnderstood
<1>1. ExchangeInv => RequestUnderstood
  <2> SUFFICES ASSUME NEW c \in Clients, NEW cmd,
                      exchange = [client |-> c,
                                  read |-> Received(Request(c, cmd))]
               PROVE  RequestUnderstood
    BY DEF ExchangeInv, RequestUnderstood
  <2>1. exchange.client = c /\ exchange.read = Received(Request(c, cmd))
    OBVIOUS
  <2> QED
    BY <2>1, ReadUnchanged, RequestFits DEF RequestUnderstood
<1> QED
  BY <1>1, ExchangeInvariant, PTL

\* The name of a client's socket is never cut off, and can be bound.
THEOREM SocketNamesFit == Spec => []NameFits
<1>1. ExchangeInv => NameFits
  <2> SUFFICES ASSUME NEW c \in Clients, exchange.client = c PROVE NameFits
    BY DEF ExchangeInv, NameFits
  <2>1. SocketName(c) \in Int /\ SocketName(c) < NameBuffer
    BY ClientFits, MessageAssumption
       DEF SocketName, NameBuffer, Digits, Family, AF_UNSPEC, AF_INET, AF_INET6
  <2> QED
    BY <2>1, NameAssumption, StartupAssumption, MessageAssumption
       DEF NameFits, NameBuffer
<1> QED
  BY <1>1, ExchangeInvariant, PTL

\* compute_prefix_len_4 counts the leading ones of a netmask.
LEMMA PrefixOfMask ==
    ASSUME NEW n \in 1 .. AddrBits
    PROVE  compute_prefix_len_4(LeadingOnes(n)) = n
<1> DEFINE k == AddrBits - n
           w == 2^AddrBits - 2^k
<1>1. /\ AddrBits \in Nat /\ n \in Nat \ {0} /\ k \in Nat /\ k + n = AddrBits
      /\ k \in 0 .. AddrBits - 1
  BY ArgsAssumption
<1>2. LeadingOnes(n) = w
  BY DEF LeadingOnes
<1> HIDE DEF k
<1>3. /\ w \in 1 .. 2^AddrBits - 1 /\ Bit(w, k) = 1
      /\ \A c \in 0 .. k - 1 : Bit(w, c) = 0
  BY <1>1, OnesAndZeros
<1> HIDE DEF w
<1>4. w # 0 /\ w \in 0 .. 2^AddrBits - 1
  BY <1>3, <1>1, PowerStep
<1>5. ffs(w, AddrBits) = k + 1
  BY <1>1, <1>3, <1>4, FfsUnique
<1>6. AddrBits - ((k + 1) - 1) = n
  BY <1>1
<1> QED
  BY <1>2, <1>5, <1>6 DEF compute_prefix_len_4

\* An accepted client takes its prefix length from its netmask.
LEMMA ClientPrefix ==
    ASSUME NEW c \in Clients, c.family = AF_INET
    PROVE  c.prefix_len = compute_prefix_len_4(c.netmask)
<1>1. PICK a \in Args : c = parse_cmd_args(a) /\ c.accepted
  BY DEF Clients
<1>2. c # Refused
  BY <1>1 DEF Refused
<1> QED
  BY <1>1, <1>2 DEF parse_cmd_args

\* For every width of an address, a client that was started with a netmask of
\* n leading ones takes the removal of its address with prefix length n, and
\* no other, for its own: ffs finds the length that the kernel reports.
THEOREM RemovalIsRecognised == Spec => []RemovalRecognised
<1>1. ExchangeInv => RemovalRecognised
  <2> DEFINE c == exchange.client
  <2> SUFFICES ASSUME ExchangeInv, exchange # NoExchange, c.family = AF_INET,
                      NEW n \in 1 .. AddrBits, NEW k \in 1 .. AddrBits,
                      c.netmask = LeadingOnes(n)
               PROVE  handle_deladdr(c, [ifname |-> c.ifname, family |-> AF_INET,
                                         prefix_len |-> k,
                                         address |-> c.address]) <=> k = n
    BY DEF RemovalRecognised
  <2>1. c \in Clients
    BY DEF ExchangeInv
  <2>2. c.prefix_len = n
    BY <2>1, ClientPrefix, PrefixOfMask
  <2> HIDE DEF c
  <2> QED
    BY <2>2 DEF handle_deladdr
<1> QED
  BY <1>1, ExchangeInvariant, PTL

-----------------------------------------------------------------------------
(* The tables that can be handed out, and the types.                        *)

\* Every table that the configuration promises can be handed out, from one
\* full word on: allocate_table can return each of them, also the ones of the
\* last word.
THEOREM EveryTableOffered == Spec => []EveryTable
<1>1. BoundsInv => EveryTable
  <2> SUFFICES ASSUME file \in File, Conf(file).num >= WordBits
               PROVE  NewTables(Conf(file))
                        = Conf(file).offset .. Conf(file).offset
                                                + Conf(file).num - 1
    BY DEF BoundsInv, EveryTable
  <2> DEFINE c == Conf(file)
  <2>1. c.offset \in Nat /\ c.num \in Nat /\ WordBits \in Nat \ {0}
    BY ConfType, StartupAssumption, MessageAssumption
  <2>2. Elements(c) = (c.num \div WordBits)
                        + IF c.num % WordBits # 0 THEN 1 ELSE 0
    BY <2>1 DEF Elements
  <2> HIDE DEF c
  <2>3. c.num <= WordBits * Elements(c)
    BY <2>1, <2>2, RoomForAll
  <2>4. Elements(c) \in Nat
    BY ConfType DEF c
  <2>5. \A n \in 0 .. c.num - 1 : n < WordBits * Elements(c)
    BY <2>1, <2>3, <2>4
  <2>6. NewTables(c) = {c.offset + b : b \in 0 .. c.num - 1}
    BY <2>5 DEF NewTables
  <2>7. \A t \in c.offset .. c.offset + c.num - 1 :
           t - c.offset \in 0 .. c.num - 1 /\ t = c.offset + (t - c.offset)
    BY <2>1
  <2>8. NewTables(c) = c.offset .. c.offset + c.num - 1
    BY <2>1, <2>6, <2>7
  <2> QED BY <2>8 DEF c
<1> QED
  BY <1>1, BoundsInit, BoundsStep, PTL DEF Spec

\* parse_config takes no configuration whose tables run past the last number:
\* the check of the sum against the offset catches the wrapped sum.
LEMMA TablesDoNotWrap ==
    ASSUME NEW f \in File, Runs(f), NEW t \in NewTables(Conf(f))
    PROVE  t \in 0 .. UintMod - 1
<1> DEFINE o == Conf(f).offset
           n == Conf(f).num
<1>1. o \in 0 .. UintMod - 1 /\ n \in 0 .. UintMod - 1 /\ UintMod \in Nat \ {0}
  BY ConfType, MessageAssumption
<1>2. (o + n) % UintMod > o
  BY DEF Runs, Accepted
<1>3. PICK b \in 0 .. n - 1 : t = o + b
  BY DEF NewTables
<1> HIDE DEF o, n
<1>4. o + n < UintMod
  <2> SUFFICES ASSUME o + n >= UintMod PROVE FALSE
    BY <1>1
  <2>1. o + n - UintMod \in Nat /\ o + n - UintMod < UintMod
    BY <1>1
  <2>2. (o + n) % UintMod = o + n - UintMod
    BY <1>1, <2>1
  <2> QED BY <1>1, <1>2, <2>2
<1> QED BY <1>1, <1>3, <1>4

\* The remainder of any number that is sent is one of an unsigned int.
LEMMA ReadIsUnsigned ==
    ASSUME NEW v \in Int
    PROVE  json_object_get_int(v) % UintMod \in 0 .. UintMod - 1
<1>1. json_object_get_int(v) \in Int
  BY MessageAssumption DEF json_object_get_int, IntMax
<1>2. UintMod \in Nat \ {0}
  BY MessageAssumption DEF AF_INET6
<1> QED BY <1>1, <1>2

\* What Tell leaves of the right type.
LEMMA ToldType ==
    ASSUME file \in File, NEW k, k[2] \in 0 .. UintMod - 1, NEW now \in Nat,
           Tell(k, now)
    PROVE  told' \in [table : 0 .. UintMod - 1,
                      lease_expires : 0 .. UintMod - 1, at : Nat]
<1> DEFINE lease == (now + Conf(file).timeout) % UintMod
           m == parse_client_reply(gen_response(k[2], lease))
<1>1. told' = [table |-> m.table, lease_expires |-> m.lease_expires, at |-> now]
  BY DEF Tell
<1>2. /\ m.table = json_object_get_int(k[2]) % UintMod
      /\ m.lease_expires = json_object_get_int(lease) % UintMod
  BY DEF parse_client_reply, gen_response
<1>3. k[2] \in Int /\ lease \in Int
  <2>1. json_object_get_int(file.timeout) \in Int
    BY MessageAssumption DEF json_object_get_int, IntMax, File
  <2>2. Conf(file).timeout = json_object_get_int(file.timeout) % TimeoutMod
    BY DEF Conf
  <2>3. Conf(file).timeout \in Nat
    BY <2>1, <2>2, StartupAssumption
  <2> QED BY <2>3, MessageAssumption
<1> HIDE DEF lease, m
<1>4. m.table \in 0 .. UintMod - 1 /\ m.lease_expires \in 0 .. UintMod - 1
  BY <1>2, <1>3, ReadIsUnsigned
<1> QED BY <1>1, <1>4

\* The types follow only together with where the rows come from.
TypeInv == TypeOK /\ BoundsInv

\* What a handler of a datagram leaves of the right type.
LEMMA TypeHandle ==
    ASSUME TypeInv, NEW m, NEW now \in Nat, Handle(m, now)
    PROVE  TypeOK'
<1> DEFINE fam == parse_seq(m).addr_family
           T == [table : 0 .. UintMod - 1,
                 lease_expires : 0 .. UintMod - 1, at : Nat]
<1>1. phase = "running" /\ UNCHANGED <<file, served, handle, timer, starts, faults>>
  BY DEF Handle
<1>2. Ignore(m) \/ HandleReq(fam, now) \/ HandleRelease(fam)
  BY HandleCases
<1>a. file \in File /\ rows \subseteq Family \X (0 .. UintMod - 1) /\ Runs(file)
      /\ 0 \in 0 .. UintMod - 1
  BY <1>1, MessageAssumption DEF TypeInv, TypeOK, BoundsInv
<1>b. \A K : Flip(K) => phase' \in {"running", "undefined"}
  BY <1>1 DEF Flip
<1> HIDE DEF fam
<1> SUFFICES /\ phase' \in {"down", "running", "undefined"}
             /\ rows' \subseteq Family \X (0 .. UintMod - 1)
             /\ told' \in T
  BY <1>1 DEF TypeInv, TypeOK
<1>3. NoLease \in T
  BY <1>a DEF NoLease
<1>4. ASSUME NEW k \in rows, Reallocate(k, now)
      PROVE  phase' = phase /\ rows' = rows /\ told' \in T
  <2>1. k[2] \in 0 .. UintMod - 1
    BY <1>4, <1>a
  <2> QED BY <1>4, <1>a, <2>1, ToldType DEF Reallocate
<1>5. ASSUME fam \in file.families, Allocate(fam, now)
      PROVE  /\ phase' \in {"running", "undefined"}
             /\ rows' \subseteq Family \X (0 .. UintMod - 1)
             /\ told' \in T
  <2>1. PICK t \in NewTables(Conf(file)) :
            /\ rows' = rows \cup {<<fam, t>>}
            /\ Flip({<<fam, t>>})
            /\ Tell(<<fam, t>>, now)
    BY <1>5 DEF Allocate
  <2>2. t \in 0 .. UintMod - 1
    BY <1>a, <2>1, TablesDoNotWrap
  <2>3. fam \in Family
    BY <1>a, <1>5 DEF File, Runs, Accepted, Given
  <2>4. told' \in T
    BY <1>a, <2>1, <2>2, ToldType
  <2> QED BY <1>a, <1>b, <2>1, <2>2, <2>3, <2>4
<1>6. CASE HandleReq(fam, now)
  BY <1>6, <1>1, <1>a, <1>3, <1>4, <1>5 DEF HandleReq, Enabled
<1>7. CASE HandleRelease(fam)
  BY <1>7, <1>1, <1>a, <1>b, <1>3 DEF HandleRelease
<1>8. CASE Ignore(m)
  BY <1>8, <1>1, <1>a, <1>3 DEF Ignore
<1> QED BY <1>2, <1>6, <1>7, <1>8

\* Every step keeps the types.
LEMMA TypeStep == TypeInv /\ [Next]_vars => TypeInv'
<1> SUFFICES ASSUME TypeInv, [Next]_vars PROVE TypeInv'
  OBVIOUS
<1>0. BoundsInv'
  BY BoundsStep DEF TypeInv
<1> SUFFICES TypeOK'
  BY <1>0 DEF TypeInv
<1>a. 0 \in 0 .. UintMod - 1 /\ MaxStarts \in Nat /\ MaxFaults \in Nat
  BY MessageAssumption, StartupAssumption DEF AF_INET6
<1>b. NoLease \in [table : 0 .. UintMod - 1,
                   lease_expires : 0 .. UintMod - 1, at : Nat]
  BY <1>a DEF NoLease
<1>c. NotArmed \in [armed : BOOLEAN, repeat : BOOLEAN]
      /\ OneShot \in [armed : BOOLEAN, repeat : BOOLEAN]
  BY Zenon DEF NotArmed, OneShot
<1>1. ASSUME NEW f \in Files, Start(f) PROVE TypeOK'
  <2>1. served' \subseteq Files
    <3>1. CASE file = NoFile
      <4>1. ~Runs(file)
        BY <3>1 DEF Runs, Accepted, Given, NoFile
      <4> QED BY <1>1, <4>1 DEF Start, TypeInv, TypeOK
    <3>2. CASE file \in Files
      BY <1>1, <3>2 DEF Start, TypeInv, TypeOK
    <3> QED BY <3>1, <3>2 DEF TypeInv, TypeOK
  <2>2. phase' \in {"down", "running", "undefined"}
        /\ handle' \in {"init", "receiving", "closing"}
        /\ timer' \in [armed : BOOLEAN, repeat : BOOLEAN]
    <3>1. CASE UNCHANGED <<handle, timer>> /\ phase' \in {phase, "undefined"}
      BY <3>1 DEF TypeInv, TypeOK
    <3>2. CASE Boot(f)
      BY <3>2, <1>c DEF Boot
    <3> QED BY <1>1, <3>1, <3>2 DEF Start
  <2>3. starts' \in 0 .. MaxStarts
    BY <1>1, <1>a DEF Start, TypeInv, TypeOK
  <2> QED BY <1>1, <2>1, <2>2, <2>3 DEF Start, TypeInv, TypeOK
<1>2. CASE Sweep
  BY <1>2, <1>b DEF Sweep, Flip, TypeInv, TypeOK
<1>3. ASSUME NEW c, NEW cmd, NEW now \in Clock, Exchange(c, cmd, now)
      PROVE  TypeOK'
  BY <1>3, TypeHandle, StartupAssumption DEF Exchange
<1>4. CASE Exit
  BY <1>4, <1>b, <1>c DEF Exit, TypeInv, TypeOK
<1>5. CASE SocketTimeout
  <2>1. timer' \in [armed : BOOLEAN, repeat : BOOLEAN]
    <3>1. CASE Receiving
      BY <3>1 DEF Receiving, TypeInv, TypeOK
    <3>2. CASE Retry
      BY <3>2, Zenon DEF Retry
    <3> QED BY <1>5, <3>1, <3>2 DEF SocketTimeout
  <2>2. handle' \in {handle, "receiving"}
    BY <1>5 DEF SocketTimeout, Receiving, Retry
  <2>3. faults' \in 0 .. MaxFaults
    BY <1>5, <1>a DEF SocketTimeout, TypeInv, TypeOK
  <2> QED BY <1>5, <2>1, <2>2, <2>3 DEF SocketTimeout, TypeInv, TypeOK
<1>6. CASE ReceiveError
  BY <1>6, <1>a DEF ReceiveError, TypeInv, TypeOK
<1>7. CASE Closed
  BY <1>7, <1>c DEF Closed, TypeInv, TypeOK
<1>8. CASE UNCHANGED vars
  BY <1>8 DEF vars, serverVars, TypeInv, TypeOK
<1> QED
  BY <1>1, <1>2, <1>3, <1>4, <1>5, <1>6, <1>7, <1>8 DEF Next, ServerStep

\* The variables keep their types through every history of configurations: no
\* table of a row, of this configuration or an earlier one, needs more bits
\* than an unsigned int has.
THEOREM StartupTypeCorrect == Spec => []TypeOK
<1>1. Init => TypeInv
  <2>1. NotArmed \in [armed : BOOLEAN, repeat : BOOLEAN]
    BY Zenon DEF NotArmed
  <2>2. NoLease \in [table : 0 .. UintMod - 1,
                     lease_expires : 0 .. UintMod - 1, at : Nat]
    BY MessageAssumption DEF NoLease, AF_INET6
  <2> QED
    BY <2>1, <2>2, BoundsInit, StartupAssumption
       DEF Init, ServerInit, TypeInv, TypeOK
<1> QED
  BY <1>1, TypeStep, PTL DEF Spec, TypeInv
=============================================================================
