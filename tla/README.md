# Table allocator: TLA+ models, checks and proofs

The repository configures hosts with several network interfaces. Its own logic
is the *table allocator* (`src/table_allocator`): a server that leases routing
tables and one client process per interface address that holds a lease,
installs routing rules and renews. Hook scripts start the clients and install
routes. This directory models the allocator and its scripts in TLA+,
model-checks them with TLC and proves theorems about the server, its
configuration, the messages, the client and the composed host with TLAPS.

## The system

| Part | State | Operations | What makes it correct |
|---|---|---|---|
| table map (`server_clients.c`) | one array of 32-bit words per address family, a set bit is a free table | `allocate_table`, `release_table`, `set_table`, `is_table_free` | each touches its own bit; the lowest free table is taken; nothing past `num_tables` is handed out |
| lease database (`server_sqlite.c`) | rows keyed by (table, family), `ON CONFLICT REPLACE`; expiry in seconds of `CLOCK_MONOTONIC_RAW` | insert, update, select, delete, select/delete dead, select alive | a lease a client was told is stored as told |
| server (`server_clients.c`, `server.c`, `server_sockets.c`) | the map, the database, a repeating dead-lease timer | `handle_req`, `handle_release`, `delete_dead_leases`, start | a table has one holder; leases end; free tables are handed out |
| client (`client.c`) | lease, failure counter, three timers, a socket named after (ifname, address, family) | request, retransmit, receive, reopen the socket | the caller gets an answer; the lease is renewed |
| client rules (`client_netlink.c`) | `rules_added`; the kernel's rules | add three rules with retry, delete them and release when the address or link goes | the rules exist while the client believes so, and are gone after it |
| messages (`shared`) | - | build and parse JSON members into fixed widths and buffers | what one side accepts the other reads as it was meant |
| configuration (`server.c`), server socket (`server_sockets.c`) | the context; a socket handle and its retry timer | `parse_config`, `configure_rt_tables`, open, fail, close, reopen | a lease of an earlier configuration does no harm; the server listens |
| command line (`client.c`) | the context | `parse_cmd_args`, `compute_prefix_len_4`, the socket name | names do not collide; the removal of the address is recognised |
| scripts (`scripts`, `udev`) | addresses, routes, resolver files | run by dhclient, ifupdown, udev | the routes of an address are in the table of its rules |

Client and server exchange datagrams: a request is answered with a table and an
expiry time or not at all; a release is answered with table 0. Both read the
same monotonic clock. Each process runs a libuv loop, so a callback runs to its
end before the next one: a callback is one action. What is hard: the server's
map is memory and its database is not, and they meet again only at a start;
each SQLite call may fail and has its own error path; leases expire in a clock
that restarts with the machine; bits are changed by XOR, which is right only if
the caller knows their state; datagrams are lost, late, and answered to
whichever process has the address at that moment; rule messages fail one by
one; the database outlives the configuration it was written under; the script,
the client and the kernel change addresses, rules and routes each on its own. `PROJECT.json`
lists these hazards at their lines.

## Modules

| Module | Models | Notes |
|---|---|---|
| `TableMap` | the map as the set of free bits | operators only; used by the server and the proofs |
| `Words` | `ffs`, and testing and flipping a bit of a word | operators only; used by `TableMapWords` and `ClientArgs` |
| `TableMapWords` | the map as words, with `ffs`, shifts, masks, XOR | shown to agree with `TableMap` |
| `TableServer` | the server, its database, crash, reboot, time | `map`, `db`, `now`, `dead_leases_timer`; `reply` and `granted` record what clients were told |
| `LeaseService` | the promise: exclusive leases, renewed in place | abstract; `TableServer` implements it with `lease <- granted`, `AllocatorSystem` with `lease <- Believed`, what its clients have read |
| `TableClient` | client processes, sockets, timers, rules | `Serve` stands for any server; the kernel's rules are external |
| `HostHook` | the dhclient hook and the ifup script: address, client, routes | one script run per client process; addresses and routes of the kernel are external |
| `AllocatorSystem` | the host: `TableServer`, `TableClient` and `HostHook` on one clock | joins their actions; adds `outage` and `removed` (netlink messages under way) |
| `Messages` | building and parsing the datagrams, with widths, clamping, buffers | operators only |
| `ClientArgs` | the client's command line, prefix length, socket name | operators only |
| `ServerStartup` | the server over several configurations: `parse_config`, map bounds, kept rows, socket and timer | `phase`, `file`, `rows`, `handle`, `timer`; `served` and `told` record history |
| `Startup` | clients of `ClientArgs` at the server of `ServerStartup` | properties of both and of the messages |
| `MCTableServer`, `MCTableClient`, `MCAllocatorSystem`, `MCStartup` | values for TLC | |
| `MCTableMapWords` | `TableMapWords` for TLC | an assumption compares `Words` with the operators of `Bitwise` |
| `WordsProofs` | lemmas about bits and powers of two | |
| `TableMapWordsProofs` | theorems about `TableMapWords` | uses `WordsProofs` |
| `TableServerProofs` | theorems about `TableServer`: leases, `LeaseService`, free tables | |
| `StartupProofs` | theorems about `Startup` | uses `WordsProofs` |
| `TableClientProofs` | theorems about `TableClient` | |
| `AllocatorSystemProofs` | theorems about `AllocatorSystem`: types, `ClientSpec`, `BeliefBacked`, `HostServiceSpec` | instantiates the server's and the client's proofs |
| `RenewalProofs`, `RoutingProofs` | `LeaseKept` and `NoFalseFailure`; rules and routes | build on `AllocatorSystemProofs` |

Correspondence, by example: `HandleReq(f, i)` is
`table_allocator_server_clients_handle_req` with the datagram dispatch around
it. Its first disjunct is the family switch's early return; `get_table` is the
SELECT, which gives 0 for a missing row and for a failed query alike;
`Reallocate` is the branch for an existing row, whose UPDATE may fail;
`AllocateNew` is `allocate_table` followed by the INSERT, whose failure gives
the bit back. `DeleteDeadLeases` is the timer callback: SELECT loop, bits, then
DELETE, each able to stop. `Start` is `main` from the fresh map to the rebuilt
one. In the client, `Receive` is `unix_socket_recv_cb`, and `NewRules` and
`DeleteRules` are `update_rules` with its three messages, any of which may be
the first to fail. `AllocatorSystem` has no handlers of its own: `HandleDatagram`
is `HandleReq` or `HandleRelease` of the server with the head of the clients'
queue, its answer delivered to whichever process has the address;
`HookStartClient` is the script's `$(table_allocator_client ...)` together with
`Launch`. `ServerStartup` looks at the same server from another side: there the
configuration varies, the map is only its bounds, and a write outside it makes
the process `"undefined"`. Every mapped definition is in `PROJECT.json` with its lines.

Definitions named `Mut...` are deliberately wrong variants (a dropped guard, an
off-by-one, a missing give-back). Each property of a passing run has one that
breaks it, so that no property holds whatever the code does. They are used by
nothing else.

## Abstractions

* An identity is an (ifname, address) pair; the text of messages, tags, logging
  and the log file are left out. A family without a map is a member of `Family`
  outside `EnabledFamilies`.
* The clock is in seconds, `DEAD_LEASE_TIMEOUT` and the retransmission time are
  constants. Handlers take no time.
* `clock_gettime` of `CLOCK_MONOTONIC_RAW`, tested when the server starts, does
  not fail later. SQLite commits each statement or fails. The database cannot
  be opened: the server does not start, which is a late `Start`.
* A crash falls between two handlers. Inside a handler at most one statement
  writes the database, so a crash in the middle of one leaves the database of
  before or after it, and the map is lost either way. The one difference is a
  lease stored whose answer is never sent; a client then holds less than the
  database says.
* `granted` is what the server answered. A lost answer means that the client
  holds less than `granted` says, so exclusivity of `granted` is the stronger
  statement.
* Client: a reply cut short, unparsable or of another version, which this
  server does not send, is left out, as are the foreground flag and a failing
  `daemon(3)`. `AddressRemoved` stands for a netlink message that matches.
  The code reads its socket only after a `sendto` that succeeded; `Receive` may do
  so as soon as the socket is bound, which only adds behaviours. Of the failures in
  `unix_socket_timeout_cb` the taken address is modelled; `socket()` and
  `uv_udp_open` failing change nothing but arm the same repeating timer, a
  stuttering step, and liveness assumes that they do not fail forever.
* Messages and names: a string is its length, since the code asks only whether
  it fits; that two different texts are told apart is not in question where
  neither is cut off. The size of a request is that of its JSON text, escapes
  included; how many characters json-c writes as two bytes and as six is part of
  the command line (`quoted`, `control`). The receive buffers keep the tail of a longer datagram
  before, but the parser stops at the end of the first object. JSON that does
  not parse is a configuration without settings.
* `ServerStartup` leaves open who holds a row and when it expires: a start marks
  any subset of the rows, the sweep takes any other. It assumes no failing
  statements, which `TableServer` has.
* `AllocatorSystem` lets no system call fail; a local datagram is lost only when
  nobody has the address or the queue is full. Callbacks, handlers and scripts
  run within the second they are due. The connected and the default route of an
  address stand for one another. Two events are left out of its runs and can
  be switched on with `Unlucky` (see below). An address has one process per script
  run: while a removed address's client still runs, the hook that adds it again
  waits for it to end and the clock waits too, so that two clients of one address
  are seen in `SameAddressTwice` only.
* The kernel (external): an existing rule is not added twice; a deletion
  removes one matching rule, and table 0 matches all tables (it is not
  compared by the kernel's `fib_nl_delrule`).

## Runs

Passing:

| Run | Shows |
|---|---|
| `ServerSafety` | `NoDoubleLease`, `GrantBacked`, `LiveRowBusy`: requests, releases, sweeps of two identities in every order; every database call but the startup query may fail; a crash and a reboot |
| `ServerService` | `ServiceSpec`, `OneRowPerIdentity`: the server implements `LeaseService` while `get_table` works; a second family is not enabled. `LeasesExpire`: once requests stop all leases go, across a crash |
| `ServerTables` | `RefusedOnlyWhenFull`, `NoLeak`: four identities for three tables, with a padding bit in the last word; failing writes never leave a busy bit without a row |
| `MapWords` | `AllocateAgrees`, `BitOpsAgree` over every array of three 4-bit words, and `Words` against `Bitwise` on every 4-bit word |
| `ClientRules` | `RulesFollowLease` under netlink failures, retries, late timers, restarts; a v4 and a v6 client |
| `ClientRequests` | `TriesFiveTimes`, `NeverDormant`, `CleanExit` and `ScriptGetsAnswer` (the caller comes to read a table or 0 whatever the server does, and a client ends without printing either only when its address is removed before its first lease) under lost datagrams, socket errors and a restart |
| `System` | the composition, with a server crash, addresses removed and added again, two launches each: `BeliefBacked` (a client's lease is in the database), `LeaseKept` (an outage of up to half a lease less a retransmission costs no lease), `NoFalseFailure` (nor a first answer), `TablesUnique`, `RulesFindRoutes`, `RulesHaveAddress`, `ClientSpec` and `HostServiceSpec` |
| `Startup` | configuration files and command lines at and past every limit, requests of 512 and 513 bytes, two starts over one database, socket failures: `AccessInBounds`, `EveryTable`, `ToldTable`, `LeaseInFuture`, `RequestUnderstood`, `NameFits`, `RemovalRecognised`, and `Listens` |

`ClientSpec` is what joins the client's own runs to this server: `TableClient` is
checked against a server that answers anything or nothing at any time, and each
step of `AllocatorSystem` is one of `TableClient` with every table offered to
every identity. So what is proved of `TableClient` for all its constants
(`ClientTypeCorrect`, `GivesUpAfterFailLimit`, `ClientEndsWithAnswer`,
`OnlyTwoStepsBreakRules`, and `ClientNeverDormant`, as callbacks are on time there)
holds with this server too. What takes one table for each identity does not follow:
the runs `ClientRules` and `ClientRequests` and the theorem `ClientLeavesNoRules`
describe this server only while no lease runs out, `SharedTable` shows the
difference, and the rules of the composition are the subject of its own
properties and of `RoutingProofs`. `HostServiceSpec` is the promise
end to end: `ServiceSpec` says it of what the server has answered,
`HostServiceSpec` of what the running clients have read, so that a reply that is
late, lost or meant for an earlier process would break it.

Where the code does not do what the documentation, a comment or a test says,
a run keeps the counterexample:

| Run | What happens |
|---|---|
| `LeakAfterRestart` | a lease expires while the server is down; after the restart its bit is free and its row is still there; the holder's release flips the bit to busy, with no row: lost until the next restart |
| `ForeignRule` | a client whose address goes before its first lease deletes rules with table 0, and so another client's default rule |
| `SameAddressTwice` | a second client for a bound address retries the bind without counting failures; its caller waits forever |
| `SharedTable` | the server is down for longer than a lease; its table goes to another address while the first client still has its rules, and the script its routes, there; the client's next reply names another table but `rules_added` keeps the old rules |

More behaviours come out of the models without a run of their own:

* The startup query fails (`"build"` in `Faults`): `main` ignores it and a live
  table may be given to another identity, `NoDoubleLease` fails. The theorems
  about leases assume that it does not.
* A reply is handled after its lease has run out (`Prompt = FALSE` and a longer
  clock in `ClientRequests`): the unsigned difference wraps, the renewal timer is
  set weeks ahead and `NeverDormant` fails.
* The address of a client goes away before its first lease
  (`client_netlink.c:299-305`): the client ends and prints nothing, although
  `table_allocator/README.md:13` says "In both cases, a value will be written to
  stdout". `ScriptGetsAnswer` names this exception (`EndsAnswered`), and
  `ConfigureNothing` in `HostHook` is what the script does then.
* A tag, an interface name or an unspec address with control characters, which
  `parse_cmd_args` accepts and json-c writes as six bytes each, can make a request
  of more than 512 bytes. It arrives as `UV_UDP_PARTIAL` and is ignored (`Ignore` in
  `ServerStartup`), although the comment at `server_sockets.c:66-67` says "buffer is
  big enough to store all messages we send"; the client gives up after five tries.
  Every other request fits: the largest has 446 bytes (`RequestUnderstood`).
* A v6 or unspec client has no netlink socket and crashes when its first lease
  arrives, after it has printed the table (`ReceiveLeaseNoNetlink`).
* Fewer than 32 tables give a map of no words: every request is refused
  (`Elements` is 0; `EveryTable` and `RefusedOnlyWhenFull` are stated from one
  word on).
* A stored expiry of the previous boot may be far ahead of the restarted clock,
  so an old row outlives `table_timeout` (`Reboot` in `TableServer`).
* A client starts while a request and a release of its predecessor are still
  queued at the server (`"flap"` in `Unlucky`): it is answered the first and
  loses its lease to the second, `BeliefBacked` fails until the next renewal.
* An address goes away before its client listens to netlink (`"early_removal"` in
  `Unlucky`): the client stays, and so do its rules, `RulesHaveAddress` fails.
* A configuration that shrinks, moves its offset or drops a family while its
  database is kept: `release_table` writes outside the map, or through a null
  map. `AccessInBounds` says that nothing else does.
* A file of 1024 bytes or more is never refused, because `fread` counts items,
  and one without a family frees its object twice (`Broken`).
* A `socket_path` of 106 characters passes `parse_config` without room for its
  terminator and is never bound. `table_offset` is not checked against
  `INT32_MAX`, past which clients read a clamped table.
* `-r` sets a command that nothing reads (`table_allocator/README.md:74`: "set
  command to release instead of request"): every client starts with a request.

### Bounds and why they are enough

* Words of two bits and three tables give a full word, a partly used one and
  its padding bit, which is all that the word boundary does.
* Two identities are enough for two holders of one table; three and four are
  used where the tables must run out. Identities are symmetric
  (`SYMMETRY`, in runs without liveness properties).
* `TableTimeout` and `DeadLeaseTimeout` are 2 and the clock runs to 3-6, so that
  a lease can be renewed, expire, be swept and be given away, in a time in which
  the sweep comes before, at and after the expiry. `LastEvent` ends requests
  and crashes where a run asks what happens then.
* `System`: a lease of 5 seconds and a retransmission of 1, so that a request
  falls due at half the lease and there is time for two more; an outage of 1
  is within this margin and hides any one of them. The sweep comes every 4 seconds, within
  the 6 of the clock. Addresses come until second 1 and go until second 2, with
  two launches each, so that one is removed, released and taken again while the
  other renews. `SharedTable` has a lease of 2 and an outage of 3. The two addresses
  are swapped by a symmetry.
* `Startup`: the buffers have their real sizes and the lengths lie on both sides
  of each limit. Words of 4 bits, an `int` of 6 bits, a `table_timeout` of 3 and
  netmasks of 4 keep the arithmetic small; the values lie around
  each wrap. Two starts and one row are enough for a row to meet another
  configuration; two faults, for a socket that fails when opened and later.
* One crash and one reboot: each rebuilds everything it touches from the
  database, so a second adds no new state of the map. The theorems have no
  such bound.
* Clients: a lease of 4 and a retransmission of 1, so that renewal, retry and
  expiry are distinct; five failures as in the code (two in `ClientRules`,
  which is about rules); `UintMod` is far above the clock, as 2^32 is.
  `MaxInFlight` bounds the queues: a datagram that does not fit is lost.
* `CleanExit` is checked without netlink failures, since the code's deletion
  of rules is best effort, and `NeverDormant` with callbacks on time
  (`Prompt`).
* Clients end, the clock of `System` ends and so do the starts of `Startup`:
  these runs do not check deadlock. The server never stops:
  its sweep is always enabled once due.

### Fairness

`TableServer!FairSpec`: time passes, libuv runs the repeating timer when it is
due, and systemd (`Restart=on-failure`) starts the server again. Nothing is
assumed of clients. `TableClient!FairSpec`: each client's loop runs callbacks
that are due, and time passes. Nothing is assumed of the server, of delivery or
of the scripts. `Startup!Spec`: libuv runs the socket's timer and its close
callback when they are due; the socket fails finitely often (`MaxFaults`).

## Proofs

`TableServerProofs` proves, for all values of the constants:

| Theorem | States | Assumes |
|---|---|---|
| `TypeCorrect` | `TypeOK` always | - |
| `ReleaseInBounds` | `RowsInMap` always: the XOR of `release_table` stays inside the map | - |
| `LeasesAreStored` | `GrantBacked` always | the startup query does not fail |
| `ExclusiveLeases` | `NoDoubleLease` always | the startup query does not fail |
| `LiveTablesAreBusy` | `LiveRowBusy` always | the startup query does not fail |
| `UniqueRows` | `OneRowPerIdentity` always | nor does `get_table` |
| `ServerImplementsService` | `Spec => ServiceSpec` | nor does `get_table` |

plus the named assumptions on the constants (`MapAssumption`,
`ServerAssumption`). The assumption on the startup query is needed: TLC finds a
counterexample when `"build"` is added to the `Faults` of `ServerSafety`.

The argument. `TypeOK` alone is not inductive: `release_table` has no bounds
check, so that the map stays a set of its own bits needs `RowsInMap` (a row only
ever names a bit that was allocated), hence `TypeInv`. `NoDoubleLease` is about
what clients were told, while a handler sees only the map and the rows.
`SafeInv` joins them: an unexpired lease is in the row of its table
(`GrantBacked`), and the bit of a live row is busy (`LiveRowBusy`). A new lease
takes a free bit, so no live row and therefore no held lease is replaced by
its INSERT; two holders of one table would be two identities in one row.
Each action is a lemma (`SafeReq`, `SafeRelease`, `SafeSweep`, `SafeStep`). For the
refinement `ServiceInv` adds `OneRowPerIdentity`: the row that `get_table` finds
for a holder must be that of the table it holds, or the renewal would move it.

`StartupProofs` proves, for every set of files and command lines:

| Theorem | States |
|---|---|
| `ServerStaysInMap` | `AccessInBounds` always |
| `TablesReadInRange` | `ToldTable` always |
| `LeasesReadInFuture` | `LeaseInFuture` always |
| `RequestsUnderstood` | `RequestUnderstood` always: names are read unchanged, and every request without control characters fits the server's buffer |
| `SocketNamesFit` | `NameFits` always |
| `EveryTableOffered` | `EveryTable` always |
| `StartupTypeCorrect` | `TypeOK` always |
| `RemovalIsRecognised` | `RemovalRecognised` always, for addresses of any width |

from the assumptions on the widths and buffers (`MessageAssumption`: an `int`
holds an address family; `ArgsAssumption`: the address buffer is longer than
what `inet_pton` accepts; `TextAssumption`: no more characters are escaped than
there are in the address, interface and tag; `RequestAssumption`: the receive
buffer holds a request with every such character doubled; `NameAssumption`: the
name buffer is below `sun_path`).

The argument. A flip outside the map needs a row that this configuration has no
bit for. `BoundsInv` says where rows come from: each was written under a
configuration that has run, this one or one in `served`, from a bit that its map
had (`RowsKnown`). If the running one covers those (`Covers`: same offset, no
fewer tables or families), the bit is in its map: `CoveredInMap`, which rests on
`RoomForAll` (the words have room for all tables, also with a remainder),
`WordOfBit` and `SmallRemainder` (the unsigned difference to the offset does not
wrap). `ToldInv` adds that the last table told was a row's, and `ExchangeInv` that
the last datagram came from an accepted client, whose checks are as strict as
the server's; `RequestFits` adds up the size of its text. A mask of `n` leading ones is `2^w - 2^(w-n)`, whose lowest set bit is
`w - n` (`OnesAndZeros`, `PrefixOfMask`), so `compute_prefix_len_4` gives `n`.

### Words

`TableMapWordsProofs` proves, for every word size and number of words:

| Theorem | States |
|---|---|
| `AllocateIsLowestFree` | `AllocateAgrees` always |
| `WordOperationsAgree` | `BitOpsAgree` always |

from `WordsAssumption`: the bits of the map are fewer than the values of a
`uint32_t`, so that the wrapped difference of a table below the offset is past the
last word. With these theorems the set of free bits in `TableServer` stands for the
code's arrays of any size, not only for those of the run `MapWords`.

The argument. The words stay in `0 .. 2^WordBits - 1`, and `Abs` is the set of
their bits. `Words` writes XOR with one bit as an addition or subtraction of its
power of two. That this changes no other bit (`FlipBits`), that it stays in the
word (`FlipInWord`) and that a word that is not 0 has a set bit for `ffs` to find
(`SomeBitSet`) are facts about all bits of a word, which take an induction. The
library's induction rules have an operator as parameter and cannot be used, so
`WordsProofs` has a rule about sets instead: a nonempty set of numbers has a least
element (`LeastElement`), hence a set with 0 and closed under successor has all
(`SetInduction`).
The step of each induction halves the word (`BitOfHalf`, `FlipOfHalf`), from
`PowerStep`, `2^(n+1) = 2 * 2^n`. `Scan` and `ffs` choose their result by what it
must satisfy; it is unique (`FfsUnique`).

### The server's free tables

`TableServerProofs` also proves:

| Theorem | States | Assumes |
|---|---|---|
| `NoTableLeaks` | `NoLeak` always | no restarts; the SELECTs and the sweep's DELETE work |
| `RefusesOnlyWhenFull` | `RefusedOnlyWhenFull` always | the same, and one full word of tables |
| `TwiceIsEnough` | no request of an enabled family is ever refused | two tables for each identity, a full word; the SELECTs and the sweep's DELETE work |

The first two are about a map that is exactly the complement of the rows
(`MapExact`, in `ExactInv`): every handler changes a bit with its row, and gives a
bit back when the INSERT fails. A restart ends this: a start does not mark the
rows that have expired (`LeakAfterRestart` is where it hurts), so crashes are
excluded. `TwiceIsEnough` says what is left of it with any number of crashes and
reboots. Bits and rows then disagree, but only on tables that had an expired row
at the last start, at most one for each identity: `StrayInv` bounds the number of
such tables by the number of identities. The rows of the others are as many
again, less the one that asks, so some configured table is free.

### The client

`TableClientProofs` proves, for any server:

| Theorem | States | Assumes |
|---|---|---|
| `ClientTypeCorrect` | `TypeOK` always | - |
| `GivesUpAfterFailLimit` | `TriesFiveTimes` always | - |
| `ClientNeverDormant` | `NeverDormant` always | callbacks on time (`Prompt`) |
| `ClientLeavesNoRules` | `CleanExit` always | netlink does not fail; one table for each identity, shared with none |
| `OnlyTwoStepsBreakRules` | `RulesFollowLease` as long as no step is an `AnotherTable` or a `ForeignRemoval` | - |
| `ClientEndsWithAnswer` | `[][EndsAnswered]_vars`, the safety half of `ScriptGetsAnswer` | - |

`CountInv` counts what was sent against `num_failed`, from which a client that
gives up has sent all it may. `TimerInv` adds that replies in the queue were
granted in this second, so that the unsigned difference to their expiry does not
wrap; with late callbacks it can, and `NeverDormant` fails. `CleanInv` says that
every rule belongs to a running client that has its table, which makes the
deletion complete. `RulesFollowLease` is false of the code as it stands, and the
theorem says exactly where, for every server, any tables offered to anyone and
several processes of an identity. `AnotherTable`: a running client that has its
rules reads a reply with another table, and `rules_added` keeps the old rules
(`SharedTable`). `ForeignRemoval`: a client deletes its rules without a table, which
matches those of any (`ForeignRule`), or in the table of another client that has
rules. With only one of the two excluded TLC finds a counterexample; with both,
every deletion misses the rules of the others (`DeletesOnlyOwn`). That neither
happens while no lease runs out is not assumed of this server: `RoutingProofs`
proves its properties of the composition. `ClientEndsWithAnswer` needs of
`CountInv` that a client in the background has printed a table.

### The composition

For any number of clients and addresses, and every configuration of the server:

| Module | Theorem | States | Assumes |
|---|---|---|---|
| `AllocatorSystemProofs` | `HostTypeCorrect` | `TypeOK` always | - |
| | `HostImplementsClient` | `Spec => ClientSpec` | - |
| | `BelievedLeasesAreStored` | `BeliefBacked` always | one process for each address; no `"flap"` |
| | `HostImplementsService` | `Spec => HostServiceSpec` | the same |
| `RenewalProofs` | `LeasesNeverRunOut` | `LeaseKept` always | the same, `OutlastsOutage`, `RoomForAll` |
| `RoutingProofs` | `AddressesShareNoTable`, `ScriptAndClientAgree` | `TablesUnique`, `RulesFindRoutes` while no lease runs out | one process for each address; no `"flap"` |
| | `RulesEndWithAddress` | `RulesHaveAddress` while no lease runs out | and no `"early_removal"` |
| | `HostStaysConfigured` | the three of them always | all of these |
| `RenewalProofs` | `NoClientGivesUpInVain` | `NoFalseFailure` always | as `LeasesNeverRunOut`, and `OutlastsFailures`, `TablesForAll` |

The assumptions are on the constants. `"flap"` and `"early_removal"` are the two
events above, which break these properties; `SharedTable` is what happens when a
lease does not outlast an outage. `OutlastsOutage` says that
`Retransmit * (MaxOutage + MaxCrashes)` is less than the second half of a lease;
`OutlastsFailures`, that `Retransmit * (MaxCrashes + 1) + MaxOutage` is less than
`Retransmit * FailLimit`; `RoomForAll`, that the server's socket holds a request and
a release of every other address; `TablesForAll`, that there are two tables for every address. The constants of `System` meet them, but for the last: the run
has a table for each address only, since none of its leases can end before its
only crash. With four tables TLC finds the same states.

The argument. The proofs of the server and of the client are instantiated as
`AllocatorSystem` instantiates the components (`SP`, `CP`), and each step of the
host is shown to be a step of both (`ServerStep`, `ClientsStep`), so their
inductive invariants hold of the host (`ComponentsInv`) without being proved again.

* `BeliefInv` relates a client to the database. A client learns of a lease from a
  reply, so the replies in its queue must be backed by rows too; a row goes by a
  release, which the client itself has sent when it ended, so a release in the
  queue must be the last of its identity (`ReleaseLast`). This is where `"flap"` would
  break it.
* `ServedInv` is `BeliefInv` and `TableMail`, no reply without a table is ever in a
  queue: such a reply answers a release, and who sent it has closed its socket
  (`ReleaseLast`). With it each reply that is read is a `Grant` of `LeaseService`
  (`ReadIsGrant`): it is read in the second it was sent, so its lease has its full
  time left; its row and the row of what the client still believes are one, by
  `OneRowPerIdentity`; and a row has one identity, so no other client believes in
  that table. A removed address is a `Release`, everything the server does is a
  stutter. A lease may run out and the table be given away; `LeaseService` allows
  that, so neither `OutlastsOutage` nor a bound on crashes is needed.
* `KeptInv` is a budget. A client is due at half its lease; each crash and each
  second of outage costs at most one retransmission (`Losses`), so its request
  timer is never later than half the lease plus the losses. A request under way is
  counted as answered until the crash that takes it. That it is answered needs a
  row (`BeliefInv`), and that it is queued needs room: no datagram is queued twice,
  so there are at most two of each other address (`RoomToAsk`).
* `HostInv` relates the script's routes, the client's rules and its table. The
  table never changes under a running client, because its row is there when it renews (`TableStays`,
  from `LeaseKept` and the server's `OneRowPerIdentity`); two clients with one table would be two
  identities in one row. The script reads what the client printed, which is that table.
* `FirstInv` is the budget of a client without a lease. `Unanswered` requests at
  `Retransmit` each are within the `Allowance`: one for each time the server is
  down, the seconds of the outage, and while it is down what is left until the next
  request. There is no row to rely on, so that a running server answers is
  `StrayInv` of `TableServerProofs`.

These invariants were checked with TLC before they were proved.

### Only model-checked

Liveness: `LeasesExpire`, `ScriptGetsAnswer` and `Listens`, since the proof system has
no fairness or ENABLED. Every invariant, action property and refinement of the
passing runs has a theorem; some of them have assumptions that their runs do not
need, as the tables say. That `FlipBit`, `Bit` and `ffs` are C's `^`, `&` and `ffs(3)` is
an assumption of `MCTableMapWords`, evaluated by TLC on every 4-bit word.

## Plan

1. Done: map, server, service, client; the composition with the scripts;
   messages, configuration, command line, server socket.
2. Done: theorems for every safety property of the passing runs, and for the
   three refinements.
3. Still worth having: `NoFalseFailure` with one table for each address. In general
   it needs two, because the release of an expired row after a restart loses
   a table (`LeakAfterRestart`); it should hold where no lease ends during an outage.
   And `ClientLeavesNoRules`, which takes one table for an identity, for servers
   that give several; with this server `RoutingProofs` has it.
4. Larger steps of the scripts: the TIMEOUT branch, which starts the client
   before it adds the address.

## Not modelled

* The text of JSON beyond its length, of SQL and logs; libuv, SQLite, json-c and libmnl beyond what
  the code uses of them.
* The resolver file of dnsmasq and the udev cleanup, which only edit that file
  and kill dhclient: no state of the allocator depends on them, and without a
  lock nothing but their race could be stated.
* Alias addresses, metrics and the MTU of the scripts; the NetworkManager branch
  of the ifup script, which adds routes and removes none.
* Packaging, except for `Restart=on-failure`.
