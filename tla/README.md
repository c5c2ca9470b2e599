# doze-names in TLA+

doze-names gives the services of a development machine names under `.doze`,
each with a loopback address of its own. There is no server that owns the
names: every program that uses the library opens the same files, and whichever
program comes first answers DNS queries or holds the front door's ports for all
of them. What makes it work is what many processes do to a few shared files and
sockets in an order nobody chose. This directory specifies that in TLA+, checks
it with TLC and proves the core of it with TLAPS.

Contents: [parts](#the-parts-of-the-system), [modules](#modules-and-the-code),
[runs](#runs), [bounds](#bounds), [fairness](#fairness), [proofs](#proofs),
[divergences](#where-the-code-and-its-text-differ),
[not modelled](#what-is-not-modelled), [plan](#plan).

## The parts of the system

Paths are under `src/`.

**Registry of names** (`registry.go`, `lock_unix.go`). State: `names.json`
(names, stacks and a format stamp), a lock file, and in each program the
`Lease`s it was given. Operations: `Claim`, `ClaimAt`, `Lease.Twin`, `Route`,
`RouteFor`, `Certificate`, `Release`, `ClaimStack` and the function it returns,
`Snapshot`. Each is one call of `update`: lock, read, refuse a newer format,
drop dead programs' entries, change, write a temporary file, rename. Hard: a
program dies at any point, lock in hand or not; pids come back; programs of
three formats share the file; a write fails after the lease was made up.
Correct when: two programs never have one address, a program was told what the
file says, no update costs a peer anything, a stack stays with its project.

**Address pool** (`pool.go`). No state: the address of a name from its hash and
the addresses taken, by a probe that skips reserved offsets and wraps. Correct
when it gives only usable host addresses and fails only on a full block.

**Translated ports** (`listen.go`, `portsfile.go`, `heal.go`; macOS). Where the
address cannot be bound, a private port stands for the public one. State in
three places: `Entry.Ports` in the registry, `names.ports.json` beside it, and
`Registry.forwards` in each program's memory. `setPort` writes all three one
after the other; `claim` and `Release` forget; a healer in each program puts
back what an older release, which does not know the field, rewrote away. Hard:
three threads per program over two files with two locks. Correct when no name
is ever given another program's port, and a port that is kept is restored.

**Network daemon** (`netd_*.go`, `tablecache.go`, `nat.go`). Translates packets
by a table built from the two files, read without a lock and cached by their
stamps. A routed name that has not
taken port 80 for itself is answered by the front door's holder, whoever that
is. Correct when an unchanged stamp means a current table, and a connection
never goes to a program that has not the name.

**Resolver and front door** (`resolver.go`, `ingress.go`, `netd.go`). Each
program tries to take the DNS socket, and the http and https ports; the holder
records its pid in the registry; the others wait and retry. Hard: bind and
record are two steps, as are close and removal; holders die, are closed, or
lose the socket by an error; a bind fails for other reasons than a holder, and
an update of the registry fails unnoticed. Correct when whoever serves is whom
the registry names, a closed program is not named and holds nothing, and a free
port is taken.

**Certificate authority** (`ca.go`). State: `root.key`, `root.crt`,
`previous.json`, leaf certificates, a lock; in each https door a cached
authority. Operations: `LoadOrCreateCA`, `RotateCA`, `CurrentCA`, `Leaf`. Hard:
only creation is locked; the pair is two renames; programs die between them.
Correct when programs that start together replace no root, a rotated root stays
remembered, and doors follow the root on disk.

**Domains, routes, trust** (`domains.go`, `routes.go`, `trust*.go`). Domains
are registry entries with a target and perhaps the person's own certificate.
State: the record of which projects declared which domains, and what the
machine really routes: on Linux a drop-in that states the whole list and the
link that carries it, on macOS a file for each domain, other tools' beside
them. Operations: `RecordDomains`, `ForgetProject`, `RouteRemoved`, `Trust`,
`Untrust`. Hard: the privileged script is made from what was read before a
prompt, and runs whenever the person answers it; other projects record, drop
and run scripts meanwhile. Correct when what is routed is remembered, and no
late run takes another project's claim, or a declared route that it was not told
to take and could have known of.

**DNS answers** (`resolver.go`, `upstream.go`; the proxy of `ingress.go`).
State: the cached list of upstreams with the time it was read, a goroutine for
each query that is forwarded. A query is answered from the registry or relayed
to what the machine used before, the first upstream that answers; the relayed
answer's times to live are capped in place. Hard: the same walk decides the
answer and the proxy's target while names come and go between them; a stub may
send a query back; upstreams are silent, answers are cut short; the socket
changes hands. Correct when the most specific name owns a host, queries leave
only when they should, each is answered, and a client that was told something
else in time gets to a name that is routed.

**Packet translation** (`nat.go`; macOS). No state: a packet is turned round by
the table. Correct when a client gets the answer from where it asked.

**Machine set-up** (`setup*.go`, `resolvconf.go`). State: the hosts file, the
units and drop-ins, what runs. `install` and `uninstall` make a script that
runs step by step behind a prompt; `check` says what is in place. Hard: a
script stops at any step, over what another release or another resolver left;
users edit the hosts file, doze's markers included. Correct when users' lines
stay, `check` agrees with an install that ran through, a removal leaves nothing.

**Command** (`cmd/`). Parses arguments and calls set-up.

Interactions: everything goes through the registry. The pool is a function the
registry calls under its lock. Ports adds a field to its entries, and the
daemon reads them. Resolver and front door put their holder's pid into it, and
the resolver and the https door look names up in it for each query; every such
look is itself an `update`, hence a rewrite of the file. The record of routes is
a file of its own; trust scripts and set-up scripts write to the same drop-ins,
and a removal by set-up takes a stack's routes and authority with it.

## Modules and the code

`PROJECT.json` maps every definition to its lines.

| module | models | state |
|---|---|---|
| `Pool` | the block's layout and `addressFor` as an operator | none |
| `PoolLoop` | `addressFor`'s loop, one step a probe | the loop's variables |
| `Registry` | `names.json` and the programs that use it | `proc` what runs under a pid; `file`; `pending` an update whose lock is held; `lease`, `stacks` what callers were told |
| `Zone` | abstract: a table of running programs' names that changes at once | `running`, `zone` |
| `PoolLoopProofs` | theorems about `PoolLoop` | |
| `RegistryProofs` | theorems about `Registry`, which implements `Zone` | |
| `Ports` | translated ports and the healer | `reg`, `side`, `kept` the three copies; `set`, `drop`, `heal` where each program's threads are; `dirty` whose healer has not seen the file's time |
| `TableCache` | the daemon over `Ports`, with `Translate`, the routes and the front door's record | `routed`, `door` the rest of the registry that it reads; `stale` the stamp; `read` a refresh under way; `table` |
| `TableCacheProofs` | theorems about `Ports`, and about `TableCache` with `Translate` | |
| `Takeover` | `serveWith`, `serveConn`, `holdPort` | `at` where each loop is; `socket`, `barred` what a bind meets; `record` the pid in the registry, `lost` whose last update of it failed; `ended`, `bound`, `said` |
| `TakeoverProofs` | theorems about `Takeover` | |
| `Authority` | `ca.go` | the files `cert`, `key`, `prev`, `leaf`, `lock`; `at` and `hand` where each program is and what it has read; `ca`, `id` a door's cache |
| `AuthorityProofs` | theorems about `Authority` | |
| `Routes` | the record of routes, `Trust` and `Untrust` on Linux and macOS | `known`, `claim` the record; `folder` which projects are there; `live`, `boot`, `link`, `foreign` the machine; `ask` each project's run |
| `RoutesProofs` | theorems about `Routes` | |
| `Lookup` | which name owns a host: `lookup`, `lookupDomain` | none |
| `Message` | `capTTL` and `skipName` over the cells of a message | none |
| `Query` | the resolver's turn for a query, the upstreams, the proxy, and clients | `m` the live names; `sys`, `cache`, `fresh` the upstreams; `query`, `told` each client's query and what it keeps |
| `QueryProofs` | theorems about `Lookup`, `Message` and `Query` | |
| `Translate` | `translate` and `refuse` of `nat.go` | none |
| `Setup` | `check`, `install`, `uninstall` on Linux, the block in the hosts file | `hosts`; `have`, `up` what is installed and runs; `script` the steps left and the text they write; `env` the machine's resolver |
| `SetupProofs` | theorems about `Setup` | |

`MCPoolLoop`, `MCRegistry`, `MCPorts`, `MCTableCache`, `MCTakeover`,
`MCAuthority`, `MCRoutes`, `MCQuery` and `MCSetup` give TLC its instances.

**Registry.** An operation is the step `Update`, which takes the lock and
computes the new file from the pruned one, then `Commit` (the rename), `Fail`
(the write or the rename fails) or `Exit` (the program dies). Between the two
steps peers start and die, so a file that is renamed into place may name
programs that died since it was read. Calls that are refused write nothing:
they are guards. `update` writes the file even when nothing changed, so
`Snapshot` is an operation like the others. A pid in `Recycled` may come back,
as a doze program (`Start`) or another (`Reuse`), and the liveness test
(`alive`, signal 0) cannot tell.

**Zone** is what the registry promises: names change one at a time, at once,
and vanish with their program. `Registry` implements it with the pruned view of
the file for the table, so a dead entry that an update under way writes back is
invisible, as it is to `lookup`.

**Ports** takes an update of the registry as one step, which `ImplementsZone`
justifies. Its threads are a call of `setPort` (`portMu` admits one), a call of
`claim` or `Release` with the `forget` that follows it outside the lock, and
the healer's tick, stat, update and second stat. `Strip` is a program built
before `Entry.Ports`. Writes fail: the ports file's (`SideFails`, `ForgetFails`),
a release's, whose error goes unseen while `forget` follows, and the healer's
(`HealFails`), after which the version it was for counts as seen.

**TableCache** extends `Ports`: stamp, registry, ports file, three steps with
any of the programs' steps between them. `Program` is a step of `Ports` with
what it does to routes, which go with their entry; `Route`, `OpenDoor` and
`CloseDoor` change the rest of the registry that `readPortTable` reads. `Translate` is evaluated over whatever
table the daemon may then have, which composes the packet with the programs that
move and release their names.

**Takeover** has the loop of `serveWith`, which `holdPort` repeats; the
constant `LeavesSocket` is the one difference (an error in `http.Serve` closes
the listener, one in `serveConn` leaves the socket to a goroutine). A program
that is not doze's may bind the port and leave it; a bind may fail for another
reason (`Bar`, `BindFails`). The loop drops the error of its updates
(`RecordFails`, `UnrecordFails`), and a resolver may have been given no registry
(`NoRegistry`): what the properties say of the record they say of the others.

**Authority** has one step for each read and rename. A root is a
number, the same in key and certificate; `openCA` does not compare them, and a
door that has loaded an unmatched pair mints nothing (`x509.CreateCertificate`
refuses it). `Fault` is a death or a failed write at any step.

**Routes** has a privileged run in three parts: `Trust` or `Untrust` reads and
makes the script, `RunScript` runs it whenever the person lets it, and then
`CheckGone` and `RouteRemoved` look for and forget each stale domain, one at a
time. `linux` chooses the platform. `strays` and the `since` of a run are
history, which no action reads to decide: domains whose record went while a
route was on its way, and what others recorded or installed since a run's
script was made.

**Query** takes a read of the registry as one step, as `ImplementsZone`
justifies. `Answer` is one turn of `serveConn`; a forwarded query goes on by
`Find`, which reads the cached upstreams under their lock, and `Upstream`, one
step for each server that answers or is given up. `Switch` is the socket in
another program's hands: queries that were with the old one are sent again by
their clients, the cache is the new program's. `Visit` and `Proxy` are the two
looks at the route in `ingress.go`. `Lookup` and `Message` have the walks the
code has, each beside a definition without a walk (`MostSpecific`,
`CapsRight`). A cell of a message is a byte of a name or a whole field.

**Setup** has a script as a sequence of steps, each with the files it makes and
removes, what it starts and stops, and whether `|| true` (or a failure before
`&&`, which `set -e` passes over) lets the script go on. The hosts file is a
sequence of markers, newlines, users' lines and doze's own as one token;
`Replaced` is `replaceHostsBlock`. `Init` has a clean machine or what an older
release left. History: a script has with it the users' lines of the file it was
made from, which `users` becomes when its text is written, so that an edit made
meanwhile is lost and nothing else may be; `excused` says that `printf` has
made something else of a text.

## Runs

Passing runs:

| run | module, cfg | shows | distinct states |
|---|---|---|---|
| `pool_loop` | `MCPoolLoop` | The loop is `AddressFor`, gives up only in a full block, gives no reserved offset. | 1,400 |
| `registry` | `MCRegistry` | `OwnAddress`, `ViewAgrees`, `UpdateSafe` and the refinement `ImplementsZone`. | 110,000 |
| `stacks` | `MCRegistry`, `MCStacks.cfg` | `StackStays` and `FormatNeverLowered`, with two programs of a project, a newer one and pids used again. | 12,000 |
| `healed` | `MCPorts` | `Healed`: what a program keeps is put back. | 82,000 |
| `table` | `MCTableCache` | `NoForeignPorts`, `TableCurrent`, `TableOwn`, `DeadForgotten`; and `AnswersReturn`: a packet that is translated comes back as the answer to what was asked. | 576,000 |
| `takeover` | `MCTakeover` | `ServingIsRecorded`, `ClosedIsUnrecorded`, `RecordedBeforeBound`, `FreePortIsTaken`, `TakenIsServed`, `ClosedLetsGo`. | 32,000 |
| `authority` | `MCAuthority` | `NeverReplaced`, `RotatedRemembered`, `ServedVerifies`, `FollowsRoot`. | 470,000 |
| `routes` | `MCRoutes` | `Remembered`: what is routed, or will be at the next boot, is in the record; `ClaimKept`: no run takes another project's claim; `RouteKept`: nor a declared route that it was not told to take and could have known of. | 2,200,000 |
| `query` | `MCQuery` | `OwnsMostSpecific`, `OnlyOthersLeave`, `RelayedCapped`; `Answered`: every query is; `Reached`: a routed host is reached at last whatever its client had been told. | 100,000 |
| `setup` | `MCSetup` | `UsersKept`, `DoneIsSeen`, `UndoneIsGone`. | 4,700,000 |

Runs that find a violation (see [below](#where-the-code-and-its-text-differ)):
`start_together`, `bytes_preserved`.

Every property of a passing run has a mutant in `PROJECT.json`: a plausible
slip in the code (a lock not taken, a guard dropped, a stamp taken late, a
record dropped whoever's it is) that makes the run fail. The mutants stand in
the modules before the definition they replace, marked as such.

## Bounds

- `pool_loop`: octets of five values and two thirds, six slots; two of them are
  below `DynamicBase`, so that skipping, wrapping and filling up all happen.
- `registry`: two programs (symmetric), a block with two dynamic addresses, two
  names that hash to the second of them, one well-known name, so the probe
  wraps and the block fills. `Asked` has a dynamic address and the shared one
  outside the pool. No counter: the state space is finite. Two programs are
  enough for the file's hazards, since the lock admits one update and each
  property speaks of a pair; the theorems remove the bound.
- `stacks`: three programs, one stack, two projects: one program takes the stack
  over from the other of its project, one of another project comes between, and
  one of each comes back under a pid used before.
- `healed`: one program, two private ports, two addresses, `MaxStrips = 2`
  older rewrites, `MaxSets = 2` ports set; either file's write may fail. The healer's hazards are within one
  program and against the older one; two rewrites put one before and one inside
  the healer's turn.
- `table`: two programs take turns at one name at one address; one listens on a
  port of it (`MaxSets = 1`), the other has the front door (`Doors`); no older
  program. What could go wrong needs one change between two reads.
- `takeover`: two programs, one of them without a registry, a stranger,
  `MaxBreaks = 1` error. `LeavesSocket` is TRUE, which has every behaviour of
  FALSE too. Updates and binds fail without a bound.
- `authority`: two daemons, one rotator, one door, `MaxCalls = 3` calls of
  `LoadOrCreateCA` and `RotateCA` together (so two daemons and a rotation, or
  one daemon and two rotations), `MaxLeafs = 1` certificate minted,
  `MaxFaults = 1` death or failed write. A handshake beyond the bound fails, as
  one whose mint fails does.
- `table` has three ports for clients: the name's public port and the program's
  private one, the cases in which a question looks like an answer, and another.
- `routes`: two projects and two domains, both symmetric, on either platform.
  No counter. Each property speaks of one project's run and what another did
  beside it; the second domain is what a list that is restated whole may take
  along. The theorems remove the bound.
- `query`: a client of this machine that wants a host of the zone or one under a
  wildcard, and one from elsewhere (`Want`); an apex and a name under it, a
  domain and a wildcard over it, of seven labels (`Label`). Two lists of upstreams: a stub, and a silent
  server before one that answers with a chain of two records or one, whole or
  cut at each field. `RelayTTL = 2`, below and above which the records' times
  are; `MaxSwitch = 1`, since without a bound the socket could change hands for
  ever and no query would be answered.
- `setup`: `MaxChanges = 3` edits of the hosts file, changes of resolver or
  trust by a stack, so each may fall before, in and after a script; installs
  and removals are not bounded. Files that are empty, and that end with and
  without a newline. `bytes_preserved` has one line with a `%` and no change.

`CHECK_DEADLOCK FALSE` stands where programs really end: every program may
exit, and in `PoolLoop` and `Authority` the calls run out.

## Fairness

`Registry` has none: its properties are about safety. A program may stop
anywhere.

`Ports`: weak fairness of the healer (its ticker fires for as long as the
program runs), and of a call that has begun. No operation has to be called.
`Healed` also needs `WF(Touch)`, somebody who reads the registry again and
again (`BusySpec`): a rewrite that falls between the healer's update and its
second look at the file's time is taken for its own, and only a further write
makes it look once more; so it is when the healer's own write fails. That write
does not fail for ever either (strong fairness of `HealUpdate`). The resolver looks every query up through `update`, so
a registry that is in use is written all the time. In one that is idle the
property fails; that is listed below.

`TableCache`: weak fairness of the timer's forced refresh and of its two reads.

`Takeover`: weak fairness of each loop and of the goroutine that closes a
socket. Nobody has to close, a stranger may stay for ever.

`Authority`: a door's handshake that has begun ends (weak fairness), and its
look at `root.crt`, which comes due every two seconds among other handshakes,
is taken again and again when it is due (strong fairness, since each handshake
in between disables it for a moment). Daemons and the rotator have none: they
may die half way.

`Query`: weak fairness of what serves a client (the resolver's loop, a forwarded
query's goroutine with its time-outs, the front door). A client of this machine
that wants a host keeps asking for its address, forgets an answer when its time
to live is up, and goes to an address it has been told: strong fairness of `Ask`
and `Visit`, since names that come and go disable them for a moment, and weak
fairness of `Expire`. This is `Reached`'s premise, a client that goes on trying;
`Answered` needs only the first. No name has to be claimed and no upstream has
to answer.

`Routes` and `Setup` have none: a person may leave a prompt alone for ever.

## Proofs

Eight modules prove theorems, for every value of the constants and runs of any
length. Each names its inductive invariant, with one lemma for each action or
group of actions, and says what holds by it. What follows is what is proved,
and why the property is not inductive by itself.

**`PoolLoopProofs`**, for every block, hash and set of taken addresses:
`LoopIsAddressForHolds`, `GivesUpOnlyWhenFullHolds`, `HandsOutHostsHolds`. `Inv`
says that no slot tried so far was usable, and that what is in hand is the one
of the present turn. The rest is arithmetic: division has one remainder
(`Remainder`), a slot's offset avoids the octets 0 and 255 in blocks of any size
(`SlotIsHost`), and the probe meets each slot once wherever it starts
(`EverySlotIsTried`), so that giving up means a full block. The first theorem is
what lets `Registry` use `AddressFor` as one operator.

**`RegistryProofs`**, for every block, every set of programs, names, stacks,
targets and versions:

- `TypeCorrect`: `Spec => []TypeOK`. It rests on the lemmas that `slotOffset`
  and `addressFor` stay inside the block.
- `OwnAddressHolds`: `Spec => []OwnAddress`, recycled pids included.
- `ViewAgreesHolds` and `UpdateSafeHolds`, when no pid is used twice
  (`Recycled = {}`).
- `FormatNeverLoweredHolds`, when every program knows formats (none has
  `Version` 0: an old program drops the field, as the code says).
- `StackStaysHolds`: a stack that a program holds on file leaves its project by
  that program's release only, for any number of programs of a project; pids
  used again included.
- `StackOneProjectHolds`, when each project has one program (`OneProgramEach`):
  where one takes a stack over from another of its project and releases it, the
  stack is free, a divergence listed below. Recycled pids are included.

`OwnAddress` is about the file, and a commit replaces the file by one computed
earlier, so the invariant says it of pending files too. Each operation changes
at most one name (`OperationChanges`): it drops one of the program's own, or
takes one that was free or its own, at an address no other program has. So the
new file is good if the pruned old one is (`ChangesOwn`), and pruning only
removes. `ViewAgrees` needs more: between update and commit the file must not
change under the holder of the lock and peers must keep what they have. The
inductive invariant `Inv` is `TypeOK`, `OwnAddress`, `ViewAgrees`, `UpdateSafe`
(one pending update, of a running program, whose file agrees with what its
caller will be told and with what every live peer has) and `NewHasNothing` (no
entry stands under a pid that was never used). With pids used again the last is
false: the newcomer finds the dead one's entries under its own pid, which is why
the assumption is there. `Formats` and `StacksKept` do the same for formats and
stacks: they say it of the pending file as well as of the file. `StackSafe` says
of a pending file that it takes a stack from no project whose program still
holds it (`UpdateStackSafe`), which a peer that dies meanwhile only makes easier
(`Remains`).

`ImplementsZoneHolds` is the refinement, when no pid is used
twice. `ZoneInv` adds to `Inv` that a pending file still differs from the live
part of the file in one name of its program (`OneChange`), though peers start
and die while it waits. Then a commit is a `Zone` step of that name or a
stutter (`CommitMaps`), a start or a death is its own (`StartMaps`, `ExitMaps`),
and the rest changes nothing that `Zone` sees (`SameSeen`).

**`TableCacheProofs`**, for any number of programs, names, ports and rewrites by
older programs:

- `PortsTypeOKHolds`, `NoForeignPortsHolds` of `Ports`. `OwnPorts` says of every
  copy of a port, in the registry, the ports file, a program's memory and the
  hands of each of its threads, that it is of the program that holds the name
  there; what a thread has looked at may be old by the time it writes, but is
  still that program's.
- `TableCurrentHolds`, `TableOwnHolds` of `TableCache`. `CInv` adds that what the
  daemon has read is the registry as long as the stamp has not changed
  (`Fresh`), and that no mapping leads to another program's port.
- `AnswersReturnHolds`: in any such state a client's packet is refused, or gets to
  the program that is mapped and its answer comes back from where it had been
  sent to, as long as no two public ports of an address lead to one private port
  (`OnePublic`; the code lets two, see below). It says so of every client whose
  own port the table has not as a private one of that address, and nothing of the
  others (see below).
  `TurnedPacket` and `Refused` say what the operators of `Translate` return.

**`TakeoverProofs`**, for any number of programs and either loop: `TypeOKHolds`,
`ServingIsRecordedHolds`, `ClosedIsUnrecordedHolds`, `RecordedBeforeBoundHolds`.
`Held` ties the place of each loop to socket and record: the socket from the
bind on, the record from the claim until it stops serving unless that update
failed, and a record names only whom there is still something to unrecord for, a
dead program, or one that failed to.

**`AuthorityProofs`**, for any number of daemons, rotators, doors, calls and
faults: `AuthorityTypeOKHolds`, `ServedVerifiesHolds`, `NeverReplacedHolds`, and
`RotatedRememberedHolds` with one rotator (`OneRotator`). `NeverReplaced` is about
the time before any rotation, and a root that is there: a start beside a rotation
may find no root and make one over the rotator's. Type correctness needs
a count: there is a number for each root because each call that may still make
one is owed one (`Counted`). `Loaded` says that a leaf on its way is of the root
the door has loaded. `PrevRead` says that what a rotator has read of
`previous.json` is still there, which a second rotator would break. `Creating`
says that until there is a rotation the lock is its holder's alone and what it
has seen missing is missing. The roles are disjoint (`AuthorityAssumption`).

**`RoutesProofs`**, for every set of projects and domains, on either platform,
and any number of prompts open at once: `RememberedHolds`, `RouteKeptHolds`,
`ClaimKeptHolds`. What a script does was decided before its prompt, so
`Remembered` and `RouteKept` depend on what each waiting run relies on, `RunOK`:
what it will install is in the record or was dropped from it meanwhile
(`strays`); it does not forget what it installs; a declared domain whose route
it will take, and a route that stands though it will be forgotten without
another look, came after the run had read (`since`), or its caller named it
(`AskedToGo`). `Inv` is `TypeOK`,
`Remembered` and `RunOK` of every project. `NotedGoesOn` and its like say that
what others do only adds to a run's history. `ClaimKept` follows from `Inv` and
`Removable`: `RouteRemoved` takes claims of domains whose claimants' folders are
gone.

**`QueryProofs`**:

- `MostSpecificHolds`: for any registry whose domains `ValidDomain` would let
  through and any host, the walks of `lookup` and `lookupDomain` find the most
  specific name that speaks for the host, and nobody if none does.
  `OwnsMostSpecificHolds` is that for every state of `Query`. The walks are
  recursive functions, and induction over an operator is out of the prover's
  reach; but a walk stops at the first of the numbers at which it may, and a set
  of numbers has a least member (`LeastNumber`, `FirstStop`, `WalkStops`).
- `OnlyOthersLeaveHolds`: `Leave` says that a query found to be somebody else's
  is of a client here and a host outside the zone until it is answered, and that
  the cached upstreams and every list in hand are free of stubs, which is what
  `own` leaves (`UsableHasNoStub`). It holds for whatever lists the machine
  changes between.
- `CapsRightHolds`: `capTTL` does to a message what a reader of it expects, for
  any records, cap and cut. Such a body is the question and its records' cells
  one behind the other (`WholeIs`, `PartsBegin`), and its capped one has each
  record in the same place (`CappedLies`). `SkipName` is a function, since each
  turn is further on (`SkipNameIs`); it gets over a name exactly if the body
  goes on to the name's end (`SkipsWhole`). So after i records the walk is
  behind them and has written their times, or is lost if the body ends sooner
  (`Behind`, by `WalksOne`). The assumption is that an upstream's records were
  whole before the cut: names of labels up to a zero or a pointer
  (`WholeName`), and data of the length they state. `RelayedCappedHolds` is
  that for every answer to a query, by `Leave`.

**`SetupProofs`**, for any hosts file of lines, any lines of users, either
resolver, and any number of edits, scripts and failures: `UsersKeptHolds`,
`DoneIsSeenHolds`, `UndoneIsGoneHolds`. Two arguments meet in `Inv`.

- The hosts file. Unless `printf` has made something else of a text, the file and
  the text of every script under a prompt, read before an edit or not (`ReadOK`),
  are `Good`: its lines are separated, it has one begin marker at most, and
  between that and any end marker after it there is no line of a user's
  (`Whole`). Without `Whole` a removal could take users' lines with the block.
  What `replaceHostsBlock` makes of a good file is good and has the same lines
  of users' (`ReplacedBlock`, `ReplacedNothing`), the block once or not at all,
  and the same again if it is replaced again (`Placed`); so is what an edit
  makes of it (`LineInFront`, `LineAtEnd`, `MarkerGone`), an orphaned marker
  included. `Users` is a recursive function: that it is what its equation says
  is `Recursion`, and that it takes a file apart into lines is `UsersConcat`
  and `UsersCut`. These are inductions over one function at a time, said with
  the set of numbers up to which it holds (`UpTo`).
- The script. As long as nobody has changed anything beside it (`Fresh`), each
  file an install needs is there or a step to come adds it that the script does
  not go on without, and no step to come removes it (`Comes`); a removal has the
  reverse (`Goes`); the text is in the file or will be; and the last step of an
  install starts the daemon. `InstallIs` and `UninstallIs` say so of whole
  scripts, `TailIs` takes it from a script to what is left of it.

The assumptions are those of the modules on their constants
(`PoolAssumption`, `RegistryAssumption` and their like), which TLC evaluates in
each run, and those named above.

Only model-checked:

- liveness (`Healed`, `DeadForgotten`, `FreePortIsTaken`, `TakenIsServed`,
  `ClosedLetsGo`, `FollowsRoot`, `Answered` and `Reached`),
  since the prover does not handle fairness and ENABLED.

Every other property of a passing run is stated by a theorem.

What a hypothesis leaves out is neither proved nor checked: pids used again
for `ViewAgrees`, `UpdateSafe` and `ImplementsZone`, two rotators for
`RotatedRemembered`, several programs of one project for `StackOneProject`,
clients with a port that is private for `AnswersReturn`, and a program without formats for `FormatNeverLowered`. All but two rotators
are known to fail, as the code allows; see below.

## Where the code and its text differ

Each of these has a run that finds a shortest counterexample.

- `start_together` (`ca.go:70`): the look outside the lock reads the
  certificate, then the key; a daemon that looks while a peer is making them
  finds half an authority and fails.
- `bytes_preserved` (`setup_linux.go:287`, `:355`): the text of the hosts file is
  `printf`'s format, so a line with a `%` is changed or ends the file there.

Others were met while modelling and have no run at present:

- A well-known service's fixed address is granted though a `ClaimAt` of another
  program has it (`registry.go:183`, `pool.go:159`), which is why `OwnAddress`
  speaks of dynamic addresses. Claiming a domain again drops the person's
  certificate, while the route is carried over (`registry.go:196`). A name that
  has a twin moves when claimed again, since the twin's address counts as taken
  (`registry.go:176`). A port that is closed between the healer's tick and its
  update is put back into the registry for good (`heal.go:72`).
- A domain that is dropped while a script waits to install it is withdrawn from
  the record, and then routed with no record of it, against `routes.go:11-14`
  and `:85-91`; `Remembered` sets these apart (`strays`).
- `Untrust` takes the routes it is asked to, those another project declares
  included, against `trust.go:193-194` ("Routes other projects still declare are
  kept"), which leaves it to the caller to name only its own; `RouteKept` sets
  these apart (`AskedToGo`). On Linux a script restates the list as it was read:
  routes declared or installed while its prompt was up are taken
  (`trust.go:44`, `since`).
- What is added to the hosts file while a prompt is up is lost, since the text
  was made before it (`setup_linux.go:244`; `UsersKept` allows for that and for
  nothing older). The copy of the daemon may fail
  before `&&`, where `set -e` does not look; the new unit then stands over the
  older program and `check` finds it in place (`setup_linux.go:313`,
  `netd.go:87-90`). A removal looks in `Home()`, an install in `setupHome()`.
- Forgetting a root that is no longer trusted reads the list of rotated ones and
  writes it back without a lock, so a rotation between the two is lost
  (`ca.go:265-278`).
- `capTTL` also changes the flags of an OPT record, which are where a record's
  time to live is (`upstream.go:181`, against `:157-158`). The proxy looks the
  route up twice, and the two may differ (`ingress.go:355`).
- A private port, a dead program's until the table is built again, may be a
  client's own port, whose packets are then taken for the service's answers
  (`nat.go:86-88`; `AnswersReturn` leaves such clients out). Two public ports of a name may
  have one private port, and an answer then comes from either
  (`listen.go:182`).

- A second process of a project takes a stack over and its release frees the
  stack though the first runs, against `registry.go:394` ("for as long as this
  process lives").
- A program under a dead one's pid inherits its route, against
  `registry.go:193` ("any route this process already published").
- A format stamp goes with its writer, not with the last program that
  understands it, against `registry.go:362-364`.
- The healer puts ports on a name that has moved, before `claim`'s `forget`
  (`portsfile.go:21`); a `Release` that crosses a `setPort` leaves ports in the
  ports file (`heal_test.go:77`); a `setPort` after an older program's rewrite
  drops the name's other ports from it (`portsfile.go:14`).
- A rewrite between the healer's update and its second look is missed until the
  next one (`heal.go:40`); a replaced port that the healer wrote back can reach
  the ports file, which wins over the registry (`tablecache.go:13`); the
  healers of two programs wake each other with every write (`heal.go:99`).
- A peer whose bind fails between the holder's bind and its record announces a
  stranger (`resolver.go:62`); the redirect goes by a record that outlives the
  socket (`ingress.go:301`); a socket left by an error is never retaken by its
  own program, which waits beside it until it is closed (`resolver.go:112`).
- A death between the rename of a new root and that of `previous.json` forgets
  the root that was replaced (`ca.go:192-240`); two rotations, or one beside a
  first start, may leave a key and a root that do not match for good
  (`ca.go:197`).

## What is not modelled

- Text: parsing and formatting of names, of DNS queries (`parseName`; a query
  that cannot be parsed gets no answer), of certificates, of `resolv.conf` and
  `scutil`'s output beyond the decision which server is doze's own. A registry
  or an authority file that does not parse.
- Time: certificates about to end are a nondeterministic choice (`Refuse`), the
  authority's own expiry is left out; timers are fairness.
- `Ports`, `TableCache` and `Takeover` take an update of the registry as one
  step; only in `Ports` and `Takeover` may it fail. In `TableCache` a new file never
  has an old one's stamp: each is a new inode with its own time.
- `Authority`: one rotation at a time (the command is a person's), one
  handshake at a time in each door, one domain, and two roots never have the
  same time and size on disk. Forgetting roots the machine no longer trusts
  belongs with the trust scripts.
- `Routes`: the authority's part of `Trust` and `Untrust`, and the record's own
  file, whose update is one step under its lock. `Query`: clients that give up,
  and https. `Translate`: lengths, sequence numbers, checksums.
- `Setup`: macOS and Windows, a script that is printed and not run, and a write
  that fails half way. `check` is compared without the sysctl, which install
  goes on without.
- Windows' lock, `canBind` and other probes of the system, the redirect to
  https, opening the daemon's interface, and the command.

## Plan

1. Done: `Pool`, `Registry` with `Zone`, `Ports`, `TableCache` with `Translate`,
   `Takeover`, `Authority`, `Routes`, `Query` with `Lookup` and `Message`,
   `Setup`, and the theorems of all of them.
2. Then, as far as they are worth a model: two rotations of an authority at
   once, forgotten roots and the authority's part of trust, set-up on macOS.
