# TLA+ models of the slipmesh Talos extensions

Specifications, model-checking runs and proofs for the daemons of this repository: what
each one promises about the kernel state, the file or the child process it owns, and what
happens to that promise when requests fail, other programs interfere, the process dies or
its config changes.

## The system

Three daemons run on a node, each in a Talos extension container that is restarted
whenever its process exits (`restart: always`), each reading a static config once at
start. They share no state and send each other no messages; they meet in the kernel and
in bird, which learns the routes `awg` installs by their protocol number. A generator on
the operator's workstation writes their configs.

| component | state it keeps | operations | hard behaviour |
| --- | --- | --- | --- |
| `awg`: startup (`main.rs`, `gc.rs`, `interface.rs`) | none of its own; links, addresses, ports and peers in the kernel | collect foreign links; per interface: link, addresses, up, identity, peers | crashes between requests, refused requests, ports reused by a successor, DNS failures, config changes |
| `awg`: tracking loop (`handshake.rs`) | `installed`, the routes it believes in; the published verdict | seed from the kernel; every second: dump, add, delete, publish | memory against kernel, prefixes moving between interfaces, failures halfway, restarts |
| `awg`: metrics (`metrics.rs`) | a genetlink client in a mutex | answer a scrape from the verdict and its own dumps | time-outs, connections dropped in the middle of a scrape, scrapes queueing for the client |
| `nftables` (`main.rs`, `ruleset.rs`) | none of its own; tables in the kernel, the `nft monitor` child | look up the default route, apply, watch, check, reapply | resets by others at any time, a monitor that subscribes late or goes away, failing commands |
| `router` (`main.rs`, `bird.rs`, `birdc.rs`) | the bypass cache, `render_lock`, `bird.conf`, the bird child | resolve, render, write, `birdc configure`; check health and nudge | two loops over one file, outages upstream, a bird that answers late or never |
| `router`: resolver (`resolver.rs`, `cidr.rs`) | the requests in flight | ask the sources, aggregate, subtract | answers in any order, one failing, networks that overlap or have host bits set |
| `taloscfg`: commands (`main.rs`, `secrets.rs`, `edit.rs`) | `slipmesh.yaml` and the patch files | `generate`, `rw-add`, `rw-del`, `rw-inspect` | crashes between files, two invocations at once |
| `taloscfg`: documents (`slipmesh_file.rs`, `merge.rs`, `defaults.rs`, `patch_file.rs`) | none | read, refuse, aim and merge documents; add default templates; assemble a host's patch file | documents that are aimed, merged, deleted and edited in any order |
| `taloscfg`: topology (`mesh_config.rs`, `render.rs`, `addressing.rs`) | none | validate; derive each node's two configs | ends of a link rendered by different runs |
| `common` | the netlink sockets | one request each | refused requests, partial ones |

What makes each correct:

- tracking loop: a wanted route it remembers is in the kernel; a verdict claims no missing
  route; no route it ever installed escapes it; fresh peers end up routed, stale ones not.
- startup: a converged interface agrees with the config whatever was there before; nothing
  the config has is taken down on the way; the process gets to its loop.
- nftables: rules loaded once; foreign tables untouched; a loss is noticed and repaired.
- router: bird runs what the file says and never reads half of it; an outage does not blank
  the bypass; upstream changes and stuck protocols are followed up; no loop starves.
- metrics: every scrape is answered, and lacks what failed in this scrape and nothing else.
- resolver: the routes are what is included and not excluded, under the right label.
- taloscfg: both ends of a link agree; a key in use is never rotated by accident; what is
  said of a host by the most specific document holds; a host comes up on what it is given.

`PROJECT.json` lists every component with its status, and under `hazards` each place where
this code can go wrong in a way a test would hardly reach, with the properties that would
notice.

## Modules

| module | what it is |
| --- | --- |
| `HandshakeRoutes` | the tracking loop beside the kernel's tagged routes and handshakes |
| `RouteLease` | what the tracking loop promises the node, without passes or memory; `HandshakeRoutes` implements it |
| `HandshakeRoutesProofs` | the theorems of both |
| `NftWatchdog` | the nftables daemon beside the kernel's tables, the monitor and the others on the node |
| `NftWatchdogProofs` | its theorems |
| `RouterReconcile` | the router's tasks beside `bird.conf`, bird and the upstream sources |
| `RouterReconcileProofs` | its theorems |
| `BypassResolver` | a call of the router's resolver, with its questions upstream and the arithmetic on networks |
| `BypassResolverProofs` | its theorems |
| `AwgStartup` | the startup of `awg` beside the kernel's links and DNS |
| `AwgStartupProofs` | its theorems |
| `AwgMetrics` | the scrapes of `awg`'s metrics endpoint over the client they share |
| `AwgMetricsProofs` | its theorem |
| `Taloscfg` | the generator's commands, overlapping, over `slipmesh.yaml` and the patch files |
| `TaloscfgProofs` | its theorems |
| `Topology` | from the topology of `slipmesh.yaml` to a node's `awg` and `router` configs, as operators |
| `SlipmeshFile` | the documents, `generate` and the operator's edits, over `Topology` |
| `SlipmeshFileProofs` | its theorems |
| `MC...` | the instances TLC checks |

The daemons are not composed: they share nothing but the kernel, and each module has the
part of it that its daemon touches, with everybody else's steps on that part. What is
composed is the generator with the validation of both daemons and with what the router
makes of its config, which `Topology` has and `SlipmeshFile` extends. `RouterReconcile`
takes a resolution as one step with some result, of which `BypassResolver` has the inside.

Every module follows one shape: the environment's state and the process's state as
variables, one action per request to the kernel, command or step of the code, `pc` naming
the place in the code, faults as actions of their own that a constant `Faults` (or a
bounded number of them) admits, a process exit that forgets what memory forgets and keeps
what the kernel or the disk keeps, and mutated actions, named as such in a comment, which
no specification uses: they are the plausible bugs each property is tried against.

### `HandshakeRoutes`

`fib` is the kernel's routing table restricted to the routes tagged `ROUTE_PROTOCOL`: a
destination has at most one of them, since `route_add` is `ip route replace`; `DelOk` is
scoped to the interface, as `route_del` is. Destinations are the kernel's spellings,
config entries may be spelled otherwise, and `Canon` maps one to the other. `installed`
is the loop's map of the same name. A pass is one step per request: `PassBegin` reads the
clock, `DumpOk`/`DumpFailed` visit an interface (in any order, which covers the
config's), `AddKnown`/`AddOk`/`AddFailed` work off the routes of its fresh peers,
`AddsDone` computes the stale ones, `DelOk`/`DelFailed` withdraw them, `Publish` is
`snapshot_from`. Time is relative: `age` counts the seconds since a peer's handshake and
saturates just beyond what a pass can tell apart, and `lag` is how far the clock reading
of the running pass is behind.

### `RouteLease`

The same kernel table, handshakes, config and verdict, with no daemon in it: a route may be
installed for a peer that was fresh up to `Grace` seconds ago, withdrawn unless a peer with a
live handshake claims it, a verdict published only of peers that have their routes.
`HandshakeRoutes` instantiates it as `Lease`, `Grace` being the length of a pass (`MaxLag`);
the variables are mapped to themselves and every step of seeding, dumping and remembering
is a stutter. A handshake of the last `Grace` seconds does not protect a route: the pass has
read the clock and the dump before it.

### `NftWatchdog`

`copies` counts how often a table's rules are loaded: `nft -f` adds to a table that is
there, so a delete that failed shows as two. `lines` are monitor lines not yet read; they
saturate at `MaxLines`. A monitor sees only changes after it has subscribed
(`MonitorSubscribes`), which happens some time after it was spawned. `belief` and
`undeleted` are history variables: the first says that a check under this subscription
found every table, the second which tables nft last refused to delete.

### `RouterReconcile`

Three tasks (`main`, `refresh`, `watchdog`) and one lock. A rendered file is the pair of
config and bypass routes it was rendered from; `Torn` is what is there between the
truncation and the end of a write. `bird` may be wedged, that is up and answering nobody;
a `configure` that times out may or may not have taken effect. `mishaps` is a history
variable: the kinds of operation that failed the last time they were tried. So is
`resolved`, the results this process has been given; a result may be empty, when every
included network is excluded, and is then served like any other.

### `BypassResolver`

A network is an address of `Width` bits and a length, as `parse_cidr` leaves it: host bits are
not cleared. `NetContains`, `AddressExclude` and `Collapse` are `cidr.rs`; its loops are
recursive functions of the length or of the round they are in. A call (`Start`) resolves the
include list and then the exclude list. Each question to RIPEstat or to a name server is an
`Ask`, under a permit or after the name before it, and an `Answer` with any of `Answers`, among
them nothing at all and an entry that does not parse. One failure, or the total timeout, ends
the call (`Fail`). `IncludeResolved` and `ExcludeResolved` are what is computed when a list is
complete. The subtraction walks the exclusions in the order `collapse` leaves them in, by
address and then by length (`PunchAll`). `HostBitsClear` says of lists and answers that no
network in them has host bits set; `MCConfigs` and `MCAnswers` are such, `MCHostBits` is not,
and the properties speak of both.

### `AwgStartup`

Kernel links with their addresses, ports, peers and, in each device, the peer that owns a
CIDR (setting a peer's `allowed_ips` takes them from any other peer of the device). One
step per request of `ensure_interface`, for the interfaces in any order; every request
may be refused, a number of times bounded by `MaxFaults`. Creating the link may fail after it
has been created, when it is looked up again (`LinkFails`).

Addresses are those of one family and then of the other (`family`): `ListAddresses` is the dump
with `to_remove`, after which each address is a request of its own (`DeleteAddress`,
`AssignAddress`). The order among them is left open, since that of the dump is the kernel's.
`Mates` says which addresses are of one IPv4 subnet: if the one that is deleted is the primary
of them, the kernel takes the secondary ones along, and a later delete of one of these fails
(`AddressGone`). Which is the primary depends on how they came, so either may happen.

Names that do not resolve are the set `F` of `SyncPeers`, and the others resolve to any of their
`answers`. `Differs` is `diff_peers` against what `current_peers` reads back: the CIDRs, the
endpoint, which the kernel changes by itself when a peer roams (`Roams`), and advanced security,
which always reads back as off. `SetPeers` is the request for those that differ; what it does not
send of a peer stays. `device` is what `SetDevice` sets beside the port: the `identity` that is
always sent, the header protection that is left out when there is none, and the switches of
AmneziaWG 3.1, which an older module (`modern`, chosen at boot) refuses along with the whole
request: `SetIdentityRetried` is the second try without them, which any refusal leads to.

### `AwgMetrics`

A connection's task opens, waits for the mutex (`queue`, since a tokio mutex is fair), scrapes
and renders. `client` is what the mutex guards: nothing, a client that answers, or one that
never will again (`Wedge`). `Connect` and `ConnectFails` happen once per scrape, before its
first dump; a dump succeeds, is refused (`DumpFails`), times out and takes the client away
(`DumpTimesOut`), or finds it taken away (`DumpSkipped`). `Ends` is the connection's own
timeout or the peer hanging up, wherever its task is; the mutex is released and the client
stays as it is. `excused` is a history variable: what a fault of this scrape keeps from being
read. Requests for other paths are answered without a scrape and are left out.

### `Topology`

Operators named after the functions they model: `Validate`, `Resolve`/`Record` (secrets and
what is written back), `Embed`, `NodeLoopbacks`, `InterfaceAddresses`, `MeshInterface`,
`PoolInterface`, `RouterConfig`, the validation of both daemons (`AwgValid`, `RouterValid`) and
`BirdContext`. A topology is a record of sequences, but for the pools, which are told apart
by the positions of their documents. Names, keys and patterns are values,
addresses numbers of `IdBits` and `V6Bits` bits. Of an obfuscation, the two pairs of sizes
that header protection looks at count by their lesser, and the four headers as one field that
says whether they clash.

### `SlipmeshFile`

`file` is the sequence of documents, `patch` the patch files. A patch document has whom it is
for (`include`, `exclude`), its identity (`api`, `name`), whether it deletes, and a body whose
keys are absent, null, leaves or mappings of such; deeper mappings merge like these. The
documents for one purpose are sets of positions (`Sources`, `Named`), and `MergeOnto` goes
through the file merging those at some of them. `Generate`
is one whole run for a set of hosts: it refuses (is not enabled) if the file is not
`Readable` or some host does not render, draws what obfuscation is missing, adds the default
templates, and writes `file` and the hosts' patches; `Taloscfg` has the steps in between.
`Edit` is the operator inserting, deleting or rewriting a document. `fresh` is a history
variable: the hosts written since the last edit. Private keys are a function of the node,
since `Taloscfg` is where they are minted, lost and agree.

### `Taloscfg`

The commands are processes (`pc`, `op`) that may be under way at the same time; nothing in
the code keeps them apart, and no lock is taken. A command reads `conf` (`slipmesh.yaml`)
in its first action, `Begin`, and does everything it does in memory there: `Generate` and
`RwAdd` mint what is missing (`Mint`, `Settled`), `RwAdd` and `RwDel` edit the clients,
`Diff` and `RwInspect` refuse where they would have to mint. `RenderHost` renders a host
and reads its patch file; `Save` replaces `slipmesh.yaml` by a rename, hence in one step
(`Replace`); `Truncate` and `Fill` are the two halves of the `fs::write` of a patch, between
which others may run; `Finish` prints what there is to print and exits. `Abort` is a kill or
an error at any point, `Rotate` the operator deleting a secret.

A secret stands for a key or an obfuscation, wherever `slipmesh.yaml` has one. Its values
are numbered in the order they are minted, so two that are minted never coincide. `Uses`
says which secrets, or their public halves, a host's awg config carries, and `PoolSecrets`
which ones a client's config is built with. `recorded` (what `slipmesh.yaml` ever held),
`rotated` and `outdated` (somebody changed the file since this invocation read it) are
history variables. A secret also counts as rotated when an outdated invocation overwrites
it: two runs at once may undo each other, and the properties say what holds even so. What
else a run may write, the templates it adds to a file that lacks them, is the free choice
`lacking` of `Generate`.

## Runs

| run | specification and bounds | what it shows |
| --- | --- | --- |
| `routes_agree` | 2 interfaces, 2 peers, 2 prefixes, 3 configs that move a prefix from one interface to the other or drop it, 2 restarts, stale after 3 s, a pass of up to 1 s; seeding, dumps, additions and deletions may fail | memory, verdict and kernel agree at all times; fresh peers get routed once failures cease; the loop implements `RouteLease` |
| `routes_withdraw` | 3 configs that spell one of 2 prefixes in two ways or have both interfaces claim it, 1 restart, stale after 2 s, links cycled, dumps, additions and deletions failing, seeding reliable | nothing tagged escapes the memory; stale routes and verdicts are withdrawn |
| `nft_watchdog` | 2 declarable tables and a foreign one, 2 rulesets, both families looked up with 2 tries, 3 resets, 2 restarts, up to 3 unread lines, every fault | silence after a check means presence; rules are loaded once; foreign tables survive; losses are repaired where other changes keep coming |
| `nft_gap` | 1 reset, no fault | violated: a reset before the subscription is never noticed |
| `router_refresh` | a config with a bypass and one without, 2 results upstream and the empty one, 1 change upstream, 1 stuck protocol, 1 restart, 2 startup tries, every fault | file, bird and config agree; no torn load; no blanked bypass; upstream followed; stuck protocols nudged; the refresh loop not starved |
| `router_stale_config` | failing `birdc` | violated: a failed reload is never made up for |
| `bypass_resolve` | addresses of 3 bits; every choice of 2 of the networks without host bits beside a fixed third, under the same label or another, and of up to 2 exclusions; one config that asks in every way, one that is refused; 3 answers, 2 calls | the routes are the difference, rightly labelled and as few as will do |
| `bypass_host_bits` | the same with networks that have host bits set among them | violated: what such a network excludes stays blackholed |
| `awg_startup` | 3 interface names, 3 ports, 2 IPv4 addresses of one subnet and an IPv6 one, 2 peers, 2 CIDRs, 2 endpoints, 2 identities, a header protection, 3 configs with successors that reuse ports, CIDRs and names, change a key, an endpoint or a peer's security, or drop addresses or the protection, peers that roam, modules before and from 3.1, 1 fault, 2 restarts or reboots | converged means agreeing with the config; live state is kept; the loop is reached |
| `awg_scrapes` | 3 connections, 2 interfaces, 3 faults | every scrape is answered, with its own faults only; reading recovers |
| `taloscfg_overlap` | 2 invocations at a time, 2 hosts, one secret that both of them and the clients' configs carry, 1 client, 2 values minted, 1 kill or rotation | nothing is given out unrecorded; patches agree; a current view loses nothing; patches follow |
| `taloscfg_topology` | 4 files to begin with, 3 nodes, up to 2 links and 2 pools, 9 documents to insert anywhere or rewrite with, 2 draws of obfuscation, runs for one host or all, 1 edit | ends and sessions fit; nodes can start; the most specific document wins; aims are kept |

The bounds are the smallest at which every action fires and every hazard occurs: two
interfaces for a prefix to move between, a restart in the middle of that and another
after it; three unread lines, so that a line of the daemon's own deletes, one of its load
and one of a stranger can wait together; two upstream results, so that an old one and a
new one can be told apart; two peers and two CIDRs for one to steal from the other; two addresses of one subnet, to
be kept or stale independently, and one of the other family; one refused request of the
startup, as each pass after a failed one starts from wherever it stopped and two restarts can put
it under two other configs (with two, TLC takes too long; the theorems have any number); a
secret minted twice, so that a second run or a rotation can make a patch stale; three bits,
so that two holes can be punched into one network and a merge can go on twice; three scrapes,
so that one can wait behind another while a third keeps asking, and three faults, so that a
client can wedge, its scrape end and the next one fail to connect; one edit between runs for
one host, so that the other hosts' patches are of another file. `taloscfg_topology` starts
from files with and without each kind of document, two of them refused, since more edits than
one take TLC too long; no name is too long and no text malformed there (`LongNames`,
`BadCidrs`, `BadSources` are empty), as these are refused in one step. No
symmetry is used: most runs check liveness, and the configs are not symmetric.

Where a cfg turns deadlock checking off it says why: the startup ends when the loop is
entered, the generator is not run again once it may mint no more or refuses a file that may
not be edited again, and a resolver is called `MaxCalls` times. Everywhere else the system
never stops.

### Fairness

Each daemon is weakly fair as a whole: it waits only for its own timers and for replies of
the kernel, of nft or of birdc, and the code bounds the last with a time-out; Talos restarts
it when it exits. In `RouterReconcile` each task is fair by itself, since they are tokio
tasks, and taking `render_lock` is strongly fair, since a tokio mutex is handed out in the
order of the requests. `nft monitor` gets to subscribe. In `AwgMetrics` tasks are scheduled,
a client that answers does so, `DUMP_TIMEOUT` catches the one that does not, and a monitoring
system connects and asks again and again; an answer to a dump or a hangup is not owed at any
particular moment, so that each of `DumpOk` and `DumpTimesOut` is fair by itself and `Ends`
is not. Of the rest of the environment nothing is assumed: nobody has to make a handshake,
change a table or make an upstream recover. Properties that say what happens once failures
cease say so in their premise (`FaultsCease`), where a failure is named by its action. In
`Taloscfg` an invocation that is under way goes on, since it is a program that waits for
nobody, and nobody has to start one: that `generate` is run again and again is a premise of
`PatchesFollow`.

### Violated properties

Each states what a comment or the README says and the code does not do; the `findings` of
`PROJECT.json` quote the lines. In all three the daemon goes on: a ruleset is gone
(`KeptApplied`), bird runs an old bypass (`StaleConfigReloaded`), or what should be excluded is
blackholed (`RoutesAreDifference` in `bypass_host_bits`), until something unrelated happens
or the config is corrected.

### Disagreements without a run

These were met while modelling and follow from the cited lines alone, or were shown by runs
that are not kept. Properties that they concern say in their premises, or the runs in their
bounds, that they are left out.

- A read error leaves the watchdog waiting for a monitor that goes on running
  (`nftables/src/main.rs:155-161`); the log line says it is respawning. `RepairedOnBusyNode`
  is stated for runs without such an error.
- A new peer whose endpoint does not resolve is never configured while the process lives
  (`awg/src/interface.rs:360`); the extension service file counts on a retry
  (`extension-services/awg.yaml:10-12`).
- A link that is cycled loses its routes in the kernel and not in the memory
  (`handshake.rs:178`): a fresh peer stays without them, against `README.md:46-48`. The same of
  any configuration in which `flush` is among the `Faults` of `HandshakeRoutes`.
- A prefix that the config spells otherwise than the kernel is, after a restart, added
  under one name and deleted under the other (`handshake.rs:184`, `rt.rs:429`), and the verdict
  claims it, which "must not claim a route that isn't in the kernel" (`handshake.rs:351-352`).
  `routes_agree` and the theorems that name `CanonicalConfigs` leave such spellings out;
  `routes_withdraw` and `NothingLeaks` have them.
- An interface whose seeding fails, which is only logged (`handshake.rs:223`), keeps the stale
  routes a former instance left there, and so does any interface with a `/0` among them, which
  the dump lists without a destination (`rt.rs:426`). `NoUntrackedRoute` is stated without both.
- Of two addresses of one IPv4 subnet, of which one goes from the config and is the primary
  one, the other goes with it and comes back when the config's are set, or not before the next
  start if a request in between fails (`rt.rs:233-258`). If both go, the second delete fails,
  and with it the interface, once: the process exits and comes back (`rt.rs:247`). The comment
  calls it "equivalent to `ip addr replace`" (`rt.rs:293-294`). `LiveStateKept` excepts such
  secondary addresses.
- Advanced security that goes from a peer's entry stays with the peer as long as it is in the
  device: it is sent when it is asked for and never taken back (`awg/src/interface.rs:257`), and
  what is read back is always off, so that nothing differs (`interface.rs:161`, `195`).
  `PeerAgrees` allows for it.
- A table that nft refused to delete has its rules loaded a second time
  (`nftables/src/ruleset.rs:67`); `NoDuplicateRules` excepts it.
- Two commands of the generator that overlap lose one's secrets or clients
  (`taloscfg/src/main.rs:290`): nothing locks `slipmesh.yaml`. `NothingLost` speaks of those whose
  view of it is current.
- A patch file that was torn in the middle of a character makes every later run fail until
  it is deleted, as it is read as text first (`taloscfg/src/main.rs:464-468`). In `Taloscfg` a
  torn file can be read.
- Two `node_id`s that differ only in bits above the host part of the loopback networks pass
  validation and get the same loopbacks; two node names that are sanitized to the same BIRD
  identifier pass it too. `Topology` assumes neither.
- Two documents of one kind and name, one of which sets another `apiVersion`, are two
  identities: `take_added_files` takes the first only, and the second goes out beside the
  generated document.
- A host whose `nftables` document sets `configFiles` of its own, without the template, loses
  the default template to it: sequences are replaced, not merged.
- An operator who already sets the legacy `nftables.yaml` gets a second entry for that path.
- `allowed_ips` that overlap between clients or pools are accepted; `MemoryAgrees` assumes
  that no two interfaces share one.
- With one of `jmin` and `jmax` set, a run may be refused or not, depending on what it draws
  for the other.
- A header protection that goes from the config stays in the device
  (`common/src/netlink/awg.rs:91`): what is not set is not sent, on the ground that a protection
  is never unset (`awg.rs:42-43`), which no validation sees to. `Agrees` allows for it.
- Explicit nulls of a document that is merged with no other go into the patch file as they are.
- A scraper that hangs up within 2 s, always, hands a client that never answers from scrape to
  scrape, since the dump's timeout never comes; `ReadsRecover` speaks of faults that cease.

## Proofs

`tlapm` checks every theorem for all values of the constants.

`HandshakeRoutesProofs`. `TypeCorrect` is inductive as it stands. `MemoryAgrees`
(`CacheSound`) is not: a step could delete a route that is remembered under another name,
or add one that no config wants. The inductive invariant `AgreementInv` adds that memory
holds only the kernel's spellings, that the work set consists of wanted routes while
adding and of remembered ones while deleting, that a process that is down remembers
nothing, and that a published verdict is one of the current memory. It rests on
`CanonicalConfigs`, `DisjointConfigs` and `NoLinkCycles`, none of which the code enforces;
what happens without the first and the last is said above.
`VerdictClaimsNoMissingRoute` follows from it. `NothingLeaks` (`NoUntrackedRoute`) is
proved from `LeakInv`: of the interfaces already seeded, every tagged route is remembered under
some spelling of its destination (`SeededRemembered`). It assumes that seeding succeeds and lists
every route (`SeedingReliable`, `EverythingListed`) and nothing else: link cycles, prefixes
that several interfaces share and spellings are free there.

`ImplementsLease` (`LeaseKept`) is the refinement of `RouteLease`: initial states are initial
states of the lease (`LeaseInit`), and a step is one of its steps or a stutter (`LeaseStep`).
It needs `AgreementInv`, by which a published peer has its routes, and `LeaseInv`, which
speaks of the pass's own view: what is to be added belongs to peers fresh by the pass's
clock (`AddsFresh`), the live ones' routes are kept (`LiveKept`), what is to be deleted
belongs to peers that are settled, that is stale or fresh only since the pass began
(`DelsSettled`), and a process that is down has published nothing (`DownUnpublished`).
`ClockKept` is what carries these over seconds and handshakes in the middle of a pass. The
assumptions are those of `MemoryAgrees`.

`NftWatchdogProofs`. `SilenceMeansPresence` follows from an invariant that covers the places of
the loop between which the knowledge of a check is handed on: a loss since the check is a line
waiting to be read, or is about to be repaired. `RulesLoadedOnce` needs that, in the middle of
`apply`, a table whose delete is over is gone or is one nft refused to delete.
`OthersTablesSurvive` (`ForeignTablesSurvive`) needs that what `apply` has yet to delete is of
the ruleset it was started with (`ForeignInv`).

`RouterReconcileProofs`. That bird has a config exactly while it is up is not inductive:
`TypeInv` adds `Exclusive` (a task is between taking and releasing `render_lock` iff the
lock is its own) and `Phases` (before bird runs nobody holds the lock and no loop runs;
after, there is a file). On top of it `FileInv` says that a running bird's file is whole
and of the running config unless it is being written or the last write failed (`Intact`),
and is what bird runs unless a task is between writing and bird's answer or one of those
failed (`InStep`). `FileIsRun` (`BirdRunsTheFile`) follows, and so does
`TornOnlyAfterFailure` (`NoTornLoad`): whoever configures holds the lock, hence nobody is
writing. `BypassKept` (`NeverBlanked`) rests on `Kept`: what was resolved last is
cached, a failure serves the cache, and every file and every loaded config that
blackholes anything holds routes that were resolved. None of them restricts the faults.

`TaloscfgProofs`. What every command does in memory is summed up once (`Starting`): it keeps
what is set and lacks nothing it will give out. `WrittenDownFirst` (`RecordedFirst`) needs
`Phases`, that the patches are written after `slipmesh.yaml`, and `Known`, that an invocation
which no longer has to write it holds recorded values only. `SameSecrets` (`EndsAgree`) adds
`Compared`, how the memory of each invocation compares with the file under whatever the others
write meanwhile, and `Agreed`, the same for the patches; `SaveKeeps` is the heart of it: a
secret that a `Save` changes counts as rotated or was not set. `NothingTakenAway`
(`NothingLost`) follows from `Compared`. Nothing is assumed but that `Uses`, `PoolSecrets`
and `PoolHosts` name hosts and secrets (`TopologyAssumption`), and that a rendered patch is
neither the empty nor the torn file (`ContentAssumption`).

`AwgStartupProofs`. `TypeOK` needs that the interface at work is one of the config's
(`CurOfConfig`). `ConvergedAgrees` (`ConvergedMeansAgrees`) adds how far that interface is
brought at each place: its addresses (`AddressesAtWork`), family by family, where a secondary
address that went along with a stale one is among those still to be set, and the rest
(`AtWork`); and that a process that has not got beyond the collection has nothing pending, failed
or excused (`Clean`). `PeersAgree` is the last request, by which the interface comes to agree:
a peer that is resolved is either sent or was found not to differ, and either way has its
endpoint, its security and its CIDRs afterwards (`SyncPeer`). The peers of an interface claim
distinct CIDRs (`ConfigAssumption`), so each of those goes to its own and is taken from nobody
whose it is (`SyncOwners`), which is what `NothingLiveGoes` (`LiveStateKept`) rests on as well,
together with `AddressesAtWork`, by which only stale addresses are ever deleted. Nothing is
assumed of the faults.

`AwgMetricsProofs`. `FaultsAreItsOwn` (`UnreadByFaultOnly`) needs that what the scrape at work
has passed is read or excused (`Through`), that all it has left is excused once it has lost
its client (`Lost`), and that whoever holds the mutex is scraping (`Held`), so that no
response is rendered from dumps of its own that go on.

`SlipmeshFileProofs`. `EndsAlwaysFit`, `NodesAlwaysMeet` and `AimAlwaysKept` are proved for all
documents that have the fields their kind has (`DocumentAssumption`), and draws that set what
they draw (`FreshAssumption`). The invariant behind the first two is `CurrentInv`: the patch of
every host in `fresh` is what the present `file` renders, whatever later runs have added to it.
It is kept because a run leaves a readable file readable, with the same nodes (`AfterTopology`,
`AfterValid`); because the first run after an edit, for whichever hosts it is, draws for all of
them and leaves nothing to be drawn (`NothingLeftToDraw`); and because a run that has nothing
to draw keeps the topology as it is (`SettledStays`). `EndsFit` then compares two renderings of
one topology: a link has one interface at each end (`OneInterfacePerPeer`), with the port and
the resolved obfuscation of the link. `NodeStarts` speaks of patch files however old, so
`NodesAlwaysStart` goes through the run that wrote each: its merged documents have one name
each only if no patch of one name comes in two apiVersions (`OneApi`; see the disagreements
above), and its interfaces differ since `PortsDistinct` was checked (`InterfacesDiffer`).
`MostSpecificAlwaysWins` is an induction over the positions of a file: the document merged so
far says, key by key, what the last of the positions passed decides (`DecidedStep`, `SaysStep`,
`HostDocumentSays`). It assumes that `Absent` and `Null` are two values and neither documents
nor mappings (`NoData`).

`BypassResolverProofs`. The three properties hold of any `Width`, lists and answers, provided
`HostBitsClear` holds; without it they do not (see the disagreements above). Beside it, it
is used that `Width` is a number (`BoundAssumption`) and that lists, what is in their sources,
and answers are sequences (`ListAssumption`). Of the
steps little has to be said: `CallInv` keeps that the include list stays resolved as its
answers say while the exclude list is asked for, whatever arrives in between (`SameEntries`),
and that a result is what both lists' answers make of it. The rest is about what is computed.
The arithmetic starts from `2^n`, of which all that is needed is that one more bit doubles it
(`Doubled`); of the blocks of addresses, that rounding down twice is rounding down once
(`Blocks`) and that a block is two halves (`TwoHalves`); hence two networks are nested or have
no address in common (`Contained`, `Nested`). A round of merging keeps what is covered and what
is apart, and leaves siblings only of shorter lengths than before (`MergeKeeps`, `MergeApart`,
`MergeShortens`), so `Width` rounds leave none (`Collapsing`). `AddressExclude` yields the
siblings on the way to what is excluded (`Excluded`), which are all the rest
(`SiblingsAround`). `Punched1` puts the exclusions together: what remains of a network is what
it has and no exclusion has, apart, and every part but the whole is `Pierced`, that is has
something excluded in the other half of its parent. Then no two routes of a label can be merged
(`Unmergeable`): either both are whole, and `Collapse` would have merged them, or the other
half of one is excluded in part and no route.

Of what the model folds over, the recursive functions can be reasoned about: that they exist is
`MergedExists` and `Recursion`, by the induction lemma `Induction` on a set of naturals, which
rests on the well-foundedness of `<` on them.

Only model-checked: liveness under fairness, which is out of the prover's reach.

## Not modelled

- Text: parsing of YAML, of CIDRs and keys, the template engine and the templates, the text
  of `bird.conf` and of the ruleset, sanitized protocol names, netlink encodings, logging.
  A template is one that compiles or one of `Broken`, on every host alike
  (`patch_file.rs:149` renders it with the host's config). The contents of `configFiles` that are
  given as YAML, the order of keys and the comments of `slipmesh.yaml` are text as well.
- `awg`: the exposition's wording and the age at which it stops repeating a verdict. A
  `SetDevice` request is applied or refused as a whole, also one for several peers. The wall clock is taken to be monotonic.
- `router`: a template that fails to render (`router/src/main.rs:184`), which fails
  the pass before the file is touched; a `configure` that bird works off only
  after its caller has given up (10 s) and another task has begun to write: in
  `RouterReconcile` it takes effect before the lock is released or never. `router-lo`, which is converged once before anything else and uses the same
  `ensure_addresses` as `AwgStartup`; the metrics exporter (`exporter.rs`), which respawns
  an external program every five seconds and shares no state with the rest.
- `taloscfg`: what a client's entry holds besides its name, in the commands; `--check`, which
  changes and prints nothing.
- Which country, AS or name has which networks: `Answers` stands for what upstream says, and
  that an answer is less than the truth is nothing the code can know.

## Plan

Done: the tracking loop with its abstract specification, the watchdog, the router, the
startup, the generator, its documents and topology, the resolver and the scrapes. Next:

1. An abstract specification of the router's file and bird that `RouterReconcile` implements.
2. The configs of `awg_startup` with two interfaces that swap their listen ports, against what
   the startup ought to do with them.
3. `SlipmeshFile` with more than one edit between runs, and with the obfuscation of a link
   left behind by an edit.
