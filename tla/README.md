# Verification of EmberDB

EmberDB is a Redis-like key-value server in Go. This directory holds TLA+ models of
its concurrent and distributed parts, the TLC configurations that check them on small
instances, and TLAPS proofs of the most important results. `PROJECT.json` maps every
definition to the lines it models and lists components, hazards, runs and theorems.

## The system

| Part | Source | Module |
|---|---|---|
| Request parser | `utils/go-resp/server.go`, `helpers.go` | `RespReader` |
| Reply encoding | `utils/go-resp/server.go`, `helpers.go` | `RespWriter` |
| Connection handler: parser, commands, replies, messages | `cmd/ember-server/main.go`, `commands*.go` | `RespConnection` |
| Reply buffer: writers append, a flusher goroutine writes to the socket | `utils/go-resp/doublebuffer` | `DoubleBuffer`, promise `BytePipe` |
| Pub/sub registry, subscriber goroutines, end of a connection | `utils/pubsub`, `commands_pubsub.go`, `main.go` | `PubSub` |
| Data types and their commands | `utils/kvstore`, `cmd/ember-server/commands_*.go` | `Store` |
| Locks of the store, standalone and per slot | `utils/kvstore` | `StoreLocks`, promise `AtomicStore` |
| Cluster bus: MEET, handshake, PING/PONG, gossip, cron | `utils/clusters` | `ClusterBus` |
| `--create-cluster`, `--cluster-add-node`, CLUSTER SLOTS | `cmd/ember-cli/main.go`, `commands_cluster.go`, `state.go` | `ClusterCli`, on top of `ClusterBus` |
| Moving hash slots: the coordinator in `ember-cli`, SETSLOT, MIGRATE, the owner check | `utils/clusters/cluster.go`, `state.go`, `commands_cluster.go` | `SlotMigration` |

A connection's handler (one goroutine) parses a command, runs it on the store under a
lock (`StoreLocks` for the locking, `Store` for the effect) and writes the reply into
the connection's buffer. A subscription adds a goroutine that writes to the same
buffer. `RespConnection` composes parser, handler and encoding; below it the buffer is
`DoubleBuffer`, and the registry behind the subscription is `PubSub`. In a cluster, a
handler first asks the slot maps who owns the key. `ClusterCli` deals out the slots,
`ClusterBus` spreads the maps and `SlotMigration` changes them.

## The modules

**RespReader.** A step is one read of the `bufio.Reader` (a peek, a line, a body, a
byte) with everything the code does before the next read, so it waits where the code
waits. `argsBuffer` and `argsBounds` are the fields of the Go struct and survive from
one command to the next. A byte is its code, and the number parsers work on digits
with the width of the code (`MaxUint`, `MaxDigits`). A request of the client is its
bytes together with what they mean, and that meaning is the reference the parser is
compared with.

**RespWriter.** An operator per Write function gives the calls of `write` it makes, as
byte sequences; several of the functions make more than one.

**RespConnection.** The loop of `handleConnection`: Next, the command, its replies, call
by call, until an error closes the connection. ECHO and PING reply what they reply, and
SUBSCRIBE says OK for each channel. `Data` stands for the other commands: it may reply
anything a handler can, or errors and then OK, as INCR of a text and DEL of several keys
do; `pending` holds the replies that are still to come. The goroutine of a subscription writes a message between any two calls. `overlap` is a
history variable: a message was written inside a reply of several calls.

**DoubleBuffer.** Variables are the fields of the Go struct, the program counters of
the goroutines, and two histories: bytes accepted and bytes the socket took. A byte is
a writer and a number. A critical section is one step; every other place where two
goroutines can meet is a step of its own, also the two channel signals of capacity one
and the cancelled context. The socket may take part of a flush and fail, and its
Close may fail. `BytePipe` is the promise: bytes go in, come out in order, and a Close
that reports no failed write comes after the last one.

**PubSub.** A subscription is a Go channel of capacity one, modelled by the number of
messages in it. Publish holds the lock for reading over one send per subscriber
(`work` is the rest of its loop); Subscribe and Unsubscribe are one step under the
write lock. `mine` is the handler's own map and `leaving` what a loop of removals has
still before it: the channels in any order, as a Go map gives them, the subscriptions
of a channel in the order they were made. The teardown is in the order of the deferred
calls: the connection is closed first, the subscriptions are removed after that. The
goroutine of a subscription may hang in its write, as long as the connection is open.

**ClusterBus.** A node's map leads from names to objects, and an object is the one of
a link, the node itself, or one without a link, which gossip makes. Reading a message
is two steps, because the look-up and the insertion of gossiped names are two critical
sections. The send channel and the connection of a link direction are one queue; a
sender is blocked while the queue exceeds the capacity of the channel.

**ClusterCli.** A call of the CLI is a job: a command and its nodes. Each request is a
step with its reply, the rounding of the borders between the nodes' ranges included;
a connection may break and a node may be gone before each of them. CLUSTER SLOTS is an
operator on the state of a node.

**SlotMigration.** A request of the coordinator and its reply are one step; a
connection may break between any two. The plan (`Plan`) is computed from the bitmaps
of the contacted node as the code does: shares, surplus and deficit in two orders,
slots one after the other. Nodes exchange bitmaps only with the node that
`--create-cluster` linked them to. A SET checks ownership and stores in two steps.
`torn` and `late` are histories: slots whose move broke off, and keys stored after
their slot was seen empty.

**Store.** One step per command (MSET and MGET are calls of `StoreLocks`). Standalone,
a key may have a value of each type; a cluster node keeps one tagged value.
`clusterEnabled` is chosen in `Init`. Integers have `Width` bits and wrap, strings are
integers or another text. The replies are recorded as the code sends them,
also where it sends more than one. `ForEach` is a loop over arguments, and sorted sets are
the sequences that the code's slices are.

**StoreLocks.** A call takes its lock, reads or writes key by key, and releases it;
FlushAll takes the locks of all slots one after the other. `AtomicStore` is the
promise: a call takes effect in one instant, FlushAll in one instant per lock.

Definitions whose names begin with `Mut` are deliberate mistakes: put in the place of
the definition after them, each must make TLC report a violation. No specification
uses them.

## The runs

| Run | Configuration | What it shows |
|---|---|---|
| `connection` | `MCRespConnection.cfg` | fragments, limits, errors and ends of a connection: commands are what was sent, replies can be read back and are those of the commands, in order, also where a command sends several; every request is answered |
| `double_buffer_close` | `MCDoubleBufferClose.cfg` | one goroutine writes and closes: order, drain on Close, pool, no panic, every call returns, implements `BytePipe` |
| `double_buffer_shared` | `MCDoubleBufferShared.cfg` | two writers, nobody closes: no lost wake-up, each writer's bytes in order, accepted bytes are sent |
| `double_buffer_race` | `MCDoubleBufferRace.cfg` | violation: another goroutine has appended and not yet signalled when Close runs; its bytes are never sent though no write failed, and its signal then panics |
| `pubsub` | `MCPubSub.cfg` | no panic, registry and handlers agree, nothing delivered after removal, goroutines of closed connections end, and no call on the registry waits for ever, even when no client reads |
| `store` | `MCStore.cfg` | the data type commands: elements after each command, ranges, counts, order and types |
| `store_locks` | `MCStoreLocks.cfg` | every call is atomic and returns |
| `cluster_bus` | `MCClusterBus.cfg` | a creation with a failed dial and a crash: maps fit their objects, routes are kept, redirections are right, links stay in use |
| `cluster_bus_live` | `MCClusterBusLive.cfg` | creations that are refused, break or succeed, and an added node: slots dealt exactly, CLUSTER SLOTS exact, handshakes complete, pings go on, the cluster serves all slots |
| `cluster_bus_crash` | `MCClusterBusCrash.cfg` | violation: a dead node stops its dialler's cron |
| `slot_migration_retry` | `MCSlotMigrationRetry.cfg` | broken and repeated rebalances: every slot is served, completed moves leave one owner |
| `slot_migration_keys` | `MCSlotMigrationKeys.cfg` | keys stay with an owner of their slot, bitmaps converge |

Each passing run finishes within about three minutes on two workers. Type invariants that
are proved are not checked again by a run, and those of `ClusterBus` are part of
`EntriesConsistent`.

### Bounds

- `connection`: limits of 3 arguments, 2 bytes each and 5 together, a reader of 6 bytes
  and integers up to 15, so that requests of a few bytes lie below, at and above each
  limit. A client sends one request, of each kind, good or bad (`MCRespConnection` lists
  them), and then mostly an ECHO, to see what the first one left behind. Every cut of the
  bytes and every end of the connection happens. The writer takes 8 bytes at a time.
- `double_buffer_close`: a limit of 2 with writes of up to 5 bytes, so that a Write is
  split, fills the buffer exactly, and waits. `double_buffer_shared`: a limit of 1, so
  that both writers wait at once. The theorems cover every limit.
- `pubsub`: two connections, two channels, two subscriptions: both on one channel, on
  two, or one after the other on one connection. The theorems cover every number.
- `slot_migration_*`: three nodes and four slots, one node with three of them, so that
  a pair of nodes moves more than one slot. Two rebalances and one broken connection
  (retry; the theorems cover every number of them, of nodes and of slots); one
  rebalance, one key and one pending SET (keys).
- `cluster_bus`: a star of three nodes, four slots, a send channel of 1 (256 in the
  code), one gossiped node per message, and `MaxTraffic` = 1 message on its way to a
  live node when a cron ticks. A channel that is full, gossip about a node in its
  handshake, and a crash at every point occur within these. `cluster_bus_live` runs
  three calls of the CLI with one connection that may break. It sends no gossip, which
  cannot stop a link of a star (`PingsCorrect`). The theorems cover every number of nodes
  and slots, all channel sizes and all gossip. Deadlock is not checked
  where a node may die: the others may then be blocked.
- `store`: one key, integers of two bits, two elements and two scores, lists of up to
  three elements, and values of at most two types at once under a key.
- `store_locks`: two clients, two slots, two keys in one of them. The theorem covers
  every number of them; one lock is the standalone server.

### Fairness

Goroutines that can run do run (weak fairness of each goroutine's steps), and bytes a
client has sent arrive. Strong fairness is assumed where the Go runtime gives it:
`sync.RWMutex` lets a waiting writer in before later readers, a goroutine waiting on a
channel is served in turn, and the cron draws a node at random each second, so that a
link it can draw again and again is drawn. Clients may stop sending at any time. In
`pubsub` they may also stop reading: a write to an open connection, of a reply, of a
message or of what Close flushes, need not return, and only writes to a closed one do.
The liveness of `connection` and of the `double_buffer` runs is about clients that take
what they are sent: there a write to the socket returns, with success or an error. A call of the CLI that was started goes on or fails.

## Disagreements between code and text, and limits of the code

The two violation runs are findings in `PROJECT.json`, with the line they contradict.
Others were met while modelling. The models contain the behaviour unless the text says
otherwise, and the hazard list says what is and is not stated about it.

Connections:
- Two goroutines use one `resp.Server`, which go-resp's `README.md:27` rules out; a
  message may be written within a reply. `RepliesDecode` is stated for the rest.
- `ParseInt32` wraps for positive numbers of 10 or 11 digits above MaxUint32. The
  headers of the run fit the width.
- The sum of the arguments is limited with two bytes to spare for multibulk requests
  and without them for inline ones. The two bytes after an argument are not compared
  with CR LF. A backslash at the end of a line within double quotes takes the line
  break with it.
- The comment at `server.go:758` says a set's header has twice the length; the code
  writes the length.
- INCR of a text, DEL of several keys and PING on a cluster node send several replies, so
  that a client cannot pair the n-th reply with the n-th command. `AnswersMatch` states
  the order of the replies of successive commands, not that each command has one.
- When a goroutine of a subscription is between its append and its signal as the
  connection closes, the signal meets a closed channel and the server panics (`double_buffer_race`).

Store:
- Counters wrap; NaN scores break the order of sorted sets (the run has none); HSET on
  a key of another type answers OK; the string `(nil)` reads as a missing key and GET on a
  cluster node reads before it checks who owns the key (GET is not in the model).

Cluster:
- MIGRATE with keys is refused for its argument count, so that a slot with keys cannot
  be moved; RESTORE-ASKING asks for three arguments and reads a fourth.
- SETSLOT's routing table is never read. A stale plan may make an owner that is not the
  source give its slot away (`cluster.go:633`); the slot is still served.
- Nodes without a direct link never learn each other's slots; truncated temporary names
  stay in the maps; with links in a triangle, gossip may overwrite a finished handshake
  (the runs have stars). The read loop ignores the error of a message it cannot decode.
- A failed ADDSLOTSRANGE is printed and not repeated. `--create-cluster` run again with
  other nodes leaves slots with two owners. Meeting a known node makes a second link,
  and an older message may then put an older bitmap back.

## The proofs

Each invariant below was checked with TLC before it was proved.

**DoubleBufferProofs** (for all writers, closers, limits, lengths).
- `TypeCorrect`: `TypeOK` always holds.
- `OrderCorrect`: what was sent, the front and the back buffer together are what was
  accepted, in order.
- `WriterOrderCorrect` (`WriterOrder`): of each writer, the bytes that were accepted are
  the first ones of each of its Writes, in order. The invariant ties the numbers a writer
  has handed out to what is accepted while a Write is cut into chunks, waits for room or
  is given up (`WriterInv`).
- `WakeUpsCorrect`: bytes in the back buffer have a signal or a writer about to signal,
  and a writer waiting for room has a wake-up to come. The invariant has to speak of
  where the flusher is between receiving a signal, swapping and notifying, since a
  signal that finds the flag set is dropped.
- `CloseCorrect` with `PoolCorrect` and `PanicCorrect`, and `PipeRefinement`: under
  `SoleCloser` (the only writer is the one that closes) Close drains, the pool is safe,
  nothing panics, and the buffer implements `BytePipe`. The hypothesis is needed:
  `double_buffer_race` is the case without it, and so is the panic of `NoPanic`.

**RespReaderProofs** (for all limits and all scripts of a client, that is, any bytes).
- `TypeCorrect`, and `SlicesCorrect`: the arguments lie in `argsBuffer`, back to back
  and within the limits. The inductive invariant adds `Progress`: between two reads,
  how many arguments are still to come, where the current one starts, and that there is
  room for it and for the two bytes after it.

**StoreLocksProofs** (for all clients, keys, locks, values).
- `TypeCorrect`, and `LinearizableCorrect`: `StoreLocks` implements `AtomicStore`. The
  inductive invariant adds to the types that a client's program counter and the locks
  agree (`Protocol`) and that a writer excludes all others (`Exclusive`). A call takes
  effect when it gets its lock: the refinement mapping shows what a writer has still to
  write as written, and what a reader has still to read as read.

**PubSubProofs** (for all connections, channels and numbers of subscriptions).
- `TypeCorrect`, `PanicCorrect` (`NoPanic`), `RegistryCorrect` (`RegistryOwned`),
  `DeliveryCorrect` (`StopsDelivery`). The registry's part of the invariant (`RegInv`)
  says that each open subscription has one place, under its channel, and is in the map
  of its handler. It is not inductive alone: a loop of removals or a PUBLISH works off
  a list made earlier. `HandlerInv` says that these lists hold open subscriptions only,
  which the lock guarantees for PUBLISH and the single owner for the removals.

**SlotMigrationProofs** (for all nodes, slots, keys, first owners and numbers of
rebalances and failures).
- `TypeCorrect`: needs that the plan, computed from bitmaps that may be stale, names
  nodes and slots that exist and has no empty transfer (`PlanType`), and `MovesInv`,
  that there is a transfer as long as the coordinator is at work.
- `ServedCorrect` (`SlotServed`) and `SettledCorrect` (`SettledSlots`): `ToldInv` says
  whom the coordinator has already told of the current move. The target claims before
  the source releases, so that there is always an owner; when the last node has been
  told, there is one owner and no mark, whatever an earlier move left. This is about the
  slots a plan moves: one that broke off and is in no later plan stays as it is.

- `FreshRunsKeepKeys` and `FirstRunKeepsKeys` (`KeysFollowOwner`): no key stays on a node
  that does not serve its slot. The first theorem assumes that each rebalance is started
  at a node whose entries claim no slot for a node that has lost it, and when no slot is
  half moved; then a plan takes each slot once and from its only owner (`PlanPlaces`),
  and the coordinator's GETKEYSINSLOT asks the right node. Without it the claim is false:
  a stale plan asks a node that no longer has the slot, finds no keys there, and makes
  the true owner give up a slot with keys (`cluster.go:633`). The second theorem
  needs no such assumption, since at the first rebalance no bitmap on its way can be out
  of date (`FirstInv`). Keys that a SET stores after the slot was seen empty are excepted
  in both.

**ClusterCliProofs** (for all nodes, links, calls of the CLI, failed dials, crashes,
channel sizes and amounts of gossip).
- `EntriesCorrect` (`EntriesConsistent`): maps, objects and names fit together. The
  invariant `BusInv` says what a message on a link can carry, given the name its sender
  has for the link, and what a node has kept of a message between its two critical
  sections; the look-up's result may be stale when the insertion takes place.
- `RoutesCorrect` (`RoutesKept`): a node that knows another one's slots goes on knowing
  them. It is proved for links that all have one node in common, the shape that
  `--create-cluster` makes; in a triangle late gossip may overwrite an entry. `StarInv`
  says why a star is safe: the hub knows every name another node knows, so it never
  learns one from gossip, and no node is told about itself or about the hub.
- `PingsCorrect` (`StaysPingable`), also for a star: two nodes that were linked never
  fall silent. `TalkInv` says that one of their links is in its dialler's map, or has a
  message on it or a PING being handled. The entry may leave the map: a message that came
  over another link of the same two nodes replaces it. Then that link takes over, and the
  proof names for each step the link that keeps the two talking. It uses `StarInv`, since
  gossip that stored a node without a link would end the talk.

**ClusterSlotsProofs** (for all numbers of nodes and slots).
- `SlotsCorrect` (`SlotsDealt`): a `--create-cluster` whose requests all succeeded has given
  each slot to one node, and shares differ by one slot at most. The `i`-th border that the
  code computes is i * slots / nodes, rounded (`Border`); from the definition of integer
  division follow that borders ascend, that neighbours are floor(slots / nodes) apart or one
  more, and that the last border is the number of slots (`Borders`, `Pieces`). The
  inductive invariant `DealInv` says that a node owns its share or nothing, wherever earlier
  calls broke off, and which nodes have theirs so far.
- `RedirectsCorrect` (`RedirectsRight`): a node that redirects names the only owner.
  `AllHeard` says that all a node has heard, and all that is on its way to it, is part of
  what the other end owns. It may be old, but while no slot moves it is not wrong.
- Both assume that the calls of `--create-cluster`, except refused ones, name the same
  nodes in the same order, none of them twice, and not more nodes than slots. Calls with
  other lists give a slot to two nodes, since ADDSLOTSRANGE does not ask whether another
  node has it. `--cluster-add-node` may be called at will, and links have any shape.
- `RangesCorrect` (`RangesExact`) holds in every state, without hypotheses. The two loops
  of CLUSTER SLOTS are recursive functions that run towards the last slot; `Downward`, an
  induction over sets of slots, gives that they are defined (`ScanExists`,
  `ListingExists`), where a range ends (`ScanIs`), and that what is listed from a slot on
  are the maximal ranges from there, if no range that began earlier goes on (`ListingIs`).

**StoreProofs** (for all keys, elements, scores, widths of an int, and any number of
arguments and elements).
- `TypeCorrect`, `ZSetCorrect` (`ZSetSorted`), `RangeCorrect` (`RangeExact`) and, about
  steps, `OtherTypesCorrect` (`OtherTypesKept`), `CountsCorrect` (`CountsExact`) and
  `CollectionsCorrect` (`CollectionsExact`). One inductive invariant carries
  them: `DbInv`, which says of the value of each type what `Good` says, for sorted sets
  that members are distinct and that scores are in order.
- A command with several arguments is a loop. `ForEach` is a recursive function, and the
  lemmas `Induction` and `LoopExists` give, for a loop whose step is a function on a set,
  that what holds at the start and is kept by a step holds at the end. So the proofs cover
  members named twice in a command, scores that change, and what a removal leaves.
  For `CollectionsCorrect` the loop invariant says what the arguments so far have made of
  the elements (`After`): after the pairs 1 to i of a ZADD a member has the last score
  among them or, if none names it, the one it had. The sort that follows changes places
  only (`SortElems`), also with NaN.
  `SliceStable` is insertion sort, which is what Go does up to 20 elements; without
  NaN the outcome of a stable sort does not depend on how it is done.
- Assumptions: `Element` is finite (a server holds finitely many strings),
  2^(Width - 1) is positive (true of all widths, and assumed because the provers know
  nothing of powers), and for `ZSetCorrect` that no score is NaN. With NaN
  the order is really lost, the members and their scores are not.

Only model-checked:
- all liveness properties and the fairness of the refinements: out of the prover's reach;
- `RepliesDecode` and `AnswersMatch`: encoding and decoding are RECURSIVE operators on
  sequences, and what they compute needs induction over data;
- `Framing`: compares the parser with the meaning of a whole request, which the model
  takes from the script; a proof would need induction over the digits and words of it.

## Not modelled

- `DoubleBuffer.Reset`, `Server.Reset*`, `readLine`, `ParseInt64`, `UnsubscribeAll`: the
  server does not call them.
- The dump format of values (`rdb.go`), the keys of MIGRATE and RESTORE-ASKING: the
  coordinator's MIGRATE is refused before it gets to a key, so no value is dumped.
- The bytes of bus messages (`message.go`): a fixed layout. What the truncation of
  names does is in `ClusterBus`.
- CLUSTER SLOTS takes a lock per slot and may mix two moments; it is modelled as one
  step.
- GET, LLEN, HMGET, HGETALL and SMEMBERS: they only read, and nothing is stated of them.
- Decimal forms of floating point numbers, in replies and scores: texts and ordered
  values are taken as given.
- The interactive loop and the terminal output of `ember-cli`, the launcher `main.go`,
  `cmd/ember-bench`, `cmd/redis-profiler`: tools beside the server, with no state that
  outlives a call.
- A single model of `PubSub`, `RespConnection` and `DoubleBuffer` together: out of
  TLC's reach. Each meets the next at the writes of a connection, which
  `double_buffer_shared` and `double_buffer_race` have with two writers.
