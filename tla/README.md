# Verification of the Go thin client

TLA+ specifications of the Apache Ignite thin client in `src/` (package `ignite`), the TLC runs
that check them, and the theorems TLAPS proves about them. Every definition is written from the
code; `PROJECT.json` maps it to its lines.

## The system

A `Client` sends every operation through a `channel`. There are two kinds.

| part | source | state | operations | what must hold | modules |
|---|---|---|---|---|---|
| tcpChannel | `channel.go` | `closed`, `closeErr`, `doneCh`, `pendingRequests`, `pendingCh`, the requests, the `bufio.Writer`, the socket | `send`, `writeLoop`, `readLoop`, `beginClose`, `close` | each request gets one answer, its own, with the right class of error; a close lets everybody go and ends both goroutines; requests leave the buffer | TcpChannel, RequestChannel |
| packet accumulator | `channel.go` | `buf`, `currentSize` | `append`, `data` | the packets come out whole and in order, however the stream is cut | PacketAccumulator |
| handshake, protocol context | `channel.go`, `protocol_context.go` | `protocolCtx`, the features shared through `clientConfiguration` | `handshake`, `handshakeRound` | a connection is used with what its node granted | Session |
| bit set | `internal/bitset` | words | `Set`, `Test`, `Clear`, `FromBytes`, `Bytes` | client and node agree on the features, in whatever way they were set | BitSet |
| reliableChannel | `reliable_channel.go` | `currCh`, `attemptsLimit`, `closed`, `mux` | `send`, `currentChannel`, `initConnection`, `close` | one node's failure stays invisible; an operation is reported once, not repeated when it was answered, and ends; one connection at a time | ReliableChannel |
| transactions | `transactions.go`, `cache.go` | the session in the context | `RunInTransaction`, `startTx`, `closeTx` | what is returned is what became of the transaction; nothing is left active; operations stay in it | Transaction, Session |
| cursors | `cursor_base.go`, `scan_query.go`, `sql_query.go` | page, index, `hasMore`, `lastErr` | `Next`, `Close` | each row once, an end is an end, the resource is released | Session |
| metadata registry | `binary_schema.go`, `binary_object.go`, `binary_enum.go` | the cache of types and class names | `getMetadata`, `getSchema`, `putMetadata`, ... | the cache follows the cluster; what was written can be read | MetadataRegistry, GrowingReplica |
| objects | `binary_object.go`, `binary_schema.go` | a buffer while it is written | `marshal`, `Field`, the footer | every field is found where it was written | BinaryObject |
| cluster groups | `cluster.go` | `nodes`, `topVer`, the filters | `Nodes`, `Node`, `requestNodeIds`, the filters | merged filters select what the filters select; a result is of one topology | Projection, ClusterGroup |
| marshaller, buffer | `marshaller.go`, `buffer.go` | a position | `marshal`, `unmarshal`, `getTypeId` | a value comes back as it was given | Marshaller |
| cache operations | `cache.go` | none | the key-value operations | an operation does what it says, or nothing | CacheOperations |
| cache configuration | `cache_configuration.go` | the properties set | options, copies, `marshal`, `unmarshal` | a cache is created as configured, its configuration read back | CacheConfiguration |
| client start and options, logger, generators | `client.go`, ... | none that lasts | | | not modelled |

How they interact. Any number of goroutines call `Client` and `Cache` methods at once. Each goes
through `reliableChannel.send`, which takes the current `tcpChannel` (under `mux` it makes a new one),
calls its `send` and decides in a callback whether the answer is the last. `tcpChannel.send0` leaves
the request in `pendingRequests`, its id in `pendingCh`, and waits for its deadline, `doneCh` or the
request's own `doneCh`. `writeLoop` turns ids into bytes on the socket, `readLoop` turns bytes into
answers, and whoever meets an error first runs `beginClose`. What a request may hold depends on the
protocol context of the connection it goes over, decided in the callback that writes it. A transaction
keeps the `tcpChannel` it was started on and does not fail over; a cursor keeps the one of its query.
Marshalling an object may send requests of its own, through the metadata registry.

What is hard: the goroutines of one channel share a request's fields without a lock; three parties may
run `beginClose`; requests time out while they are queued, written or answered; a lost connection is
noticed late; retries meet requests that were executed; handshakes share one protocol context;
metadata and nodes are cached, and merged with what was read before a request.
Nothing is persisted; crashes are those of nodes and connections. `PROJECT.json` lists the hazards at their lines.

## The modules

**RequestChannel** is the promise of a channel to its callers: a request is new, sent, and then gets
one fate (replied, refused, timed out, lost); a reply needs an execution, a refused request is never
executed, and a request without a deadline is given up only when the
channel is closed or an answer could not be used. It does not promise that a timed-out or lost request
was not executed, which is what the retries of the other modules have to live with.

**TcpChannel** is one connection after its handshake. One action per step of `send0` that another
goroutine can tell apart (`Begin` the closed check, `StorePending`, `Enqueue`, the branches of the
select, the second read of `req.err`, the deferred `Delete`), per step of `beginClose` (`StoreCloseErr`,
`Visit` for one request of the `Range`, `CloseDoneCh`, `CloseSocket`), per step of the loops and of
`close`. `beginClose` runs in the goroutine that won the CAS (`closer`); the others are back at once
(`CloseReturned`). `Visit` takes any pending request, in any order, and may or may not meet those
stored after the `Range` began (`mustVisit` are those it must meet), as `sync.Map` documents. Frames
are whole: the socket and the buffer carry request ids; how bytes become frames is in PacketAccumulator.
While ids are queued any of `{}`, the earlier requests or all of them may leave the buffer when it
overflows; with none queued, `Flush`. The value of a response is one of three classes: a result, an
error of the node, or something that cannot be decoded. `Serve` (the node) and `ConnectionFails` are
external.

**PacketAccumulator** cuts an actual byte stream: `Read` appends a chunk of any length, `TakeSize`,
`BadSize`, `TakePacket` and `NeedMore` are the paths of `processData` and `data`. The packets the node sends are
constants; `PacketsAssumption` says that their sizes are what an `int32` holds. The reallocation of
the buffer is left out; it keeps its content.

**ReliableChannel** composes the promise of a channel with the failover above it. A tcpChannel is an
entry of `conns` with a state: live, broken (the socket is, the loops have not noticed), lost,
closed by the user. The locals of `send` and of `initConnection` are variables; `Lock`
to `Unlock` is the critical section. `Callback` is the callback of an attempt (`HandsOn`) and the test of the loop
behind it (`LeavesLoop`), which the code evaluates separately. `settings` (which nodes refuse the handshake, `retryLimit`,
which the code reads and no option sets yet) are chosen in `Init`.

**Transaction** is `RunInTransaction` with its closure, the requests `startTx`, a put, the `closeTx`, its
retry and the one of the deferred function, on the channel of the session, and the node's side of the
transaction. A request that timed out stays in flight and is executed later, or never. Each end is written with a flag of
its own (`commits`), which is what the node executes. An answer may be torn, neither a response nor an error, when the
channel has failed and a response is late, as the run `tcp_torn` shows: `startTx` panics on it, `closeTx` takes it for success.

**Session** is what client and nodes agree about. A handshake (`hs`) proposes versions and features out of
`cfg`, the one protocol context of the configuration: a connection whose first proposal is accepted keeps
a pointer to it, one that was refused first adopts a context of its own (`shares`); an answer that breaks off behind the
features has replaced them already (`AnswerCutShort`). `conns` are the connections with the context the client uses, the one the node
granted, and what the node holds for them: transactions, cursors. One goroutine calls operations (`pc`,
`sent`), each of which is written for the connection it then goes over; other goroutines reconnect, and
connections are lost, between any two steps. `PartsOf` is what a request holds besides its operation
(transaction id, expiry policy, credentials' features, partitions, ...) and the node reads by its own
version and features. Cursors page through rows of several columns; `Advance` is `Next`.

**MetadataRegistry** takes what is known of a type as a set of facts: header, typed fields, schemas, enum
constants. Goroutines write and read objects, register enums and ask for names; every access to the
cache and every request to the cluster is a step of its own. `ForeignPut` is another client, whose metadata the cluster
merges in the same way. A put whose answer never came and that is executed later is no different from it; a put
that is retried merges what is there already. **GrowingReplica** is the
abstract specification: the source only grows, the replica learns from it and may be emptied as a whole.

**Projection** has the filters of cluster groups: how `appendFilter` merges a filter into an earlier one
(`MergePoints`), which part of a list the server reads, and what remains for the client. The reference
is `Apply`: the filters one after the other, on the whole topology. **ClusterGroup** builds a group
filter by filter and asks it for its nodes, from several goroutines while the topology changes: the
request for ids, the `CompareAndSwap` of the version, the deletion of the dead, the lookup of each node
in the `sync.Map` and the request for the rest are steps of their own. That a node gives no details of dead nodes
and that ids are never used again is taken from how the code uses the answers.

**BitSet** is the bit set of a protocol context with the features it should stand for (`features`). Features are set
and cleared, and the mask of a node takes the place of the bit set (`MaskReceived`), with up to `MaxExcess` empty bytes
behind its last one bit. Words and bytes are sets of bits; `wordsInUse` is recalculated where the code does.

**BinaryObject**, **Marshaller**, **CacheConfiguration** are operators, with a recursive definition where values nest. Marshaller turns Go values into tokens, each standing for the bytes of one
`Write` of `buffer.go`, and back; the integers of a token are the unsigned contents of its bytes, so that
a read of the wrong width or sign is seen. `RoundTrips` compares with `Normal`, the value as the Go type
its wire type is read as. BinaryObject places values at positions of a buffer, header last, and looks
fields up through the footer. CacheConfiguration writes and reads records by their layouts
(protocol versions matter), the configuration by code when a cache is created and by position when
it is read back. `getTypeId` has tables of its own (`TypeIds`, `SliceTypeIds`), as it has a type switch of its own beside `marshal`'s.

**CacheOperations** is every key-value operation: what it refuses, the opcode and the values it writes, and the
node that decodes the request by its opcode alone and runs it (`NodeRuns`). `last` is the last call and its result. `Meaning`
is what an operation is documented to do with a map, and `CallMeans` says that every call does that with its own arguments.

**MCWire** composes the parts that share no state: a behaviour is about the session, the framing, the
operations, the features or one input of an encoding, so that their state spaces add up. The other `MC*` modules give
TLC its model values. The `*Proofs` modules hold the theorems.

## The runs

| run | question | result |
|---|---|---|
| tcp_safety | two requests (one with a deadline), user close, failing connection, all at once: `Inv`, `CloseIsComplete`, refinement of RequestChannel (`KeepsPromise`) | holds, 2.3 million states |
| tcp_live | a node that gives errors, broken responses or nothing; a connection that fails: `DeadlineHonoured`, `CloseReleasesCallers`, `ConnectionErrorMeansClosed` | holds |
| tcp_served | no deadlines, the node answers, the user may close: `EveryRequestAnswered`, `CloseTerminates` | holds |
| tcp_torn | is `responseReader` always given an input or an error? | no |
| tcp_stranded | is every request answered when others may time out? | no |
| rel_failover | failover over two nodes with all the trouble there is | holds, 0.26 million states |
| rel_replay | is an operation sent no more once it was answered? Three addresses | no |
| tx_outcome | does `RunInTransaction` return what happened (but for a torn answer), commit no failed closure, and clean up? | yes |
| tx_retry | is a commit whose answer came too late reported as a commit? | no |
| registry | does the cache of types follow the cluster, is what was written known there, and does whoever looks for a schema find it? | holds, 3.5 million states |
| cluster | do merged filters select what the filters select, are the nodes returned those of one topology, and are the dead forgotten? | holds, 3.8 million states |
| wire | do client and nodes understand each other: versions and features, transactions, cursors, frames, operations, values, objects, features, configurations? | holds, 1.4 million states |

**Bounds.** Two requests meet each other in every way that matters to a channel, because requests share
only the maps, the queue and the buffer: one can be taken while another is queued behind it, be skipped,
be visited by `Range` while the other is stored. `QueueCap` is 2, so that no caller of these runs blocks
on a full queue: with a queue of 1024 in the code that stands for a client with fewer callers. With a
queue smaller than the number of callers `DeadlineHonoured` does not hold: the send to `pendingCh` is
outside the select. `CloseAndFail` says whether a user close and a connection failure may both happen; they
may in `tcp_safety`, and the two liveness runs look at one each to stay small. In ReliableChannel two nodes, two
operations, `MaxFailures` 2 (a failure on each node, or twice on one) and `AttemptsCap` above every limit.

`registry` has two goroutines, two versions of a type with two fields that may be nil or disagree, another
name and an enum of the same id, another client, and one `clear`: enough for a merge with what was read before
another's put, in the cache and on the cluster. Schema ids are taken to be different for different lists of
fields. `cluster` checks every list of up to three filters of eleven kinds over every topology of two servers and a
client: a merge involves two filters, and a third may stand between them. A group that is asked has one
filter at most, two goroutines ask it, and the topology changes once: a response may then be of the
older topology and arrive last. `Asked` has one filter of each kind that makes a difference to a call: none, applied by
the server, by ids that seed the cache, by position, by another group. More filters add no way of caching, as the cache is below them.

In `wire` the session has three nodes in the middle of an upgrade (versions 1.5 to 1.7 with features, 1.1 to 1.5
without, 1.0 to 1.1 without transactions), two connections, two ids on each, results of up to three rows in pages
of two, three columns. The stream has packets of 1 to 5 bytes around the size of the header, one whose size takes
two bytes, and a size of zero, cut into chunks of at most 12. Operations name up to two of two keys, nil among them. The inputs
of the encodings are the ends of every integer range, nils, empty slices and nestings of every kind of
collection; objects have a leaf whose size puts the last offset at the borders of one and two bytes, and start
at different positions; features are at the borders of the bytes of a word, and masks have up to nine empty bytes too
many, which is more than a word; options come in pairs in
any order, and in three longer lists. TLC's integers have 32 bits, so that `int32` and `int64`
are cut to 24 and 28 bits, and a millisecond of the configuration has 1000 nanoseconds.

Every cfg turns deadlock checking off because a run may simply be over: all requests answered, the loops gone.

**Fairness.** `FairSpec` assumes of the code what Go gives: a goroutine that can run does, a context with a
deadline is done some time, a read or write on a broken connection returns an error. Strong fairness is
on `ReadData` and `ReadFails` only: the read deadline of a second competes with them, and a
socket that has data returns it unless the deadline passes first, which cannot be so every time.
`ServedSpec` adds that the node answers; only what needs it uses it. Nothing is assumed of users: nobody
has to send or to close. In ReliableChannel, operations and the node's execution are fair, the
return of a node is not. The other runs are about safety and assume no fairness.

## What the violations show

* `tcp_torn`: `send0` tests `req.err` and reads it again for the call; a response delivered by `readLoop`
  while `beginClose` runs resets it in between (`safeClose(req, nil)`), and `responseReader` gets `nil, nil`.
* `tcp_stranded`: `writeLoop` writes a request, does not flush because another id is queued, finds
  that one deleted (it timed out) and goes back to the select with the first still in the buffer.
* `rel_replay`: `connectFailed` survives a successful retry, which is then dropped and repeated.
* `tx_retry`: the retried commit meets a transaction the node has already committed.

The runs that pass name where these cannot happen: `tcp_served` has no deadlines, `rel_failover` two addresses
in every list that is not empty, and `NoReplayOfTwo` and `AttemptsWithinLimit` are the theorems about the latter; `OutcomeTrue`,
`RequestsUnderstood` and `TypeIdAgrees` except one case each by name, and `SchemaFound` is about schemas only.

Limits met while modelling; those with a state are hazards in `PROJECT.json`, at their lines:

* a torn answer has no error, and the reader of `closeTx` keeps nothing else: `RunInTransaction` may return nil for a commit the
  node refused, because it had timed the transaction out (`OutcomeTrue` names the case);
* the limit of retries is read anew for every attempt and compared for equality: when a supplier's later list is shorter and the
  limit has dropped below the attempts made, the operation is executed and answered without end, `connectFailed` being
  set for good (three addresses, then one);
* the reader of a registered type knows the fields that were cached and refuses one that another client has added since,
  where the look-up of a schema would have asked the cluster (`fieldNotFound`);
* `SqlQuery` goes over the current connection: after a failover it takes the id of a transaction to a node that does not
  have it, or has no transactions;
* `[]bool` is not among the types of `getTypeId`: it is written as an array of bools and registered as one of objects;
* an operation that is reconnecting while the user closes leaves a new connection open; a client with one address
  never reconnects, because the address of the lost channel is skipped;
* after an error of a page `Next` panics; `WithScanQueryPartition(0)` is ignored (`cache.go:878`);
* an older answer about the topology that arrives last leaves dead nodes in a group's cache until the next one
  (`CacheFollows` is about calls that were answered from one topology);
  `Node` does not apply filters by position;
* bits from 64 on of a bit set share places (`bitset.go:26`), no feature is there yet;
* an empty slice of a fixed-size type panics; an enum of an unregistered name is written
  without a type byte (`binary_enum.go:157`); `readBinaryEnumArray` wraps the wrong error (`marshaller.go:1124`);
  `readIgniteProxy` drops its object;
* durations under a millisecond become 0, which is another policy; key configurations with one affinity field and
  different types count as one; `DestroyCache` does not trim the name that `CreateCache` trims.

## What is proved

For every value of the constants that their assumptions admit:

| module | theorems | run |
|---|---|---|
| TcpChannelProofs | `TypeCorrect`, `Invariance`, `LossReported`, `ErrorMeansClosed`, `PendingBounded`, `CloseCompletes`, and `Refinement`: the channel implements RequestChannel | tcp_safety, tcp_live |
| ReliableChannelProofs | `AttemptsWithinLimit`, `SingleConnection`, `OneFailureHidden`, `NoReplayOfTwo`, `TypeCorrect` | rel_failover |
| TransactionProofs | `Invariance`, `OutcomeReported`, `FailureNotCommitted`, `NothingLeft` | tx_outcome |
| MetadataRegistryProofs | `TypeCorrect`, `CacheStaysWithinNode`, `WrittenStaysKnown`, `SchemaIsFound`, and `RegistryIsReplica`: the registry implements GrowingReplica | registry |
| ClusterGroupProofs | `ProjectionsAreFaithful`, `ResultsOfOneTopology`, `CachesFollow` | cluster |
| SessionProofs | `TypeCorrect`, `ContextIsGranted`, `NodesUnderstand`, `OperationsStayInTransaction`, `CursorsAreFaithful`, `CursorsAreReleased` | wire |
| WireProofs | `PacketsAreIntact`, `OperationsAreMeant`, `PoliciesArrive`, `FeaturesAreKept` | wire |

**TcpChannel.** None of the properties is inductive alone. `LossIsConnectionError` needs that `closeErr` is stored before
`doneCh` closes and by whom (`CloseOrder`); `ConnectionErrorMeansClosed` needs why a request has an error
(`ErrorReasons`); `CloseIsComplete` needs who is past its call of `beginClose` (`ClosersPast`), since `close` may find it
running in a loop, which then cannot have exited. That a reply is genuine and an execution single needs that a
request is in one place on its way (`OneCopy`: in the queue, in the writer's hand, in the buffer or
on the wire, and nowhere once executed) and that what travels back was executed (`GenuineReplies`). `Inv` is their
conjunction; one lemma per conjunct shows that every step keeps it, process by process, after frame
lemmas that say what each process leaves alone. The refinement maps `send0`'s answers to fates, the
node's replies to executions, and `~closed` to `open`; each action is one abstract step or a stutter.

**ReliableChannel.** `AttemptsWithinLimit` assumes that all lists that are not empty are of one length (`OneLength`): every attempt
then reads the same limit, and `Below` says that whoever is on the way to another attempt has one left, so that
the test for equality cannot be missed. `Single` needs that whoever connects has seen the current connection closed and still holds the lock.
`OneFailureHidden` assumes that every list of addresses that is not empty names two nodes (`OtherNodes`); with
one, the search skips the lost address and fails. `Connections` says that before a second failure only
the first connection can be lost, every other node being up, so that the second one stays;
`Undisturbed` that an attempt over the first connection is the first attempt, so that the limit leaves another,
and that a search has passed over the lost address only, so that it ends before the list does.
`NoReplayOfTwo` assumes that the supplier returns two addresses, or none: every attempt then reads the same
limit, and `TwoAttempts` says that a second attempt stands behind a lost first one and is the last.
The lock is an operation or `"free"`, which is not the name of an operation (`ReliableAssumption`).

**Transaction.** `IInv` says which request was the last and what is known of the closure (`Control`), that each request is sent
and executed once (`SentOnce`), that every end that was sent carries what the closure has come to (`FlagsTrue`), what
an answer tells of the transaction (`AnswersTell`) and that only an answer gives a result (`ResultAnswered`); a torn one tells that
its end was executed, and no more. `NothingLeftActive` follows because the last close, once sent over a connection that
works, is under way or answered.

**MetadataRegistry.** `putMetadata` reads the cache before and after the request. `Known` says what holds in between: what a goroutine has
read or has had acknowledged is known to the cluster, and what it is about to send holds, together with what
the cluster knows, all its object needs, also the fields left out because they were in the metadata it had read.
`SchemaIsFound` is about the look-up of a schema; the field names a typed reader holds may be older. It needs in addition that metadata of the cluster can always be merged with what the cache has of it:
both hold one type per field, because the cache holds nothing the cluster does not and other clients write
metadata that is well formed (`ForeignAssumption`).

**ClusterGroup.** `ProjectionsAreFaithful` is an argument about lists: a filter that may be reordered selects
by looking at each node alone, so that applying it cuts every possible outcome down to the nodes it keeps, which
commutes with the filters between the place where `appendFilter` merges it and the end of the list
(`AppendKeepsMeaning`); a merged filter keeps what both keep. Every entry the server reads
asks no more than one of its filters does (`Implied`), and at least as many entries as filters are written
(`Enough`), so the list it reads is defined. Its answer therefore drops no node that passes the filters, and
the client applies all of them again; and the filters it is given stand before the first that must keep its place.
`GroupInvariant` then follows a call through its steps (`Answers`: what it knows of the topology of its answer; `ResultIsOfSnapshot` is
part of it). `Cached` is about calls that overlap: as long as all of them were answered from one topology `t`, the cache has no other
nodes than those of `t`, or some call is about to look for them, is deleting what is left of them, or will be the first to swap the
version it has loaded (`Forgets`). With answers of two topologies a call may delete the nodes of one and another store them again,
which is why `CacheFollows` is not about those. The proof assumes that there are finitely many nodes, each with finitely many
attributes and one value per name (`ProjectionAssumption`).

**PacketAccumulator.** `Cut` ties the buffer to its place in the stream: it is the stretch before `pos`, and it starts where a
packet does, or behind the size of one that has been read. `SizeSurvives` shows that every `int32` is read as it was
written; `StreamIsPackets`, by induction along the packets, that each lies where `Ends` says.

**CacheOperations.** The request of an operation is decoded without knowing the operation, so the proof is that `NodeOp` and
`NodeArguments` give back what the call was made of (`NodeOps`, `ListIsRead`, `PairsAreRead`), one step per operation.
A `PutAll` interleaves keys and values; that the node finds each pair again, and that a nil among the pairs is
one among the arguments, holds for lists of any length. `OperationsMean` needs that the store is a map of the keys (`Map`),
because a call without keys must leave it as it is. `PolicyArrives` is arithmetic on each duration (`DurationKept`), which is any
integer here.

**BitSet.** `BitsHold` says that the first word is the set of the features, that every other word there may be is
empty, and that one word is in use unless there are no features. `FeaturesAssumption` puts the features in the first word, as
the protocol does. `BytesAreRead` is the core: whatever bytes of a set are read, up to its last one bit at least, the bytes
that are missing of the last word and those that are too many are empty, so that the words are those of the set and
`recalculateWordsInUse` finds the right number; the client's mask and a node's are both such bytes.

**Session.** `Honest` ties a connection's context to what its node granted while handshakes change the shared one: at
most one connection is open, the current one, and none while a handshake is under way, so the handshake that
changes the shared context finds nobody else using it. `Bound` ties the operation under way to the transaction it was
called in. `RequestsUnderstood` then follows for the request at the moment it is written and at its execution; it excepts the id
of a transaction in a query over another connection, which is then the only open one.
For the cursors, `Iterates` says where the page, the index and the rows handed out are in the result, and that
the client's `hasMore` agrees with what the node keeps; ids of cursors are used once per connection.

**Induction** has what the proofs about data rest on. The library's induction theorems take an operator as
parameter, which the provers cannot instantiate. Here a set of numbers takes its place: `InductionOnNat` and `InductionUpTo` follow
from `LeastNumber`, and `RecursionExists` gives the function a recursive definition along `0 .. n` stands for
(`Recurs`). That is why `Apply`, `FiltersRead` and `Ends` are recursive functions.

Only model-checked:

* liveness (`DeadlineHonoured`, `CloseReleasesCallers`, `EveryRequestAnswered`, `CloseTerminates`, `OperationsEnd`): fairness and
  ENABLED are outside the prover;
* `ValuesSurvive`, `TypeIdAgrees`, `FieldsFound` and `ConfigurationSurvives`: Marshaller, BinaryObject and CacheConfiguration
  are recursive operators over nested values, which the prover does not read.

## Not modelled

* TLS and `createTcpChannel` before the handshake; the codes of a refused handshake; the client's attributes.
* The options of `Client` and of queries and `convertAssign` of `Scan`: they set or copy a value each.
* `Start`: creates one channel and one registry before anything runs concurrently. What it leaves open when it fails is
  a hazard without a property.
* `CacheNames`, `DestroyCache` and the operations on write-ahead logs: one request each, with nothing read back.
* The details of a cluster node (addresses, version, attributes as values); hash codes of objects; names by
  reflection and `ScanField`; proxies, type factories and the constructors of `ignite_types.go`.
* Truncated or malformed input of the readers; the bounds of `buffer.go` are only met at the framing.
* `topVer`/`minTopVer` of the channel (written without a lock, read by nobody), logging, generated code, examples, tests.

## What is left

* Liveness of a session: a handshake that ends, a query that is closed, over the fair channel of ReliableChannel.
* A group with several filters that is asked while the topology changes twice, when a run of that size fits.
