# A verification of giles2

giles2 is an archiver for sensor data: it keeps metadata of streams in MongoDB and their
readings in a time series database, answers queries, and forwards new readings to
clients whose *continuous queries* they satisfy. This directory holds TLA+ models of its
concurrent core and of its query language, the TLC configurations that check them on
small instances, and theorems with proofs checked by TLAPS.

## 1. The system

| Part | Source | State it keeps | Operations |
|---|---|---|---|
| Archiver core | `archiver/archiver.go` | metrics, handles of everything below | `AddData`, `HandleQuery`, `HandleNewSubscriber` |
| Continuous-query broker | `archiver/cqbs.go`, `subscriber.go` | registered queries, key index, stream → subscriber lists, each query's streams, subscribers and initial result | `NewSubscriber`, `HandleMessage`, `ForwardMessage` |
| Metadata store | `archiver/mongoProvider.go` | documents in MongoDB; caches of known streams, units of time and of measure | `SaveTags`, `GetUnitOfTime`, `GetUnitOfMeasure`, `GetUUIDs`, `UpdateDocs`, ... |
| Connection pool, Quasar client | `archiver/pool.go`, `timer.go`, `quasarProvider.go` | pooled connections, their count, one back-off timer | `Get`, `Put`, `AddMessage`, `Prev`, `Next`, `GetData`, ... |
| Data API | `archiver/api.go` | none | range, before, after and statistical queries |
| Messages, times | `common/*.go` | none | conversion, merging, unit guesses |
| Query language | `archiver/internal/querylang` | a lexer and a parser per query | `Parse`, `GetParams` |
| HTTP, TCP, WebSocket, MsgPack adapters | `plugins/http`, `tcpjson`, `websocket`, `msgpack` | a session per subscriber; one manager of WebSocket clients | add, query, subscribe |
| BOSSWAVE archiver and views | `plugins/bosswave` | archive requests; metadata records, a view's match set, forwarders | requests, queries, subscriptions, `Handle`, `checkViews` |
| Object builder | `objectbuilder` | one lexer, shared by all calls | `Parse`, `Eval` |
| Clients, test driver | `client`, `clients`, `integration` | none | HTTP requests, test scenarios |

How they interact: every adapter runs a goroutine per request. A message goes
adapter → `AddData` → `SaveTags` (metadata store) → unit lookups (caches, store)
→ `tsStore.AddMessage` (pool) → `broker.HandleMessage`, all in the adapter's
goroutine. A subscription runs adapter → `NewSubscriber`, which stays until the
adapter sends on the subscriber's `closed` channel; the broker hands it results
through a buffered channel that a goroutine of the adapter drains. The broker and
the metadata store meet in `GetUUIDs`, the answer of which is applied later.

What makes it hard: no lock is held over a store round trip; several slices and
maps are read without the lock that their writers take; slices are shifted in
place under range loops; who tells that a client has left waits on an unbuffered
channel for a listener that may never come; errors leave caches and maps half
changed; a tag has another spelling in queries, in documents and in the broker's
index; tags can change with no message for the broker; texts and packets arrive cut,
in buffers that others have used. `PROJECT.json` lists these hazards at their lines.

## 2. The modules

| Module | Models | Kind |
|---|---|---|
| `SubscriberLife` | what broker and adapter promise each other about one subscriber | abstract specification |
| `Broker` | the whole broker, several subscribers and publishers, down to lock sections | component |
| `BrokerSerial` | the broker when calls do not overlap | restriction of `Broker` |
| `SubscriberList` | one stream's list as a Go slice, under two loops | component, one level down |
| `RangeRemoval` | what a removal loop may leave behind | relation shared by the two |
| `ConnectionPool` | the pool, the timer and every way the Quasar client uses a connection | component |
| `Ingest` | `AddData` for one stream, over store and caches | component |
| `ViewManager` | the BOSSWAVE view manager | component |
| `Sessions` | the adapters' half of subscriptions, four protocols | component |
| `Uploads` | HTTP and TCP uploads, MsgPack packets, their pooled messages and buffers | component |
| `DataApi` | units of time and data queries over Quasar and BtrDB | component |
| `ArchiveRequests` | archive requests over BOSSWAVE and their archivers | component |
| `Goyacc` | the automaton that goyacc generates, over any tables | operators |
| `QueryLanguage` | lexer, tables and productions of `query.go`, `GetParams` | component |
| `QueryMeaning` | grammar, spelling and meaning of statements, independently of the code | reference definition |
| `MetadataQueries` | query and subscription requests of the adapters, their evaluation, the documents of the store | component, extends both |
| `ObjectBuilder` | parsing and evaluation of expressions, several goroutines | component |
| `BrokerProofs`, `SubscriberListProofs`, `ConnectionPoolProofs`, `SessionsProofs`, `ArchiveProofs`, `UploadsProofs`, `ViewManagerProofs` | theorems about the component they are named for | proofs |
| `ReadingsProofs` | theorems about `Ingest` and `DataApi`, readings on their way in and out | proofs |
| `MC...` | constants of the small instances | |

`Broker` and `Sessions` are the two sides of one interface. `SubscriberLife`
states it: one initial result, updates from the time the query is there and never
after it failed, removal only of a client that has left or that its adapter has given
up, once. `BrokerKeepsThePromise`
and `SessionsKeepThePromise` show that both implement it (refinement mappings
`LifeOf`), so a session need not know more of the broker than that.
`SubscriberList` derives from the slices what `Broker`, which keeps lists as sets,
assumes of them (`RemovalLeavesLeftovers` and `Leftovers`).

### Broker
One process per subscriber (`spc`) and publisher (`ppc`). A Query object is named
by the subscriber that created it. `GetQuery` is `Subscribe` (first lookup),
`FetchInitialStreams`, `EvaluateInitial`, `Register` (second lookup);
`NewSubscriber` goes on with `JoinRead`/`JoinWrite` (an unlocked read and write of
the query's subscriber slice), `Attach` for each stream, `SendInitial`, `Leave`
and `removeSubscriber` as `RemoveLookup`, `RemoveFromStreams`, `RemoveRead`,
`RemoveWrite`. `AddData` is `Publish` up to `SaveTags`, or `AddDataFails` if a unit
cannot be read or saved after that, and the broker never hears of it; `SetTags` is a
`set` query, of which the broker does not hear either. Both leave in the history
variable `behind`, until the store is next asked the query, the streams that began or
ceased to satisfy it that way. `HandleMessage` is
`Collect`; `reevaluateQuery` is `FetchStreams`, `ChangeUUIDs`, `Unsubscribe`,
`NextAddedStream`, `AddPair`, `AddedStreamDone`, `ReevaluateDone`; then
`ForwardMessage`. A where clause is the set of documents that satisfy it. Not kept:
the loop of `ForwardMessage` is one step (its interleavings are in
`SubscriberList`); the second `SaveTags` of `AddData`, which only adds a unit of
measure, is in `Ingest`; a `set` of the field `uuid` itself, after which documents and
streams part; the panic of a `set` query that MongoDB refuses (`info` is nil in
`mongoProvider.go:319-320`), which `MetadataQueries` has; the abort of the process by
concurrent map accesses, and torn slice headers, which end a behaviour. `delete`
queries change no document, since all are refused.

### SubscriberList
The backing array as long as its capacity, a length, the removal loop of
`reevaluateQuery` (which captured a length and then shifts what it ranges over)
and the loops of `ForwardMessage`, which keep the array they captured when the
list moves to a larger one.

### ConnectionPool
A process per goroutine that calls the Quasar client: `GetPooled`, `GetEmpty`, `Check`
(count against maximum), `Dial`/`DialFails`/`Wait`, `CountNew`, the use, and
`Put`/`PutFull`/`Release`. `UseNil` is the use of the nil connection that `Get` returns
at the maximum. `Break` is the other end of the connection.

### Ingest
A process per goroutine in `AddData`: `Receive`; `SaveTags` as `CheckSaved`, `Upsert`,
`CacheUUID`, `CacheUnitOfTime`, `CacheUnitOfMeasure`; `GetUnitOfTime` and
`GetUnitOfMeasure` as a hit, or a fetch and a later cache write; the "n/a" branch that
saves again; `Write`; `Forward`. A fetch that fails returns its error, or panics if the
store had just counted the document (`FailedFetch`). `Expire` is the cache library,
`SetTags` a `set` query that goes past the caches.

### ViewManager
`Handle` and workers of the pool. A worker's `Insert` (once for each payload
object) is followed by `checkViews`: `StartCheck` (with `Exec`), `Reset`, `Look`,
`Subscribe`/`Register`/`Send` (`startForwarding` under `fwdL`), `Mark`,
`LockView`, `StopForwarding`, `EndCheck`. A record is "absent", "matching" or
"other": it has one slot per URI whatever its key. The program creates one view.

### Sessions
Each client uses one of four protocols. `life` is `NewSubscriber` as an adapter
sees it; `watchForClose`/`TellHTTP`, `DrainTCP`/`TellTCP`, `Ping`/`TakeRemove`/
`TellWS` are the ways in which leaving is noticed and told. A write fails because the
client has left or because the value cannot be encoded (a reading that is not a number, a
dictionary that is not JSON); the HTTP and TCP adapters do not tell the two apart, and
end the session of a client that is still there (`GivenUp`). A client that stays need not
read what it is sent, except `Readers`: no adapter sets a deadline.

### Uploads
A process per request or packet. `ReceiveJSON`, `CollapsePath` (one round of
`CollapseToTimeseries`, in any order), `CollapseDone`, `AddMessage` (one round of the
loop of `handleAdd`) and `Respond` are an upload; `ReceivePacket` (with `decode`),
`AddPacket` and `PutObject` a packet. A packet is read into a buffer of a pool, which
nobody clears, and the whole buffer is decoded whatever the length of the packet: a
packet that was cut (`IsCut`) is garbled, or is completed by what an earlier one left
where its fields would have been (`Overwritten`, `AsRead`). `AddData` is one step, since
`Ingest` has its steps; what matters here is that the broker queues a reference (`chan`,
read through `Deref`) and that message objects are used again. A panic ends an HTTP
request, and the process anywhere else (`up`).

### DataApi
`AddMessage` writes a message's readings as the client of each database does. A query is
`Begin` (`prepareDataParams`), a `Fetch` for each stream, with `AddMessage` between
them, and `Pack` (`packResults`, `packStatsResults`). A statistical or window query gets
buckets, of which the instants of their readings are kept; which buckets BtrDB answers
is the external database's, their size and range what its client sends. Quasar's client
refuses the answer of Quasar, so these queries fail there (`Readable`). Both databases
answer up to the end of a range and not with it, as their clients ask them to
(`quasarProvider.go:160`, `btrdbProvider.go:142`), although `params.go:67-68` calls
`End` inclusive: `AnswerIsExact` says what is answered, and `EndIsIncluded` (section 3)
shows the difference. An error that BtrDB's client reports beside its values is
discarded, and the answer passes for complete (`Received`, `cut`). Queries share
nothing, so there is one. The database is a set of readings for each stream, the answer
(`result`) a set of messages, and readings of one time stand in any order.

`GuessTimeUnit` and `ConvertTime` are the code's, with its wrap-around; only the numbers
are scaled: a factor of 8 from unit to unit and thresholds and a word size to which the
scaled present (12 s, 96 ms, 768 us, 6144 ns) stands as today does to the code's. What
only BtrDB's client does besides, converting a message in place before the broker
forwards it, is not modelled.

### ArchiveRequests
A process per message (`hpc`): `Receive` (with `ExtractArchiveRequests`), `addRequest`,
then `ParseArchiveRequest` as `Inherit`, `SubscribeMetadata` and `QueryMetadata` for
each metadata URI and `SubscribeData`, each of which may `Fail`. An archiver is
`Take`, `Assign`, `SendReading` (`Listen` with `GetSmapMessage`) and, for each metadata
message, `StartWork` and `SendMetadata` (`GetMetadata`: under the lock, and after it).
Strings are sequences of tokens, so that putting strings together (`Hash`, the UUID)
can make different ones equal.

### Goyacc, QueryLanguage
`Goyacc` is the loop of `sqParse` and `exParse`: a record of the stack of states and
values, the lookahead and the outcome, and what each step makes of it (`Shifted`,
`Reduced`, `Accepted`, `Failed`). `QueryLanguage` instantiates it with the tables of
`query.go`, number for number, and adds the code of the 59 productions: what they
return (`Value`), write to the query (`Effect`) and report (`Complaint`). The parser
goes on after an error in a production, and so does the model. Actions: `Parse` (a new
lexer), `Lex`, `Shift`, `Reduce`, `Accept`, `Reject`. The pattern matcher of the lexer
(toki) is external, so a text is a sequence of tokens with what may follow it (nothing,
a blank, a newline, the zeros of a buffer); what `Parse` makes of its end is
`Completed`. `fixMongoKey`, `cleantagstring`, `ParseAbsTime`, `ParseReltime` are the
code's on segments and numbers.

### QueryMeaning, MetadataQueries
`QueryMeaning` says what a statement is without looking at the parser: the grammar,
as sets of right-hand sides, with `IsSentence`; statements as records, `Spell` them as
tokens, and `HoldsWhere` says which facts satisfy them. `MetadataQueries` is the
program: a request arrives over HTTP, TCP or a WebSocket (`handleSingleQuery`,
`handleSubscriber`, `handleRepublisher`, `handleQuery`, `handleSubscribe`,
`handleRepublish`; `Refuse` for huge bodies), whole or cut, `ParserStep` runs the
parser, and `HandleQuery` or `HandleNewSubscriber` evaluate what it left. The
documents are kept as `ToBson` writes them; MongoDB's operators, projection and
`$set` are external. A panic ends the process (`down`) unless `net/http` recovers it.
Interleavings of requests are those of `Broker` and `Ingest`; here there is one at a
time, and it is the sequence of them that matters (a set, then a select).

Messages are functions from keys to values. Nested dictionaries come with dots in their
keys (`flatten`), a client may write a slash, and MsgPack's adapter writes a bar; `ToBson`
turns dots into bars and nothing else (`StoreKey`), and the broker looks keys up as they
came (`IndexKey`), while a query's tag always has bars in the store and dots in the index.
A value is a text or a number (`Numeric`), and the language has only texts.

`StatementsMeanWhatTheySay` holds for plain statements (`IsPlain`) of which every tag is
kept under its name (`IsKeptAsNamed`) and what they compare is text (`IsKeptAsText`). The
exceptions are the divergences of the code:
- `!=` becomes `$neq`, which MongoDB does not know; `not` before anything but an equality
  negates a document of operators, which equals no value; `not in` is keyed by the word
  `in`;
- a tag that a message spelled with a slash, or that a `set` put inside of another, lies
  in a field that queries do not look in (`SlashedTagsAreFound`);
- a number in metadata equals no number of a query, is left out of distinct answers and
  read back as a number (`NumbersAreFound`, `NumbersReadBackAsText`);
- the unit of time and the type of a stream are read back as milliseconds and numbers;
- a selection may answer rows of nothing but empty dictionaries;
- times beyond the range of int64 wrap.

`DELETE` is always refused, and so is a `not` anywhere but before the first term
(`NegatedTermsAreAccepted`): the grammar of `query.y` has no other.

### ObjectBuilder
A process per goroutine: `Reset`, `SetInput` (`lexer.Parse`), `Lex`, `Shift`, `Reduce`,
`Accept`, `Reject` on a parser of its own and the lexer of all, then `ParseAndEval`. The
history variable `alone` says whether another call touched the lexer meanwhile.
`ExpressionsMeanWhatTheySay` says that an expression leads where its steps lead, as
`objectbuilder/README.md:9-23` describes them. Where a key meets an array the code
answers the array, a dictionary without the key or a leaf themselves, and the property
says so; that `[:].key1` should give the `key1` of every item (its line 24), and the
example of its lines 41-45, are kept as `EveryItemIsAsked` and `ExampleIsRight`, which
fail.

## 3. The runs

`CHECK_DEADLOCK FALSE` stands in every configuration: messages and joins are
bounded, clients may all be done, and a goroutine that panicked stays where it is.

| Run | Instance | Shows |
|---|---|---|
| `broker_joins` | 2 clients of one query, 1 publisher, 1 stream, 2 messages or `set` queries, channel of 1, store errors | types; no client is on a list of, or is queued anything for, a stream that never satisfied its query (`NoForeignStream`); racing creators end with one object (`IndexedIsRegistered`); refinement of `SubscriberLife` |
| `broker_liveness` | 1 client, 2 publishers, 2 messages, failing `AddData`s or `set` queries | a client that does not read holds nobody up (`HandlingTerminates`) |
| `broker_serial` | 3 clients of two queries (on a tag, on the uuid), 3 messages of any kind, failing `AddData`s or `set` queries | without overlap, waiting clients of an indexed query are on the lists of all its streams (`NoMissedStream`), a sole client on exactly those (`SoleClientExact`), but for streams `behind` |
| `list_loops` | 4 clients, one forwarding loop | `Leftovers` is what a removal loop leaves; a forwarded message misses at most one client per departure and reaches nobody who was not listed |
| `pool` | 3 goroutines, maximum 2, 4 connections | one user per connection, none closed pooled, exact count, count bounded by demand, `Get` returns |
| `ingest` | 2 goroutines, 3 messages of 5 kinds | readings are written only of streams with a document and with a declared or default unit (`WrittenIsKnown`); a declared unit labels them if messages come one at a time (`DeclaredUnitHolds`) |
| `views` | `Handle`, 2 workers, 2 URIs, 3 messages, failing subscriptions | one subscription per URI; forwarded URIs can be found again; an exact view while nothing overlaps; no blocking but by the lock cycle |
| `sessions` | 2 clients over any of 4 protocols, of which one need not read, channel of 2, failing queries and writes | refinement of `SubscriberLife`; departed clients are removed, and those that stay and read served until they are given up, unless the WebSocket manager is stuck |
| `uploads` | 3 requests (HTTP or TCP and MsgPack), 6 uploads of up to 3 paths, 5 packets, one of them cut, 2 objects and 2 buffers, a channel of 1, store errors | tags come from the nearest path that has them, in whatever order paths are collapsed; an answer of success is true; pooled messages and buffers are exclusive and carry no tags over, unless a packet is cut |
| `data` | both databases, 2 streams in any of 4 units, 3 instants, 8 queries | streams stored under their instants are answered without the end of the range and in full (or, if BtrDB fails in the middle, but for a tail), the nearest readings when there is a limit, whole buckets when statistics are asked for, in the unit asked for, though readings arrive between fetches |
| `archive` | 2 handlers with 3 requests, one of them twice, 1 message of data, 1 of metadata for each of 2 URIs, failing calls | a request that comes twice is archived once, into one stream; the last metadata of each URI reaches an archiver that listens |
| `languages` | 70 scripts of one or two statements or of noise, 2 streams with tags spelled with dots, bars and slashes and a number, every adapter, texts cut anywhere; 17 expressions on 5 objects in one goroutine beside 2 in another | accepted are the sentences of the grammar whose literals denote something, and no cut text (`OnlyStatementsAreAccepted`); what is selected, set, watched and asked of the database is what a plain statement says (`StatementsMeanWhatTheySay`); a subscription is filed under the tags it names (`WatchedTagsAreIndexed`); an expression leads where its steps lead (`ExpressionsMeanWhatTheySay`) |

Why these bounds are enough: the hazards are races of two calls or three-step sequences
(join, leave, join; match, cease, match; declare, default, read). Two clients and one
publisher, or two publishers and one client, give every pair of calls; two messages let
a stream qualify and cease to, three let it come back or let two changes cross. Channels
of one or two are full after one or two sends. `SYMMETRY` in `broker_joins` permutes
clients with the same query, and in `data` streams; every property of those runs treats
them alike, and none is a liveness property. A data query of a range, one with its ends
swapped, one with a limit, and one for each side of an instant stand at, between and
beyond the instants of readings; no data query changes anything, so no more than one
needs to be made. `uploads` cuts one packet behind its UUID, where the tags that another
left in the buffer can follow; in `broker_serial` a `set` or a failing `AddData` comes
before, between and after messages that match, cease to and match again. In `archive`
each handler has the request that the other has, and one of them one with a UUID
expression. Statistical queries start between bucket boundaries, and the window query
has swapped ends and a limit. The scripts of `languages` use each of the 59 productions,
every operator of a where clause alone and under `and`, `or` and `not`, every literal
that is refused, and units of time under short and long names; a buffer has room for 16
tokens, which some texts exceed. A second has 1000 steps of time there and a word 2^30
values, so that the times of plain statements do not wrap.

`TypeOK` of `ConnectionPool`, `Sessions`, `Uploads` and `MetadataQueries` is an
invariant of `pool_statements`, `sessions_manager`, `uploads_statements` and
`languages_statements` below, where it holds.

Other configurations in this directory keep counterexamples to statements that one
would like to make, and that the code does not meet. Run them with
`tlc -config <name>.cfg MC<Module>`. Those named `..._statements` list several
properties, each of which fails: TLC stops at the first, and shows another when that
one is taken out of the list.

| Configuration | Statement | What happens |
|---|---|---|
| `broker_serial_statements` | `SubscriptionIsLive` | the last client of a query leaves, another joins: the query is registered but not indexed (`cqbs.go:324`), and is never reevaluated again |
| | `EveryChangeIsFollowed` | a `set` query, or an `AddData` that fails after `SaveTags`, changes a stream's tags and no subscription is reevaluated, although `REPUBLISH.md:12-14` re-runs the where clause when a tag changes |
| | `NothingUnqualified` | of two clients one stays on the list of a disqualified stream |
| | `InitialIsCurrent` | a second client gets the first one's initial result |
| `broker_statements` | `SubscriptionIsLive`, overlapping | an older where answer is applied after a newer one |
| | `InitialComesFirst` | an update is queued before the initial result |
| | `GoneFromLists` | a reevaluation puts a client back that has left |
| | `NewSubscriberReturns` | `BlockSend` to a client that left |
| `list_missed` | `AllListedServed` | a forwarding loop skips a client that stays |
| `pool_statements` | `AtMostMax`, `GetGivesAConnection` | more connections than the maximum; nil at the maximum |
| `ingest_statements` | `DeclaredUnitHoldsInRaces` | the default is cached over a declaration |
| | `CachedUnitIsStored` | a partial declaration blanks the stored unit only |
| | `WrittenIsKnown` with store errors | a failed upsert is remembered as saved |
| `views_statements` | `ViewFollowsMetadata` | a URI that matches again is not forwarded again |
| | `CheckTerminates` | the cycle of `fwdL` and the view's mutex |
| `uploads_statements` | `EveryTagWasSent` | a packet that was cut is completed by the tags of another stream, left in its buffer |
| | `ForwardedIsWatched` | a pooled message is overwritten while a subscriber's channel refers to it: the subscriber is sent another stream |
| | `NoForeignProperties` | the unit in a pooled message is saved for the next packet's stream |
| | `OwnUnitIsKept` | a stream's own unit is overwritten by its prefix's: the tests of `message.go:311-319` are the reverse of what line 298 says |
| | `OrderDoesNotMatter` | one upload has two results, by the order of a Go map |
| `data_statements` | `AnswersAreComplete` | BtrDB fails in the middle of an answer, and its client passes on what came |
| | `EndIsIncluded` | the reading at the end of a range is not answered; `params.go:67-68` says it is |
| | `UnitsAreHonoured` | readings not in nanoseconds are not found: Quasar's client converts nothing, BtrDB's takes microseconds for milliseconds |
| | `MostRecentAreAnswered` | a limit keeps the earliest readings of a range; `params.go:62-63` says the most recent |
| | `TimesStayInNanoseconds` | an early start of a query is taken for microseconds and multiplied |
| | `WidthsAreHonoured` | a width of 256 or more is cut to a byte (at the scale of the model, 16) |
| `archive_statements` | `PassedOverIsArchived` | a request that failed is passed over when it comes again, and so is one whose UUID and value read like another's |
| | `StreamsAreDistinct` | requests that differ in the type of objects get one UUID: `string(request.PO)` is a character, and most types have none |
| | `SingleStream` | with a UUID expression, metadata goes to the stream named by the expression's text |
| | `LatestMetadataStays` | an older metadata message is saved after a newer one |
| `languages_statements` | `OnlyQueriesAreWatched` | a text that is no query is registered; without a where clause it finds every stream |
| | `CutTextsAreRefused` | a text cut where the TCP buffer is full is executed if what is left is a statement |
| | `AllStatementsMeanWhatTheySay` | the divergences listed under `MetadataQueries` |
| | `SlashedTagsAreFound` | a tag that a message spells with slashes, as `nestedMetadataInherit.yaml` does, is not found by it |
| | `SlashedTagsWakeTheirQueries` | nor does it wake the subscriptions that name it |
| | `NumbersAreFound` | a number in metadata is not found by `= 5` |
| | `NumbersReadBackAsText` | numbers are answered as numbers; `metadataSameMsg.yaml:16,58` (in `integration/tests/metadata`) expects texts |
| | `NegatedTermsAreAccepted` | `and not x` and `(not x) and y` are refused; `queryNotWithAnd.yaml:30,43` expects answers |
| | `NoQueryEndsTheProcess` | `select distinct` without a tag, or a tag without a name, over TCP |
| | `OverlappingCallsDoNotMix` | one call of the object builder gets the operations of another |
| | `NoIndexPanics` | an index equal to the length of the array |
| | `EveryItemIsAsked` | `[:].key1` answers the array, and not the `key1` of every item as `objectbuilder/README.md:24` says |
| | `ExampleIsRight` | so does the example of `objectbuilder/README.md:41-45` |
| `sessions_manager` | `OldConnectionsAreRemoved` | a failed query blocks the WebSocket manager for ever |

## 4. Fairness

Safety runs use none. Where a run has liveness properties, every goroutine that can
move does (weak fairness per goroutine: Go's scheduler), and nothing makes a client
come, leave, read or a message arrive. `ConnectionPool` assumes strong fairness of
a successful dial, that is a database that accepts again and again: `Wait` has no
other end. `Sessions` assumes strong fairness of `SendInitial`, `Initialize` and
`TakeRemove`, since Go queues blocked senders in order, and of `CloseNotify` only
while the request is being handled, as `net/http` promises. A drain goes on for clients that
read or have left: a write to another may block for ever, since no adapter sets a
deadline.

## 5. Proofs

All theorems hold for every value of the constants under the named assumptions of
the modules (`BrokerAssumption`, `ListAssumption`, `PoolAssumption`, `SessionAssumption`,
`IngestAssumption`, `DataAssumption`, `ArchiveAssumption`, `UploadsAssumption`,
`ViewAssumption`), which
say which constants are sets of what and which markers are not among the values. Two of them
say more. By `UploadsAssumption` the prefixes of a prefix of a path are the
shorter ones among the path's own, as `getPrefixes` makes them. `DataAssumption` has the
order of the thresholds of `GuessTimeUnit`, an even number of times in a word, finitely
many streams, and that powers of two are positive numbers, which is arithmetic, but the
provers know nothing of exponentiation. Seven theorems have a
condition of their own, named below where they are.

`BrokerProofs`. `TypeCorrect` is inductive by itself, given lemmas on each process;
it includes that no channel exceeds its buffer. `StreamsComeFromTheQuery` needs the
strengthening that everything on the way to a list (the streams of each object,
fetched answers, added streams, the stream of an inner loop) was once an answer for
the same query string, and that an object's subscribers all ask that query; history
variable `qualified` only grows. `OneObjectPerQuery` needs that an object in
`Broker.queries` is registered for its own query string only. `BrokerImplementsLife`
maps every step of the broker to a step of `SubscriberLife` or a stutter, for each
subscriber. Its invariant says who may be known to the broker: whoever is on a list,
in a query's slice, in a snapshot that a joiner read or in a publisher's loop has got
past `GetQuery`, so that nothing is queued for a subscriber whose query is not there
yet or has failed. A forwarded message appends at most one item to each channel, which
lemma `QueueSteps` shows.

Its second half is about `BrokerSerial`. `NoStreamIsMissed` and `SoleClientsAreExact`
are what the broker is for, as far as it gets it right: calls do not overlap
(`SerialSpec`), a client's query is indexed, and a stream is not `behind`, that is the
broker has asked the store since a `set` query or a half-failed `AddData` changed the
stream's document. Their conditions: the metadata store answers (`StoreFails = FALSE`:
an object whose reevaluation fails is left as it is), and a where clause reads only keys
under which the broker files the query (`WhereReadsKeys`: the parser collects the keys
of a clause as it meets them; that it collects all is `WatchedTagsAreIndexed`, a
property of the run `languages`, and `MCBroker` evaluates the condition for its
queries). Lemmas `SubAlone` and `PubAlone` say that whoever moves is alone. The
invariant then has two faces. While no message is handled (`Settled`), every indexed
object has the streams that satisfy its query, and every client is listed for the
streams of its object, a sole client for no other. While one is (`Reevaluating`),
whatever an object or a list lacks is still owed by the publisher: the object will be
collected, or stands in `toReevaluate`, or its answer is at hand (`Owes`); the stream is
among those it still has to add, or the client among those its inner loop has not come
to (`WillAdd`); or it is among those to be removed (`WillRemove`). `Untouched` shows
that a message which sets none of a query's keys changes nothing for it. Streams that
are `behind` are excepted throughout, and since the store's answer to a query ends that
for all of its streams at once, an answer at hand has no exceptions. That the removal
loop does not skip a sole client is `LeftoversOfOne`: a list never holds two clients of
its query. With two, `NothingUnqualified` fails (section 3), so the theorem cannot be
had without that hypothesis, nor without "indexed" (`SubscriptionIsLive`).

`SubscriberListProofs`. The three properties of `SubscriberList`, for lists of any
length. `RemovalIsLeftovers` says that `Leftovers`, with which `Broker` removes, is what
the slices do. Its invariant looks at the array behind the list as well: the slots that
a removal has freed, and the end of the list until the loop has passed it, show the last
element that was found (`LastShows`), so the loop, which goes on to the length it
captured, comes to that one even if it has skipped it, and a list with no other clients
never keeps all; and each client that the loop has skipped hides behind one that it
removed, the last behind none (`Hidden`). `ForwardingServes` counts: those of the
stayers whom a forwarding loop has not served and will not come to are at most as many
as have left (`Missed`), since a shift in place moves exactly one client from the loop's
next index to behind it, and a loop that keeps an array which the list has outgrown
misses nobody more.

`ConnectionPoolProofs`. The invariant has the types, what each program counter
implies of a goroutine's variables, that closed connections are held by the
goroutine about to release them, and disjointness of pooled and held connections;
on it rest exclusiveness and `PooledAreOpen`. `CountIsExact` relates a counter to
the cardinalities of two sets and uses the library's facts on finite sets.
`CountFollowsDemand` bounds the count, with those on their way to raise it, by the number
of goroutines or half the maximum, which is what the pool starts with;
`EnoughConnections` and `NoMoreThanTheMaximum` follow when there are no more
goroutines than the maximum, which is the condition under which the pool keeps the
promises that `pool_statements` refutes in general.

`SessionsProofs`. `SessionsImplementLife` is the other half of the interface: every step
of an adapter is a step of `SubscriberLife` or a stutter, for each session, over
whichever protocol. It rests on `ToldIsOver`: whoever is about to tell the broker that a
client is gone speaks of one that has left, of one that its adapter has given up, or of
a TCP session whose query has failed, and then nobody listens.

`ReadingsProofs`, first half. `WrittenStreamsAreKnown` has the condition `StoreFails =
FALSE`, without which it is false (`ingest_statements`): then a stream that is cached,
or that a publisher has saved, has a document (`SavedIsStored`), and whatever unit is
stored, cached or in a publisher's hand was declared or is the default
(`UnitsAreKnown`). `DeclaredUnitsAreHeld` has no such condition. Its invariant `OwnUnit`
follows the unit that a lone message declares: into the document, which only a `set`
query can change, and then only to what cannot be read as a unit, and into the cache,
where it can only expire; so any later lookup finds it or nothing.

Its second half is about `DataApi`: any streams, readings, units and queries, any
thresholds and factor in the order of the code's. The invariant `DataInv` says of each
reading in the database which instant it was taken at and what was written for it
(`Held`), that the query is the parsed one with its times prepared (`Asked`), and of
each response that it is what the database answers of some set of readings between the
one at the start of the query and the present one, or for a stream in `cut` a part of
that (`Responded`): all that later steps need to know of the insertions between fetches.
`DataTypes` has no condition. `AnswersAreConverted` and `AnswersAreExact` have the
condition `InstantsOfToday`, that the unit of a reading is guessed right unless it is
microseconds (readings since November 2004, which is when milliseconds passed 2^40, and
since April 1988 in nanoseconds); `MCDataApi` evaluates it for its instants. Without it
both are false. Three arguments carry them. `Converts`: if the unit is guessed right, a
conversion neither wraps nor exceeds, and what it yields is the instant in the other
unit. `KeptFirst`: a finite response can be put in the order of time (`Sortable`, by
induction over the number of its elements), and a limit keeps of it what is not later
than the rest. `BucketsOf`: the spans of buckets lie one after the other from the first
boundary to the last, each has the readings of its span and no others, and each reading
between the boundaries lies in one; `WholeBuckets` shows that these are the readings
that the query names. `TimesAreConverted` had to be restricted on the way: the start of
a bucket may lie before any reading, and before April 1988 it is taken for a time in
another unit, which the last query of `data` (a window from the beginning of time)
shows.

`ArchiveProofs`. `RequestsAreArchivedOnce`: a handler works on the first of the requests
it still has, and only that one can be registered and not yet decided (`InLoop`); no two
registered objects have one hash (`OnePerHash`); and what a request without an expression
can be given as its UUID is the same wherever it is computed (`OneUUID`), so the unlocked
write in `Assign` has nothing to race about. `MetadataReachesArchivers`: for each object
and each of its metadata URIs, the last message published is queued for the archiver, in
its hand, saved by it, or will be in the answer of the query that its handler has yet to
make (`NotMissed`), because the handler subscribes before it queries. That no reading
is archived twice is `ReadingsOnce`, which needs that messages are queued and taken in
the order of their numbers (`InOrder`).

`UploadsProofs`. `PacketsDoNotShare`: the two steps that touch the pools keep each pool
and its holders disjoint; what is put back is an object because a packet has one until
then. `TagsComeFromTheNearest` is about paths of any depth collapsed in any order. The
loop of `CollapseToTimeseries` takes the prefixes one by one (lemmas on `Loop`, by
induction over the set of the rounds for which they hold); whether a prefix is still as
it was sent or has itself been collapsed makes no difference (`SameNearest`), since the
chain of a prefix is a suffix of the path's chain (`Suffix`, `Offsets`). The invariant
`CollapsingOf` says that each path is as it was sent or as it has to become.
`AnswersAreTrue` is bookkeeping of what has been added (`AddingOf`). `TagsAreSent` needs
`Clean`: an object in the pool has no metadata left, so that a packet's object holds
only what the packet brought, or its buffer if the packet was cut, which the theorem
excepts.

`ViewManagerProofs`. The invariant follows a URI on its way to a subscription: it was
in an answer of `Exec`, so its record had satisfied the expression; a forwarder is never
removed, so the number of subscriptions is 1 for a URI that has one and 0 for others
(`SubscribedOnce`); and only the goroutine at `Register` can still owe the match set an
entry (`NothingForwardedIsForgotten`). Three steps need an argument, `InsertRecord`,
`Subscribe` and `Register`; lemma `MovesKeep` disposes of the others. `ViewsAreExact`
adds, for messages that come one at a time (`OneAtATime`), what the one check has in
hand: a URI that matches is still to be gone through, is the one at hand, is marked, or
could not be subscribed to (`Accounted`), and what it has marked matches (`Marked`);
between checks the match set is what the last one left (`LeftBehind`).

Only model-checked: liveness, and with it the fairness conditions; and the
languages. What a
parser makes of every text is an induction over data and out of the prover's reach.
Inductions over a number of rounds are not: they go by membership in a set.

## 6. Not modelled, and why

The Cap'n Proto code, which is generated; pure I/O (configuration, `main`, command line
clients, the test driver); the pattern matcher under the lexers (toki), MongoDB and the
time series databases, which are modelled as the code uses them; the connections of the
BtrDB client, which an external library manages; the values of readings, which no
modelled property tells apart, and JSON; `DeleteData`, `RemoveTags` and `RemoveDocs`,
which no query reaches because DELETE always fails (`archiver.go:197`); users of the
HTTP adapter; the metrics, which feed a line of the log (and lose the marks made while
they are reset, `metrics.go:24`). An archive request whose URI is elided keeps an empty
one (`archive.go:239-242` trim the empty URI itself): the model keeps it too, and no
property is about it.

## 7. Plan

1. Done: broker, lists, pool, ingest, views, sessions, uploads, data API, archive
   requests, both languages and the queries over the metadata store, each with its
   runs; every safety property of the broker, its lists, the pool, sessions, ingestion,
   views, uploads, data queries and archive requests that a run checks is also a theorem.
2. Next models: the translation of answers to JSON and BOSSWAVE messages; the
   composition of `ViewManager` with `ObjectBuilder`, whose results it matches.
3. Next theorems: those of the components of item 2. Of the safety properties that runs
   check now, only those of the languages are without one.
