# A TLA+ verification project for recommendation-services

The repository collects posts of VK groups and Telegram channels, stores them,
derives searchable documents from them and recommends groups.  This directory
holds TLA+ models of the parts of it that are hard to get right by testing,
configurations that check them with TLC, and proofs checked by TLAPS.  Paths below
are relative to the repository.

1. The system
2. Modules
3. Runs
4. What is proved
5. What is only model-checked, and what is not modelled
6. Where the code and its documents disagree
7. Plan

## 1. The system

```
 client --POST /parse/vk--> VK parser --- group and posts ---> Kafka
 client --WS search-------> VK parser                            |
                              |                    +-------------+------------+
                              |                    v                          v
                              |            channel consumer --diff-->  posts consumer
                              |                    | groups                   | posts
                              v                    v                          v
                        PostgreSQL (groups, posts, cached_periods, ...)
                              |
                              v
                          normalizer --> resource documents --> indexer --> OpenSearch
                                                                                |
                                               client --POST /recommend--> recs_api
```

All services are Python programs on asyncio.  Within a process, tasks interleave
at every `await`; between processes nothing is ordered but by Kafka and the
database, and no part of the system opens a transaction over more than one query.

### Posts consumer (`services/posts-consumer`)

One process, two containers that hold the same code twice: `TgPost` and `VkPost`.

*Worker loop* (`UI/Workers/ConsumerWorker.py`, `Tasks/ConsumePostsBatchTask.py`,
`Actions/BatchProcessPostsAction.py`, `Tasks/BatchUpsertPostsTask.py`).  State: the
Kafka position and committed offset of the channel's topic, the batch in hand, the
posts table.  Operations: poll a batch, validate, deduplicate, upsert, commit by
hand, back off after an error.  Hard: the position moves when records are fetched,
the commit is of the position and not of what was processed; the partition may move
to another process between poll and commit; a stop between upsert and commit.
Correct when: a committed post is stored, apart from losses that can be named; the
committed offset never moves back; redelivery leaves no stale row; every post is
handled.

*Registry of consumers* (`Services/DynamicConsumerManager.py`,
`Services/PostObjectsCache.py`, `UI/Workers/ChannelsDiffWorker.py`,
`Tasks/LoadChannelsFromDBTask.py`, `BootstrapTg.py` and the VK counterparts). State: which
channels have a consumer, a task, a place in the cache; the offsets of the diff
topic.  Operations: bootstrap from the database, hear of a channel, create its consumer,
undo one that turns out to be the second, stop.  Hard: cache, dictionaries and Kafka groups
change at different awaits; the cache expires as a whole while consumers run; the diff
topic is auto-committed.  Correct when: dictionaries and groups agree, a process of the VK
container is never twice in a group, a restart forgets no channel, an announced channel
ends up consumed.

### VK parser (`services/vk-parser`)

*Parse requests and their cache* (`Actions/ParseVkDataAction.py`,
`Tasks/CacheCheckTask.py`, `Tasks/SaveParsedDataTask.py`,
`Tasks/PublishToKafkaTask.py`).  State: groups, posts and cached_periods tables,
what was sent to Kafka, the local state of each request.  Operations: compute the
gaps of a request, read what is cached, fetch gap after gap, save, publish, answer.
Hard: requests of one group run side by side; save is a sequence of select-then-
insert steps any of which may fail; a period, once recorded, is never fetched
again; ids are unique per wall, the table's key is the id.  Correct when: no
recorded period claims a post the table lacks, answers are complete and show no
post twice, what is saved is published, only gaps are fetched.

*VK wall client* (`VkParser/vk_client.py`, `execute_pool.py`, `wall_offsets.py`).
State: the pool of calls of one fetch and the bounds of a binary search.  Operations:
resolve and describe the group, count its posts, two binary searches for the offsets
of a range, page calls in chunks of an `execute`, splits and retries.  Hard: offsets
shift when a post is made or deleted during the search; posts of one second at a bound;
a pinned post stands at offset 0 whatever its date; errors inside an `execute` are
dropped; a chunk is halved until nothing is left; retries without limit.  Correct when:
of a quiet wall nothing is left out but what the search cannot place (ties at a bound, a
pinned post before newer ones), one new post does no harm, a fetch ends.

*Token resolution* (`Tasks/GetVkTokenTask.py`, `Ship/Core/AuthServiceClient.py`):
AuthService, then the old table, then the settings.  Hard: which errors lead on to a
fallback is a matter of the order of `except` clauses over a hierarchy of exceptions.
Correct when: a user AuthService has no usable token for gets no other.

*Search WebSocket* (`UI/API/Controllers/VkSearchWsController.py`).  State: per
connection the task of the last query; in Redis the answers of the last 120 seconds,
for all connections.  Operations: handshake, accept or reject a message, look up,
search, compare with the groups table, store, send, disconnect.  Hard: the task is
cancelled at any await and the client goes at any time; connections overwrite each
other's answers.  Correct when: only the newest query is answered, by what belongs to
it, and it is answered in the end; no task outlives its connection.

*Read endpoints and JWT verification* keep no state.

### Channel consumer (`services/channel-consumer`)

`Ship/tasks/vk_group_kafka_worker.py` gathers groups from Kafka in a buffer and
flushes it when it is full or, as a message arrives, old: upsert, put in a cache,
publish the cache to the diff topic, clear the cache.  The Telegram module is the
same code.  Hard: auto-commit of messages still in the buffer, a shutdown that
cancels the worker within a flush, a flush that fails is dropped, the cache is
cleared when part of it could not be sent.  Correct when: what is announced is in
the table, which the registry relies on; a shutdown loses no record; table and diff
topic show the same; no record with a batch behind it stays in the buffer.

### Normalizer (`normalizer`), indexer (`indexer`), shared tables (`shared/models`)

The *normalizer* runs a cycle at an interval, and another beside it on
`GET /trigger`: it reads groups and posts, and writes a resource, a metrics
snapshot, a topic profile and a versioned document per group.  The *indexer* runs at
most one sync at a time: it selects the documents whose `synced_at` is NULL or
before `updated_at`, reads metrics and topic row by row, bulk-indexes, and sets
`synced_at` to the time the sync began.  Hard: both interleave query by query; a
document is written while it is being synced, or carries an older timestamp than
the one before it; parts of a bulk are refused; either process stops anywhere.
Correct when: what is marked as synced is in the index, versions count writes, and
the index comes to show the groups as they are.

### Recommendation API (`recs_api`)

`POST /recommend` saves the request, searches OpenSearch, ranks, and saves
candidates and results: inserts only.  What could be wrong is the arithmetic of
`ranker.py` and a partly written result.

### The rest

Deployment manifests, migrations, telemetry, documents and the `spec-kit`
directories: configuration or generated, without state of their own.

## 2. Modules

| module | models | extends |
|---|---|---|
| `AtLeastOnceQueue` | what a consumer with manual commits promises | |
| `PostsWorker` | the worker loop of the posts consumer; implements `AtLeastOnceQueue` | |
| `PostsWorkerProofs` | theorems about it | `PostsWorker`, `LastOffset` |
| `ConsumerRegistry` | bootstrap, cache, manager and diff worker of the posts consumer | |
| `ConsumerRegistryProofs` | theorems about it | `ConsumerRegistry` |
| `GroupBatcher` | the batch worker of the channel consumer | |
| `GroupBatcherProofs` | theorems about it | `GroupBatcher`, `LastOffset` |
| `LastOffset` | a lemma that the proofs of both consumers and of the cache use | |
| `Normalizer` | normalize_cycle and the tables it reads and writes | |
| `IndexPipeline` | sync_cycle beside the normalizer | `Normalizer` |
| `IndexPipelineProofs` | theorems about both | `IndexPipeline` |
| `ParseCache` | POST /parse/vk | |
| `MCParseCache` | its symmetry for TLC | `ParseCache` |
| `ParseCacheProofs` | theorems about it | `ParseCache`, `LastOffset` |
| `WallClient` | get_vk_data: the wall client and its execute pool | |
| `WallClientProofs` | theorems about it | `WallClient` |
| `SearchSession` | WS /search/vk/ws, token resolution | |
| `SearchSessionProofs` | theorems about it | `SearchSession` |

A step of a model is what the code does between two awaits that matter: one query,
one Kafka call, one VK call.  Variables marked `history` in a module record what
has happened for the properties and influence no step.  Failures, stops and
rebalances draw on a bounded budget (`Fault`, `Failure`); every other bound is a
constant of its own, named in the module.

**PostsWorker.**  `log`, `committed` and `owner` are the topic and the consumer
group as Kafka sees them; `position` is the owner's `AIOKafkaConsumer`; `pc` and
`batch` are the local state of `ConsumerWorker.run`; `rows` is the posts table.
`Fetch` is `consume_posts_batch_task` (getmany, decoding, `messages[:batch_size]`),
`Discard`, `Upsert` and `UpsertFail` are `batch_process_posts_action`, `Commit` and
`CommitFail` the commit, `Resume` the end of the back-off, `Start`, `Stop` and
`Assign` the process and the group.  A record is a post id or one of two kinds of
bad record: not JSON, or JSON that validation refuses.  A getmany that raises only
delays the loop and is left out.

**ConsumerRegistry.**  `consumers` and `tasks` are the manager's dictionaries,
`joined` how many Kafka consumers the process really has in a group, `cache` and
`age` the cache with its 300 seconds, `diff` and `target` the diff worker.  The methods
of the cache and of the manager are operators of their own (`CheckDuplicate`, `PutAll`,
`PutOne`, `Clear`; `HasConsumer`, `AddConsumer`, `RegisterTask`, `ShutdownAll`), of
which the actions are made.  `Boot`, `BootCreate`, `BootDone` are the bootstrap;
`ReceiveKnown`, `ReceiveNew`, `Create`, `CreateSecond`, `Undo`, `CreateFail` the handling
of an announcement; `Shutdown` the end that commits what the diff worker was handed,
`Die` the end that does not.  One posts-consumer process is modelled.
`SharedDatabase` says whether the VK container reads the groups table the channel
consumer writes; it is TRUE in the runs, as in the test deployment, while
`deploy/parsers/posts-consumer/prod/vk-configmap.yaml` names another database.  Every
announcement is a channel with an integer id: the channel consumer, which alone
publishes on the diff topics, sends nothing else.  `remove_consumer`, the
`update_*_cache` actions, `get_cached_*` and `clear_cache_task` are called by nothing
and left out.

**GroupBatcher.**  `log` and `committed` are the topic and the offsets of the consumer
group, `position` what the one process has been handed of each partition, `buffer`
is `batch_groups`, `cache` the object cache, `rows` the groups table and `diff` the
last record the diff topic shows of each group.  `Receive` is an iteration of the
consume loop up to the flush, `FlushNothing`, `Upsert`, `UpsertFail`, `Publish` and
`PublishFail` are `batch_process_groups_action`, divided at its awaits, with the loop's
clearing of the buffer in `EndFlush`; `Stop` is the cancellation by `lifespan`, at any
of these awaits, and the flush it starts; `ReadFail`, `StopDead` and `Crash` are the
ends without one.  `AutoCommit` writes the position at any time.  `Expire` is the
passing of BATCH_TIMEOUT.  A record is a group or one of two kinds of bad record, and
is known by partition and offset.  Left out: a Telegram record without an id, which
gets a new UUID at each reading, so that a second reading is another channel; a
shutdown whose waiting is cut short because the other module's task raised.  The
cache expires after 300 seconds, but is only read right after a put.

**Normalizer, IndexPipeline.**  A row that is copied from table to table is the
revision of what it was copied from.  Each cycle has a slot with its local state;
each query is an action.  Snapshots are kept as the newest by `snapshot_at`, the
only one ever read.  Timestamps are those of one clock: normalizer and indexer are
taken to be synchronised, and there is one replica of each.  `IndexSyncLog` is
written and never read, and is left out.

**ParseCache.**  `wall` is VK, `groupRow`, `rows` and `periods` are the three tables,
`published` is Kafka, and `req[r]` the state of a request from `Start` over `Check`
(CacheCheckTask), `ReadCached`, `Fetch`, the save (`LookForGroup` to `SavePeriod`, each a
query) and `Publish` to `Answer`.  `MissingPeriods` is calculate_missing_periods, written
as a fold over `Turn`, an iteration of its loop.  Time is counted in microseconds, the
`epsilon` of the code, and every one may bring a post.  A request has one link, spelt as
the screen name; requests of several links do this for each in turn.  The two queries of
CacheCheckTask are one step, because what the first can see is never deleted.  A fetch
returns posts newest first, and may lack some (a fault): those of calls VK refuses inside an
`execute`, those shifted past a page, and those `WallClient` shows to be lost on a quiet
wall (`Tied`, `OutOfOrder`).  Formatting, sorting and the metrics of the answer
are left out.

**WallClient.**  `wall` is the group's wall, ordered by date, without the post the group
has pinned, which is `pin`; `Shown` is both together, offset 0 being its last element, so
that the pinned post is shown first however old it is.  `pool` holds the chunks of
AdvancedExecutePool that are still to be executed or have failed in this round, `got` the
answers by offset.  `Execute`, `ExecuteLost` and `ExecuteFail` are
the three ends of an `execute` (answered, where single calls may be refused; an
exception that counts as success; an error), `Retry` a further round, `PoolFail` an
exception out of the pool.  `Resolved`, `Informed`, `Counted`, `SearchOn`, `StartFound`,
`EndFound` and `Collected` are the client between two uses of the pool, with `Narrow`,
`Found` and `Offsets` for the arithmetic of `binary_search_date` and
`build_wall_offsets`.  `MakePost` and `DeletePost` come at any time after the count.
Every fetch begins from any wall within the bounds, where any one of the posts may be the
pinned one; the others are in the order of their dates, since VK dates a post as it
appears on the wall and `binary_search_date` relies on it.  A post that is pinned or
unpinned during a fetch is left out (the pinned one may be deleted), and so are `search`
and the counters of a post, which pages also bring.  What `Fetch` of `ParseCache` may
return is what this module shows: all posts of the gap, or fewer when a call is refused,
the wall moves, or one is tied at a bound or pinned before newer ones.

**SearchSession.**  `phase` is how far `vk_search_ws` is for a connection, `tasks` the
task it has in flight (a set, so that a second would show), `cache` the keys in Redis,
`groups` the groups table.  A task is the answer in the making: `LookUp`, `Search`,
`Exist`, `Store` and `Send` are the awaits of `_perform_search` and `_handle_and_send`;
at each it can be cancelled, by `Accept` (which awaits the cancelled task before it
starts the next, so that both are one step) or by `Disconnect`.  `Reject` is a message
that is answered by an error alone, where that answer fails; where it succeeds nothing
changes.  The interval between accepted queries is left to `Accept`: any message may be
accepted or rejected.  In the handshake, `AskAuthService` runs over the replies its
client tells apart, and each of them ends, goes on to the old table (`LookUpLegacy`) or
to the settings (`Fallback`); whether the two fallbacks are configured is chosen anew for
each connection, which allows more than any one configuration.  A query is its normal
form and a spelling; the groups it finds are one.

## 3. Runs

Every run is exhaustive within its bounds.  `TypeOK` of a module is a part of its `IInv`
wherever a run checks that.  Deadlock is not checked: a system whose
announcements, requests and faults are used up has nothing left to do.

| run | what it shows | bounds | distinct states |
|---|---|---|---|
| `posts_faults` | a committed post is written, or was lost in one of two known ways; commits never move back; every post is handled | 1 channel, 2 processes, 1 id, batch of 2, fetches of up to 3, 4 records, 2 faults | 329,228 |
| `posts_clean` | where no batch is cut or refused the worker implements the queue, leaves no stale row and writes every post; the invariant of `NoStaleRow` | 1 process, 2 ids, fetches of up to 2, 4 records, 2 faults | 67,862 |
| `posts_truncated` | violation: records beyond the batch are committed unread | fetches of up to 2, batch of 1, no fault | |
| `registry_both` | dictionaries and groups agree; VK never joins twice and forgets nothing; announced channels are served | 2 containers, 2 channels, 4 announcements, 2 stops, 2 failures | 563,232 |
| `groups_faults` | what is announced is stored; a shutdown loses nothing; table and diff topic agree; full batches are flushed | 2 partitions, 1 group, batch of 2, 3 records, 1 stop, 1 fault | 275,028 |
| `groups_timeout` | violation: a partial batch with no record behind it waits for good | 1 partition, 2 records, no stop, no fault | |
| `pipeline_overlap` | the index settles with two overlapping cycles and a sync | 1 group, 1 change, 3 cycles, 2 at a time | 1,685,851 |
| `pipeline_faults` | versions count writes, what is marked as synced is indexed, the index settles; the inductive invariant of the proofs | 1 group, 1 change, 3 cycles, 2 faults | 859,605 |
| `parse_overlap` | recorded periods are accounted for, answers complete, saves published, gaps exact, for two requests side by side; the inductive invariant | 1 group, 3 moments, 2 requests, 1 edit, 1 fault | 6,047,497 |
| `parse_twice` | violation: an answer shows a post twice | 2 requests, 1 edit | |
| `wall_fetch` | of a quiet wall all is answered but ties at a bound and a pinned post before newer ones, one new post is absorbed, a fetch ends; the inductive invariant | walls of up to 4 posts, or 3 with a pinned one, in 4 seconds, pages of 2, 2 calls a chunk, 1 change, 1 fault | 1,868,050 |
| `search_session` | only the newest query is answered, by what fits it, and it is answered; no orphan task, no borrowed token | 2 connections, 2 forms in 2 spellings, 2 queries, 1 fault | 374,876 |

Why the bounds are enough.  *Posts*: channels share nothing but rows of equal ids, which
the second id of `posts_clean` covers within a channel; two processes are needed for a
stale commit and a third could only repeat what the second does; four records are two
batches, so that a commit after a failed or cut batch can be seen, and two faults are a
takeover and its return.  *Registry*: a second channel is needed for an expiry that one
announcement brings about and another suffers; three announcements are one of each and a
repetition, and a fourth comes after a failure; two stops are one in bootstrap after one
in the diff worker.  *Groups*: groups share nothing but the buffer, in which the record of
another group is as much a filler as one that validation refuses; two partitions give
duplicates out of order, three records a batch and the beginning of the next, one fault
and one stop a failed publication whose cache the flush of a shutdown sends. *Pipeline*:
groups interact only by aborting a cycle between them, which an abort before the first
covers for one group; of the three cycles, one is begun before the change and two are the
undisturbed ones `IndexSettles` asks for.  *Parse*: three moments give a range with a gap
on either side of a period and between two, `GapsAreTheRest` evaluates the gap computation
on every set of periods of four moments; two requests are the fewest that race.  That two
groups share the ids of the posts table is not in this run; `CachedPeriodsAccounted` is
proved for any number of groups.  *Wall*: four posts are two full pages and the split of a
chunk of two calls, four seconds give a date inside the range, at each bound and outside
on either side, with ties; a pinned post and two others are what its loss takes, a probe
behind it that ends the second search; one change is what `OneNewPostAbsorbed` speaks of.
*Search*:
two connections are what sharing the cache takes, two queries a query and the one that
supersedes it, or one on each connection; two spellings of one form meet in one key.

Fairness.  `PostsWorker`: a task takes its next step, since the event loop runs
ready tasks; a process that is down is started, as the Deployment does; the group
gives a free partition to a running process.  `ConsumerRegistry`: bootstrap and diff
worker go on, again by event loop and Deployment; no fairness for expiry, commits,
stops or announcements.  `GroupBatcher`: the process is started, its worker resumed,
each partition read while it has records (aiokafka takes the partitions in turn),
positions committed at intervals, and time passes; none for stops and failures.
`IndexPipeline`: the interval job starts a sync and a sync
takes its steps; none for the normalizer, whose quiet is the premise of
`IndexSettles`.  `WallClient`: the pool ends what it executes, since the HTTP session has
a timeout, and the client goes on; none for posts made or deleted.  `SearchSession`: the
task of a connection takes its next step; none for messages, disconnects or expiry.
`ParseCache` has safety properties only.

Symmetry is used in `MCParseCache` alone, whose properties are invariants and one
action property.

## 4. What is proved

Every safety and action property of a passing run is a theorem: TLAPS checks it for
all values of the constants that satisfy the named assumptions (`PostsAssumption`,
`RegistryAssumption`, `BatcherAssumption`, `NormalizerAssumption`, `PipelineAssumption`,
`ParseAssumption`, `WallAssumption`, `SearchAssumption`).  These say that the bounds are
natural numbers; that `None` is no element of the sets it stands beside; that batch size
and the calls of an `execute` are not 0, nor is the horizon, so that there is a moment a
range can be of; that a page holds two posts or more (it is 100 in the code), since the
first of them may be the pinned one; and that the groups of a parser and the cycles of a
normalizer are finitely many.  Where a theorem has a hypothesis of its own it is named
below, and a run whose constants satisfy it checks the same property.

**PostsWorkerProofs.**  `TypeCorrect`.  `Accounting`: the invariant `IInv`.  That a
post below the committed offset is written or let go of (`LossAccounted`) is not
inductive, because `Commit` writes the *position*: it takes `TakenAccounted`, the
same of every post the present owner has been handed, with the batch in its hands as
a third place to be; and that in turn `BatchInv`, which says that a task holds a
batch only while it processes it.  A takeover restores `TakenAccounted` from
`LossAccounted`, since the new owner begins at the committed offset.  `NoOtherLoss`
is the property, `CommittedGrows` the action property that follows from
`PositionInv`.  `AtLeastOnceWhenLossless`: where getmany returns at most a batch and
no upsert fails, nothing is ever let go of (`FirstOfAll`: a set no larger than the
batch is its own first part), so that every committed post is written.
`ImplementsQueue`: under that condition each step is a step of `AtLeastOnceQueue` or
a stutter, with what was written as delivered.  `NoStaleRow` supposes in addition that
one process and one topic write the table (`Alone`), as `posts_clean` does: with two, a
process whose partition was taken away still writes its batch over newer rows.  It takes
`FreshInv` (`BatchesAreFresh`): a batch lies beyond the committed offset, and every other
record its owner was handed is in the table already and older than the batch, so that
no upsert can put a record back behind a committed one.

**ConsumerRegistryProofs.**  `RegistryInvariant`: `IInv`, made of `PhaseInv` (which
phase has which tasks and consumers), `MemberInv` (the groups hold the registered
consumers and the one about to be undone), `VkInv` (the VK worker never creates what
is there) and `MemoryInv` (what was served was announced, so that loading the groups
table brings it back).  From it `TypeCorrect`, `Agreement`, `NoSecondMember` and
`NothingForgotten`.

**GroupBatcherProofs.**  `Accounting`: the invariant `IInv`.  `AnnouncedAreStored` takes
`StoredFirst`, since a publication sends whatever the cache holds, earlier failed
batches included.  `ShutdownLosesNothing` speaks of committed offsets; as a commit
writes the position at any time, the same must hold of every record handed out
(`HandedAccounted`), and of a flush that is cancelled it must be known that the buffer
still holds its records.  `TableMatchesDiff` takes `Agreement`, which says step by step
which of table, cache and topic agree on a group.  `BatchedProperties` rests on
`LastExists`: a non-empty set of places has a last one.  From it `TypeCorrect`,
`NothingAnnouncedUnstored`, `NothingLostByShutdown`, `TableAndDiffAgree`.

**IndexPipelineProofs.**  `PipelineInvariant`: `IInv`.  That a document marked as synced
is in the index as it says (`MarkedIsIndexed`) is a matter of two clocks: the mark is the
time the *sync* began, the comparison is with `updated_at` of the *document*, and a cycle
may write between the two.  `CopyInv` follows what a sync holds of each document it
selected: it is what the document says, unless the document has been written since
(`unseen`), and what is to be marked is in the index as it was copied.  `ClockInv` says
that no timestamp is ahead of the clock and, between the beginning of a sync and its
selection, that none equals the sync's own; `MetricsInv`, that a document has metrics to
go with it, so that a copy is never without.  `VersionsCount` takes `VersionInv`: a cycle
that is alone holds the successor of the version it read.  From it also `TypeCorrect`.

**ParseCacheProofs.**  In two parts.  `Accounting` is the invariant `Core`.  A recorded
period must be accounted for moment by moment, and so must the gap a request is about to
record, at every step of its save: `GapInv` says that each of its moments is without a
post, in hand or lost, `SavedInv` that what is in hand and done with is stored.  That
other requests do not disturb this rests on `Grows`: time goes on, no post appears in the
past, no row changes its group or date.  `CachedPeriodsAccounted` and
`NothingSavedUnpublished` follow.  This part says nothing of the gaps themselves (the
fields that choose them are left untyped in `Shape`): whichever gap a request sets out
for, what it records is accounted for.

The second part is about the gaps.  `MissingPeriodsAreTheRest` shows that the loop of
calculate_missing_periods returns periods that hold exactly the moments of the range that
no recorded period holds, each once.  Its invariant, `TurnKnows`, is that after the periods
up to any one of them in the order of their start, the gaps so far hold the uncovered
moments before the cursor, and the cursor has passed every moment those periods
cover.  Since the induction theorems of the library cannot be cited, the loop is reasoned
about by its smallest counterexample: if some stage of it lacked the invariant, or a value
at all (`LoopExists`), there would be a least one (`NoSmallest`, from the well-foundedness
of the natural numbers), and the stage before it contradicts it.  From `GapsExact` (every
set of periods) the invariant `IInv` follows (`CacheInvariant`, over `NextFull`,
`NextGroupInv` and `OwnAnswer`): ranges, gaps and periods are proper (`RangeInv`), a group
without a row has no period (`GroupInv`), and every post of the range is in the answer so
far, given up, or in a gap still to be fetched (`AnswerInv`).  Another request may
meanwhile record a period, but never takes one away, so that what was covered stays
covered (`CoveredIsRead`).  `AnswersLackNothing`, `OnlyGaps` (an action property: no moment
a period held at the check is fetched) and `TypeCorrect` follow.

**WallClientProofs.**  `FetchInvariant`: `IInv`.  The binary search needs no induction:
what it knows is stated of any interval it may stand at.  `SearchInv` says that the posts
newer than the interval are after the bound it looks for and those older before it, and
`SearchNarrows` that a probe that misses keeps that true of the next interval,
`SearchFinds` that what is returned at a hit, or when nothing of the interval is left, is
a post of the bound or lies between those before and those after it.  A post made meanwhile
moves every offset by one, so that all of this is stated up to `Shift`, the number of
posts made since the count, and a probe is compared with what stands, *or has stood*, at
its offset (`Dated`).  The pool is treated alike: `CallInv` says that what was asked for is
what was answered or is still in a chunk, whatever the splits and retries
(`ExecuteFailKeeps`, `RetryKeeps`); `GotInv`, what an answer is worth as long as the wall
has not changed.  A probe that meets the pinned post takes its date for that of the newest.  All that
can go wrong is that a search ends right behind it: `PinAfter` says what the second has
then found out of its date, and `IsStart` allows the first to return 0 too early, which
the first page, of two posts or more, makes up for.  `AllAnswered` then takes that the offsets of `build_wall_offsets` reach
from one bound to the other (`OffsetsProperties`) and that what is owed lies between them
or has the date of one (`OwedInReachOrTied`), and that a pinned post is on the first page
unless a newer one, not before the end of the range, ended the second search behind it
(`PinInReachOrTied`).  `NewPostAbsorbed` takes `OneExecuteInv`:
with the pages in one `execute`, they are all read before the post or all after it, and
either way the owed posts are among them (`OwedInReach`), because the start that was found
is the offset of a post older than the range, one more than is owed.  It supposes that no
post is pinned: the first search may then return 0 although a post of the range is at
offset 1, and a page of two no longer reaches that once it has shifted.  Division is by the
lemmas `DivBounds` to `MidBetween`, since the solver knows the integer quotient only
through them.

**SearchSessionProofs.**  `SearchInvariant`: `IInv`.  That only the newest query is
answered takes three facts together: a connection has one task at most (`OneTask`), it is
of the query accepted last, and nothing was sent for that query while its task is not yet
done with sending (`Current`).  That the items fit takes what a task has in the making at
each step (`Making`), what binds it to the query (`Fits`) and the same of every payload
in Redis (`CacheInv`); a group that was in the table when the query came is still there
when the table is asked.  `TaskKeeps` says once what a step of one connection's task
leaves alone.  From it `NoSearchOrphaned`, `ItemsFit`, `NoTokenBorrowed` and
`OnlyNewestAnswered`.

## 5. What is only model-checked, and what is not modelled

Liveness is beyond TLAPS as installed, which has no proof rule for fairness and ENABLED:
`EveryPostHandled`, `EveryPostWritten`, `EveryChannelServed`, `FullBatchesFlushed`,
`IndexSettles`, `FetchEnds` and `LastQueryAnswered` are checked by TLC within the bounds
of section 3, and so are the three violations of section 6, which are single behaviours.
All other properties are proved.  Two of the theorems speak of fewer systems than the
module: `ImplementsQueue` (and `AtLeastOnceWhenLossless`) where nothing is cut or refused,
as `posts_truncated` shows what happens otherwise, and `NoStaleRow` with one process and
one topic.  What of these is true of several processes is `NoOtherLoss`, which has no
hypothesis.

Not modelled: the recommendation API, which inserts what it computes row by row and
never reads it again, and whose ranking is arithmetic on floating-point scores;
endpoints that only read; JWT verification, whose outcome alone matters (`Unverified`);
the metrics and the order of the posts of an answer; manifests, migrations and
telemetry; the `message` container of the posts consumer and its worker, which no
bootstrap starts.

Hazards the models show without a property that forbids them, as no document
promises otherwise: posts of two groups with one id overwrite one another
(`UpsertedRows`, `SavePost`); a period that reaches into the future is recorded as
parsed (`missed`); a channel whose consumer cannot be created stays unserved
(`CreateFail`), and a process whose diff worker could not be started hears of no channel
until it is restarted (`StartDiffFail`): `EveryChannelServed` assumes no failure; two
cycles of the normalizer side by side may give two writes one version, and
`VersionCountsWrites` speaks only of cycles that run one at a time; a restart of the Telegram container forgets a channel without a stored
post, which the loading task calls a minimal implementation (`Loaded`), and, when one is
announced after the cache expired, joins its group a second time until the manager
refuses the second consumer (`CreateSecond`, `Undo`: `OneMember` does not hold of it,
`OneMemberVk` does of VK); of several posts of the second at which a range begins or ends
some are not fetched (`Tied`), nor is a pinned post of the range, if a newer one at or
behind the end of the range stops the second search behind it (`OutOfOrder`); what VK
refuses or loses in an `execute` is not fetched, and the period is recorded as parsed all
the same (`Execute`, `ExecuteLost`, in `ParseCache` a fault of `Fetch`; `PeriodsAccounted`
and `AnswersComplete` let it pass as "missed"); an error other than 13 is tried again as
long as it lasts (`FetchEnds` has such errors end); two posts of one second with equal counters count as one
once their ids have been stripped from an answer that is merged (time in `ParseCache` is
too fine for it to happen); a cached search may show `in_db` as it was 120 seconds ago
(`LookUp`); a group whose
send failed is dropped from the cache when another was sent (`PublishFail`; it takes two
groups, where the run has one and the theorems any number), and a
batch the database refused is dropped (`UpsertFail` of `GroupBatcher`); saving any gap
refreshes the age of the whole group (`SaveGroup`).
`PROJECT.json` lists every hazard with its line.

## 6. Where the code and its documents disagree

- `posts_truncated`: "manual commit for at-least-once semantics"
  (`CreateKafkaConsumerTask.py`), but records that getmany returned beyond the batch
  size are dropped and then committed.  A batch the database refused is the second
  cause: it is committed with the next (`UpsertFail`).
- `groups_timeout`: BATCH_TIMEOUT is the "max seconds to wait before flushing incomplete
  batch", but it is only looked at when a message arrives.
- `parse_twice`: `parser-flow.md` says that the data of an answer are deduplicated,
  but a post whose counters have changed is answered twice.

## 7. Plan

The order was: the loss of posts first (`PostsWorker`), then who consumes at all
(`ConsumerRegistry`), then what is made of the rows (`Normalizer`, `IndexPipeline`),
then where they come from (`ParseCache`), how groups are announced (`GroupBatcher`), how
a wall is fetched (`WallClient`) and how one searches (`SearchSession`).  What follows:

1. `GroupBatcher` composed with `ConsumerRegistry`, whose `Announce` it is to refine:
   there a group's row and its announcement are one step, here `AnnouncedAreStored`
   relates the two.
2. Proofs: the refinement of `Announce`; of `PostsWorker`, what becomes of a row when a
   second process or topic writes it; of `IndexPipeline`, the safety part of
   `IndexSettles`, that a document no cycle has touched since its index entry was made
   is not sent again with other contents.

`pipeline_overlap` and `pipeline_faults` ask the same of the index under different bounds
and stay apart: two cycles at a time with faults are beyond what a run can cover.
