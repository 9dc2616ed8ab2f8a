------------------------------ MODULE GroupBatcher ------------------------------
(***************************************************************************)
(* The channel consumer of services/channel-consumer: a worker gathers the *)
(* groups it reads from Kafka in a buffer and flushes it in a batch: it    *)
(* upserts them, puts them in a cache, publishes the cache to the diff     *)
(* topic, and clears the cache.  The offsets are committed automatically,  *)
(* whether their records are still in the buffer or not.                   *)
(*                                                                         *)
(* The Telegram and the VK module hold the same code twice; this module    *)
(* stands for both.  One process runs, and it reads all partitions.  The   *)
(* records carry no key, so those of a group are spread over them and come *)
(* in any order.                                                           *)
(*                                                                         *)
(* A Telegram record without an id is given a new random one each time it  *)
(* is validated; the model has only records with an id.                    *)
(*                                                                         *)
(* The cache has a time to live of 300 seconds, but it is only read right  *)
(* after groups have been put, so it is never found expired.               *)
(***************************************************************************)
EXTENDS Naturals, Sequences, FiniteSets

CONSTANTS
    Partitions,     \* the partitions of the topic
    Groups,         \* VK groups or Telegram channels
    None,           \* no record
    BatchSize,      \* BATCH_SIZE
    MaxLog,         \* bound: the records of the topic
    MaxStops,       \* bound: the shutdowns of a behaviour
    MaxFaults       \* bound: the crashes and the failures of Kafka and the database

Junk     == "not a JSON object"
Unusable == "refused by the schema"
Record   == Groups \cup {Junk, Unusable}

ASSUME BatcherAssumption ==
    /\ BatchSize \in Nat \ {0}
    /\ MaxLog \in Nat /\ MaxStops \in Nat /\ MaxFaults \in Nat
    /\ None \notin Partitions \X Nat
    /\ Groups \cap {Junk, Unusable} = {}

VARIABLES
    log,        \* log[p]: the records of partition p
    committed,  \* committed[p]: how many of them the consumer group has committed
    position,   \* position[p]: how many of them the worker has been handed
    step,       \* where the worker stands
    stopping,   \* whether it has been cancelled
    late,       \* whether BATCH_TIMEOUT has passed since the last flush
    buffer,     \* batch_groups: the records in it, in the order of their arrival
    cache,      \* cache[g]: the record of g in GroupObjectsCache, or None
    rows,       \* rows[g]: the record the table shows of g, or None
    diff,       \* diff[g]: the record the diff topic showed last of g, or None
    delivered,  \* history: the records whose batch was stored and published
    stops, faults

topic == <<log, committed, position>>
worker == <<step, stopping, late, buffer>>
vars == <<topic, worker, cache, rows, diff, delivered, stops, faults>>

\* A record is known by its partition and its place there.
Id == Partitions \X Nat

Of(id) == log[id[1]][id[2]]

Steps == {"down", "wait", "upsert", "publish", "dead"}

TypeOK ==
    /\ log \in [Partitions -> Seq(Record)]
    /\ committed \in [Partitions -> Nat]
    /\ position \in [Partitions -> Nat]
    /\ step \in Steps
    /\ stopping \in BOOLEAN
    /\ late \in BOOLEAN
    /\ buffer \in Seq(Id)
    /\ cache \in [Groups -> Id \cup {None}]
    /\ rows \in [Groups -> Id \cup {None}]
    /\ diff \in [Groups -> Id \cup {None}]
    /\ delivered \subseteq Id
    /\ stops \in Nat /\ faults \in Nat

Nothing == [g \in Groups |-> None]

Init ==
    /\ log = [p \in Partitions |-> <<>>]
    /\ committed = [p \in Partitions |-> 0]
    /\ position = [p \in Partitions |-> 0]
    /\ step = "down" /\ stopping = FALSE /\ late = FALSE
    /\ buffer = <<>>
    /\ cache = Nothing /\ rows = Nothing /\ diff = Nothing
    /\ delivered = {}
    /\ stops = 0 /\ faults = 0

Fault == faults < MaxFaults /\ faults' = faults + 1

------------------------------------------------------------------------------
(* What a batch becomes.                                                   *)

Buffered == {buffer[k] : k \in DOMAIN buffer}

\* What TgChannelService or VkGroupService lets through.
Usable(id) == Of(id) \in Groups

Valid == {id \in Buffered : Usable(id)}

PlacesOf(g) == {k \in DOMAIN buffer : Of(buffer[k]) = g}

\* Mutant of Batched: the first record of a group wins.
BatchedOldest(of) ==
    [g \in Groups |->
        IF PlacesOf(g) = {} THEN of[g]
        ELSE buffer[CHOOSE k \in PlacesOf(g) : \A l \in PlacesOf(g) : k <= l]]

\* In a dictionary the last record of a group replaces those before it.
LastOf(g) == buffer[CHOOSE k \in PlacesOf(g) : \A l \in PlacesOf(g) : l <= k]

\* The last record of each group in the batch, and of the others what they had:
\* unique_groups of the upsert, and the dictionary behind the cache.
Batched(of) == [g \in Groups |-> IF PlacesOf(g) = {} THEN of[g] ELSE LastOf(g)]

\* The table when the batch has been upserted, and the cache when it has been put.
Upserted == Batched(rows)
CachePut == Batched(cache)

Cached == {g \in Groups : cache[g] # None}

\* The diff topic when the cached records of S have reached it.
Sent(S) == [g \in Groups |-> IF g \in S THEN cache[g] ELSE diff[g]]

------------------------------------------------------------------------------
(* The topic and the clock.                                                *)

Produce(p) ==
    /\ Cardinality({id \in Partitions \X (1 .. MaxLog) : id[2] <= Len(log[id[1]])}) < MaxLog
    /\ \E r \in Record : log' = [log EXCEPT ![p] = Append(@, r)]
    /\ UNCHANGED <<committed, position, worker, cache, rows, diff, delivered, stops, faults>>

\* enable_auto_commit: what has been handed out is committed now and then.
AutoCommit ==
    /\ step \notin {"down", "dead"}
    /\ committed # position
    /\ committed' = position
    /\ UNCHANGED <<log, position, worker, cache, rows, diff, delivered, stops, faults>>

\* BATCH_TIMEOUT seconds have passed.
Expire ==
    /\ step = "wait"
    /\ ~ late
    /\ late' = TRUE
    /\ UNCHANGED <<topic, step, stopping, buffer, cache, rows, diff, delivered, stops, faults>>

------------------------------------------------------------------------------
(* consume_vk_groups.                                                      *)

Start ==
    /\ step = "down"
    /\ step' = "wait"
    /\ UNCHANGED <<topic, stopping, late, buffer, cache, rows, diff, delivered, stops, faults>>

NextId(p) == <<p, position[p] + 1>>

ReceiveInto(p, next, full) ==
    /\ step = "wait"
    /\ position[p] < Len(log[p])
    /\ position' = [position EXCEPT ![p] = @ + 1]
    /\ IF Of(NextId(p)) = Junk
       THEN UNCHANGED <<step, buffer>>
       ELSE /\ buffer' = next
            /\ step' = IF Len(next) >= full \/ late THEN "upsert" ELSE "wait"
    /\ UNCHANGED <<log, committed, stopping, late, cache, rows, diff, delivered, stops, faults>>

\* Mutants of Receive: the batch must grow beyond its size; a full buffer takes no
\* more.
ReceiveBeyond(p) == ReceiveInto(p, Append(buffer, NextId(p)), BatchSize + 1)
ReceiveDropping(p) ==
    ReceiveInto(p, IF buffer = <<>> THEN <<NextId(p)>> ELSE buffer, BatchSize)

\* A record that is no JSON object is dropped; any other is buffered, and only
\* then is it asked whether the batch is full or late.
Receive(p) == ReceiveInto(p, Append(buffer, NextId(p)), BatchSize)

\* The worker is gone, and its memory.
Gone ==
    /\ step' = "down" /\ stopping' = FALSE /\ late' = FALSE
    /\ buffer' = <<>> /\ cache' = Nothing
    /\ position' = committed'

\* consumer.stop() commits the position, unless that fails.
Leave ==
    /\ committed' \in {committed, position}
    /\ Gone

\* flush_group_batch has returned: the worker reads on or, cancelled, leaves.
EndFlush(kept) ==
    IF stopping THEN Leave
    ELSE /\ step' = "wait" /\ late' = FALSE
         /\ buffer' = <<>> /\ cache' = kept
         /\ UNCHANGED <<stopping, committed, position>>

\* Every record of the batch fails validation.
FlushNothing ==
    /\ step = "upsert"
    /\ Valid = {}
    /\ EndFlush(cache)
    /\ UNCHANGED <<log, rows, diff, delivered, stops, faults>>

UpsertAs(stored, kept) ==
    /\ step = "upsert"
    /\ Valid # {}
    /\ rows' = stored
    /\ cache' = kept
    /\ step' = "publish"
    /\ UNCHANGED <<topic, stopping, late, buffer, diff, delivered, stops, faults>>

\* Mutant of Upsert: the first record of a group in the batch is stored.
UpsertOldest == UpsertAs(BatchedOldest(rows), CachePut)

\* The rows are written and, with no await between, the groups are cached.
Upsert == UpsertAs(Upserted, CachePut)

\* Mutant of UpsertFail: the groups the database refused are published anyway.
UpsertFailGoesOn ==
    /\ Fault
    /\ step = "upsert"
    /\ Valid # {}
    /\ cache' = CachePut
    /\ step' = "publish"
    /\ UNCHANGED <<topic, stopping, late, buffer, rows, diff, delivered, stops>>

\* The database refuses the batch: it is logged, and the buffer cleared.
UpsertFail ==
    /\ Fault
    /\ step = "upsert"
    /\ Valid # {}
    /\ EndFlush(cache)
    /\ UNCHANGED <<log, rows, diff, delivered, stops>>

Publish ==
    /\ step = "publish"
    /\ diff' = Sent(Cached)
    /\ delivered' = delivered \cup Valid
    /\ EndFlush(Nothing)
    /\ UNCHANGED <<log, rows, stops, faults>>

\* The producer fails for some of the cached groups or for all.  The cache is
\* kept when it fails as a whole or at every send, and cleared otherwise: a send
\* that was accepted counts, although its delivery may fail.
PublishFail ==
    /\ Fault
    /\ step = "publish"
    /\ \E S \in SUBSET Cached : diff' = Sent(S)
    /\ \E kept \in {cache, Nothing} : EndFlush(kept)
    /\ UNCHANGED <<log, rows, delivered, stops>>

\* What an interruption leaves of the await it strikes: a query that has run or
\* not, and cached groups that have been sent or not.
Interrupted ==
    /\ IF step = "upsert" THEN rows' \in {rows, Upserted} ELSE rows' = rows
    /\ IF step = "publish" THEN \E S \in SUBSET Cached : diff' = Sent(S) ELSE diff' = diff

------------------------------------------------------------------------------
(* The end of the worker.                                                  *)

\* Mutant of Stop: a flush that is cancelled has had its try.
StopDropping ==
    /\ step \in {"wait", "upsert", "publish"}
    /\ ~ stopping
    /\ stops < MaxStops
    /\ stops' = stops + 1
    /\ Interrupted
    /\ Leave
    /\ UNCHANGED <<log, delivered, faults>>

\* The shutdown cancels the worker at the await where it is: what is in the
\* buffer, which a flush that is under way has not cleared, is flushed once more.
Stop ==
    /\ step \in {"wait", "upsert", "publish"}
    /\ ~ stopping
    /\ stops < MaxStops
    /\ stops' = stops + 1
    /\ Interrupted
    /\ IF buffer = <<>> THEN Leave
       ELSE /\ stopping' = TRUE
            /\ step' = "upsert"
            /\ UNCHANGED <<committed, position, late, buffer, cache>>
    /\ UNCHANGED <<log, delivered, faults>>

\* Reading raises: the worker's task ends, committing as it goes, with records in
\* its buffer.  Nobody looks after the task before the shutdown.
ReadFail ==
    /\ step = "wait"
    /\ Fault
    /\ committed' \in {committed, position}
    /\ position' = committed'
    /\ step' = "dead"
    /\ buffer' = <<>>
    /\ UNCHANGED <<log, stopping, late, cache, rows, diff, delivered, stops>>

\* The shutdown of a process whose worker's task has ended.
StopDead ==
    /\ step = "dead"
    /\ stops < MaxStops
    /\ stops' = stops + 1
    /\ committed' = committed
    /\ Gone
    /\ UNCHANGED <<log, rows, diff, delivered, faults>>

\* The process dies, and is started again.
Crash ==
    /\ step # "down"
    /\ Fault
    /\ Interrupted
    /\ committed' = committed
    /\ Gone
    /\ UNCHANGED <<log, delivered, stops>>

Flush == FlushNothing \/ Upsert \/ UpsertFail \/ Publish \/ PublishFail

Next ==
    \/ \E p \in Partitions : Produce(p) \/ Receive(p)
    \/ AutoCommit \/ Expire
    \/ Start \/ Flush
    \/ Stop \/ StopDead \/ ReadFail \/ Crash

Spec == Init /\ [][Next]_vars

\* The Deployment starts the process, the event loop resumes the worker, the
\* consumer hands it what each partition has and commits, and time passes.
Fairness ==
    /\ WF_vars(Start)
    /\ WF_vars(Flush)
    /\ \A p \in Partitions : WF_vars(Receive(p))
    /\ WF_vars(AutoCommit)
    /\ WF_vars(Expire)

FairSpec == Spec /\ Fairness

------------------------------------------------------------------------------
(* Properties.                                                             *)

\* Whoever hears of a group on the diff topic finds it in the table: the posts
\* consumer, which is restarted from the table, relies on it.
AnnouncedAreStored == \A g \in Groups : diff[g] # None => rows[g] # None

\* "Remaining messages are flushed before worker stops": as long as nothing fails,
\* a shutdown at any await, in the middle of a flush as well, loses no record,
\* although its offset may long have been committed.
ShutdownLosesNothing ==
    faults = 0 =>
        \A p \in Partitions : \A i \in 1 .. committed[p] :
            log[p][i] \in Groups => <<p, i>> \in Buffered \cup delivered

\* "DB -> Cache -> Kafka": as long as nothing fails, the table and the diff topic
\* show the same of every group whenever the worker waits for records, duplicates
\* within a batch and flushes begun twice notwithstanding.
TableMatchesDiff == faults = 0 /\ step = "wait" => rows = diff

\* The records of a partition that count towards a batch, from the i-th on.
BatchFrom(p, i) == {j \in i .. Len(log[p]) : log[p][j] # Junk}

\* A record with a batch of others behind it does not stay in the buffer for good,
\* unless the worker's task has ended for good.
FullBatchesFlushed ==
    \/ <>[](step = "dead")
    \/ \A p \in Partitions : \A i \in 1 .. MaxLog :
        (i <= Len(log[p]) /\ log[p][i] \in Groups /\ Cardinality(BatchFrom(p, i)) >= BatchSize)
            ~> (i <= committed[p] /\ <<p, i>> \notin Buffered)

\* "Max seconds to wait before flushing incomplete batch": a record that has been
\* read does not stay in the buffer for good.
BatchTimeoutHonoured ==
    \A p \in Partitions : \A i \in 1 .. MaxLog :
        (<<p, i>> \in Buffered) ~> (<<p, i>> \notin Buffered)
------------------------------------------------------------------------------
(* The inductive invariant behind the safety properties.                   *)

PositionInv ==
    \A p \in Partitions : committed[p] <= position[p] /\ position[p] <= Len(log[p])

\* The buffer holds records that have been handed out, and only a worker that is
\* there has one; a cancelled one is in a flush.
BufferInv ==
    /\ \A id \in Buffered : id[2] \in 1 .. position[id[1]]
    /\ step \in {"down", "dead"} => buffer = <<>>
    /\ stopping => step \in {"upsert", "publish"}

\* Whatever is cached or announced has been stored.
StoredFirst == \A g \in Groups : cache[g] # None \/ diff[g] # None => rows[g] # None

\* As long as nothing fails, a record that has been handed out is in the buffer or
\* has been delivered.
HandedAccounted ==
    \A p \in Partitions : \A i \in 1 .. position[p] :
        log[p][i] \in Groups => <<p, i>> \in Buffered \cup delivered

Settled(g) == cache[g] = None /\ rows[g] = diff[g]

\* As long as nothing fails, cache, table and diff topic agree on the groups that
\* are not in a flush, and before publication cache and table on those that are.
Agreement ==
    /\ step # "dead"
    /\ \A g \in Groups :
        \/ Settled(g) /\ (step = "publish" => PlacesOf(g) = {})
        \/ step = "upsert" /\ PlacesOf(g) # {}
        \/ step = "publish" /\ PlacesOf(g) # {} /\ cache[g] = rows[g] /\ cache[g] # None

\* What holds of a batch worker between any two steps: records are handed out
\* before they are committed, stored before they are announced, and not forgotten.
IInv ==
    /\ TypeOK /\ PositionInv /\ BufferInv /\ StoredFirst
    /\ faults = 0 => HandedAccounted /\ Agreement
==============================================================================
