------------------------------ MODULE PostsWorker ------------------------------
(***************************************************************************)
(* The posts consumer of services/posts-consumer: for every channel (or VK *)
(* group) a process runs one ConsumerWorker task over the channel's own    *)
(* topic.  A task polls a batch, validates and upserts it, then commits    *)
(* the position of its Kafka consumer by hand.                             *)
(*                                                                         *)
(* The Telegram and the VK container hold the same loop twice; this module *)
(* stands for both.  A topic is created with the broker's default of one   *)
(* partition, so it is one log, and the consumer group of a channel gives  *)
(* that log to at most one process at a time.                              *)
(***************************************************************************)
EXTENDS Naturals, Sequences, FiniteSets

CONSTANTS
    Channels,       \* Telegram channels or VK groups, one topic each
    Workers,        \* posts-consumer processes: the pods alive at one time or another
    PostIds,        \* the ids a storable post can carry (non-zero integers)
    None,           \* no process, no row
    BatchSize,      \* ConsumerWorker's batch_size
    FetchLimit,     \* bound: the most records one getmany returns
    MaxLog,         \* bound: the most records a topic receives
    MaxFaults,      \* bound: the failures, stops and rebalances of a behaviour
    UpsertMayFail   \* TRUE when the database may refuse a batch

BadJson  == "not json"
Unusable == "refused by PostDTO, or its id is zero"
Record   == PostIds \cup {BadJson, Unusable}
Row      == Channels \X Nat      \* channel and offset of the record it was written from

ASSUME PostsAssumption ==
    /\ BatchSize \in Nat \ {0}
    /\ FetchLimit \in Nat \ {0}
    /\ MaxLog \in Nat
    /\ MaxFaults \in Nat
    /\ UpsertMayFail \in BOOLEAN
    /\ None \notin Workers
    /\ PostIds \cap {BadJson, Unusable} = {}

VARIABLES
    log,        \* log[c]: the records of the channel's topic, in offset order
    committed,  \* committed[c]: how many of them the consumer group has committed
    owner,      \* owner[c]: the process the group gives the partition to, or None
    position,   \* position[c]: how many records the owner's consumer has handed out
    pc,         \* pc[w][c]: where the task of process w for channel c stands
    batch,      \* batch[w][c]: the offsets of the messages that task is processing
    rows,       \* rows[p]: the posts table: its row for id p, or None
    applied,    \* history: the offsets whose record has been written, per channel
    skipped,    \* history: the offsets taken from the topic and then let go of
    faults      \* failures, stops and rebalances so far

vars == <<log, committed, owner, position, pc, batch, rows, applied, skipped, faults>>

Steps == {"down", "poll", "process", "commit", "backoff"}

TypeOK ==
    /\ log \in [Channels -> Seq(Record)]
    /\ committed \in [Channels -> Nat]
    /\ owner \in [Channels -> Workers \cup {None}]
    /\ position \in [Channels -> Nat]
    /\ pc \in [Workers -> [Channels -> Steps]]
    /\ batch \in [Workers -> [Channels -> SUBSET Nat]]
    /\ \A w \in Workers, c \in Channels : batch[w][c] \subseteq 1 .. Len(log[c])
    /\ rows \in [PostIds -> Row \cup {None}]
    /\ applied \in [Channels -> SUBSET Nat]
    /\ skipped \in [Channels -> SUBSET Nat]
    /\ faults \in Nat

Init ==
    /\ log = [c \in Channels |-> <<>>]
    /\ committed = [c \in Channels |-> 0]
    /\ owner = [c \in Channels |-> None]
    /\ position = [c \in Channels |-> 0]
    /\ pc = [w \in Workers |-> [c \in Channels |-> "down"]]
    /\ batch = [w \in Workers |-> [c \in Channels |-> {}]]
    /\ rows = [p \in PostIds |-> None]
    /\ applied = [c \in Channels |-> {}]
    /\ skipped = [c \in Channels |-> {}]
    /\ faults = 0

------------------------------------------------------------------------------
(* What a batch becomes on its way to the table.                           *)

\* The members of S with fewer than n smaller members: messages[:batch_size].
FirstOf(S, n) == {i \in S : Cardinality({j \in S : j < i}) < n}

\* json.loads fails on the others, which the consume task logs and drops.
Parsed(c, S) == {i \in S : log[c][i] # BadJson}

\* What validate_posts_task and the deduplication by a truthy id leave.
Storable(c, S) == {i \in S : log[c][i] \in PostIds}

\* unique_posts[post_id] = post, in offset order: the last record of an id wins.
Newest(c, S, p) ==
    CHOOSE i \in S : log[c][i] = p /\ \A j \in S : log[c][j] = p => j <= i

\* Mutant: the deduplication keeps the first record of an id.
UpsertOldest(c, S) ==
    [p \in PostIds |->
        IF \E i \in S : log[c][i] = p
        THEN <<c, CHOOSE i \in S : log[c][i] = p /\ \A j \in S : log[c][j] = p => i <= j>>
        ELSE rows[p]]

\* INSERT ... ON CONFLICT (id) DO UPDATE: the id alone is the key, so a record
\* replaces whatever row the table holds under it, newer or of another channel.
UpsertedRows(c, S) ==
    [p \in PostIds |->
        IF \E i \in S : log[c][i] = p THEN <<c, Newest(c, S, p)>> ELSE rows[p]]

Fault == faults < MaxFaults /\ faults' = faults + 1

Goto(w, c, step) == pc' = [pc EXCEPT ![w][c] = step]

------------------------------------------------------------------------------
(* The topic and the consumer group.                                       *)

\* Whoever feeds the topic appends a record, well-formed or not.
Produce(c) ==
    /\ Len(log[c]) < MaxLog
    /\ \E r \in Record : log' = [log EXCEPT ![c] = Append(@, r)]
    /\ UNCHANGED <<committed, owner, position, pc, batch, rows, applied, skipped, faults>>

AssignFrom(c, n) ==
    /\ \E w \in Workers :
        /\ pc[w][c] # "down"
        /\ owner' = [owner EXCEPT ![c] = w]
    /\ IF owner[c] = None THEN UNCHANGED faults ELSE Fault
    /\ position' = [position EXCEPT ![c] = n]
    /\ UNCHANGED <<log, committed, pc, batch, rows, applied, skipped>>

\* Mutant of Assign: every assignment starts at the earliest record.
AssignFromStart(c) == AssignFrom(c, 0)

\* The group hands the partition to a running process, for the first time or in
\* a rebalance; the new assignment reads on from the committed offset, from the
\* earliest record when nothing is committed.
Assign(c) == AssignFrom(c, committed[c])

------------------------------------------------------------------------------
(* The worker loop.                                                        *)

\* A process comes up and starts a task per channel.
Start(w) ==
    /\ \A c \in Channels : pc[w][c] = "down"
    /\ pc' = [pc EXCEPT ![w] = [c \in Channels |-> "poll"]]
    /\ UNCHANGED <<log, committed, owner, position, batch, rows, applied, skipped, faults>>

FetchUpTo(w, c, last) ==
    /\ pc[w][c] = "poll"
    /\ owner[c] = w
    /\ \E n \in 1 .. FetchLimit :
        LET taken == position[c] + 1 .. position[c] + n
            got   == FirstOf(Parsed(c, taken), BatchSize)
        IN  /\ position[c] + n <= last
            /\ position' = [position EXCEPT ![c] = @ + n]
            /\ batch' = [batch EXCEPT ![w][c] = got]
            /\ skipped' = [skipped EXCEPT ![c] = @ \cup Storable(c, taken \ got)]
            /\ Goto(w, c, IF got = {} THEN "poll" ELSE "process")
    /\ UNCHANGED <<log, committed, owner, rows, applied, faults>>

\* Mutant: the last record of the topic is never asked for.
FetchAllButLast(w, c) == FetchUpTo(w, c, Len(log[c]) - 1)

\* getmany hands over the next records and moves the consumer's position past
\* all of them; the task keeps the first BatchSize messages that parse.  With no
\* message the loop sleeps and polls again.
Fetch(w, c) == FetchUpTo(w, c, Len(log[c]))

\* Mutant: one unusable message makes the action give up the batch.
DiscardMixed(w, c) ==
    /\ pc[w][c] = "process"
    /\ Storable(c, batch[w][c]) # batch[w][c]
    /\ Goto(w, c, "poll")
    /\ batch' = [batch EXCEPT ![w][c] = {}]
    /\ UNCHANGED <<log, committed, owner, position, rows, applied, skipped, faults>>

\* No message of the batch is storable: the action returns 0 and the worker
\* polls on without a commit.
Discard(w, c) ==
    /\ pc[w][c] = "process"
    /\ Storable(c, batch[w][c]) = {}
    /\ Goto(w, c, "poll")
    /\ batch' = [batch EXCEPT ![w][c] = {}]
    /\ UNCHANGED <<log, committed, owner, position, rows, applied, skipped, faults>>

Upsert(w, c) ==
    LET posts == Storable(c, batch[w][c]) IN
    /\ pc[w][c] = "process"
    /\ posts # {}
    /\ rows' = UpsertedRows(c, posts)
    /\ applied' = [applied EXCEPT ![c] = @ \cup posts]
    /\ Goto(w, c, "commit")
    /\ batch' = [batch EXCEPT ![w][c] = {}]
    /\ UNCHANGED <<log, committed, owner, position, skipped, faults>>

\* BatchUpsertException reaches the loop's handler, which sleeps and polls on:
\* the position is not moved back, so the batch is not fetched again.
UpsertFail(w, c) ==
    LET posts == Storable(c, batch[w][c]) IN
    /\ UpsertMayFail /\ Fault
    /\ pc[w][c] = "process"
    /\ posts # {}
    /\ skipped' = [skipped EXCEPT ![c] = @ \cup posts]
    /\ Goto(w, c, "backoff")
    /\ batch' = [batch EXCEPT ![w][c] = {}]
    /\ UNCHANGED <<log, committed, owner, position, rows, applied>>

\* Mutant: the broker takes the commit of a process that has lost the partition.
CommitUnowned(w, c) ==
    /\ pc[w][c] = "commit"
    /\ committed' = [committed EXCEPT ![c] = position[c]]
    /\ Goto(w, c, "poll")
    /\ UNCHANGED <<log, owner, position, batch, rows, applied, skipped, faults>>

\* consumer.commit() writes the consumer's current position.
Commit(w, c) ==
    /\ pc[w][c] = "commit"
    /\ owner[c] = w
    /\ committed' = [committed EXCEPT ![c] = position[c]]
    /\ Goto(w, c, "poll")
    /\ UNCHANGED <<log, owner, position, batch, rows, applied, skipped, faults>>

\* The broker fails the commit, or refuses it because the partition has moved.
CommitFail(w, c) ==
    /\ pc[w][c] = "commit"
    /\ IF owner[c] = w THEN Fault ELSE UNCHANGED faults
    /\ Goto(w, c, "backoff")
    /\ UNCHANGED <<log, committed, owner, position, batch, rows, applied, skipped>>

\* The five seconds of sleep after an error are over.
Resume(w, c) ==
    /\ pc[w][c] = "backoff"
    /\ Goto(w, c, "poll")
    /\ UNCHANGED <<log, committed, owner, position, batch, rows, applied, skipped, faults>>

\* The process is shut down or dies, wherever its tasks stand, and leaves the
\* groups it was in.
Stop(w) ==
    /\ \E c \in Channels : pc[w][c] # "down"
    /\ Fault
    /\ pc' = [pc EXCEPT ![w] = [c \in Channels |-> "down"]]
    /\ batch' = [batch EXCEPT ![w] = [c \in Channels |-> {}]]
    /\ owner' = [c \in Channels |-> IF owner[c] = w THEN None ELSE owner[c]]
    /\ UNCHANGED <<log, committed, position, rows, applied, skipped>>

------------------------------------------------------------------------------
Task(w, c) ==
    \/ Fetch(w, c)
    \/ Discard(w, c)
    \/ Upsert(w, c)
    \/ UpsertFail(w, c)
    \/ Commit(w, c)
    \/ CommitFail(w, c)
    \/ Resume(w, c)

Next ==
    \/ \E c \in Channels : Produce(c) \/ Assign(c)
    \/ \E w \in Workers : Start(w) \/ Stop(w)
    \/ \E w \in Workers, c \in Channels : Task(w, c)

Spec == Init /\ [][Next]_vars

\* A task that can take its next step takes it (the event loop runs every ready
\* task), a process that is down is started again (the Deployment restarts it),
\* and the group gives a partition without a reader to a running process.
Fairness ==
    /\ \A w \in Workers : WF_vars(Start(w))
    /\ \A c \in Channels : WF_vars(owner[c] = None /\ Assign(c))
    /\ \A w \in Workers, c \in Channels : WF_vars(Task(w, c))

FairSpec == Spec /\ Fairness

------------------------------------------------------------------------------
(* Safety.                                                                 *)

\* A post below the committed offset, which no restart will read again, is in
\* the table or is one the worker let go of in one of two known ways: cut off
\* by the batch limit, or in a batch whose upsert failed.  Rebalances, refused
\* commits and stops at any step add no third way.
LossAccounted ==
    \A c \in Channels : \A i \in 1 .. committed[c] :
        log[c][i] \in PostIds => i \in applied[c] \cup skipped[c]

\* The promise of "manual commit for at-least-once": a post below the committed
\* offset has been written.
AtLeastOnce ==
    \A c \in Channels : \A i \in 1 .. committed[c] :
        log[c][i] \in PostIds => i \in applied[c]

\* The table shows the record at offset i, or a newer one of the same id.
Shown(c, i) == \E j \in i .. Len(log[c]) : rows[log[c][i]] = <<c, j>>

\* Whatever is redelivered after a stop, the table never again shows, for a post
\* whose record is committed, a record older than that one.  It takes a single
\* process and topics that share no id.
CommittedRowsNotStale ==
    \A c \in Channels : \A i \in 1 .. committed[c] :
        log[c][i] \in PostIds => Shown(c, i)

\* The committed offset of a group never moves back, although a new assignment
\* starts from an older position than the last one had reached.
CommittedNeverMovesBack ==
    [][\A c \in Channels : committed'[c] >= committed[c]]_committed

(* The inductive invariant behind LossAccounted.                           *)

PositionInv ==
    \A c \in Channels : committed[c] <= position[c] /\ position[c] <= Len(log[c])

\* A task holds messages only while it processes them.
BatchInv ==
    \A w \in Workers, c \in Channels : pc[w][c] # "process" => batch[w][c] = {}

\* Every post the current owner has been handed is written, let go of, or in hand.
TakenAccounted ==
    \A w \in Workers, c \in Channels : owner[c] = w =>
        \A i \in 1 .. position[c] :
            log[c][i] \in PostIds => i \in applied[c] \cup skipped[c] \cup batch[w][c]

\* What holds of a posts consumer between any two steps: committed offsets are
\* among those handed out, and no post is lost track of on the way.
IInv == TypeOK /\ PositionInv /\ BatchInv /\ TakenAccounted /\ LossAccounted

\* What CommittedRowsNotStale takes besides IInv: a batch is read again from the
\* committed offset or not at all, so that it is newer than whatever is committed
\* and than whatever of the owner's reading it does not hold itself.
FreshInv ==
    \A w \in Workers, c \in Channels :
        /\ \A b \in batch[w][c] : b > committed[c]
        /\ owner[c] = w => \A i \in 1 .. position[c] :
            log[c][i] \in PostIds /\ i \notin batch[w][c] =>
                Shown(c, i) /\ \A b \in batch[w][c] : i < b

(* Refinement.                                                             *)

Queue == INSTANCE AtLeastOnceQueue
    WITH Items <- PostIds, Noise <- {BadJson, Unusable},
         delivered <- applied, acknowledged <- committed

\* While no batch fails and none is cut, the worker is an at-least-once queue.
DeliversAtLeastOnce == Queue!Spec

(* Liveness.                                                               *)

\* Every post that reaches the topic is written or let go of in the end.
EveryPostHandled ==
    \A c \in Channels : \A i \in 1 .. MaxLog :
        (i <= Len(log[c]) /\ log[c][i] \in PostIds) ~> (i \in applied[c] \cup skipped[c])

\* While no batch fails and none is cut, every post that reaches the topic is
\* written in the end, whatever stops, rebalances and failed commits come between.
EveryPostWritten ==
    \A c \in Channels : \A i \in 1 .. MaxLog :
        (i <= Len(log[c]) /\ log[c][i] \in PostIds) ~> (i \in applied[c])
==============================================================================
