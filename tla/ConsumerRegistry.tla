--------------------------- MODULE ConsumerRegistry ---------------------------
(***************************************************************************)
(* The other half of services/posts-consumer: which channels (or VK        *)
(* groups) a process consumes.  At start it loads the channels of the      *)
(* database and creates a Kafka consumer for each; then a diff worker      *)
(* creates one for every channel the channel consumer announces on the     *)
(* diff topic.  A cache of the channels seen, cleared 300 seconds after    *)
(* the last was added, tells an announcement from a repetition.            *)
(*                                                                         *)
(* The Telegram and the VK container differ in two places: the VK worker   *)
(* asks the manager for a consumer before it tries to create one, and the  *)
(* VK container loads the groups table, which the channel consumer writes  *)
(* when the two services share a database, where the Telegram one has only *)
(* the channels that occur in its posts.                                   *)
(***************************************************************************)
EXTENDS Naturals, Sequences, FiniteSets

CONSTANTS
    Channels,       \* the channels that may be announced
    Containers,     \* the containers looked at: Tg, Vk or both
    Tg, Vk,
    None,           \* no channel
    SharedDatabase, \* TRUE when VK_DB_NAME names the channel consumer's database
    MaxEvents,      \* bound: the announcements of a behaviour
    MaxStops,       \* bound: the times the process stops
    MaxFailures     \* bound: the failures of Kafka and of the database

ASSUME RegistryAssumption ==
    /\ Tg # Vk
    /\ Containers \subseteq {Tg, Vk}
    /\ None \notin Channels
    /\ SharedDatabase \in BOOLEAN
    /\ MaxEvents \in Nat /\ MaxStops \in Nat /\ MaxFailures \in Nat

VARIABLES
    container,      \* the container that runs, Tg or Vk
    events,         \* the diff topic: the channels announced, in order
    committed,      \* how many of them the diff worker's group has committed
    position,       \* how many the diff worker has been handed
    stored,         \* the channels that have a post in the database
    phase,          \* "down", "boot" or "running"
    todo,           \* the loaded channels bootstrap has not come to
    cache,          \* PostObjectsCache / VkGroupsCache: the channels in it
    age,            \* its last_update: None ("empty"), "fresh" or "expired"
    consumers,      \* DynamicConsumerManager._consumers: the channels in it
    tasks,          \* DynamicConsumerManager._tasks: the channels in it
    joined,         \* joined[c]: the Kafka consumers this process has in c's group
    diff,           \* where the diff worker stands
    target,         \* the channel it is creating a consumer for, or None
    stops,          \* stops so far
    failures,       \* failures so far
    served          \* history: the channels that have ever had a consumer

topic == <<events, committed, position>>
cached == <<cache, age>>
manager == <<consumers, tasks, joined>>
worker == <<diff, target>>
counters == <<stops, failures>>
vars == <<container, topic, stored, phase, todo, cached, manager, worker, counters, served>>

TypeOK ==
    /\ container \in {Tg, Vk}
    /\ events \in Seq(Channels)
    /\ committed \in 0 .. position
    /\ position \in 0 .. Len(events)
    /\ stored \subseteq Channels
    /\ phase \in {"down", "boot", "running"}
    /\ todo \subseteq Channels
    /\ cache \subseteq Channels
    /\ age \in {"empty", "fresh", "expired"}
    /\ age = "empty" => cache = {}
    /\ consumers \subseteq Channels
    /\ tasks \subseteq Channels
    /\ joined \in [Channels -> 0 .. 2]
    /\ diff \in {"off", "start", "poll", "create", "undo", "dead"}
    /\ target \in Channels \cup {None}
    /\ target # None <=> diff \in {"create", "undo"}
    /\ stops \in Nat /\ failures \in Nat
    /\ served \subseteq Channels

Nobody == [c \in Channels |-> 0]

Init ==
    /\ container \in Containers
    /\ events = <<>> /\ committed = 0 /\ position = 0
    /\ stored = {}
    /\ phase = "down"
    /\ todo = {}
    /\ cache = {} /\ age = "empty"
    /\ consumers = {} /\ tasks = {} /\ joined = Nobody
    /\ diff = "off" /\ target = None
    /\ stops = 0 /\ failures = 0
    /\ served = {}

Announced == {events[i] : i \in 1 .. Len(events)}

Failure == failures < MaxFailures /\ failures' = failures + 1 /\ UNCHANGED stops

------------------------------------------------------------------------------
(* The cache of the channels seen.                                         *)

Clear == cache' = {} /\ age' = "empty"

\* has_channel and has_group clear the whole cache when it has expired.
Unexpired == IF age = "expired" THEN {} ELSE cache

CheckDuplicate(c) == c \in Unexpired

\* Bootstrap puts what it has loaded; to put nothing changes nothing.
PutAll(channels) ==
    /\ cache' = cache \cup channels
    /\ age' = IF channels = {} THEN age ELSE "fresh"

\* The diff worker puts the channel it has found no duplicate of.
PutOne(c) == cache' = Unexpired \cup {c} /\ age' = "fresh"

------------------------------------------------------------------------------
(* The manager and the Kafka groups.                                       *)

HasConsumer(c) == c \in consumers

\* The consumer has started: it is in the group of its channel.
Join(c) == joined' = [joined EXCEPT ![c] = @ + 1]

AddConsumer(c) ==
    /\ c \notin consumers
    /\ consumers' = consumers \cup {c}

\* add_consumer keeps the consumer it has: register_consumer_task returns False.
Refused(c) == c \in consumers

Register(c) == Join(c) /\ AddConsumer(c) /\ served' = served \cup {c}

RegisterTask(c) == tasks' = tasks \cup {c}

\* Every consumer leaves its group, every task is cancelled.
ShutdownAll == consumers' = {} /\ tasks' = {} /\ joined' = Nobody

------------------------------------------------------------------------------
(* The surroundings.                                                       *)

\* The channel consumer publishes a channel, one it has published before included.
Announce(c) ==
    /\ Len(events) < MaxEvents
    /\ events' = Append(events, c)
    /\ UNCHANGED <<container, committed, position, stored, phase, todo, cached,
                   manager, worker, counters, served>>

\* The ConsumerWorker of a channel writes its first post.
StorePost(c) ==
    /\ phase = "running"
    /\ c \in tasks \ stored
    /\ stored' = stored \cup {c}
    /\ UNCHANGED <<container, topic, phase, todo, cached, manager, worker, counters, served>>

\* 300 seconds have passed since the last channel was put.
Expire ==
    /\ phase # "down"
    /\ age = "fresh"
    /\ age' = "expired"
    /\ UNCHANGED <<container, topic, stored, phase, todo, cache, manager, worker,
                   counters, served>>

\* The diff worker's consumer commits by itself what it has been handed, handled
\* or not.
AutoCommit ==
    /\ diff \notin {"off", "start", "dead"}
    /\ committed # position
    /\ committed' = position
    /\ UNCHANGED <<container, events, position, stored, phase, todo, cached, manager,
                   worker, counters, served>>

------------------------------------------------------------------------------
(* Bootstrap.                                                              *)

\* Mutant of Loaded: both containers load the channels that have a post.
LoadedFromPosts == stored

\* The channel consumer writes the row of a VK group before it announces it.
GroupsTable == IF SharedDatabase THEN Announced ELSE {}

\* The Telegram container loads the channels that have a post.
LoadChannels == stored

\* The VK container loads the groups table and, when that is empty, the groups
\* that have a post.
LoadGroups == IF GroupsTable # {} THEN GroupsTable ELSE stored

Loaded == IF container = Vk THEN LoadGroups ELSE LoadChannels

BootWith(channels) ==
    /\ phase = "down"
    /\ phase' = "boot"
    /\ todo' = channels
    /\ PutAll(channels)
    /\ UNCHANGED <<container, topic, stored, manager, worker, served>>

Boot == BootWith(Loaded) /\ UNCHANGED counters

\* The query fails: the task returns the empty list and bootstrap goes on.
BootUnloaded == BootWith({}) /\ Failure

BootCreate(c) ==
    /\ phase = "boot"
    /\ c \in todo
    /\ todo' = todo \ {c}
    /\ Register(c)
    /\ UNCHANGED <<container, topic, stored, phase, cached, tasks, worker, counters>>

\* Logged and passed over; the channel stays in the cache.
BootCreateFail(c) ==
    /\ phase = "boot"
    /\ c \in todo
    /\ Failure
    /\ todo' = todo \ {c}
    /\ UNCHANGED <<container, topic, stored, phase, cached, manager, worker, served>>

BootDoneWith(started) ==
    /\ phase = "boot"
    /\ todo = {}
    /\ phase' = "running"
    /\ tasks' = started
    /\ diff' = "start"
    /\ UNCHANGED <<container, topic, stored, todo, cached, consumers, joined, target,
                   counters, served>>

\* Mutant: no ConsumerWorker is started for the consumers bootstrap created.
BootDoneIdle == BootDoneWith({})

\* A ConsumerWorker for every consumer of the manager, and the diff worker.
BootDone == BootDoneWith(consumers)

------------------------------------------------------------------------------
(* The diff worker.                                                        *)

StartDiff ==
    /\ diff = "start"
    /\ diff' = "poll"
    /\ position' = committed
    /\ UNCHANGED <<container, events, committed, stored, phase, todo, cached, manager,
                   target, counters, served>>

\* Its consumer does not start.  The task ends; nothing waits for it.
StartDiffFail ==
    /\ diff = "start"
    /\ Failure
    /\ diff' = "dead"
    /\ UNCHANGED <<container, topic, stored, phase, todo, cached, manager, target, served>>

\* Mutant of Owned: the VK worker does not ask the manager either.
NeverOwned(c) == FALSE

\* VkGroupsDiffWorker passes over a group the manager has a consumer for.
Owned(c) == container = Vk /\ HasConsumer(c)

Hand(c) ==
    /\ diff = "poll"
    /\ position < Len(events)
    /\ c = events[position + 1]
    /\ position' = position + 1
    /\ UNCHANGED <<container, events, committed, stored, phase, todo, manager, counters, served>>

\* The channel has a consumer, or is in a cache that has not expired.
ReceiveKnown(c) ==
    /\ Hand(c)
    /\ Owned(c) \/ CheckDuplicate(c)
    /\ UNCHANGED <<cached, worker>>

\* The channel is cached before its consumer is created; then the worker waits
\* for consumer.start().
ReceiveNew(c) ==
    /\ Hand(c)
    /\ ~ Owned(c)
    /\ ~ CheckDuplicate(c)
    /\ PutOne(c)
    /\ diff' = "create"
    /\ target' = c

\* The worker has done with the channel and polls the next event.
NextEvent == diff' = "poll" /\ target' = None

\* The consumer has joined the group, is registered, and gets its ConsumerWorker.
Create ==
    /\ diff = "create"
    /\ Register(target)
    /\ RegisterTask(target)
    /\ NextEvent
    /\ UNCHANGED <<container, topic, stored, phase, todo, cached, counters>>

\* The consumer has joined the group, but the manager has one already.
CreateSecond ==
    /\ diff = "create"
    /\ Refused(target)
    /\ Join(target)
    /\ diff' = "undo"
    /\ UNCHANGED <<container, topic, stored, phase, todo, cached, consumers, tasks,
                   target, counters, served>>

\* Mutant: the consumer the manager refused is not stopped.
UndoRunning ==
    /\ diff = "undo"
    /\ NextEvent
    /\ UNCHANGED <<container, topic, stored, phase, todo, cached, manager, counters, served>>

Undo ==
    /\ diff = "undo"
    /\ joined' = [joined EXCEPT ![target] = @ - 1]
    /\ NextEvent
    /\ UNCHANGED <<container, topic, stored, phase, todo, cached, consumers, tasks,
                   counters, served>>

\* ConsumerCreationException is logged; the event is gone, the channel cached.
CreateFail ==
    /\ diff = "create"
    /\ Failure
    /\ diff' = "poll"
    /\ target' = None
    /\ UNCHANGED <<container, topic, stored, phase, todo, cached, manager, served>>

------------------------------------------------------------------------------
(* The process ends.                                                       *)

\* stop() of the diff worker: its consumer commits what it has been handed.
StopDiff == committed' = IF diff \in {"poll", "create", "undo"} THEN position ELSE committed

End ==
    /\ phase' = "down"
    /\ stops < MaxStops
    /\ stops' = stops + 1
    /\ position' = committed'
    /\ todo' = {}
    /\ ShutdownAll
    /\ Clear
    /\ diff' = "off" /\ target' = None
    /\ UNCHANGED <<container, events, stored, failures, served>>

\* The signal handlers are set when bootstrap is over.
Shutdown == phase = "running" /\ StopDiff /\ End

\* The process dies: nothing is committed, its members leave their groups.
Die == phase # "down" /\ UNCHANGED committed /\ End

Bootstrap ==
    \/ Boot \/ BootUnloaded \/ BootDone
    \/ \E c \in Channels : BootCreate(c) \/ BootCreateFail(c)

DiffWorker ==
    \/ StartDiff \/ StartDiffFail
    \/ \E c \in Channels : ReceiveKnown(c) \/ ReceiveNew(c)
    \/ Create \/ CreateSecond \/ Undo \/ CreateFail

Next ==
    \/ \E c \in Channels : Announce(c) \/ StorePost(c)
    \/ Expire
    \/ AutoCommit
    \/ Bootstrap
    \/ DiffWorker
    \/ Shutdown
    \/ Die

Spec == Init /\ [][Next]_vars

\* The Deployment starts a stopped process again, bootstrap runs to its end, and
\* the event loop lets the diff worker take its next step.
Fairness == WF_vars(Bootstrap) /\ WF_vars(DiffWorker)

FairSpec == Spec /\ Fairness

------------------------------------------------------------------------------
\* A process has at most one Kafka consumer in the group of a channel: a second
\* one, however brief, makes the group rebalance under the first.
OneMember == \A c \in Channels : joined[c] <= 1

\* In the VK container it is so, whatever expires, fails or stops: the question
\* to the manager settles what the cache has forgotten.
OneMemberVk == container = Vk => OneMember

Settled == phase = "running" /\ diff \in {"start", "poll", "dead"}

\* Between two events the manager's dictionaries and the Kafka groups agree: a
\* channel has a registered consumer exactly when it has a task, and exactly then
\* this process is in its group, once.
RegistryAgrees ==
    Settled => /\ tasks = consumers
               /\ \A c \in Channels : joined[c] = IF c \in consumers THEN 1 ELSE 0

\* Whether a restart remembers all channels: the VK container does where it shares
\* the database; the Telegram one forgets those without a stored post.
Remembers == container = Vk /\ SharedDatabase

\* A VK channel that once had a consumer has one whenever the process has booted and
\* read its events, unless something failed: a restart, which is to create the
\* consumers of all existing channels, forgets none.
RestartForgetsNothingVk ==
    Remembers /\ diff = "poll" /\ position = Len(events) /\ failures = 0
        => served \subseteq consumers

\* As long as nothing fails, every channel that is announced gets a task and keeps
\* it; where the groups table is shared, stops may come between at any step.
EveryChannelServed ==
    [](failures = 0 /\ (Remembers \/ stops = 0)) =>
        \A c \in Channels : <>(c \in Announced) => <>[](c \in tasks)
------------------------------------------------------------------------------
(* The inductive invariant behind the safety properties.                   *)

\* A process that is down has no consumer, one that boots no task, and the diff
\* worker exists once it runs; the channels bootstrap has yet to come to have no
\* consumer either.
PhaseInv ==
    /\ phase = "running" <=> diff # "off"
    /\ phase = "running" => tasks = consumers
    /\ phase # "running" => tasks = {}
    /\ phase = "down" => consumers = {}
    /\ phase # "boot" => todo = {}
    /\ todo \cap consumers = {}

\* The groups hold the registered consumers and the one about to be undone.
MemberInv ==
    /\ diff = "undo" => target \in consumers
    /\ \A c \in Channels :
        joined[c] = (IF c \in consumers THEN 1 ELSE 0)
                    + (IF diff = "undo" /\ c = target THEN 1 ELSE 0)

\* The VK worker never creates a consumer for a group that has one.
VkInv == container = Vk => diff # "undo" /\ target \notin consumers

\* Whatever has been served was announced, so a load of the groups table that
\* does not fail brings back all of it.
MemoryInv ==
    /\ consumers \cup stored \subseteq served
    /\ Remembers => /\ served \cup todo \subseteq Announced
                    /\ target # None => target \in Announced
    /\ Remembers /\ failures = 0 /\ phase # "down" => served \subseteq consumers \cup todo

\* What holds of a registry between any two steps: phases, dictionaries, groups
\* and the memory of the channels served fit together.
IInv == TypeOK /\ PhaseInv /\ MemberInv /\ VkInv /\ MemoryInv
==============================================================================
