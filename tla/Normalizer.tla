------------------------------- MODULE Normalizer -------------------------------
(***************************************************************************)
(* normalizer/: a cycle reads the VK groups and posts the ETL services     *)
(* have stored and derives from each group that has posts a resource, a    *)
(* snapshot of its metrics, a topic profile and a document.                *)
(*                                                                         *)
(* The scheduler runs at most one cycle at a time, but GET /trigger runs   *)
(* another beside it: Cycles is the set of slots a cycle may run in.  No   *)
(* transaction spans two queries, so every query is a step of its own.     *)
(*                                                                         *)
(* A row that is copied from table to table is its revision: the groups    *)
(* row and the posts of a group carry a counter that ETL writes increase,  *)
(* and a derived row holds the counter of what it was derived from.        *)
(***************************************************************************)
EXTENDS Naturals, FiniteSets

CONSTANTS
    Groups,         \* VK groups
    Cycles,         \* the cycles that may run at one time
    None,           \* no row
    MaxChanges,     \* bound: the ETL writes of a behaviour
    MaxCycles,      \* bound: the cycles of a behaviour
    MaxFaults       \* bound: the failures of a behaviour

VARIABLES
    row,        \* row[g]: the revision of the group's row
    posts,      \* posts[g]: the revision of its posts, 0 when there are none
    metrics,    \* metrics[g]: the newest ResourceMetricSnapshot by snapshot_at, or None
    topic,      \* topic[g]: the ResourceTopicProfile, as the group revision it shows
    docs,       \* docs[g]: the ResourceDocument, or None
    cycle,      \* cycle[n]: the local state of the cycle in slot n
    clock,      \* the last timestamp taken; 0 stands for a NULL timestamp
    changes,    \* ETL writes so far
    cycles,     \* cycles begun so far
    faults,     \* failures so far
    settled,    \* history: see Settle
    writes,     \* history: writes[g], how often the document was written
    unseen      \* history: the groups whose document was written since the sync began

tables == <<metrics, topic, docs>>
etl == <<row, posts, changes>>
history == <<settled, writes, unseen>>
normalizerVars == <<etl, tables, cycle, clock, cycles, faults, history>>

Snapshot == [row : Nat, posts : Nat, at : Nat]
Document == [title : Nat, version : Nat, updated : Nat, synced : Nat]
ASSUME NormalizerAssumption ==
    /\ IsFiniteSet(Cycles)
    /\ MaxChanges \in Nat
    /\ MaxCycles \in Nat
    /\ MaxFaults \in Nat
    /\ None \notin Groups \cup Nat
    /\ None \notin Snapshot \cup Document

Steps == {"idle", "list", "next", "metrics", "topic", "version", "document"}
Cycle == [step : Steps, now : Nat, listed : [Groups -> Nat], todo : SUBSET Groups,
          group : Groups \cup {None}, posts : Nat, version : Nat, rank : 0 .. 2]

NormalizerTypeOK ==
    /\ row \in [Groups -> Nat]
    /\ posts \in [Groups -> Nat]
    /\ metrics \in [Groups -> Snapshot \cup {None}]
    /\ topic \in [Groups -> Nat]
    /\ docs \in [Groups -> Document \cup {None}]
    /\ cycle \in [Cycles -> Cycle]
    /\ \A n \in Cycles :
        cycle[n].step \in Steps \ {"idle", "list", "next"} => cycle[n].group # None
    /\ clock \in Nat /\ changes \in Nat /\ cycles \in Nat /\ faults \in Nat
    /\ settled \in 0 .. 2
    /\ writes \in [Groups -> Nat]
    /\ unseen \subseteq Groups

Idle == [step |-> "idle", now |-> 0, listed |-> [g \in Groups |-> 0], todo |-> {},
         group |-> None, posts |-> 0, version |-> 0, rank |-> 0]

\* The ETL services may have run for long before the normalizer is deployed.
NormalizerInit ==
    /\ row = [g \in Groups |-> 1]
    /\ posts \in [Groups -> 0 .. 1]
    /\ metrics = [g \in Groups |-> None]
    /\ topic = [g \in Groups |-> 0]
    /\ docs = [g \in Groups |-> None]
    /\ cycle = [n \in Cycles |-> Idle]
    /\ clock = 0 /\ changes = 0 /\ cycles = 0 /\ faults = 0
    /\ settled = 0
    /\ writes = [g \in Groups |-> 0]
    /\ unseen = {}

Fault == faults < MaxFaults /\ faults' = faults + 1

------------------------------------------------------------------------------
(* What the cycles are measured against.  A cycle counts when it began     *)
(* after the last ETL write and beside no cycle that did not; settled says *)
(* that one such cycle has finished (1), or that one has which began after *)
(* another was finished (2).                                               *)

Running == {n \in Cycles : cycle[n].step # "idle"}

Rank == IF \E n \in Running : cycle[n].rank = 0 THEN 0
        ELSE IF settled = 0 THEN 1 ELSE 2

Settle(rank) == settled' = IF rank > settled THEN rank ELSE settled

Unsettle ==
    /\ settled' = 0
    /\ cycle' = [n \in Cycles |-> [cycle[n] EXCEPT !.rank = 0]]

------------------------------------------------------------------------------
(* The ETL services.                                                       *)

WriteGroup(g) ==
    /\ changes < MaxChanges
    /\ changes' = changes + 1
    /\ row' = [row EXCEPT ![g] = @ + 1]
    /\ Unsettle
    /\ UNCHANGED <<posts, tables, clock, cycles, faults, writes, unseen>>

WritePosts(g) ==
    /\ changes < MaxChanges
    /\ changes' = changes + 1
    /\ posts' = [posts EXCEPT ![g] = @ + 1]
    /\ Unsettle
    /\ UNCHANGED <<row, tables, clock, cycles, faults, writes, unseen>>

------------------------------------------------------------------------------
(* normalize_cycle.                                                        *)

\* A cycle takes a free slot (any: they are alike) and stamps all it writes with
\* the time it began.
StartCycle(n) ==
    /\ n \in Cycles \ Running
    /\ n = CHOOSE m \in Cycles \ Running : TRUE
    /\ cycles < MaxCycles
    /\ cycles' = cycles + 1
    /\ clock' = clock + 1
    /\ cycle' = [cycle EXCEPT ![n].step = "list", ![n].now = clock', ![n].rank = Rank]
    /\ UNCHANGED <<etl, tables, faults, history>>

\* A local step of cycle n, whatever it does to the tables.
Advance(n, next) ==
    /\ cycle' = [cycle EXCEPT ![n] = next]
    /\ UNCHANGED <<etl, clock, cycles, faults, settled>>

ListGroups(n) ==
    /\ cycle[n].step = "list"
    /\ Advance(n, [cycle[n] EXCEPT !.step = "next", !.listed = row,
                                   !.todo = Groups])
    /\ UNCHANGED <<tables, writes, unseen>>

\* The posts of the next group; a group without posts is passed over.  For the
\* others the step includes the upsert of the AdResource: the only part of it a
\* later query reads is that it is there.
ReadPosts(n) ==
    /\ cycle[n].step = "next"
    /\ \E g \in cycle[n].todo :
        LET rest == [cycle[n] EXCEPT !.todo = @ \ {g}]
        IN  Advance(n, IF posts[g] = 0 THEN rest
                       ELSE [rest EXCEPT !.step = "metrics", !.group = g,
                                         !.posts = posts[g]])
    /\ UNCHANGED <<tables, writes, unseen>>

\* Snapshots pile up; only the newest by snapshot_at is ever read, and two never
\* share a timestamp, so the model keeps that one.
InsertSnapshot(n) ==
    LET g == cycle[n].group
        snapshot == [row |-> cycle[n].listed[g], posts |-> cycle[n].posts, at |-> cycle[n].now]
        newest == metrics[g] = None \/ metrics[g].at < snapshot.at
    IN
    /\ cycle[n].step = "metrics"
    /\ metrics' = [metrics EXCEPT ![g] = IF newest THEN snapshot ELSE @]
    /\ Advance(n, [cycle[n] EXCEPT !.step = "topic", !.posts = 0])
    /\ UNCHANGED <<topic, docs, writes, unseen>>

UpsertTopic(n) ==
    LET g == cycle[n].group IN
    /\ cycle[n].step = "topic"
    /\ topic' = [topic EXCEPT ![g] = cycle[n].listed[g]]
    /\ Advance(n, [cycle[n] EXCEPT !.step = "version"])
    /\ UNCHANGED <<metrics, docs, writes, unseen>>

ReadVersion(n) ==
    LET g == cycle[n].group
        version == IF docs[g] = None THEN 1 ELSE docs[g].version + 1
    IN
    /\ cycle[n].step = "version"
    /\ Advance(n, [cycle[n] EXCEPT !.step = "document", !.version = version])
    /\ UNCHANGED <<tables, writes, unseen>>

WriteDocument(n, updated, version) ==
    LET g == cycle[n].group IN
    /\ cycle[n].step = "document"
    /\ docs' = [docs EXCEPT ![g] =
                  [title |-> cycle[n].listed[g], version |-> version, updated |-> updated,
                   synced |-> IF docs[g] = None THEN 0 ELSE docs[g].synced]]
    /\ writes' = [writes EXCEPT ![g] = @ + 1]
    /\ unseen' = unseen \cup {g}
    /\ Advance(n, [cycle[n] EXCEPT !.step = "next", !.group = None, !.version = 0])
    /\ UNCHANGED <<metrics, topic>>

\* Mutants of UpsertDocument: DO UPDATE leaves updated_at, or version, as it was.
UpsertKeepsUpdated(n) ==
    LET old == docs[cycle[n].group]
    IN  WriteDocument(n, IF old = None THEN cycle[n].now ELSE old.updated, cycle[n].version)
UpsertKeepsVersion(n) ==
    LET old == docs[cycle[n].group]
    IN  WriteDocument(n, cycle[n].now, IF old = None THEN 1 ELSE old.version)

\* INSERT ... ON CONFLICT (resource) DO UPDATE: synced_at is not among the columns.
UpsertDocument(n) == WriteDocument(n, cycle[n].now, cycle[n].version)

FinishCycle(n) ==
    /\ cycle[n].step = "next"
    /\ cycle[n].todo = {}
    /\ cycle' = [cycle EXCEPT ![n] = Idle]
    /\ Settle(cycle[n].rank)
    /\ UNCHANGED <<etl, tables, clock, cycles, faults, writes, unseen>>

\* A query raises, or the process goes: what has been written stays.
AbortCycle(n) ==
    /\ cycle[n].step # "idle"
    /\ Fault
    /\ cycle' = [cycle EXCEPT ![n] = Idle]
    /\ UNCHANGED <<etl, tables, clock, cycles, history>>

NormalizerNext ==
    \/ \E g \in Groups : WriteGroup(g) \/ WritePosts(g)
    \/ \E n \in Cycles :
        \/ StartCycle(n) \/ ListGroups(n) \/ ReadPosts(n)
        \/ InsertSnapshot(n) \/ UpsertTopic(n)
        \/ ReadVersion(n) \/ UpsertDocument(n)
        \/ FinishCycle(n) \/ AbortCycle(n)

------------------------------------------------------------------------------
\* As long as nobody triggers a cycle beside the scheduled one, the version of a
\* document counts its writes: cycles cut short between the read and the write
\* lose nothing.  Two at a time may read one version and write the same successor.
VersionCountsWrites ==
    Cardinality(Cycles) = 1 =>
        \A g \in Groups : writes[g] = IF docs[g] = None THEN 0 ELSE docs[g].version
==============================================================================
