----------------------------- MODULE IndexPipeline -----------------------------
(***************************************************************************)
(* indexer/ beside the normalizer: a sync cycle copies the documents whose *)
(* synced_at is NULL or before updated_at into OpenSearch and stamps them  *)
(* with the time the cycle began.  At most one sync runs at a time         *)
(* (_sync_stats["running"]); the normalizer does not wait for it.          *)
(***************************************************************************)
EXTENDS Normalizer

VARIABLES
    index,      \* index[g]: the OpenSearch document of the group, or None
    sync,       \* the local state of the sync cycle
    certified   \* history: the groups marked by a sync that began after the last write

vars == <<normalizerVars, index, sync, certified>>

Source == [row : Nat, posts : Nat]
Entry == [title : Nat, topic : Nat, metrics : Source]
ASSUME PipelineAssumption == None \notin Source \cup Entry

SyncSteps == {"idle", "select", "build", "mark"}

Sync == [step : SyncSteps, now : Nat, rest : SUBSET Groups, row : Groups \cup {None},
         titles : [Groups -> Nat \cup {None}], metrics : [Groups -> Source \cup {None}],
         topics : [Groups -> Nat \cup {None}], done : SUBSET Groups]

TypeOK ==
    /\ NormalizerTypeOK
    /\ index \in [Groups -> Entry \cup {None}]
    /\ sync \in Sync
    /\ certified \subseteq Groups

NoSync ==
    LET nothing == [g \in Groups |-> None]
    IN  [step |-> "idle", now |-> 0, rest |-> {}, row |-> None, done |-> {},
         titles |-> nothing, metrics |-> nothing, topics |-> nothing]

Init ==
    /\ NormalizerInit
    /\ index = [g \in Groups |-> None]
    /\ sync = NoSync
    /\ certified = {}

NeedsSync(g) == docs[g] # None /\ (docs[g].synced = 0 \/ docs[g].synced < docs[g].updated)

Selected == {g \in Groups : sync.titles[g] # None}

------------------------------------------------------------------------------
(* sync_cycle.                                                             *)

StartSync ==
    /\ sync.step = "idle"
    /\ clock' = clock + 1
    /\ sync' = [sync EXCEPT !.step = "select", !.now = clock']
    /\ unseen' = {}
    /\ UNCHANGED <<etl, tables, cycle, cycles, faults, settled, writes, index, certified>>

\* Mutant: only documents that were never synced are selected.
SelectNew ==
    LET dirty == {g \in Groups : docs[g] # None /\ docs[g].synced = 0} IN
    /\ sync.step = "select"
    /\ dirty # {}
    /\ sync' = [sync EXCEPT !.step = "build", !.rest = dirty,
                  !.titles = [g \in Groups |-> IF g \in dirty THEN docs[g].title ELSE None]]
    /\ UNCHANGED <<normalizerVars, index, certified>>

Select ==
    LET dirty == {g \in Groups : NeedsSync(g)} IN
    /\ sync.step = "select"
    /\ dirty # {}
    /\ sync' = [sync EXCEPT !.step = "build", !.rest = dirty,
                  !.titles = [g \in Groups |-> IF g \in dirty THEN docs[g].title ELSE None]]
    /\ UNCHANGED <<normalizerVars, index, certified>>

\* Nothing to do.  The timestamp is stored nowhere, so the clock takes it back
\* when it can, which bounds it.
SelectNothing ==
    /\ sync.step = "select"
    /\ \A g \in Groups : ~ NeedsSync(g)
    /\ sync' = NoSync
    /\ clock' = IF clock = sync.now THEN clock - 1 ELSE clock
    /\ UNCHANGED <<etl, tables, cycle, cycles, faults, history, index, certified>>

\* Row by row: the newest metric snapshot of the resource, then its topic profile.
ReadMetrics ==
    /\ sync.step = "build"
    /\ sync.row = None
    /\ \E g \in sync.rest :
        sync' = [sync EXCEPT !.rest = @ \ {g}, !.row = g,
                   !.metrics[g] = [row |-> metrics[g].row, posts |-> metrics[g].posts]]
    /\ UNCHANGED <<normalizerVars, index, certified>>

ReadTopic ==
    /\ sync.row # None
    /\ sync' = [sync EXCEPT !.row = None, !.topics[sync.row] = topic[sync.row]]
    /\ UNCHANGED <<normalizerVars, index, certified>>

Bulk(refused) ==
    /\ IF refused = {} THEN UNCHANGED faults ELSE Fault
    /\ index' = [g \in Groups |->
                   IF g \in Selected \ refused
                   THEN [title |-> sync.titles[g], topic |-> sync.topics[g],
                         metrics |-> sync.metrics[g]]
                   ELSE index[g]]
    /\ sync' = [sync EXCEPT !.step = "mark", !.done = Selected \ refused]
    /\ UNCHANGED <<etl, tables, cycle, clock, cycles, history, certified>>

\* bulk_index: every document is taken or refused on its own; those refused are
\* reported and left alone.
BulkIndex ==
    /\ sync.step = "build" /\ sync.row = None /\ sync.rest = {}
    /\ \E refused \in SUBSET Selected : Bulk(refused)

MarkAll(marked, at) ==
    /\ sync.step = "mark"
    /\ docs' = [g \in Groups |->
                  IF g \in marked THEN [docs[g] EXCEPT !.synced = at] ELSE docs[g]]
    /\ sync' = NoSync
    /\ certified' = certified \cup (marked \ unseen)
    /\ UNCHANGED <<etl, metrics, topic, cycle, clock, cycles, faults, history, index>>

\* Mutants of Mark: refused documents are marked too; synced_at is the time of
\* the update, not of the beginning of the cycle.
MarkRefused == MarkAll(Selected, sync.now)
MarkNow == MarkAll(sync.done, clock + 1)

\* synced_at is set whatever has become of the document since it was selected.
Mark == MarkAll(sync.done, sync.now)

\* A query or the bulk call raises, or the process goes, at any step.
SyncFail ==
    /\ sync.step # "idle"
    /\ Fault
    /\ sync' = NoSync
    /\ UNCHANGED <<etl, tables, cycle, clock, cycles, history, index, certified>>

SyncStep == Select \/ SelectNothing \/ ReadMetrics \/ ReadTopic \/ BulkIndex \/ Mark

Next ==
    \/ /\ NormalizerNext
       /\ certified' = certified \ unseen'
       /\ UNCHANGED <<index, sync>>
    \/ StartSync
    \/ SyncStep
    \/ SyncFail

Spec == Init /\ [][Next]_vars

\* The interval job starts a sync again and again, and a sync that has begun goes
\* on.  Nothing is assumed of the normalizer.
Fairness == WF_vars(StartSync) /\ WF_vars(SyncStep)

FairSpec == Spec /\ Fairness

------------------------------------------------------------------------------
\* A document that was last written before the sync that marked it began is in
\* the index as written: what the sync was refused is not marked, and a copy
\* taken before the write does not pass for one taken after it.
MarkedMeansIndexed ==
    \A g \in certified :
        docs[g] # None /\ index[g] # None /\ index[g].title = docs[g].title

(* The inductive invariant behind VersionCountsWrites and                  *)
(* MarkedMeansIndexed.                                                     *)

\* No timestamp is in the future, and that of a sync which has selected nothing
\* yet is nobody else's: the clock may take it back.
ClockInv ==
    /\ \A n \in Cycles : cycle[n].now <= clock
    /\ \A g \in Groups : docs[g] # None => docs[g].updated <= clock /\ docs[g].synced <= clock
    /\ sync.now <= clock
    /\ sync.step = "select" =>
        /\ sync.now > 0
        /\ \A n \in Cycles : cycle[n].now # sync.now
        /\ \A g \in Groups : docs[g] # None =>
            docs[g].updated # sync.now /\ docs[g].synced # sync.now

\* A document is written after the metrics of its resource.
MetricsInv ==
    /\ \A n \in Cycles : cycle[n].step \in {"topic", "version", "document"} =>
        metrics[cycle[n].group] # None
    /\ \A g \in Groups : docs[g] # None => metrics[g] # None

\* A cycle alone holds the successor of the version it has read.
VersionInv ==
    Cardinality(Cycles) = 1 =>
        \A n \in Cycles : cycle[n].step = "document" =>
            cycle[n].version = writes[cycle[n].group] + 1

\* What a sync holds of a document is what the document says, unless it has been
\* written since; each has what it needs once its turn was; and what is going to
\* be marked is in the index as it was copied.
CopyInv ==
    /\ sync.step \in {"idle", "select"} => Selected = {}
    /\ \A g \in Selected :
        docs[g] # None /\ (g \in unseen \/ docs[g].title = sync.titles[g])
    /\ sync.step = "build" =>
        /\ sync.rest \subseteq Selected
        /\ \A g \in Selected \ sync.rest :
            sync.metrics[g] # None /\ (g = sync.row \/ sync.topics[g] # None)
    /\ sync.step = "mark" =>
        /\ sync.done \subseteq Selected
        /\ \A g \in sync.done : index[g] # None /\ index[g].title = sync.titles[g]
    /\ certified \cap unseen = {}

\* What holds of the pipeline between any two queries of the normalizer and the
\* indexer: a sync in progress knows of every document it will mark either what
\* the document says or that it was written meanwhile.
IInv ==
    /\ TypeOK /\ ClockInv /\ MetricsInv /\ VersionInv /\ CopyInv
    /\ VersionCountsWrites /\ MarkedMeansIndexed

(* Liveness.                                                               *)

Current(g) ==
    index[g] = [title |-> row[g], topic |-> row[g],
                metrics |-> [row |-> row[g], posts |-> posts[g]]]

\* Once two cycles in a row have run in full after the last change to a group or
\* its posts, the index comes to show the group as it is, and stays so.  One cycle
\* is not enough: a sync that selected the old document may mark the new one.
IndexSettles ==
    <>[](settled = 2) => <>[](\A g \in Groups : posts[g] # 0 => Current(g))
==============================================================================
