-------------------------- MODULE IndexPipelineProofs --------------------------
(***************************************************************************)
(* What the normalizer and the indexer guarantee side by side, for every   *)
(* set of groups, any number of cycles at one time, and any number of      *)
(* changes, cycles and failures.                                           *)
(***************************************************************************)
EXTENDS IndexPipeline, FiniteSetTheorems, TLAPS

------------------------------------------------------------------------------
(* Types.                                                                  *)

LEMMA InitType == Init => TypeOK
<1> SUFFICES ASSUME Init PROVE TypeOK
  OBVIOUS
<1>1. Idle \in Cycle
  BY DEF Idle, Cycle, Steps
<1>2. NormalizerTypeOK
  BY <1>1 DEF Init, NormalizerInit, NormalizerTypeOK, Idle
<1>3. NoSync \in Sync
  BY DEF NoSync, Sync, SyncSteps
<1> QED
  BY <1>2, <1>3 DEF Init, TypeOK

\* A cycle that writes tables knows its group.
LEMMA CycleFields ==
    ASSUME NormalizerTypeOK, NEW n \in Cycles
    PROVE  /\ cycle[n] \in Cycle
           /\ cycle[n].step \notin {"idle", "list", "next"} => cycle[n].group \in Groups
BY DEF NormalizerTypeOK, Cycle, Steps

\* A local step of a cycle touches that cycle alone.
LEMMA AdvanceType ==
    ASSUME NormalizerTypeOK, NEW n \in Cycles, NEW next \in Cycle, Advance(n, next),
           next.step \in Steps \ {"idle", "list", "next"} => next.group # None
    PROVE  /\ cycle' \in [Cycles -> Cycle]
           /\ cycle'[n] = next
           /\ \A m \in Cycles \ {n} : cycle'[m] = cycle[m]
           /\ \A m \in Cycles :
                cycle'[m].step \in Steps \ {"idle", "list", "next"} => cycle'[m].group # None
BY DEF NormalizerTypeOK, Advance

LEMMA NormalizerNextType ==
    ASSUME NormalizerTypeOK, NormalizerNext
    PROVE  NormalizerTypeOK'
<1> USE DEF tables, etl, history
<1>1. ASSUME NEW g \in Groups, WriteGroup(g) \/ WritePosts(g) PROVE NormalizerTypeOK'
  <2> DEFINE unranked(n) == [cycle[n] EXCEPT !.rank = 0]
  <2>1. \A n \in Cycles : /\ unranked(n) \in Cycle
                          /\ unranked(n).step = cycle[n].step /\ unranked(n).group = cycle[n].group
    BY CycleFields DEF Cycle
  <2>2. cycle' = [n \in Cycles |-> unranked(n)]
    BY <1>1 DEF WriteGroup, WritePosts, Unsettle
  <2> HIDE DEF unranked
  <2>3. /\ cycle' \in [Cycles -> Cycle]
        /\ \A n \in Cycles : cycle'[n].step = cycle[n].step /\ cycle'[n].group = cycle[n].group
    BY <2>1, <2>2
  <2> QED
    BY <1>1, <2>3 DEF WriteGroup, WritePosts, Unsettle, NormalizerTypeOK
<1>2. ASSUME NEW n \in Cycles, StartCycle(n) PROVE NormalizerTypeOK'
  <2> DEFINE next == [cycle[n] EXCEPT !.step = "list", !.now = clock', !.rank = Rank]
  <2>1. Rank \in 0 .. 2 /\ clock' \in Nat
    BY <1>2 DEF Rank, StartCycle, NormalizerTypeOK
  <2>2. next \in Cycle /\ next.step = "list"
    BY <2>1, CycleFields DEF Cycle, Steps
  <2>3. cycle' = [cycle EXCEPT ![n] = next]
    BY <1>2 DEF StartCycle, NormalizerTypeOK
  <2> HIDE DEF next
  <2>4. /\ cycle' \in [Cycles -> Cycle]
        /\ \A m \in Cycles :
             cycle'[m].step \in Steps \ {"idle", "list", "next"} => cycle'[m].group # None
    BY <2>2, <2>3 DEF NormalizerTypeOK
  <2>5. cycles' \in Nat /\ UNCHANGED <<etl, tables, faults, history>>
    BY <1>2 DEF StartCycle, NormalizerTypeOK
  <2> QED
    BY <2>1, <2>4, <2>5 DEF NormalizerTypeOK
<1>3. ASSUME NEW n \in Cycles, ListGroups(n) PROVE NormalizerTypeOK'
  <2> DEFINE next == [cycle[n] EXCEPT !.step = "next", !.listed = row, !.todo = Groups]
  <2>1. next \in Cycle /\ next.step = "next"
    BY CycleFields DEF NormalizerTypeOK, Cycle, Steps
  <2>2. Advance(n, next)
    BY <1>3 DEF ListGroups
  <2> HIDE DEF next
  <2> QED
    BY <1>3, <2>1, <2>2, AdvanceType DEF ListGroups, Advance, NormalizerTypeOK
<1>4. ASSUME NEW n \in Cycles, ReadPosts(n) PROVE NormalizerTypeOK'
  <2>1. PICK g \in cycle[n].todo :
          LET rest == [cycle[n] EXCEPT !.todo = @ \ {g}]
          IN  Advance(n, IF posts[g] = 0 THEN rest
                         ELSE [rest EXCEPT !.step = "metrics", !.group = g, !.posts = posts[g]])
    BY <1>4 DEF ReadPosts
  <2> DEFINE rest == [cycle[n] EXCEPT !.todo = @ \ {g}]
             next == IF posts[g] = 0 THEN rest
                     ELSE [rest EXCEPT !.step = "metrics", !.group = g, !.posts = posts[g]]
  <2>2. g \in Groups /\ posts[g] \in Nat
    BY CycleFields DEF NormalizerTypeOK, Cycle
  <2>3. rest \in Cycle /\ rest.step = "next"
    BY <1>4, CycleFields DEF ReadPosts, Cycle
  <2>4. next \in Cycle /\ (next.step \in Steps \ {"idle", "list", "next"} => next.group # None)
    BY <2>2, <2>3, NormalizerAssumption DEF Cycle, Steps
  <2>5. Advance(n, next)
    BY <2>1
  <2> HIDE DEF next
  <2> QED
    BY <1>4, <2>4, <2>5, AdvanceType DEF ReadPosts, Advance, NormalizerTypeOK
<1>5. ASSUME NEW n \in Cycles, InsertSnapshot(n) PROVE NormalizerTypeOK'
  <2> DEFINE next == [cycle[n] EXCEPT !.step = "topic", !.posts = 0]
             g == cycle[n].group
             snapshot == [row |-> cycle[n].listed[g], posts |-> cycle[n].posts, at |-> cycle[n].now]
  <2>1. g \in Groups /\ cycle[n] \in Cycle
    BY <1>5, CycleFields DEF InsertSnapshot
  <2>2. next \in Cycle /\ next.group \in Groups
    BY <2>1 DEF Cycle, Steps
  <2>3. snapshot \in Snapshot
    BY <2>1 DEF Cycle, Snapshot
  <2>4. metrics' \in [Groups -> Snapshot \cup {None}]
    BY <1>5, <2>1, <2>3 DEF InsertSnapshot, NormalizerTypeOK
  <2>5. Advance(n, next)
    BY <1>5 DEF InsertSnapshot
  <2> HIDE DEF next
  <2> QED
    BY <1>5, <2>2, <2>4, <2>5, AdvanceType, NormalizerAssumption
       DEF InsertSnapshot, Advance, NormalizerTypeOK
<1>6. ASSUME NEW n \in Cycles, UpsertTopic(n) PROVE NormalizerTypeOK'
  <2> DEFINE next == [cycle[n] EXCEPT !.step = "version"]
  <2>1. cycle[n].group \in Groups /\ cycle[n] \in Cycle
    BY <1>6, CycleFields DEF UpsertTopic
  <2>2. next \in Cycle /\ next.group \in Groups /\ cycle[n].listed[cycle[n].group] \in Nat
    BY <2>1 DEF Cycle, Steps
  <2>3. Advance(n, next)
    BY <1>6 DEF UpsertTopic
  <2> HIDE DEF next
  <2> QED
    BY <1>6, <2>1, <2>2, <2>3, AdvanceType, NormalizerAssumption
       DEF UpsertTopic, Advance, NormalizerTypeOK
<1>7. ASSUME NEW n \in Cycles, ReadVersion(n) PROVE NormalizerTypeOK'
  <2> DEFINE g == cycle[n].group
             version == IF docs[g] = None THEN 1 ELSE docs[g].version + 1
             next == [cycle[n] EXCEPT !.step = "document", !.version = version]
  <2>1. g \in Groups /\ cycle[n] \in Cycle
    BY <1>7, CycleFields DEF ReadVersion
  <2>2. version \in Nat
    BY <2>1 DEF NormalizerTypeOK, Document
  <2> HIDE DEF version
  <2>3. next \in Cycle /\ next.group \in Groups
    BY <2>1, <2>2 DEF Cycle, Steps
  <2>4. Advance(n, next)
    BY <1>7 DEF ReadVersion, version
  <2> HIDE DEF next
  <2> QED
    BY <1>7, <2>3, <2>4, AdvanceType, NormalizerAssumption
       DEF ReadVersion, Advance, NormalizerTypeOK
<1>8. ASSUME NEW n \in Cycles, UpsertDocument(n) PROVE NormalizerTypeOK'
  <2> DEFINE g == cycle[n].group
             next == [cycle[n] EXCEPT !.step = "next", !.group = None, !.version = 0]
             synced == IF docs[g] = None THEN 0 ELSE docs[g].synced
  <2>1. g \in Groups /\ cycle[n] \in Cycle
    BY <1>8, CycleFields DEF UpsertDocument, WriteDocument
  <2>2. next \in Cycle /\ next.step = "next"
    BY <2>1 DEF Cycle, Steps
  <2>3. synced \in Nat
    BY <2>1 DEF NormalizerTypeOK, Document
  <2> HIDE DEF synced
  <2>4. [title |-> cycle[n].listed[g], version |-> cycle[n].version, updated |-> cycle[n].now,
         synced |-> synced] \in Document
    BY <2>1, <2>3 DEF Cycle, Document
  <2>5. docs' \in [Groups -> Document \cup {None}]
    BY <1>8, <2>1, <2>4 DEF UpsertDocument, WriteDocument, NormalizerTypeOK, synced
  <2>6. Advance(n, next)
    BY <1>8 DEF UpsertDocument, WriteDocument
  <2> HIDE DEF next
  <2> QED
    BY <1>8, <2>1, <2>2, <2>5, <2>6, AdvanceType
       DEF UpsertDocument, WriteDocument, Advance, NormalizerTypeOK
<1>9. ASSUME NEW n \in Cycles, FinishCycle(n) \/ AbortCycle(n) PROVE NormalizerTypeOK'
  <2>1. Idle \in Cycle /\ Idle.step = "idle"
    BY DEF Idle, Cycle, Steps
  <2>2. cycle[n].rank \in 0 .. 2
    BY CycleFields DEF Cycle
  <2>3. cycle' = [cycle EXCEPT ![n] = Idle]
    BY <1>9 DEF FinishCycle, AbortCycle
  <2>4. settled' \in 0 .. 2 /\ faults' \in Nat
    BY <1>9, <2>2 DEF FinishCycle, AbortCycle, Settle, Fault, NormalizerTypeOK
  <2> QED
    BY <1>9, <2>1, <2>3, <2>4 DEF FinishCycle, AbortCycle, NormalizerTypeOK
<1> QED
  BY <1>1, <1>2, <1>3, <1>4, <1>5, <1>6, <1>7, <1>8, <1>9 DEF NormalizerNext

\* What a local step of a cycle does to the cycle.
LEMMA CycleStep ==
    ASSUME NormalizerTypeOK, NEW n \in Cycles,
           \/ ListGroups(n) \/ ReadPosts(n) \/ InsertSnapshot(n)
           \/ UpsertTopic(n) \/ ReadVersion(n) \/ UpsertDocument(n)
    PROVE  /\ UNCHANGED clock
           /\ cycle'[n].now = cycle[n].now
           /\ \A m \in Cycles \ {n} : cycle'[m] = cycle[m]
           /\ cycle'[n].step \in {"topic", "version", "document"} =>
                /\ InsertSnapshot(n) \/ UpsertTopic(n) \/ ReadVersion(n)
                /\ cycle'[n].group = cycle[n].group
           /\ cycle'[n].step = "document" => ReadVersion(n)
<1>1. cycle[n] \in Cycle /\ cycle \in [Cycles -> Cycle]
  BY DEF NormalizerTypeOK
<1>2. UNCHANGED clock
  BY DEF ListGroups, ReadPosts, InsertSnapshot, UpsertTopic, ReadVersion, UpsertDocument,
         WriteDocument, Advance
<1>3. ASSUME NEW next, Advance(n, next)
      PROVE  cycle'[n] = next /\ \A m \in Cycles \ {n} : cycle'[m] = cycle[m]
  BY <1>1, <1>3 DEF Advance
<1>4. CASE ListGroups(n)
  <2>1. cycle'[n].now = cycle[n].now /\ cycle'[n].step = "next"
    <3>1. cycle'[n] = [cycle[n] EXCEPT !.step = "next", !.listed = row, !.todo = Groups]
      BY <1>3, <1>4 DEF ListGroups
    <3> QED
      BY <1>1, <3>1 DEF Cycle
  <2>2. \A m \in Cycles \ {n} : cycle'[m] = cycle[m]
    BY <1>3, <1>4 DEF ListGroups
  <2> QED
    BY <1>2, <2>1, <2>2
<1>5. CASE ReadPosts(n)
  <2>1. PICK g \in cycle[n].todo :
          LET rest == [cycle[n] EXCEPT !.todo = @ \ {g}]
          IN  Advance(n, IF posts[g] = 0 THEN rest
                         ELSE [rest EXCEPT !.step = "metrics", !.group = g, !.posts = posts[g]])
    BY <1>5 DEF ReadPosts
  <2> DEFINE rest == [cycle[n] EXCEPT !.todo = @ \ {g}]
  <2>2. cycle'[n] = (IF posts[g] = 0 THEN rest
                     ELSE [rest EXCEPT !.step = "metrics", !.group = g, !.posts = posts[g]])
    BY <1>3, <2>1
  <2>3. cycle'[n].now = cycle[n].now /\ cycle'[n].step \in {"next", "metrics"}
    BY <1>1, <1>5, <2>2 DEF ReadPosts, Cycle
  <2>4. \A m \in Cycles \ {n} : cycle'[m] = cycle[m]
    BY <1>3, <2>1
  <2> QED
    BY <1>2, <2>3, <2>4
<1>6. CASE InsertSnapshot(n)
  <2>1. /\ cycle'[n].now = cycle[n].now /\ cycle'[n].step = "topic"
        /\ cycle'[n].group = cycle[n].group
    <3>1. cycle'[n] = [cycle[n] EXCEPT !.step = "topic", !.posts = 0]
      BY <1>3, <1>6 DEF InsertSnapshot
    <3> QED
      BY <1>1, <3>1 DEF Cycle
  <2>2. \A m \in Cycles \ {n} : cycle'[m] = cycle[m]
    BY <1>3, <1>6 DEF InsertSnapshot
  <2> QED
    BY <1>2, <1>6, <2>1, <2>2
<1>7. CASE UpsertTopic(n)
  <2>1. /\ cycle'[n].now = cycle[n].now /\ cycle'[n].step = "version"
        /\ cycle'[n].group = cycle[n].group
    BY <1>1, <1>3, <1>7 DEF UpsertTopic, Cycle
  <2>2. \A m \in Cycles \ {n} : cycle'[m] = cycle[m]
    BY <1>3, <1>7 DEF UpsertTopic
  <2> QED
    BY <1>2, <1>7, <2>1, <2>2
<1>8. CASE ReadVersion(n)
  <2>1. PICK version : Advance(n, [cycle[n] EXCEPT !.step = "document", !.version = version])
    BY <1>8 DEF ReadVersion
  <2>2. /\ cycle'[n].now = cycle[n].now /\ cycle'[n].group = cycle[n].group
        /\ \A m \in Cycles \ {n} : cycle'[m] = cycle[m]
    <3>1. /\ cycle'[n] = [cycle[n] EXCEPT !.step = "document", !.version = version]
          /\ \A m \in Cycles \ {n} : cycle'[m] = cycle[m]
      BY <1>3, <2>1
    <3> QED
      BY <1>1, <3>1 DEF Cycle
  <2> QED
    BY <1>2, <1>8, <2>2
<1>9. CASE UpsertDocument(n)
  <2>1. cycle'[n].now = cycle[n].now /\ cycle'[n].step = "next"
    <3>1. cycle'[n] = [cycle[n] EXCEPT !.step = "next", !.group = None, !.version = 0]
      BY <1>3, <1>9 DEF UpsertDocument, WriteDocument
    <3> QED
      BY <1>1, <3>1 DEF Cycle
  <2>2. \A m \in Cycles \ {n} : cycle'[m] = cycle[m]
    BY <1>3, <1>9 DEF UpsertDocument, WriteDocument
  <2> QED
    BY <1>2, <2>1, <2>2
<1> QED
  BY <1>4, <1>5, <1>6, <1>7, <1>8, <1>9

\* The types of the indexer's own variables.
LEMMA SyncType ==
    ASSUME TypeOK, ClockInv, MetricsInv, CopyInv, StartSync \/ SyncStep \/ SyncFail
    PROVE  TypeOK'
<1> USE DEF normalizerVars, tables, etl, history
<1>1. sync \in Sync /\ NormalizerTypeOK /\ index \in [Groups -> Entry \cup {None}]
  BY DEF TypeOK
<1>2. NoSync \in Sync
  BY DEF NoSync, Sync, SyncSteps
<1>3. CASE StartSync
  <2>1. clock' \in Nat
    BY <1>1, <1>3 DEF StartSync, NormalizerTypeOK
  <2>2. sync' \in Sync
    BY <1>1, <1>3, <2>1 DEF StartSync, Sync, SyncSteps
  <2>3. NormalizerTypeOK'
    BY <1>1, <1>3, <2>1 DEF StartSync, NormalizerTypeOK
  <2> QED
    BY <1>3, <2>2, <2>3 DEF StartSync, TypeOK
<1>4. CASE Select
  <2> DEFINE dirty == {g \in Groups : NeedsSync(g)}
             titles == [g \in Groups |-> IF g \in dirty THEN docs[g].title ELSE None]
  <2>1. titles \in [Groups -> Nat \cup {None}]
    BY <1>1 DEF NeedsSync, NormalizerTypeOK, Document
  <2>2. sync' = [sync EXCEPT !.step = "build", !.rest = dirty, !.titles = titles]
    BY <1>4 DEF Select
  <2>3. dirty \in SUBSET Groups
    OBVIOUS
  <2> HIDE DEF dirty, titles
  <2>4. sync' \in Sync
    BY <1>1, <2>1, <2>2, <2>3 DEF Sync, SyncSteps
  <2> QED
    BY <1>1, <1>4, <2>4 DEF Select, TypeOK, NormalizerTypeOK
<1>5. CASE SelectNothing
  <2>1. clock' \in Nat
    BY <1>1, <1>5 DEF SelectNothing, ClockInv, NormalizerTypeOK, Sync
  <2> QED
    BY <1>1, <1>2, <1>5, <2>1 DEF SelectNothing, TypeOK, NormalizerTypeOK
<1>6. CASE ReadMetrics
  <2>1. PICK g \in sync.rest :
          sync' = [sync EXCEPT !.rest = @ \ {g}, !.row = g,
                     !.metrics[g] = [row |-> metrics[g].row, posts |-> metrics[g].posts]]
    BY <1>6 DEF ReadMetrics
  <2> DEFINE source == [row |-> metrics[g].row, posts |-> metrics[g].posts]
  <2>2. g \in Groups /\ docs[g] # None
    BY <1>1, <1>6 DEF ReadMetrics, CopyInv, Selected, Sync
  <2>3. source \in Source
    BY <1>1, <2>2 DEF MetricsInv, NormalizerTypeOK, Snapshot, Source
  <2>4. sync' = [sync EXCEPT !.rest = @ \ {g}, !.row = g, !.metrics[g] = source]
    BY <2>1
  <2> HIDE DEF source
  <2>5. [sync.metrics EXCEPT ![g] = source] \in [Groups -> Source \cup {None}]
    BY <1>1, <2>3 DEF Sync
  <2>6. sync' \in Sync
    BY <1>1, <2>2, <2>4, <2>5 DEF Sync
  <2> QED
    BY <1>1, <1>6, <2>6 DEF ReadMetrics, TypeOK, NormalizerTypeOK
<1>7. CASE ReadTopic
  <2>1. sync.row \in Groups /\ topic[sync.row] \in Nat
    BY <1>1, <1>7 DEF ReadTopic, Sync, NormalizerTypeOK
  <2>2. [sync.topics EXCEPT ![sync.row] = topic[sync.row]] \in [Groups -> Nat \cup {None}]
    BY <1>1, <2>1 DEF Sync
  <2>3. sync' \in Sync
    BY <1>1, <1>7, <2>2 DEF ReadTopic, Sync
  <2> QED
    BY <1>1, <1>7, <2>3 DEF ReadTopic, TypeOK, NormalizerTypeOK
<1>8. CASE BulkIndex
  <2>1. PICK refused \in SUBSET Selected :
          /\ IF refused = {} THEN UNCHANGED faults ELSE Fault
          /\ index' = [g \in Groups |->
                         IF g \in Selected \ refused
                         THEN [title |-> sync.titles[g], topic |-> sync.topics[g],
                               metrics |-> sync.metrics[g]]
                         ELSE index[g]]
          /\ sync' = [sync EXCEPT !.step = "mark", !.done = Selected \ refused]
    BY <1>8 DEF BulkIndex, Bulk
  <2>2. \A g \in Selected :
          [title |-> sync.titles[g], topic |-> sync.topics[g], metrics |-> sync.metrics[g]] \in Entry
    BY <1>1, <1>8, NormalizerAssumption DEF BulkIndex, Bulk, CopyInv, Selected, Sync, Entry
  <2>3. index' \in [Groups -> Entry \cup {None}]
    BY <1>1, <2>1, <2>2
  <2>4. sync' \in Sync
    BY <1>1, <2>1 DEF Sync, SyncSteps, Selected
  <2>5. faults' \in Nat
    BY <1>1, <2>1 DEF Fault, NormalizerTypeOK
  <2> QED
    BY <1>1, <1>8, <2>3, <2>4, <2>5 DEF BulkIndex, Bulk, TypeOK, NormalizerTypeOK
<1>9. CASE Mark
  <2>1. sync.done \subseteq Groups /\ sync.now \in Nat
    BY <1>1 DEF Sync
  <2>2. \A g \in sync.done : docs[g] \in Document
    BY <1>1, <1>9, <2>1 DEF Mark, MarkAll, CopyInv, NormalizerTypeOK
  <2>3. \A g \in sync.done : [docs[g] EXCEPT !.synced = sync.now] \in Document
    BY <2>1, <2>2 DEF Document
  <2>4. docs' \in [Groups -> Document \cup {None}]
    BY <1>1, <1>9, <2>3 DEF Mark, MarkAll, NormalizerTypeOK
  <2> QED
    BY <1>1, <1>2, <1>9, <2>1, <2>4 DEF Mark, MarkAll, TypeOK, NormalizerTypeOK
<1>10. CASE SyncFail
  BY <1>1, <1>2, <1>10 DEF SyncFail, Fault, TypeOK, NormalizerTypeOK
<1> QED
  BY <1>3, <1>4, <1>5, <1>6, <1>7, <1>8, <1>9, <1>10 DEF SyncStep

LEMMA NextType ==
    ASSUME TypeOK, ClockInv, MetricsInv, CopyInv, [Next]_vars PROVE TypeOK'
<1>1. CASE NormalizerNext /\ certified' = certified \ unseen' /\ UNCHANGED <<index, sync>>
  BY <1>1, NormalizerNextType DEF TypeOK
<1>2. CASE UNCHANGED vars
  BY <1>2 DEF vars, normalizerVars, tables, etl, history, TypeOK, NormalizerTypeOK
<1> QED
  BY <1>1, <1>2, SyncType DEF Next

------------------------------------------------------------------------------
(* The inductive invariant.                                                *)

LEMMA InitIInv == Init => IInv
<1> SUFFICES ASSUME Init PROVE IInv
  OBVIOUS
<1>1. TypeOK
  BY InitType
<1>2. \A n \in Cycles : cycle[n].step = "idle" /\ cycle[n].now = 0
  BY DEF Init, NormalizerInit, Idle
<1>3. \A g \in Groups : docs[g] = None /\ writes[g] = 0
  BY DEF Init, NormalizerInit
<1>4. sync.step = "idle" /\ sync.now = 0 /\ Selected = {} /\ certified = {}
  BY DEF Init, NoSync, Selected
<1>5. clock = 0
  BY DEF Init, NormalizerInit
<1> QED
  BY <1>1, <1>2, <1>3, <1>4, <1>5
     DEF IInv, ClockInv, MetricsInv, VersionInv, CopyInv, VersionCountsWrites, MarkedMeansIndexed

\* No timestamp is used twice.
LEMMA NextClockInv ==
    ASSUME TypeOK, ClockInv, CopyInv, [Next]_vars PROVE ClockInv'
<1> USE DEF normalizerVars, tables, etl, history
<1>1. /\ clock \in Nat /\ sync \in Sync /\ cycle \in [Cycles -> Cycle]
      /\ docs \in [Groups -> Document \cup {None}] /\ None \notin Document
  BY NormalizerAssumption DEF TypeOK, NormalizerTypeOK
<1>2. \A n \in Cycles : cycle[n].now \in Nat
  BY <1>1 DEF Cycle
<1>3. CASE NormalizerNext /\ UNCHANGED sync
  <2>1. ASSUME NEW g \in Groups, WriteGroup(g) \/ WritePosts(g) PROVE ClockInv'
    <3>1. \A n \in Cycles : cycle'[n].now = cycle[n].now
      BY <1>1, <2>1 DEF WriteGroup, WritePosts, Unsettle, Cycle
    <3>2. UNCHANGED <<clock, docs, sync>>
      BY <1>3, <2>1 DEF WriteGroup, WritePosts
    <3> QED
      BY <3>1, <3>2 DEF ClockInv
  <2>2. ASSUME NEW n \in Cycles, StartCycle(n) PROVE ClockInv'
    <3>1. clock' = clock + 1 /\ UNCHANGED <<docs, sync>>
      BY <1>3, <2>2 DEF StartCycle
    <3>2. \A m \in Cycles : cycle'[m].now \in {cycle[m].now, clock + 1}
      BY <1>1, <2>2 DEF StartCycle, Cycle
    <3>3. /\ sync.now <= clock /\ \A m \in Cycles : cycle[m].now <= clock
          /\ \A g \in Groups : docs[g] # None => docs[g].updated <= clock /\ docs[g].synced <= clock
      BY DEF ClockInv
    <3>4. \A g \in Groups : docs[g] # None => docs[g].updated \in Nat /\ docs[g].synced \in Nat
      BY <1>1 DEF Document
    <3>5. sync.now \in Nat
      BY <1>1 DEF Sync
    <3> QED
      BY <1>1, <1>2, <3>1, <3>2, <3>3, <3>4, <3>5 DEF ClockInv
  <2>3. ASSUME NEW n \in Cycles,
               ListGroups(n) \/ ReadPosts(n) \/ InsertSnapshot(n) \/ UpsertTopic(n) \/ ReadVersion(n)
        PROVE  ClockInv'
    <3>1. UNCHANGED <<docs, sync>>
      BY <1>3, <2>3 DEF ListGroups, ReadPosts, InsertSnapshot, UpsertTopic, ReadVersion
    <3>2. UNCHANGED clock /\ \A m \in Cycles : cycle'[m].now = cycle[m].now
      BY <2>3, CycleStep DEF TypeOK
    <3> QED
      BY <3>1, <3>2 DEF ClockInv
  <2>4. ASSUME NEW n \in Cycles, UpsertDocument(n) PROVE ClockInv'
    <3>1. UNCHANGED <<clock, sync>> /\ \A m \in Cycles : cycle'[m].now = cycle[m].now
      BY <1>3, <2>4, CycleStep DEF TypeOK
    <3>2. PICK title, version, synced :
            /\ docs' = [docs EXCEPT ![cycle[n].group] =
                          [title |-> title, version |-> version, updated |-> cycle[n].now,
                           synced |-> synced]]
            /\ synced = IF docs[cycle[n].group] = None THEN 0 ELSE docs[cycle[n].group].synced
      BY <2>4 DEF UpsertDocument, WriteDocument
    <3>3. ASSUME NEW g \in Groups, docs'[g] # None
          PROVE  \/ docs'[g] = docs[g]
                 \/ /\ docs'[g].updated = cycle[n].now
                    /\ docs[g] = None => docs'[g].synced = 0
                    /\ docs[g] # None => docs'[g].synced = docs[g].synced
      BY <1>1, <3>2, <3>3
    <3> QED
      BY <1>1, <3>1, <3>3 DEF ClockInv
  <2>5. ASSUME NEW n \in Cycles, FinishCycle(n) \/ AbortCycle(n) PROVE ClockInv'
    <3>1. UNCHANGED <<clock, docs, sync>>
      BY <1>3, <2>5 DEF FinishCycle, AbortCycle
    <3>2. \A m \in Cycles : cycle'[m].now \in {cycle[m].now, 0}
      BY <1>1, <2>5 DEF FinishCycle, AbortCycle, Idle
    <3> QED
      BY <1>1, <1>2, <3>1, <3>2 DEF ClockInv, Sync
  <2> QED
    BY <1>3, <2>1, <2>2, <2>3, <2>4, <2>5 DEF NormalizerNext
<1>4. CASE StartSync
  <2>1. /\ clock' = clock + 1 /\ sync'.now = clock + 1 /\ UNCHANGED <<docs, cycle>>
    BY <1>1, <1>4 DEF StartSync, Sync
  <2>2. \A g \in Groups : docs[g] # None => docs[g].updated \in Nat /\ docs[g].synced \in Nat
    BY <1>1 DEF Document
  <2> QED
    BY <1>1, <1>2, <2>1, <2>2 DEF ClockInv
<1>5. CASE Select \/ ReadMetrics \/ ReadTopic \/ BulkIndex
  <2>1. /\ sync'.now = sync.now /\ UNCHANGED <<clock, docs, cycle>>
        /\ sync'.step = "select" => sync.step = "select"
    BY <1>1, <1>5 DEF Select, ReadMetrics, ReadTopic, BulkIndex, Bulk, Sync
  <2> QED
    BY <2>1 DEF ClockInv
<1>6. CASE SelectNothing
  <2>1. /\ sync.step = "select" /\ sync' = NoSync /\ UNCHANGED <<docs, cycle>>
        /\ clock' = IF clock = sync.now THEN clock - 1 ELSE clock
    BY <1>6 DEF SelectNothing
  <2>2. \A g \in Groups : docs[g] # None => docs[g].updated \in Nat /\ docs[g].synced \in Nat
    BY <1>1 DEF Document
  <2>3. sync'.now = 0 /\ sync'.step = "idle" /\ sync.now \in Nat
    BY <1>1, <2>1 DEF NoSync, Sync
  <2> QED
    BY <1>1, <1>2, <2>1, <2>2, <2>3 DEF ClockInv
<1>7. CASE Mark
  <2>1. /\ sync' = NoSync /\ UNCHANGED <<clock, cycle>>
        /\ docs' = [g \in Groups |-> IF g \in sync.done THEN [docs[g] EXCEPT !.synced = sync.now] ELSE docs[g]]
    BY <1>7 DEF Mark, MarkAll
  <2>2. sync'.now = 0 /\ sync'.step = "idle" /\ sync.now <= clock
    BY <2>1 DEF NoSync, ClockInv
  <2>3. sync.done \subseteq Groups /\ \A g \in sync.done : docs[g] \in Document
    BY <1>1, <1>7 DEF Mark, MarkAll, CopyInv, Selected
  <2>4. ASSUME NEW g \in Groups, docs'[g] # None
        PROVE  docs'[g].updated <= clock /\ docs'[g].synced <= clock
    <3>1. CASE g \in sync.done
      BY <1>1, <2>1, <2>2, <2>3, <3>1 DEF Document, ClockInv
    <3>2. CASE g \notin sync.done
      BY <2>1, <2>4, <3>2 DEF ClockInv
    <3> QED
      BY <3>1, <3>2
  <2> QED
    BY <1>1, <2>1, <2>2, <2>4 DEF ClockInv
<1>8. CASE SyncFail
  <2>1. sync' = NoSync /\ UNCHANGED <<clock, docs, cycle>>
    BY <1>8 DEF SyncFail
  <2>2. sync'.now = 0 /\ sync'.step = "idle"
    BY <2>1 DEF NoSync
  <2> QED
    BY <1>1, <2>1, <2>2 DEF ClockInv
<1>9. CASE UNCHANGED vars
  BY <1>9 DEF vars, ClockInv
<1> QED
  BY <1>3, <1>4, <1>5, <1>6, <1>7, <1>8, <1>9 DEF Next, SyncStep

\* Metrics come before the document, and stay.
LEMMA NextMetricsInv ==
    ASSUME TypeOK, MetricsInv, CopyInv, [Next]_vars PROVE MetricsInv'
<1> USE DEF normalizerVars, tables, etl, history
<1>1. /\ NormalizerTypeOK /\ cycle \in [Cycles -> Cycle] /\ None \notin Snapshot
      /\ metrics \in [Groups -> Snapshot \cup {None}]
      /\ docs \in [Groups -> Document \cup {None}]
  BY NormalizerAssumption DEF TypeOK, NormalizerTypeOK
<1>2. ASSUME NEW g \in Groups, WriteGroup(g) \/ WritePosts(g) PROVE MetricsInv'
  <2>1. \A n \in Cycles : cycle'[n].step = cycle[n].step /\ cycle'[n].group = cycle[n].group
    BY <1>1, <1>2 DEF WriteGroup, WritePosts, Unsettle, Cycle
  <2> QED
    BY <1>2, <2>1 DEF WriteGroup, WritePosts, MetricsInv
<1>3. ASSUME NEW n \in Cycles, StartCycle(n) \/ FinishCycle(n) \/ AbortCycle(n) PROVE MetricsInv'
  <2>1. \A m \in Cycles : cycle'[m] = cycle[m] \/ cycle'[m].step \in {"idle", "list"}
    BY <1>1, <1>3 DEF StartCycle, FinishCycle, AbortCycle, Idle, Cycle
  <2>2. UNCHANGED <<metrics, docs>>
    BY <1>3 DEF StartCycle, FinishCycle, AbortCycle
  <2> QED
    BY <2>1, <2>2 DEF MetricsInv
<1>4. ASSUME NEW n \in Cycles,
             \/ ListGroups(n) \/ ReadPosts(n) \/ InsertSnapshot(n)
             \/ UpsertTopic(n) \/ ReadVersion(n) \/ UpsertDocument(n)
      PROVE  MetricsInv'
  <2>1. /\ \A m \in Cycles \ {n} : cycle'[m] = cycle[m]
        /\ cycle'[n].step \in {"topic", "version", "document"} =>
             /\ InsertSnapshot(n) \/ UpsertTopic(n) \/ ReadVersion(n)
             /\ cycle'[n].group = cycle[n].group
    BY <1>1, <1>4, CycleStep
  <2>2. CASE InsertSnapshot(n)
    <3> DEFINE g == cycle[n].group
               snapshot == [row |-> cycle[n].listed[g], posts |-> cycle[n].posts, at |-> cycle[n].now]
    <3>1. g \in Groups /\ cycle[n] \in Cycle
      BY <1>1, <2>2, CycleFields DEF InsertSnapshot
    <3>2. snapshot \in Snapshot
      BY <3>1 DEF Cycle, Snapshot
    <3>3. metrics'[g] # None /\ \A h \in Groups : metrics[h] # None => metrics'[h] # None
      BY <1>1, <2>2, <3>1, <3>2 DEF InsertSnapshot
    <3>4. UNCHANGED docs
      BY <2>2 DEF InsertSnapshot
    <3>5. \A m \in Cycles : cycle[m].step \in {"topic", "version", "document"} => cycle[m].group \in Groups
      BY <1>1, CycleFields
    <3> QED
      BY <2>1, <3>3, <3>4, <3>5 DEF MetricsInv
  <2>3. CASE ~ InsertSnapshot(n)
    <3>1. UNCHANGED metrics
      BY <1>4, <2>3 DEF ListGroups, ReadPosts, UpsertTopic, ReadVersion, UpsertDocument, WriteDocument
    <3>2. cycle'[n].step \in {"topic", "version", "document"} =>
            cycle[n].step \in {"topic", "version"} /\ cycle'[n].group = cycle[n].group
      BY <2>1, <2>3 DEF UpsertTopic, ReadVersion
    <3>3. \A h \in Groups : docs'[h] # None => docs[h] # None \/ metrics[h] # None
      <4>1. CASE UpsertDocument(n)
        BY <1>1, <4>1 DEF UpsertDocument, WriteDocument, MetricsInv
      <4>2. CASE ~ UpsertDocument(n)
        BY <1>4, <2>3, <4>2 DEF ListGroups, ReadPosts, UpsertTopic, ReadVersion
      <4> QED
        BY <4>1, <4>2
    <3> QED
      BY <2>1, <3>1, <3>2, <3>3 DEF MetricsInv
  <2> QED
    BY <2>2, <2>3
<1>5. CASE Mark
  <2>1. \A g \in Groups : docs'[g] # None => docs[g] # None
    BY <1>5 DEF Mark, MarkAll, CopyInv, Selected
  <2> QED
    BY <1>5, <2>1 DEF Mark, MarkAll, MetricsInv
<1>6. CASE StartSync \/ Select \/ SelectNothing \/ ReadMetrics \/ ReadTopic \/ BulkIndex
           \/ SyncFail \/ UNCHANGED vars
  BY <1>6 DEF StartSync, Select, SelectNothing, ReadMetrics, ReadTopic, BulkIndex, Bulk, SyncFail,
              vars, MetricsInv
<1> QED
  BY <1>2, <1>3, <1>4, <1>5, <1>6 DEF Next, NormalizerNext, SyncStep

\* A cycle that has no other beside it writes the successor of what it read.
LEMMA NextVersions ==
    ASSUME TypeOK, VersionInv, VersionCountsWrites, CopyInv, [Next]_vars
    PROVE  VersionInv' /\ VersionCountsWrites'
<1> USE DEF normalizerVars, tables, etl, history
<1> SUFFICES ASSUME Cardinality(Cycles) = 1
             PROVE  /\ \A n \in Cycles : cycle'[n].step = "document" =>
                         cycle'[n].version = writes'[cycle'[n].group] + 1
                    /\ \A g \in Groups : writes'[g] = IF docs'[g] = None THEN 0 ELSE docs'[g].version
  BY DEF VersionInv, VersionCountsWrites
<1>1. /\ NormalizerTypeOK /\ cycle \in [Cycles -> Cycle] /\ None \notin Document
      /\ docs \in [Groups -> Document \cup {None}] /\ writes \in [Groups -> Nat]
  BY NormalizerAssumption DEF TypeOK, NormalizerTypeOK
<1>2. /\ \A n \in Cycles : cycle[n].step = "document" => cycle[n].version = writes[cycle[n].group] + 1
      /\ \A g \in Groups : writes[g] = IF docs[g] = None THEN 0 ELSE docs[g].version
  BY DEF VersionInv, VersionCountsWrites
<1>3. \A m, n \in Cycles : m = n
  <2>1. PICK x : Cycles = {x}
    BY FS_Singleton, NormalizerAssumption
  <2> QED
    BY <2>1
<1>4. ASSUME NEW g \in Groups, WriteGroup(g) \/ WritePosts(g)
      PROVE  /\ UNCHANGED <<docs, writes>>
             /\ \A n \in Cycles : /\ cycle'[n].step = cycle[n].step /\ cycle'[n].group = cycle[n].group
                                   /\ cycle'[n].version = cycle[n].version
  BY <1>1, <1>4 DEF WriteGroup, WritePosts, Unsettle, Cycle
<1>5. ASSUME NEW n \in Cycles, StartCycle(n) \/ FinishCycle(n) \/ AbortCycle(n)
      PROVE  /\ UNCHANGED <<docs, writes>>
             /\ \A m \in Cycles : cycle'[m] = cycle[m] \/ cycle'[m].step \in {"idle", "list"}
  BY <1>1, <1>5 DEF StartCycle, FinishCycle, AbortCycle, Idle, Cycle
<1>6. ASSUME NEW n \in Cycles, ListGroups(n) \/ ReadPosts(n) \/ InsertSnapshot(n) \/ UpsertTopic(n)
      PROVE  /\ UNCHANGED <<docs, writes>>
             /\ \A m \in Cycles : cycle'[m].step # "document"
  <2>1. UNCHANGED <<docs, writes>>
    BY <1>6 DEF ListGroups, ReadPosts, InsertSnapshot, UpsertTopic
  <2>2. cycle'[n].step = "document" => cycle[n].step = "version"
    BY <1>1, <1>6, CycleStep DEF ReadVersion
  <2>3. cycle[n].step # "version" 
    BY <1>6 DEF ListGroups, ReadPosts, InsertSnapshot, UpsertTopic
  <2> QED
    BY <1>3, <2>1, <2>2, <2>3
<1>7. ASSUME NEW n \in Cycles, ReadVersion(n)
      PROVE  /\ UNCHANGED <<docs, writes>>
             /\ \A m \in Cycles : cycle'[m].version = writes[cycle'[m].group] + 1
  <2> DEFINE version == IF docs[cycle[n].group] = None THEN 1 ELSE docs[cycle[n].group].version + 1
  <2>1. cycle' = [cycle EXCEPT ![n] = [cycle[n] EXCEPT !.step = "document", !.version = version]]
    BY <1>7 DEF ReadVersion, Advance
  <2>2. cycle[n].group \in Groups
    BY <1>1, <1>7, CycleFields DEF ReadVersion
  <2>3. version = writes[cycle[n].group] + 1
    BY <1>2, <2>2
  <2> HIDE DEF version
  <2>4. cycle'[n].version = version /\ cycle'[n].group = cycle[n].group
    BY <1>1, <2>1 DEF Cycle
  <2> QED
    BY <1>3, <1>7, <2>3, <2>4 DEF ReadVersion
<1>8. ASSUME NEW n \in Cycles, UpsertDocument(n)
      PROVE  /\ \A m \in Cycles : cycle'[m].step # "document"
             /\ \A g \in Groups : writes'[g] = IF docs'[g] = None THEN 0 ELSE docs'[g].version
  <2> DEFINE h == cycle[n].group
  <2>1. h \in Groups /\ cycle[n].version = writes[h] + 1
    BY <1>1, <1>2, <1>8, CycleFields DEF UpsertDocument, WriteDocument
  <2>2. cycle'[n].step = "next"
    BY <1>1, <1>8 DEF UpsertDocument, WriteDocument, Advance, Cycle
  <2>3. PICK title, updated, synced :
          docs' = [docs EXCEPT ![h] = [title |-> title, version |-> cycle[n].version,
                                       updated |-> updated, synced |-> synced]]
    BY <1>8 DEF UpsertDocument, WriteDocument
  <2>4. writes' = [writes EXCEPT ![h] = @ + 1]
    BY <1>8 DEF UpsertDocument, WriteDocument
  <2>5. docs'[h] # None
    <3>1. cycle[n] \in Cycle
      BY <1>1
    <3>2. docs[h] # None => docs[h].synced \in Nat
      BY <1>1, <2>1 DEF Document
    <3>3. docs'[h] = [title |-> cycle[n].listed[h], version |-> cycle[n].version,
                      updated |-> cycle[n].now,
                      synced |-> IF docs[h] = None THEN 0 ELSE docs[h].synced]
      BY <1>1, <1>8, <2>1 DEF UpsertDocument, WriteDocument
    <3>4. docs'[h] \in Document
      BY <2>1, <3>1, <3>2, <3>3 DEF Document, Cycle
    <3> QED
      BY <1>1, <3>4
  <2> QED
    BY <1>1, <1>2, <1>3, <2>1, <2>2, <2>3, <2>4, <2>5
<1>9. CASE Mark
  <2>1. UNCHANGED <<cycle, writes>> /\ sync.done \subseteq Groups
    BY <1>9 DEF Mark, MarkAll, TypeOK, Sync
  <2>2. \A g \in sync.done : docs[g] \in Document
    BY <1>1, <1>9, <2>1 DEF Mark, MarkAll, CopyInv, Selected
  <2>3. \A g \in sync.done : LET d == [docs[g] EXCEPT !.synced = sync.now]
                             IN  d \in Document /\ d.version = docs[g].version
    BY <2>2 DEF Document, TypeOK, Sync
  <2>4. \A g \in Groups : \/ docs'[g] = docs[g]
                          \/ docs[g] # None /\ docs'[g] # None /\ docs'[g].version = docs[g].version
    BY <1>1, <1>9, <2>2, <2>3 DEF Mark, MarkAll
  <2> QED
    BY <1>2, <2>1, <2>4
<1>10. CASE StartSync \/ Select \/ SelectNothing \/ ReadMetrics \/ ReadTopic \/ BulkIndex
            \/ SyncFail \/ UNCHANGED vars
  BY <1>2, <1>10 DEF StartSync, Select, SelectNothing, ReadMetrics, ReadTopic, BulkIndex, Bulk, SyncFail, vars
<1> QED
  BY <1>2, <1>4, <1>5, <1>6, <1>7, <1>8, <1>9, <1>10 DEF Next, NormalizerNext, SyncStep

\* What a sync knows of a document stays true until the document is written, which
\* unseen records, and what it has marked stays in the index.
LEMMA NextCopyInv ==
    ASSUME TypeOK, MetricsInv, CopyInv, MarkedMeansIndexed, [Next]_vars
    PROVE  CopyInv' /\ MarkedMeansIndexed'
<1> USE DEF normalizerVars, tables, etl, history
<1>1. /\ NormalizerTypeOK /\ sync \in Sync /\ index \in [Groups -> Entry \cup {None}]
      /\ docs \in [Groups -> Document \cup {None}]
      /\ None \notin Groups \cup Nat /\ None \notin Document /\ certified \subseteq Groups
  BY NormalizerAssumption DEF TypeOK, NormalizerTypeOK
<1>2. CASE NormalizerNext /\ certified' = certified \ unseen' /\ UNCHANGED <<index, sync>>
  <2>1. unseen \subseteq unseen' /\ \A g \in Groups \ unseen' : docs'[g] = docs[g]
    <3>1. ASSUME NEW n \in Cycles, UpsertDocument(n)
          PROVE  unseen \subseteq unseen' /\ \A g \in Groups \ unseen' : docs'[g] = docs[g]
      BY <1>1, <3>1 DEF UpsertDocument, WriteDocument
    <3>2. (\E n \in Cycles : UpsertDocument(n)) \/ UNCHANGED <<docs, unseen>>
      BY <1>2 DEF NormalizerNext, WriteGroup, WritePosts, StartCycle, ListGroups, ReadPosts,
                  InsertSnapshot, UpsertTopic, ReadVersion, FinishCycle, AbortCycle
    <3> QED
      BY <3>1, <3>2
  <2>2. \A g \in Groups : docs[g] # None => docs'[g] # None
    <3>1. ASSUME NEW n \in Cycles, UpsertDocument(n), NEW g \in Groups, docs[g] # None
          PROVE  docs'[g] # None
      <4>1. cycle[n] \in Cycle /\ cycle[n].group \in Groups
        BY <1>1, <3>1, CycleFields DEF UpsertDocument, WriteDocument
      <4>2. docs[g] \in Document
        BY <1>1, <3>1
      <4>3. cycle[n].group = g =>
              docs'[g] = [title |-> cycle[n].listed[g], version |-> cycle[n].version,
                          updated |-> cycle[n].now, synced |-> docs[g].synced]
        BY <1>1, <3>1 DEF UpsertDocument, WriteDocument
      <4>4. cycle[n].group = g => docs'[g] \in Document
        BY <4>1, <4>2, <4>3 DEF Document, Cycle
      <4>5. cycle[n].group # g => docs'[g] = docs[g]
        BY <1>1, <3>1 DEF UpsertDocument, WriteDocument
      <4> QED
        BY <1>1, <3>1, <4>4, <4>5
    <3>2. (\E n \in Cycles : UpsertDocument(n)) \/ UNCHANGED docs
      BY <1>2 DEF NormalizerNext, WriteGroup, WritePosts, StartCycle, ListGroups, ReadPosts,
                  InsertSnapshot, UpsertTopic, ReadVersion, FinishCycle, AbortCycle
    <3> QED
      BY <3>1, <3>2
  <2>3. Selected' = Selected /\ Selected \subseteq Groups
    BY <1>2 DEF Selected
  <2> QED
    BY <1>1, <1>2, <2>1, <2>2, <2>3 DEF CopyInv, MarkedMeansIndexed
<1>3. ASSUME sync' = NoSync, UNCHANGED <<docs, unseen, index, certified>>
      PROVE  CopyInv' /\ MarkedMeansIndexed'
  <2>1. sync'.step = "idle" /\ Selected' = {}
    BY <1>3 DEF NoSync, Selected
  <2> QED
    BY <1>3, <2>1 DEF CopyInv, MarkedMeansIndexed
<1>4. CASE StartSync
  <2>1. /\ sync'.step = "select" /\ Selected' = Selected /\ Selected = {} /\ unseen' = {}
        /\ UNCHANGED <<docs, index, certified>>
    BY <1>1, <1>4 DEF StartSync, Sync, Selected, CopyInv
  <2> QED
    BY <2>1 DEF CopyInv, MarkedMeansIndexed
<1>5. CASE Select
  <2> DEFINE dirty == {g \in Groups : NeedsSync(g)}
             titles == [g \in Groups |-> IF g \in dirty THEN docs[g].title ELSE None]
  <2>1. sync' = [sync EXCEPT !.step = "build", !.rest = dirty, !.titles = titles]
    BY <1>5 DEF Select
  <2>2. \A g \in dirty : docs[g] # None /\ docs[g].title \in Nat
    BY <1>1 DEF NeedsSync, Document
  <2>3. \A g \in Groups : titles[g] = IF g \in dirty THEN docs[g].title ELSE None
    OBVIOUS
  <2>4. dirty \subseteq Groups
    OBVIOUS
  <2> HIDE DEF dirty, titles
  <2>5. sync'.step = "build" /\ sync'.rest = dirty /\ sync'.titles = titles
    BY <1>1, <2>1 DEF Sync
  <2>6. Selected' = dirty
    BY <1>1, <2>2, <2>3, <2>4, <2>5 DEF Selected
  <2>7. UNCHANGED <<docs, unseen, index, certified>>
    BY <1>5 DEF Select
  <2> QED
    BY <2>2, <2>3, <2>4, <2>5, <2>6, <2>7 DEF CopyInv, MarkedMeansIndexed
<1>6. CASE SelectNothing
  BY <1>3, <1>6 DEF SelectNothing
<1>7. CASE ReadMetrics
  <2>1. PICK g \in sync.rest :
          sync' = [sync EXCEPT !.rest = @ \ {g}, !.row = g,
                     !.metrics[g] = [row |-> metrics[g].row, posts |-> metrics[g].posts]]
    BY <1>7 DEF ReadMetrics
  <2> DEFINE source == [row |-> metrics[g].row, posts |-> metrics[g].posts]
  <2>2. g \in Groups /\ docs[g] # None /\ sync.step = "build"
    BY <1>1, <1>7 DEF ReadMetrics, CopyInv, Selected, Sync
  <2>3. source \in Source /\ None \notin Source
    BY <1>1, <2>2, PipelineAssumption DEF MetricsInv, NormalizerTypeOK, Snapshot, Source
  <2>4. sync' = [sync EXCEPT !.rest = @ \ {g}, !.row = g, !.metrics[g] = source]
    BY <2>1
  <2> HIDE DEF source
  <2>5. /\ sync'.step = "build" /\ sync'.rest = sync.rest \ {g} /\ sync'.row = g
        /\ sync'.titles = sync.titles /\ sync'.topics = sync.topics
        /\ sync'.metrics = [sync.metrics EXCEPT ![g] = source]
    BY <1>1, <2>2, <2>4 DEF Sync
  <2>6. sync'.metrics[g] # None /\ \A h \in Groups \ {g} : sync'.metrics[h] = sync.metrics[h]
    BY <1>1, <2>2, <2>3, <2>5 DEF Sync
  <2>7. Selected' = Selected /\ Selected \subseteq Groups
    BY <2>5 DEF Selected
  <2>8. sync.row = None /\ UNCHANGED <<docs, unseen, index, certified>>
    BY <1>7 DEF ReadMetrics
  <2> QED
    BY <1>1, <2>2, <2>5, <2>6, <2>7, <2>8 DEF CopyInv, MarkedMeansIndexed
<1>8. CASE ReadTopic
  <2>1. sync.row \in Groups /\ topic[sync.row] \in Nat
    BY <1>1, <1>8 DEF ReadTopic, Sync, NormalizerTypeOK
  <2>2. /\ sync'.step = sync.step /\ sync'.rest = sync.rest /\ sync'.row = None
        /\ sync'.titles = sync.titles /\ sync'.metrics = sync.metrics /\ sync'.done = sync.done
        /\ sync'.topics = [sync.topics EXCEPT ![sync.row] = topic[sync.row]]
    BY <1>1, <1>8 DEF ReadTopic, Sync
  <2>3. sync'.topics[sync.row] # None /\ \A h \in Groups \ {sync.row} : sync'.topics[h] = sync.topics[h]
    BY <1>1, <2>1, <2>2 DEF Sync
  <2>4. Selected' = Selected /\ Selected \subseteq Groups
    BY <2>2 DEF Selected
  <2>5. UNCHANGED <<docs, unseen, index, certified>>
    BY <1>8 DEF ReadTopic
  <2> QED
    BY <2>2, <2>3, <2>4, <2>5 DEF CopyInv, MarkedMeansIndexed
<1>9. CASE BulkIndex
  <2>1. PICK refused \in SUBSET Selected :
          /\ index' = [g \in Groups |->
                         IF g \in Selected \ refused
                         THEN [title |-> sync.titles[g], topic |-> sync.topics[g],
                               metrics |-> sync.metrics[g]]
                         ELSE index[g]]
          /\ sync' = [sync EXCEPT !.step = "mark", !.done = Selected \ refused]
    BY <1>9 DEF BulkIndex, Bulk
  <2>2. /\ sync'.step = "mark" /\ sync'.done = Selected \ refused
        /\ sync'.titles = sync.titles /\ Selected' = Selected /\ Selected \subseteq Groups
    BY <1>1, <2>1 DEF Sync, Selected
  <2>3. \A g \in Selected :
          [title |-> sync.titles[g], topic |-> sync.topics[g], metrics |-> sync.metrics[g]] \in Entry
    BY <1>1, <1>9 DEF BulkIndex, Bulk, CopyInv, Selected, Sync, Entry
  <2>4. \A g \in Groups : IF g \in Selected \ refused
                          THEN index'[g] # None /\ index'[g].title = sync.titles[g]
                          ELSE index'[g] = index[g]
    BY <2>1, <2>3, PipelineAssumption
  <2>5. UNCHANGED <<docs, unseen, certified>>
    BY <1>9 DEF BulkIndex, Bulk
  <2>6. CopyInv'
    BY <2>2, <2>4, <2>5 DEF CopyInv
  <2>7. MarkedMeansIndexed'
    <3> SUFFICES ASSUME NEW g \in certified
                 PROVE  docs[g] # None /\ index'[g] # None /\ index'[g].title = docs[g].title
      BY <2>5 DEF MarkedMeansIndexed
    <3>1. g \in Groups /\ g \notin unseen
      BY <1>1 DEF CopyInv
    <3>2. g \in Selected => docs[g].title = sync.titles[g]
      BY <3>1 DEF CopyInv
    <3> QED
      BY <2>4, <3>1, <3>2 DEF MarkedMeansIndexed
  <2> QED
    BY <2>6, <2>7
<1>10. CASE Mark
  <2>1. /\ sync.step = "mark" /\ sync.done \subseteq Selected /\ Selected \subseteq Groups
        /\ certified' = certified \cup (sync.done \ unseen) /\ UNCHANGED <<unseen, index>>
    BY <1>10 DEF Mark, MarkAll, CopyInv, Selected
  <2>2. sync'.step = "idle" /\ Selected' = {}
    BY <1>10 DEF Mark, MarkAll, NoSync, Selected
  <2>3. \A g \in sync.done : LET d == [docs[g] EXCEPT !.synced = sync.now]
                             IN  d \in Document /\ d.title = docs[g].title
    BY <1>1, <2>1 DEF CopyInv, Document, Sync
  <2>4. \A g \in Groups : docs[g] # None => docs'[g] # None /\ docs'[g].title = docs[g].title
    BY <1>1, <1>10, <2>3 DEF Mark, MarkAll
  <2>5. CopyInv'
    BY <2>1, <2>2 DEF CopyInv
  <2>6. ASSUME NEW g \in certified'
        PROVE  docs'[g] # None /\ index[g] # None /\ index[g].title = docs'[g].title
    <3>1. CASE g \in certified
      BY <1>1, <2>4, <3>1 DEF MarkedMeansIndexed
    <3>2. CASE g \in sync.done \ unseen
      BY <2>1, <2>4, <3>2 DEF CopyInv
    <3> QED
      BY <2>1, <3>1, <3>2
  <2> QED
    BY <2>1, <2>5, <2>6 DEF MarkedMeansIndexed
<1>11. CASE SyncFail
  BY <1>3, <1>11 DEF SyncFail
<1>12. CASE UNCHANGED vars
  BY <1>12 DEF vars, CopyInv, MarkedMeansIndexed, Selected
<1> QED
  BY <1>2, <1>4, <1>5, <1>6, <1>7, <1>8, <1>9, <1>10, <1>11, <1>12 DEF Next, SyncStep

------------------------------------------------------------------------------
(* What the pipeline guarantees.                                           *)

\* The inductive invariant, whatever the normalizer writes and ETL changes while a
\* sync is on its way, and wherever a cycle or a sync is cut short.
THEOREM PipelineInvariant == Spec => []IInv
<1>1. IInv /\ [Next]_vars => IInv'
  BY NextType, NextClockInv, NextMetricsInv, NextVersions, NextCopyInv DEF IInv
<1> QED
  BY InitIInv, <1>1, PTL DEF Spec

\* Every variable of normalizer and indexer keeps its type; the clock, which may
\* take a timestamp back, never falls below zero.
THEOREM TypeCorrect == Spec => []TypeOK
<1>1. IInv => TypeOK
  BY DEF IInv
<1> QED
  BY PipelineInvariant, <1>1, PTL

\* With one cycle at a time, version is the number of writes of the document, and
\* so grows with each, although it is read in one query and written in another.
THEOREM VersionsCount == Spec => []VersionCountsWrites
<1>1. IInv => VersionCountsWrites
  BY DEF IInv
<1> QED
  BY PipelineInvariant, <1>1, PTL

\* What the indexer marks as synced and nobody has written since the sync began is
\* in the index as it is in the table.
THEOREM MarkedIsIndexed == Spec => []MarkedMeansIndexed
<1>1. IInv => MarkedMeansIndexed
  BY DEF IInv
<1> QED
  BY PipelineInvariant, <1>1, PTL
==============================================================================
