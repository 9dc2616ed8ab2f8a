--------------------------- MODULE PostsWorkerProofs ---------------------------
(***************************************************************************)
(* What the posts consumer guarantees for every number of channels and     *)
(* processes, every batch size and every topic length.                     *)
(***************************************************************************)
EXTENDS PostsWorker, LastOffset, FiniteSetTheorems, SequenceTheorems, TLAPS

------------------------------------------------------------------------------
(* Facts about the operators of the model.                                 *)

\* The row an id gets is one of its records in the batch, and none of the batch
\* is newer.
LEMMA NewestProperties ==
    ASSUME TypeOK, NEW c \in Channels, NEW S \in SUBSET (1 .. Len(log[c])),
           NEW p, \E i \in S : log[c][i] = p
    PROVE  /\ Newest(c, S, p) \in S
           /\ log[c][Newest(c, S, p)] = p
           /\ \A j \in S : log[c][j] = p => j <= Newest(c, S, p)
<1> DEFINE Same == {i \in S : log[c][i] = p}
<1>1. Len(log[c]) \in Nat
  BY LenProperties DEF TypeOK
<1>2. PICK m \in Same : \A j \in Same : j <= m
  BY <1>1, LastExists
<1> QED
  BY <1>2 DEF Newest

\* A post of the topic stays at its offset when a record is appended.
LEMMA AppendKeeps ==
    ASSUME TypeOK, NEW c \in Channels, NEW r \in Record
    PROVE  /\ Append(log[c], r) \in Seq(Record)
           /\ Len(Append(log[c], r)) = Len(log[c]) + 1
           /\ \A i \in 1 .. Len(log[c]) : Append(log[c], r)[i] = log[c][i]
BY AppendProperties DEF TypeOK

------------------------------------------------------------------------------
(* Type correctness.                                                       *)

\* A batch leaves rows of the post table behind.
LEMMA UpsertedRowsType ==
    ASSUME TypeOK, NEW c \in Channels, NEW S \in SUBSET (1 .. Len(log[c]))
    PROVE  UpsertedRows(c, S) \in [PostIds -> Row \cup {None}]
<1> SUFFICES ASSUME NEW p \in PostIds, \E i \in S : log[c][i] = p
             PROVE  <<c, Newest(c, S, p)>> \in Row
  BY DEF UpsertedRows, TypeOK
<1>1. Newest(c, S, p) \in S
  BY NewestProperties
<1>2. Len(log[c]) \in Nat
  BY LenProperties DEF TypeOK
<1>3. \A i \in 1 .. Len(log[c]) : i \in Nat
  BY <1>2
<1>4. Newest(c, S, p) \in Nat
  BY <1>1, <1>3
<1> QED
  BY <1>4 DEF Row

LEMMA InitType == Init => TypeOK
BY EmptySeq DEF Init, TypeOK, Steps

LEMMA NextType == TypeOK /\ [Next]_vars => TypeOK'
<1> SUFFICES ASSUME TypeOK, [Next]_vars PROVE TypeOK'
  OBVIOUS
<1> USE DEF TypeOK, Steps
<1>1. ASSUME NEW c \in Channels, Produce(c) PROVE TypeOK'
  <2>1. PICK r \in Record : log' = [log EXCEPT ![c] = Append(@, r)]
    BY <1>1 DEF Produce
  <2>2. Append(log[c], r) \in Seq(Record) /\ Len(Append(log[c], r)) = Len(log[c]) + 1
    BY AppendKeeps
  <2>3. log' \in [Channels -> Seq(Record)]
    BY <2>1, <2>2
  <2>4. \A d \in Channels : Len(log[d]) \in Nat
    BY LenProperties
  <2>5. \A d \in Channels : 1 .. Len(log[d]) \subseteq 1 .. Len(log'[d])
    BY <2>1, <2>2, <2>4
  <2> QED
    BY <1>1, <2>3, <2>5 DEF Produce
<1>2. ASSUME NEW c \in Channels, Assign(c) PROVE TypeOK'
  BY <1>2, PostsAssumption DEF Assign, AssignFrom, Fault
<1>3. ASSUME NEW w \in Workers, Start(w) PROVE TypeOK'
  BY <1>3 DEF Start
<1>4. ASSUME NEW w \in Workers, Stop(w) PROVE TypeOK'
  BY <1>4, PostsAssumption DEF Stop, Fault
<1>5. ASSUME NEW w \in Workers, NEW c \in Channels, Task(w, c) PROVE TypeOK'
  <2>1. CASE Fetch(w, c)
    <3>1. PICK n \in 1 .. FetchLimit :
            LET taken == position[c] + 1 .. position[c] + n
                got   == FirstOf(Parsed(c, taken), BatchSize)
            IN  /\ position[c] + n <= Len(log[c])
                /\ position' = [position EXCEPT ![c] = @ + n]
                /\ batch' = [batch EXCEPT ![w][c] = got]
                /\ skipped' = [skipped EXCEPT ![c] = @ \cup Storable(c, taken \ got)]
                /\ Goto(w, c, IF got = {} THEN "poll" ELSE "process")
      BY <2>1 DEF Fetch, FetchUpTo
    <3> DEFINE taken == position[c] + 1 .. position[c] + n
               got   == FirstOf(Parsed(c, taken), BatchSize)
    <3>2. n \in Nat /\ position[c] \in Nat /\ Len(log[c]) \in Nat
      BY PostsAssumption, LenProperties
    <3>3. taken \subseteq 1 .. Len(log[c])
      BY <3>1, <3>2
    <3>4. got \subseteq taken
      BY DEF FirstOf, Parsed
    <3>5. Storable(c, taken \ got) \subseteq Nat
      BY <3>2 DEF Storable
    <3> HIDE DEF taken, got
    <3>6. /\ position' = [position EXCEPT ![c] = @ + n]
          /\ batch' = [batch EXCEPT ![w][c] = got]
          /\ skipped' = [skipped EXCEPT ![c] = @ \cup Storable(c, taken \ got)]
          /\ Goto(w, c, IF got = {} THEN "poll" ELSE "process")
      BY <3>1 DEF taken, got
    <3>7. UNCHANGED <<log, committed, owner, rows, applied, faults>>
      BY <2>1 DEF Fetch, FetchUpTo
    <3>8. position' \in [Channels -> Nat]
      BY <3>2, <3>6
    <3>9. skipped' \in [Channels -> SUBSET Nat]
      BY <3>5, <3>6
    <3>10. pc' \in [Workers -> [Channels -> Steps]]
      BY <3>6 DEF Goto
    <3>11. /\ batch' \in [Workers -> [Channels -> SUBSET Nat]]
           /\ \A v \in Workers, d \in Channels : batch'[v][d] \subseteq 1 .. Len(log[d])
      <4>1. got \subseteq Nat /\ got \subseteq 1 .. Len(log[c])
        BY <3>2, <3>3, <3>4
      <4> QED
        BY <3>6, <4>1
    <3> QED
      BY <3>7, <3>8, <3>9, <3>10, <3>11
  <2>2. CASE Discard(w, c)
    BY <2>2 DEF Discard, Goto
  <2>3. CASE Upsert(w, c)
    <3> DEFINE posts == Storable(c, batch[w][c])
    <3>1. posts \in SUBSET (1 .. Len(log[c])) /\ posts \subseteq Nat
      BY DEF Storable
    <3>2. UpsertedRows(c, posts) \in [PostIds -> Row \cup {None}]
      BY <3>1, UpsertedRowsType
    <3> QED
      BY <2>3, <3>1, <3>2 DEF Upsert, Goto
  <2>4. CASE UpsertFail(w, c)
    <3>1. Storable(c, batch[w][c]) \subseteq Nat
      BY DEF Storable
    <3> QED
      BY <2>4, <3>1 DEF UpsertFail, Goto, Fault
  <2>5. CASE Commit(w, c)
    BY <2>5 DEF Commit, Goto
  <2>6. CASE CommitFail(w, c)
    BY <2>6 DEF CommitFail, Goto, Fault
  <2>7. CASE Resume(w, c)
    BY <2>7 DEF Resume, Goto
  <2> QED
    BY <1>5, <2>1, <2>2, <2>3, <2>4, <2>5, <2>6, <2>7 DEF Task
<1>6. CASE UNCHANGED vars
  BY <1>6 DEF vars
<1> QED
  BY <1>1, <1>2, <1>3, <1>4, <1>5, <1>6 DEF Next

\* The state of the worker has its type in every reachable state: a batch only
\* names offsets the topic has, and a row names a channel and an offset.
THEOREM TypeCorrect == Spec => []TypeOK
BY InitType, NextType, PTL DEF Spec

------------------------------------------------------------------------------
(* The inductive invariant.                                                *)

LEMMA InitIInv == Init => IInv
<1> SUFFICES ASSUME Init PROVE IInv
  OBVIOUS
<1>1. TypeOK
  BY InitType
<1>2. PositionInv
  BY EmptySeq DEF Init, PositionInv
<1>3. BatchInv /\ TakenAccounted /\ LossAccounted
  BY PostsAssumption DEF Init, BatchInv, TakenAccounted, LossAccounted
<1> QED
  BY <1>1, <1>2, <1>3 DEF IInv

LEMMA NextIInv == IInv /\ [Next]_vars => IInv'
<1> SUFFICES ASSUME IInv, [Next]_vars PROVE IInv'
  OBVIOUS
<1>1. TypeOK /\ TypeOK' /\ PositionInv /\ BatchInv /\ TakenAccounted /\ LossAccounted
  BY NextType DEF IInv
<1>2. \A d \in Channels : Len(log[d]) \in Nat /\ committed[d] \in Nat /\ position[d] \in Nat
  BY <1>1, LenProperties DEF TypeOK
<1> SUFFICES PositionInv' /\ BatchInv' /\ TakenAccounted' /\ LossAccounted'
  BY <1>1 DEF IInv
<1>3. ASSUME NEW c \in Channels, Produce(c)
      PROVE  PositionInv' /\ BatchInv' /\ TakenAccounted' /\ LossAccounted'
  <2>1. /\ \A d \in Channels : Len(log'[d]) \in Nat /\ Len(log[d]) <= Len(log'[d])
        /\ \A d \in Channels : \A i \in 1 .. Len(log[d]) : log'[d][i] = log[d][i]
    <3>1. PICK r \in Record : log' = [log EXCEPT ![c] = Append(@, r)]
      BY <1>3 DEF Produce
    <3>2. /\ Len(Append(log[c], r)) = Len(log[c]) + 1
          /\ \A i \in 1 .. Len(log[c]) : Append(log[c], r)[i] = log[c][i]
      BY <1>1, AppendKeeps
    <3>3. log \in [Channels -> Seq(Record)]
      BY <1>1 DEF TypeOK
    <3> QED
      BY <1>2, <3>1, <3>2, <3>3
  <2>2. UNCHANGED <<committed, owner, position, pc, batch, applied, skipped>>
    BY <1>3 DEF Produce
  <2>3. PositionInv' /\ BatchInv'
    BY <1>1, <1>2, <2>1, <2>2 DEF PositionInv, BatchInv
  <2>4. \A d \in Channels : \A i \in 1 .. position[d] : log'[d][i] = log[d][i]
    BY <1>1, <1>2, <2>1 DEF PositionInv
  <2>5. TakenAccounted'
    BY <1>1, <2>2, <2>4 DEF TakenAccounted
  <2>6. LossAccounted'
    <3>1. \A d \in Channels : \A i \in 1 .. committed[d] : i \in 1 .. position[d]
      BY <1>1, <1>2 DEF PositionInv
    <3> QED
      BY <1>1, <2>2, <2>4, <3>1 DEF LossAccounted
  <2> QED
    BY <2>3, <2>5, <2>6
<1>4. ASSUME NEW c \in Channels, Assign(c)
      PROVE  PositionInv' /\ BatchInv' /\ TakenAccounted' /\ LossAccounted'
  <2>1. /\ position' = [position EXCEPT ![c] = committed[c]]
        /\ \A d \in Channels : d # c => owner'[d] = owner[d]
        /\ UNCHANGED <<log, committed, pc, batch, applied, skipped>>
    BY <1>1, <1>4 DEF Assign, AssignFrom, TypeOK
  <2>2. PositionInv' /\ BatchInv' /\ LossAccounted'
    BY <1>1, <1>2, <2>1 DEF PositionInv, BatchInv, LossAccounted, TypeOK
  <2>3. TakenAccounted'
    BY <1>1, <2>1 DEF TakenAccounted, LossAccounted, TypeOK
  <2> QED
    BY <2>2, <2>3
<1>5. ASSUME NEW w \in Workers, Start(w)
      PROVE  PositionInv' /\ BatchInv' /\ TakenAccounted' /\ LossAccounted'
  BY <1>1, <1>5 DEF Start, PositionInv, BatchInv, TakenAccounted, LossAccounted, TypeOK
<1>6. ASSUME NEW w \in Workers, Stop(w)
      PROVE  PositionInv' /\ BatchInv' /\ TakenAccounted' /\ LossAccounted'
  <2>1. \A v \in Workers, d \in Channels :
          owner'[d] = v => owner[d] = v /\ batch'[v][d] = batch[v][d]
    BY <1>1, <1>6, PostsAssumption DEF Stop, TypeOK
  <2>2. UNCHANGED <<log, committed, position, applied, skipped>>
    BY <1>6 DEF Stop
  <2>3. PositionInv' /\ LossAccounted'
    BY <1>1, <2>2 DEF PositionInv, LossAccounted
  <2>4. BatchInv'
    BY <1>1, <1>6 DEF Stop, BatchInv, TypeOK
  <2>5. TakenAccounted'
    BY <1>1, <2>1, <2>2 DEF TakenAccounted
  <2> QED
    BY <2>3, <2>4, <2>5
<1>7. ASSUME NEW w \in Workers, NEW c \in Channels, Task(w, c)
      PROVE  PositionInv' /\ BatchInv' /\ TakenAccounted' /\ LossAccounted'
  <2>1. CASE Fetch(w, c)
    <3>1. PICK n \in 1 .. FetchLimit :
            LET taken == position[c] + 1 .. position[c] + n
                got   == FirstOf(Parsed(c, taken), BatchSize)
            IN  /\ position[c] + n <= Len(log[c])
                /\ position' = [position EXCEPT ![c] = @ + n]
                /\ batch' = [batch EXCEPT ![w][c] = got]
                /\ skipped' = [skipped EXCEPT ![c] = @ \cup Storable(c, taken \ got)]
                /\ Goto(w, c, IF got = {} THEN "poll" ELSE "process")
      BY <2>1 DEF Fetch, FetchUpTo
    <3> DEFINE taken == position[c] + 1 .. position[c] + n
               got   == FirstOf(Parsed(c, taken), BatchSize)
    <3> HIDE DEF got
    <3>2. /\ position[c] + n <= Len(log[c])
          /\ position' = [position EXCEPT ![c] = @ + n]
          /\ batch' = [batch EXCEPT ![w][c] = got]
          /\ skipped' = [skipped EXCEPT ![c] = @ \cup Storable(c, taken \ got)]
          /\ Goto(w, c, IF got = {} THEN "poll" ELSE "process")
      BY <3>1 DEF got
    <3>3. /\ UNCHANGED <<log, committed, owner, applied>>
          /\ owner[c] = w /\ batch[w][c] = {}
      BY <1>1, <2>1 DEF Fetch, FetchUpTo, BatchInv
    <3>4. n \in Nat /\ position[c] + n \in Nat
      BY <1>2, PostsAssumption
    <3>5. PositionInv'
      BY <1>1, <1>2, <3>2, <3>3, <3>4 DEF PositionInv, TypeOK
    <3>6. BatchInv'
      BY <1>1, <3>2 DEF BatchInv, Goto, TypeOK
    <3>7. LossAccounted'
      BY <1>1, <3>2, <3>3 DEF LossAccounted, TypeOK
    <3>8. \A i \in 1 .. position[c] + n :
             log[c][i] \in PostIds => i \in applied[c] \cup skipped'[c] \cup batch'[w][c]
      <4> SUFFICES ASSUME NEW i \in 1 .. position[c] + n, log[c][i] \in PostIds
                   PROVE  i \in applied[c] \cup skipped'[c] \cup batch'[w][c]
        OBVIOUS
      <4>1. skipped'[c] = skipped[c] \cup Storable(c, taken \ got) /\ batch'[w][c] = got
        BY <1>1, <3>2 DEF TypeOK
      <4>2. CASE i \in 1 .. position[c]
        BY <1>1, <3>3, <4>1, <4>2 DEF TakenAccounted
      <4>3. CASE i \in taken
        BY <4>1, <4>3 DEF Storable
      <4> QED
        BY <1>2, <3>4, <4>2, <4>3
    <3>9. TakenAccounted'
      <4> SUFFICES ASSUME NEW v \in Workers, NEW d \in Channels, owner[d] = v,
                          NEW i \in 1 .. position'[d], log[d][i] \in PostIds
                   PROVE  i \in applied[d] \cup skipped'[d] \cup batch'[v][d]
        BY <3>3 DEF TakenAccounted
      <4>1. CASE d = c
        BY <1>1, <3>2, <3>3, <3>8, <4>1 DEF TypeOK
      <4>2. CASE d # c
        BY <1>1, <3>2, <4>2 DEF TakenAccounted, TypeOK
      <4> QED
        BY <4>1, <4>2
    <3> QED
      BY <3>5, <3>6, <3>7, <3>9
  <2>2. CASE Discard(w, c)
    <3>1. /\ UNCHANGED <<log, committed, owner, position, applied, skipped>>
          /\ batch' = [batch EXCEPT ![w][c] = {}]
          /\ pc' = [pc EXCEPT ![w][c] = "poll"]
          /\ \A i \in batch[w][c] : log[c][i] \notin PostIds
      BY <2>2 DEF Discard, Goto, Storable
    <3> QED
      BY <1>1, <3>1
      DEF PositionInv, BatchInv, TakenAccounted, LossAccounted, TypeOK
  <2>3. CASE Upsert(w, c)
    <3>1. /\ UNCHANGED <<log, committed, owner, position, skipped>>
          /\ applied' = [applied EXCEPT ![c] = @ \cup {i \in batch[w][c] : log[c][i] \in PostIds}]
          /\ batch' = [batch EXCEPT ![w][c] = {}]
          /\ pc' = [pc EXCEPT ![w][c] = "commit"]
      BY <2>3 DEF Upsert, Goto, Storable
    <3> QED
      BY <1>1, <3>1
      DEF PositionInv, BatchInv, TakenAccounted, LossAccounted, TypeOK
  <2>4. CASE UpsertFail(w, c)
    <3>1. /\ UNCHANGED <<log, committed, owner, position, applied>>
          /\ skipped' = [skipped EXCEPT ![c] = @ \cup {i \in batch[w][c] : log[c][i] \in PostIds}]
          /\ batch' = [batch EXCEPT ![w][c] = {}]
          /\ pc' = [pc EXCEPT ![w][c] = "backoff"]
      BY <2>4 DEF UpsertFail, Goto, Storable
    <3> QED
      BY <1>1, <3>1
      DEF PositionInv, BatchInv, TakenAccounted, LossAccounted, TypeOK
  <2>5. CASE Commit(w, c)
    <3>1. /\ UNCHANGED <<log, owner, position, applied, skipped, batch>>
          /\ owner[c] = w /\ batch[w][c] = {}
          /\ committed' = [committed EXCEPT ![c] = position[c]]
          /\ pc' = [pc EXCEPT ![w][c] = "poll"]
      BY <1>1, <2>5 DEF Commit, Goto, BatchInv
    <3> QED
      BY <1>1, <1>2, <3>1
      DEF PositionInv, BatchInv, TakenAccounted, LossAccounted, TypeOK
  <2>6. CASE CommitFail(w, c)
    BY <1>1, <2>6
    DEF CommitFail, Goto, PositionInv, BatchInv, TakenAccounted, LossAccounted, TypeOK
  <2>7. CASE Resume(w, c)
    BY <1>1, <2>7
    DEF Resume, Goto, PositionInv, BatchInv, TakenAccounted, LossAccounted, TypeOK
  <2> QED
    BY <1>7, <2>1, <2>2, <2>3, <2>4, <2>5, <2>6, <2>7 DEF Task
<1>8. CASE UNCHANGED vars
  BY <1>1, <1>8 DEF vars, PositionInv, BatchInv, TakenAccounted, LossAccounted
<1> QED
  BY <1>3, <1>4, <1>5, <1>6, <1>7, <1>8 DEF Next

\* IInv is an invariant: at every step of every interleaving of stops, rebalances
\* and failures, the owner of a topic can say where each post it was handed is.
THEOREM Accounting == Spec => []IInv
BY InitIInv, NextIInv, PTL DEF Spec

\* A post below the committed offset is written, was cut off by the batch limit,
\* or was in a batch whose upsert failed; nothing else loses one.
THEOREM NoOtherLoss == Spec => []LossAccounted
<1>1. IInv => LossAccounted
  BY DEF IInv
<1> QED
  BY <1>1, Accounting, PTL

\* A group's committed offset never moves back: the owner's position starts at it,
\* only grows, and is what a commit writes.
THEOREM CommittedGrows == Spec => CommittedNeverMovesBack
<1>1. IInv /\ [Next]_vars => [\A c \in Channels : committed'[c] >= committed[c]]_committed
  <2> SUFFICES ASSUME IInv, [Next]_vars, committed' # committed
               PROVE  \A c \in Channels : committed'[c] >= committed[c]
    OBVIOUS
  <2>1. TypeOK /\ PositionInv
    BY DEF IInv
  <2>2. PICK w \in Workers, c \in Channels : Commit(w, c)
    BY DEF Next, vars, Produce, Assign, AssignFrom, Start, Stop, Task, Fetch, FetchUpTo,
           Discard, Upsert, UpsertFail, CommitFail, Resume
  <2>3. committed' = [committed EXCEPT ![c] = position[c]]
    BY <2>2 DEF Commit
  <2> QED
    BY <2>1, <2>3 DEF TypeOK, PositionInv
<1> QED
  BY <1>1, Accounting, PTL DEF Spec, CommittedNeverMovesBack

------------------------------------------------------------------------------
(* At least once, when nothing is cut and no upsert fails.                 *)

\* A batch of no more messages than the limit is not cut.
LEMMA FirstOfAll ==
    ASSUME NEW a \in Nat, NEW n \in Nat, n <= BatchSize,
           NEW S \in SUBSET (a + 1 .. a + n)
    PROVE  FirstOf(S, BatchSize) = S
<1> SUFFICES ASSUME NEW i \in S
             PROVE  Cardinality({j \in S : j < i}) < BatchSize
  BY DEF FirstOf
<1> DEFINE T == {j \in S : j < i}
<1>2. i \in Nat /\ a + 1 <= i /\ i <= a + n
  OBVIOUS
<1>3. T \subseteq a + 1 .. i - 1
  <2> SUFFICES ASSUME NEW j \in S, j < i PROVE j \in a + 1 .. i - 1
    OBVIOUS
  <2>1. j \in Nat /\ a + 1 <= j
    OBVIOUS
  <2> QED
    BY <1>2, <2>1
<1>4. IsFiniteSet(a + 1 .. i - 1) /\ Cardinality(a + 1 .. i - 1) <= i - 1 - a
  <2>1. a + 1 \in Int /\ i - 1 \in Int
    BY <1>2
  <2>2. Cardinality(a + 1 .. i - 1)
          = IF a + 1 > i - 1 THEN 0 ELSE (i - 1) - (a + 1) + 1
    BY <2>1, FS_Interval
  <2>3. (IF a + 1 > i - 1 THEN 0 ELSE (i - 1) - (a + 1) + 1) = i - 1 - a
    BY <1>2
  <2>4. IsFiniteSet(a + 1 .. i - 1)
    BY <2>1, FS_Interval
  <2>5. i - 1 - a \in Int
    BY <1>2
  <2> QED
    BY <2>2, <2>3, <2>4, <2>5
<1>5. IsFiniteSet(T) /\ Cardinality(T) <= Cardinality(a + 1 .. i - 1)
  BY <1>3, <1>4, FS_Subset
<1>6. Cardinality(T) \in Nat /\ Cardinality(a + 1 .. i - 1) \in Nat
  BY <1>4, <1>5, FS_CardinalityType
<1> QED
  BY <1>2, <1>4, <1>5, <1>6, PostsAssumption

\* No post is let go of.
NothingSkipped == \A c \in Channels : skipped[c] = {}

\* FetchLimit <= BatchSize is max_records passed to getmany; ~UpsertMayFail is a
\* database that takes every batch.
Lossless == FetchLimit <= BatchSize /\ ~ UpsertMayFail

LEMMA NextNothingSkipped ==
    ASSUME Lossless, IInv, NothingSkipped, [Next]_vars
    PROVE  NothingSkipped'
<1>1. ASSUME NEW w \in Workers, NEW c \in Channels, Fetch(w, c)
      PROVE  NothingSkipped'
  <2>1. PICK n \in 1 .. FetchLimit :
          LET taken == position[c] + 1 .. position[c] + n
              got   == FirstOf(Parsed(c, taken), BatchSize)
          IN  skipped' = [skipped EXCEPT ![c] = @ \cup Storable(c, taken \ got)]
    BY <1>1 DEF Fetch, FetchUpTo
  <2> DEFINE taken == position[c] + 1 .. position[c] + n
             got   == FirstOf(Parsed(c, taken), BatchSize)
  <2>2. got = Parsed(c, taken)
    <3>1. position[c] \in Nat /\ n \in Nat /\ n <= BatchSize
      BY PostsAssumption DEF Lossless, IInv, TypeOK
    <3>2. Parsed(c, taken) \in SUBSET taken
      BY DEF Parsed
    <3> QED
      BY <3>1, <3>2, FirstOfAll
  <2>3. Storable(c, taken \ got) = {}
    BY <2>2, PostsAssumption DEF Storable, Parsed
  <2>4. skipped' = [skipped EXCEPT ![c] = @ \cup {}]
    BY <2>1, <2>3
  <2> QED
    BY <2>4 DEF NothingSkipped, IInv, TypeOK
<1>2. ASSUME ~ \E w \in Workers, c \in Channels : Fetch(w, c)
      PROVE  UNCHANGED skipped
  BY <1>2 DEF Lossless, Next, vars, Produce, Assign, AssignFrom, Start, Stop, Task,
              Discard, Upsert, UpsertFail, Commit, CommitFail, Resume
<1> QED
  BY <1>1, <1>2 DEF NothingSkipped

\* Were getmany held to a batch and no upsert to fail, every post below the
\* committed offset would have been written: the two causes LossAccounted names
\* are all that stands between the worker and its "at-least-once".
THEOREM AtLeastOnceWhenLossless ==
    ASSUME Lossless PROVE Spec => []AtLeastOnce
<1>1. Init => NothingSkipped
  BY DEF Init, NothingSkipped
<1>2. IInv /\ NothingSkipped /\ [Next]_vars => NothingSkipped'
  BY NextNothingSkipped
<1>3. IInv /\ NothingSkipped => AtLeastOnce
  BY DEF IInv, LossAccounted, NothingSkipped, AtLeastOnce
<1> QED
  BY <1>1, <1>2, <1>3, Accounting, PTL DEF Spec

LEMMA StepImplements ==
    ASSUME IInv, NothingSkipped, [Next]_vars
    PROVE  [Queue!Next]_<<log, applied, committed>>
<1>1. TypeOK /\ PositionInv /\ TakenAccounted /\ BatchInv
  BY DEF IInv
<1>2. ASSUME NEW c \in Channels, Produce(c) PROVE Queue!Publish(c)
  BY <1>2 DEF Produce, Queue!Publish, Record
<1>3. ASSUME NEW w \in Workers, NEW c \in Channels, Upsert(w, c)
      PROVE  Queue!Deliver(c)
  <2> DEFINE posts == Storable(c, batch[w][c])
  <2>1. posts \in SUBSET {i \in 1 .. Len(log[c]) : log[c][i] \in PostIds}
    BY <1>1 DEF Storable, TypeOK
  <2>2. /\ applied' = [applied EXCEPT ![c] = @ \cup posts]
        /\ UNCHANGED <<log, committed>>
    BY <1>3 DEF Upsert
  <2> HIDE DEF posts
  <2> QED
    BY <2>1, <2>2 DEF Queue!Deliver
<1>4. ASSUME NEW w \in Workers, NEW c \in Channels, Commit(w, c)
      PROVE  Queue!Acknowledge(c)
  <2>1. /\ owner[c] = w /\ batch[w][c] = {}
        /\ committed' = [committed EXCEPT ![c] = position[c]]
        /\ UNCHANGED <<log, applied>>
    BY <1>1, <1>4 DEF Commit, BatchInv
  <2>2. position[c] \in committed[c] .. Len(log[c])
    <3>1. Len(log[c]) \in Nat /\ committed[c] \in Nat /\ position[c] \in Nat
      BY <1>1, LenProperties DEF TypeOK
    <3> QED
      BY <1>1, <3>1 DEF PositionInv
  <2>3. Queue!Delivered(c, position[c])
    BY <1>1, <2>1 DEF Queue!Delivered, TakenAccounted, NothingSkipped
  <2> QED
    BY <2>1, <2>2, <2>3 DEF Queue!Acknowledge
<1>5. ASSUME ~ \E c \in Channels : Produce(c),
             ~ \E w \in Workers, c \in Channels : Upsert(w, c) \/ Commit(w, c)
      PROVE  UNCHANGED <<log, applied, committed>>
  BY <1>5 DEF Next, vars, Assign, AssignFrom, Start, Stop, Task, Fetch, FetchUpTo,
              Discard, UpsertFail, CommitFail, Resume
<1> QED
  BY <1>2, <1>3, <1>4, <1>5 DEF Queue!Next

\* Under the same condition the worker implements the abstract at-least-once
\* queue: each of its steps publishes, delivers, acknowledges or is invisible.
THEOREM ImplementsQueue ==
    ASSUME Lossless PROVE Spec => DeliversAtLeastOnce
<1>1. Init => NothingSkipped /\ Queue!Init
  BY DEF Init, NothingSkipped, Queue!Init
<1>2. IInv /\ NothingSkipped /\ [Next]_vars => NothingSkipped'
  BY NextNothingSkipped
<1>3. IInv /\ NothingSkipped /\ [Next]_vars => [Queue!Next]_<<log, applied, committed>>
  BY StepImplements
<1> QED
  BY <1>1, <1>2, <1>3, Accounting, PTL DEF Spec, DeliversAtLeastOnce, Queue!Spec

------------------------------------------------------------------------------
(* No stale row, with one process and one topic.                           *)

\* No second process writes the table, and no second topic uses its ids.
Alone == (\A v, w \in Workers : v = w) /\ (\A c, d \in Channels : c = d)

\* What a task that is to process or commit a fetch has kept of it.
LEMMA FetchTakesAll ==
    ASSUME Lossless, IInv, NEW w \in Workers, NEW c \in Channels, Fetch(w, c)
    PROVE  \E n \in Nat :
            LET taken == position[c] + 1 .. position[c] + n
            IN  /\ position' = [position EXCEPT ![c] = @ + n]
                /\ batch' = [batch EXCEPT ![w][c] = Parsed(c, taken)]
<1>1. PICK n \in 1 .. FetchLimit :
        LET taken == position[c] + 1 .. position[c] + n
            got   == FirstOf(Parsed(c, taken), BatchSize)
        IN  /\ position' = [position EXCEPT ![c] = @ + n]
            /\ batch' = [batch EXCEPT ![w][c] = got]
  BY DEF Fetch, FetchUpTo
<1> DEFINE taken == position[c] + 1 .. position[c] + n
<1>2. position[c] \in Nat /\ n \in Nat /\ n <= BatchSize
  BY PostsAssumption DEF Lossless, IInv, TypeOK
<1>3. Parsed(c, taken) \in SUBSET taken
  BY DEF Parsed
<1>4. FirstOf(Parsed(c, taken), BatchSize) = Parsed(c, taken)
  BY <1>2, <1>3, FirstOfAll
<1> QED
  BY <1>1, <1>2, <1>4

\* A batch newer than the record at offset i leaves that record, or a newer one,
\* in the table; so does a batch that holds it.
LEMMA UpsertShows ==
    ASSUME TypeOK, NEW c \in Channels, NEW S \in SUBSET (1 .. Len(log[c])),
           rows' = UpsertedRows(c, S), log' = log,
           NEW i \in 1 .. Len(log[c]), log[c][i] \in PostIds,
           i \in S \/ (Shown(c, i) /\ \A b \in S : i < b)
    PROVE  Shown(c, i)'
<1> DEFINE p == log[c][i]
<1>1. Len(log[c]) \in Nat
  BY LenProperties DEF TypeOK
<1>2. CASE \E b \in S : log[c][b] = p
  <2> DEFINE m == Newest(c, S, p)
  <2>1. m \in S /\ \A b \in S : log[c][b] = p => b <= m
    BY <1>2, NewestProperties
  <2> HIDE DEF m
  <2>2. m \in i .. Len(log[c])
    BY <1>1, <2>1
  <2>3. rows'[p] = <<c, m>>
    BY <1>2 DEF UpsertedRows, m
  <2> QED
    BY <2>2, <2>3 DEF Shown
<1>3. CASE ~ \E b \in S : log[c][b] = p
  BY <1>3 DEF UpsertedRows, Shown
<1> QED
  BY <1>2, <1>3

LEMMA NextFresh ==
    ASSUME Lossless, Alone, IInv, FreshInv, CommittedRowsNotStale, [Next]_vars
    PROVE  FreshInv' /\ CommittedRowsNotStale'
<1>1. TypeOK /\ PositionInv /\ BatchInv /\ TypeOK'
  BY NextType DEF IInv
<1>2. \A c \in Channels : /\ committed[c] \in Nat /\ position[c] \in Nat
                          /\ Len(log[c]) \in Nat
                          /\ committed[c] <= position[c] /\ position[c] <= Len(log[c])
  BY <1>1, LenProperties DEF TypeOK, PositionInv
<1>3. ASSUME NEW c \in Channels, Produce(c)
      PROVE  FreshInv' /\ CommittedRowsNotStale'
  <2>1. PICK r \in Record : log' = [log EXCEPT ![c] = Append(@, r)]
    BY <1>3 DEF Produce
  <2>2. /\ Len(Append(log[c], r)) = Len(log[c]) + 1
        /\ \A i \in 1 .. Len(log[c]) : Append(log[c], r)[i] = log[c][i]
    BY <1>1, AppendKeeps
  <2>3. /\ \A d \in Channels : Len(log[d]) <= Len(log'[d]) /\ Len(log'[d]) \in Nat
        /\ \A d \in Channels : \A i \in 1 .. Len(log[d]) : log'[d][i] = log[d][i]
    BY <1>1, <1>2, <2>1, <2>2 DEF TypeOK
  <2>4. UNCHANGED <<committed, owner, position, batch, rows>>
    BY <1>3 DEF Produce
  <2>5. \A d \in Channels : \A i \in 1 .. Len(log[d]) : Shown(d, i) => Shown(d, i)'
    BY <1>2, <2>3, <2>4 DEF Shown
  <2>6. \A d \in Channels : \A i \in 1 .. position[d] : i \in 1 .. Len(log[d])
    BY <1>2
  <2>7. \A d \in Channels : \A i \in 1 .. committed[d] : i \in 1 .. Len(log[d])
    BY <1>2
  <2> QED
    BY <2>3, <2>4, <2>5, <2>6, <2>7 DEF FreshInv, CommittedRowsNotStale
<1>4. ASSUME NEW c \in Channels, Assign(c)
      PROVE  FreshInv' /\ CommittedRowsNotStale'
  <2>1. /\ position' = [position EXCEPT ![c] = committed[c]]
        /\ \A d \in Channels : d # c => owner'[d] = owner[d]
        /\ UNCHANGED <<log, committed, batch, rows>>
    BY <1>1, <1>4 DEF Assign, AssignFrom, TypeOK
  <2>2. \A d \in Channels, i \in Nat : Shown(d, i)' = Shown(d, i)
    BY <2>1 DEF Shown
  <2>3. \A d \in Channels : d = c
    BY DEF Alone
  <2>4. \A w \in Workers : \A b \in batch[w][c] : b \in Nat
    BY <1>1 DEF TypeOK
  <2>5. FreshInv'
    BY <1>1, <1>2, <2>1, <2>2, <2>3, <2>4 DEF FreshInv, CommittedRowsNotStale, TypeOK
  <2> QED
    BY <2>1, <2>2, <2>5 DEF CommittedRowsNotStale
<1>5. ASSUME NEW w \in Workers, Start(w)
      PROVE  FreshInv' /\ CommittedRowsNotStale'
  BY <1>5 DEF Start, FreshInv, CommittedRowsNotStale, Shown
<1>6. ASSUME NEW w \in Workers, Stop(w)
      PROVE  FreshInv' /\ CommittedRowsNotStale'
  <2>1. \A v \in Workers, d \in Channels :
          batch'[v][d] \subseteq batch[v][d] /\ owner'[d] # v
    BY <1>1, <1>6, PostsAssumption DEF Stop, TypeOK, Alone
  <2>2. UNCHANGED <<log, committed, position, rows>>
    BY <1>6 DEF Stop
  <2> QED
    BY <2>1, <2>2 DEF FreshInv, CommittedRowsNotStale, Shown
<1>7. ASSUME NEW w \in Workers, NEW c \in Channels, Task(w, c)
      PROVE  FreshInv' /\ CommittedRowsNotStale'
  <2>0. (\A v \in Workers : v = w) /\ (\A d \in Channels : d = c)
    BY DEF Alone
  <2>1. CASE Fetch(w, c)
    <3>1. PICK n \in Nat :
            LET taken == position[c] + 1 .. position[c] + n
            IN  /\ position' = [position EXCEPT ![c] = @ + n]
                /\ batch' = [batch EXCEPT ![w][c] = Parsed(c, taken)]
      BY <2>1, FetchTakesAll
    <3> DEFINE taken == position[c] + 1 .. position[c] + n
    <3>2. /\ UNCHANGED <<log, committed, owner, rows>>
          /\ owner[c] = w /\ batch[w][c] = {}
      BY <1>1, <2>1 DEF Fetch, FetchUpTo, BatchInv
    <3>3. position'[c] = position[c] + n /\ batch'[w][c] = Parsed(c, taken)
      BY <1>1, <3>1 DEF TypeOK
    <3>4. \A i \in Nat : Shown(c, i)' = Shown(c, i)
      BY <3>2 DEF Shown
    <3>5. \A b \in Parsed(c, taken) : b \in Nat /\ b > position[c]
      BY <1>2 DEF Parsed
    <3>6. ASSUME NEW i \in 1 .. position[c] + n, log[c][i] \in PostIds,
                 i \notin Parsed(c, taken)
          PROVE  Shown(c, i) /\ i <= position[c]
      <4>1. i \notin taken
        BY <3>6, PostsAssumption DEF Parsed
      <4>2. i \in 1 .. position[c]
        BY <1>2, <4>1
      <4> QED
        BY <3>2, <3>6, <4>2 DEF FreshInv
    <3>7. ASSUME NEW i \in 1 .. position'[c], log'[c][i] \in PostIds, i \notin batch'[w][c]
          PROVE  Shown(c, i)' /\ \A b \in batch'[w][c] : i < b
      <4>1. Shown(c, i) /\ i <= position[c] /\ i \in Nat
        BY <1>2, <3>2, <3>3, <3>6, <3>7
      <4> QED
        BY <1>2, <3>3, <3>4, <3>5, <4>1
    <3>8. \A b \in batch'[w][c] : b > committed'[c]
      BY <1>2, <3>2, <3>3, <3>5
    <3>9. FreshInv'
      BY <2>0, <3>7, <3>8 DEF FreshInv
    <3> QED
      BY <3>2, <3>9 DEF CommittedRowsNotStale, Shown
  <2>2. CASE Discard(w, c)
    <3>1. /\ UNCHANGED <<log, committed, owner, position, rows>>
          /\ batch'[w][c] = {}
          /\ \A i \in batch[w][c] : log[c][i] \notin PostIds
      BY <1>1, <2>2 DEF Discard, Storable, TypeOK
    <3>2. \A i \in Nat : Shown(c, i)' = Shown(c, i)
      BY <3>1 DEF Shown
    <3> QED
      BY <1>2, <2>0, <3>1, <3>2 DEF FreshInv, CommittedRowsNotStale
  <2>3. CASE Upsert(w, c)
    <3> DEFINE posts == Storable(c, batch[w][c])
    <3>1. /\ UNCHANGED <<log, committed, owner, position>>
          /\ rows' = UpsertedRows(c, posts)
          /\ batch'[w][c] = {}
      BY <1>1, <2>3 DEF Upsert, TypeOK
    <3>2. posts \in SUBSET (1 .. Len(log[c]))
          /\ posts \subseteq batch[w][c]
          /\ \A i \in batch[w][c] : log[c][i] \in PostIds => i \in posts
      BY <1>1 DEF Storable, TypeOK
    <3> HIDE DEF posts
    <3>3. ASSUME NEW i \in 1 .. committed[c], log[c][i] \in PostIds
          PROVE  Shown(c, i)'
      <4>1. i \in 1 .. Len(log[c])
        BY <1>2
      <4>2. Shown(c, i)
        BY <3>3 DEF CommittedRowsNotStale
      <4>3. \A b \in batch[w][c] : b \in Nat /\ b > committed[c]
        BY <1>1 DEF FreshInv, TypeOK
      <4>4. \A b \in posts : i < b
        BY <1>2, <3>2, <4>3
      <4> QED
        BY <1>1, <3>1, <3>2, <3>3, <4>1, <4>2, <4>4, UpsertShows
    <3>4. ASSUME owner[c] = w, NEW i \in 1 .. position[c], log[c][i] \in PostIds
          PROVE  Shown(c, i)'
      <4>1. i \in 1 .. Len(log[c])
        BY <1>2
      <4>2. i \in posts \/ (Shown(c, i) /\ \A b \in posts : i < b)
        BY <3>2, <3>4 DEF FreshInv
      <4> QED
        BY <1>1, <3>1, <3>2, <3>4, <4>1, <4>2, UpsertShows
    <3> QED
      BY <2>0, <3>1, <3>3, <3>4 DEF FreshInv, CommittedRowsNotStale
  <2>4. CASE Commit(w, c)
    <3>1. /\ UNCHANGED <<log, owner, position, batch, rows>>
          /\ owner[c] = w /\ batch[w][c] = {}
          /\ committed' = [committed EXCEPT ![c] = position[c]]
      BY <1>1, <2>4 DEF Commit, BatchInv
    <3>2. committed'[c] = position[c]
      BY <1>1, <3>1 DEF TypeOK
    <3>3. \A i \in Nat : Shown(c, i)' = Shown(c, i)
      BY <3>1 DEF Shown
    <3> QED
      BY <1>2, <2>0, <3>1, <3>2, <3>3 DEF FreshInv, CommittedRowsNotStale
  <2>5. CASE CommitFail(w, c) \/ Resume(w, c)
    <3>1. UNCHANGED <<log, committed, owner, position, batch, rows>>
      BY <2>5 DEF CommitFail, Resume
    <3>2. \A i \in Nat : Shown(c, i)' = Shown(c, i)
      BY <3>1 DEF Shown
    <3> QED
      BY <1>2, <2>0, <3>1, <3>2 DEF FreshInv, CommittedRowsNotStale
  <2>6. ~ UpsertFail(w, c)
    BY DEF UpsertFail, Lossless
  <2> QED
    BY <1>7, <2>1, <2>2, <2>3, <2>4, <2>5, <2>6 DEF Task
<1>8. CASE UNCHANGED vars
  BY <1>8 DEF vars, FreshInv, CommittedRowsNotStale, Shown
<1> QED
  BY <1>3, <1>4, <1>5, <1>6, <1>7, <1>8 DEF Next

\* With one process and one topic, nothing cut and no upsert failed, what a task
\* has in its batch is newer than all that is committed, and every record taken
\* that is not in the batch is older than the batch and shown in the table.
THEOREM BatchesAreFresh ==
    ASSUME Lossless, Alone PROVE Spec => [](FreshInv /\ CommittedRowsNotStale)
<1>1. Init => FreshInv /\ CommittedRowsNotStale
  BY DEF Init, FreshInv, CommittedRowsNotStale
<1>2. IInv /\ FreshInv /\ CommittedRowsNotStale /\ [Next]_vars
        => FreshInv' /\ CommittedRowsNotStale'
  BY NextFresh
<1> QED
  BY <1>1, <1>2, Accounting, PTL DEF Spec

\* Under the same conditions redelivery after any number of stops never leaves a
\* row older than a committed record: what is read again is newer than whatever
\* is committed.
THEOREM NoStaleRow ==
    ASSUME Lossless, Alone PROVE Spec => []CommittedRowsNotStale
BY BatchesAreFresh, PTL
==============================================================================
