-------------------------- MODULE GroupBatcherProofs --------------------------
(***************************************************************************)
(* What the batch worker guarantees for every number of partitions and     *)
(* groups and every batch size.                                            *)
(***************************************************************************)
EXTENDS GroupBatcher, LastOffset, SequenceTheorems, TLAPS

------------------------------------------------------------------------------
(* Facts about a batch.                                                    *)

\* The buffer holds ids, and no id is None.
LEMMA BufferedIds ==
    ASSUME TypeOK
    PROVE  /\ Buffered \subseteq Id /\ None \notin Id
           /\ Len(buffer) \in Nat /\ DOMAIN buffer = 1 .. Len(buffer)
<1>1. buffer \in Seq(Id)
  BY DEF TypeOK
<1>2. Len(buffer) \in Nat /\ DOMAIN buffer = 1 .. Len(buffer)
  BY <1>1, LenProperties
<1> QED
  BY <1>1, <1>2, BatcherAssumption, ElementOfSeq DEF Buffered, Id

\* A group with a record in the batch gets one of its records, another keeps what
\* it had.
LEMMA BatchedProperties ==
    ASSUME TypeOK, NEW g \in Groups, NEW of
    PROVE  /\ PlacesOf(g) = {} => Batched(of)[g] = of[g]
           /\ PlacesOf(g) # {} => Batched(of)[g] \in Buffered
<1>1. PlacesOf(g) # {} => \E k \in PlacesOf(g) : \A l \in PlacesOf(g) : l <= k
  <2>1. Len(buffer) \in Nat /\ PlacesOf(g) \subseteq 1 .. Len(buffer)
    BY BufferedIds DEF PlacesOf
  <2> QED
    BY <2>1, LastExists
<1>2. PlacesOf(g) # {} =>
        (CHOOSE k \in PlacesOf(g) : \A l \in PlacesOf(g) : l <= k) \in DOMAIN buffer
  BY <1>1 DEF PlacesOf
<1> QED
  BY <1>2 DEF Batched, LastOf, Buffered

\* What two functions become agrees wherever the batch has a record.
LEMMA BatchedAgree ==
    ASSUME NEW g \in Groups, NEW of, NEW other, PlacesOf(g) # {}
    PROVE  Batched(of)[g] = Batched(other)[g]
BY DEF Batched

\* The groups with a record in the batch are those with a valid one.
LEMMA PlacesAreValid ==
    ASSUME NEW g \in Groups, Valid = {}
    PROVE  PlacesOf(g) = {}
BY DEF PlacesOf, Valid, Usable, Buffered

\* An empty buffer has no places, and neither will the one that has been cleared.
LEMMA EmptyBuffer ==
    /\ buffer = <<>> => Buffered = {} /\ Valid = {} /\ \A g \in Groups : PlacesOf(g) = {}
    /\ buffer' = <<>> => Buffered' = {} /\ \A g \in Groups : PlacesOf(g)' = {}
<1>1. DOMAIN <<>> = {}
  OBVIOUS
<1> QED
  BY <1>1 DEF Buffered, Valid, PlacesOf

\* A record that is produced moves none that was handed out.
LEMMA ProduceKeeps ==
    ASSUME TypeOK, PositionInv, NEW q \in Partitions, Produce(q),
           NEW p \in Partitions, NEW i \in 1 .. position[p]
    PROVE  log'[p][i] = log[p][i] /\ Len(log[p]) <= Len(log'[p])
<1>1. PICK r \in Record : log' = [log EXCEPT ![q] = Append(@, r)]
  BY DEF Produce
<1>2. log \in [Partitions -> Seq(Record)] /\ log[p] \in Seq(Record) /\ Len(log[p]) \in Nat
  BY LenProperties DEF TypeOK
<1>3. position[p] \in Nat /\ position[p] <= Len(log[p])
  BY DEF TypeOK, PositionInv
<1>4. CASE p = q
  BY <1>1, <1>2, <1>3, <1>4, AppendProperties
<1>5. CASE p # q
  BY <1>1, <1>2, <1>5
<1> QED
  BY <1>4, <1>5

------------------------------------------------------------------------------
(* Types.                                                                  *)

\* What the table, the cache and the diff topic become has their type.
LEMMA TypedData ==
    ASSUME TypeOK
    PROVE  /\ Nothing \in [Groups -> Id \cup {None}]
           /\ Batched(rows) \in [Groups -> Id \cup {None}]
           /\ Batched(cache) \in [Groups -> Id \cup {None}]
           /\ \A S : Sent(S) \in [Groups -> Id \cup {None}]
           /\ Valid \subseteq Id
<1>1. \A g \in Groups : Batched(rows)[g] \in Id \cup {None} /\ Batched(cache)[g] \in Id \cup {None}
  BY BatchedProperties, BufferedIds DEF TypeOK
<1>2. \A of : Batched(of) = [g \in Groups |-> Batched(of)[g]]
  BY DEF Batched
<1>3. \A S : \A g \in Groups : (IF g \in S THEN cache[g] ELSE diff[g]) \in Id \cup {None}
  BY DEF TypeOK
<1> QED
  BY <1>1, <1>2, <1>3, BufferedIds DEF Nothing, Sent, Valid

\* The part of the types that the worker and its consumer have.
WorkerTyped ==
    /\ step \in Steps /\ stopping \in BOOLEAN /\ late \in BOOLEAN
    /\ buffer \in Seq(Id) /\ cache \in [Groups -> Id \cup {None}]
    /\ committed \in [Partitions -> Nat] /\ position \in [Partitions -> Nat]

\* The ways a flush may end keep them.
LEMMA TypedEnds ==
    ASSUME TypeOK
    PROVE  /\ Gone /\ committed' \in {committed, position} => WorkerTyped'
           /\ \A kept \in {cache, Nothing} : EndFlush(kept) => WorkerTyped'
<1>1. <<>> \in Seq(Id)
  BY EmptySeq
<1> QED
  BY <1>1, TypedData DEF TypeOK, Steps, Gone, EndFlush, Leave, WorkerTyped

\* An interruption keeps the types of the table and the diff topic.
LEMMA TypedInterruption ==
    ASSUME TypeOK, Interrupted
    PROVE  rows' \in [Groups -> Id \cup {None}] /\ diff' \in [Groups -> Id \cup {None}]
BY TypedData DEF TypeOK, Interrupted, Upserted

\* A record that is received is one more in the buffer.
LEMMA ReceivedIsTyped ==
    ASSUME TypeOK, NEW p \in Partitions, Receive(p)
    PROVE  /\ position' \in [Partitions -> Nat] /\ buffer' \in Seq(Id) /\ step' \in Steps
           /\ NextId(p) \in Id
<1>1. position[p] + 1 \in Nat /\ NextId(p) \in Id
  BY DEF TypeOK, NextId, Id
<1>2. Append(buffer, NextId(p)) \in Seq(Id)
  BY <1>1, AppendProperties DEF TypeOK
<1> QED
  BY <1>1, <1>2 DEF TypeOK, Receive, ReceiveInto, Steps

LEMMA TypeStep == TypeOK /\ [Next]_vars => TypeOK'
<1> SUFFICES ASSUME TypeOK, [Next]_vars PROVE TypeOK'
  OBVIOUS
<1> USE DEF topic, worker, Fault
<1>1. ASSUME NEW p \in Partitions, Produce(p) PROVE TypeOK'
  <2>1. PICK r \in Record : log' = [log EXCEPT ![p] = Append(@, r)]
    BY <1>1 DEF Produce
  <2>2. Append(log[p], r) \in Seq(Record)
    BY AppendProperties DEF TypeOK
  <2> QED
    BY <1>1, <2>1, <2>2 DEF TypeOK, Produce
<1>2. ASSUME NEW p \in Partitions, Receive(p) PROVE TypeOK'
  BY <1>2, ReceivedIsTyped DEF TypeOK, Receive, ReceiveInto
<1>3. CASE AutoCommit \/ Expire \/ Start
  BY <1>3 DEF TypeOK, AutoCommit, Expire, Start, Steps
<1>4. CASE FlushNothing
  <2>1. WorkerTyped'
    BY <1>4, TypedEnds DEF FlushNothing
  <2> QED
    BY <1>4, <2>1 DEF TypeOK, FlushNothing, WorkerTyped
<1>5. CASE Upsert
  BY <1>5, TypedData DEF TypeOK, Upsert, UpsertAs, Upserted, CachePut, Steps
<1>6. CASE UpsertFail
  <2>1. WorkerTyped'
    BY <1>6, TypedEnds DEF UpsertFail
  <2> QED
    BY <1>6, <2>1 DEF TypeOK, UpsertFail, WorkerTyped
<1>7. CASE Publish
  <2>1. WorkerTyped'
    BY <1>7, TypedEnds DEF Publish
  <2>2. diff' \in [Groups -> Id \cup {None}] /\ delivered' \subseteq Id
    BY <1>7, TypedData DEF Publish, TypeOK
  <2> QED
    BY <1>7, <2>1, <2>2 DEF TypeOK, Publish, WorkerTyped
<1>8. CASE PublishFail
  <2>1. WorkerTyped'
    BY <1>8, TypedEnds DEF PublishFail
  <2>2. diff' \in [Groups -> Id \cup {None}]
    BY <1>8, TypedData DEF PublishFail
  <2> QED
    BY <1>8, <2>1, <2>2 DEF TypeOK, PublishFail, WorkerTyped
<1>9. CASE Stop
  <2>1. rows' \in [Groups -> Id \cup {None}] /\ diff' \in [Groups -> Id \cup {None}]
    BY <1>9, TypedInterruption DEF Stop
  <2>2. WorkerTyped'
    <3>1. CASE Leave
      BY <3>1, TypedEnds DEF Leave
    <3>2. CASE ~ Leave
      BY <1>9, <3>2 DEF Stop, TypeOK, WorkerTyped, Steps
    <3> QED
      BY <3>1, <3>2
  <2>3. stops' \in Nat /\ log' = log /\ delivered' = delivered /\ faults' = faults
    BY <1>9 DEF Stop, TypeOK
  <2> QED
    BY <2>1, <2>2, <2>3 DEF TypeOK, WorkerTyped
<1>10. CASE StopDead
  <2>1. WorkerTyped'
    BY <1>10, TypedEnds DEF StopDead
  <2> QED
    BY <1>10, <2>1 DEF TypeOK, StopDead, WorkerTyped
<1>11. CASE ReadFail
  BY <1>11, EmptySeq DEF TypeOK, ReadFail, Steps
<1>12. CASE Crash
  <2>1. WorkerTyped'
    BY <1>12, TypedEnds DEF Crash
  <2>2. rows' \in [Groups -> Id \cup {None}] /\ diff' \in [Groups -> Id \cup {None}]
    BY <1>12, TypedInterruption DEF Crash
  <2> QED
    BY <1>12, <2>1, <2>2 DEF TypeOK, Crash, WorkerTyped
<1>13. CASE UNCHANGED vars
  BY <1>13 DEF TypeOK, vars
<1> QED
  BY <1>1, <1>2, <1>3, <1>4, <1>5, <1>6, <1>7, <1>8, <1>9, <1>10, <1>11, <1>12, <1>13
     DEF Next, Flush

------------------------------------------------------------------------------
(* Positions.                                                              *)

\* A flush that ends, and a worker that leaves, keep them.
LEMMA PositionsAtEnd ==
    ASSUME TypeOK, PositionInv, BufferInv, log' = log
    PROVE  /\ Gone /\ committed' \in {committed, position} => PositionInv' /\ BufferInv'
           /\ \A kept : EndFlush(kept) => PositionInv' /\ BufferInv'
<1>1. Gone /\ committed' \in {committed, position} => PositionInv' /\ BufferInv'
  <2> SUFFICES ASSUME Gone, committed' \in {committed, position}
               PROVE  PositionInv' /\ BufferInv'
    OBVIOUS
  <2>1. PositionInv'
    BY DEF Gone, PositionInv, TypeOK
  <2> QED
    BY <2>1, EmptyBuffer DEF Gone, BufferInv
<1>2. ASSUME NEW kept, EndFlush(kept), ~ stopping PROVE PositionInv' /\ BufferInv'
  BY <1>2, EmptyBuffer DEF EndFlush, PositionInv, BufferInv
<1> QED
  BY <1>1, <1>2 DEF EndFlush, Leave

\* The buffer after a record was received.
LEMMA ReceivedIsBuffered ==
    ASSUME TypeOK, NEW p \in Partitions, Receive(p)
    PROVE  /\ Buffered \subseteq Buffered' /\ Buffered' \subseteq Buffered \cup {NextId(p)}
           /\ Of(NextId(p)) # Junk => NextId(p) \in Buffered'
<1>1. NextId(p) \in Id /\ buffer \in Seq(Id)
  BY ReceivedIsTyped DEF TypeOK
<1> DEFINE n == Len(buffer)  next == Append(buffer, NextId(p))
<1>2. /\ n \in Nat /\ DOMAIN buffer = 1 .. n /\ DOMAIN next = 1 .. (n + 1)
      /\ next[n + 1] = NextId(p) /\ \A k \in 1 .. n : next[k] = buffer[k]
  BY <1>1, AppendProperties, LenProperties
<1>3. CASE Of(NextId(p)) = Junk
  BY <1>3 DEF Receive, ReceiveInto, Buffered
<1>4. CASE Of(NextId(p)) # Junk
  <2>1. buffer' = next
    BY <1>4 DEF Receive, ReceiveInto
  <2> HIDE DEF n, next
  <2>2. Buffered' = {next[k] : k \in 1 .. (n + 1)} /\ Buffered = {buffer[k] : k \in 1 .. n}
    BY <2>1, <1>2 DEF Buffered
  <2>3. n + 1 \in 1 .. (n + 1) /\ \A k \in 1 .. (n + 1) : k \in 1 .. n \/ k = n + 1
    BY <1>2
  <2>4. 1 .. n \subseteq 1 .. (n + 1)
    BY <1>2
  <2> QED
    BY <1>2, <2>2, <2>3, <2>4
<1> QED
  BY <1>3, <1>4

LEMMA PositionStep ==
    TypeOK /\ PositionInv /\ BufferInv /\ [Next]_vars => PositionInv' /\ BufferInv'
<1> SUFFICES ASSUME TypeOK, PositionInv, BufferInv, [Next]_vars
             PROVE  PositionInv' /\ BufferInv'
  OBVIOUS
<1> USE DEF topic, worker
<1>1. ASSUME NEW q \in Partitions, Produce(q) PROVE PositionInv' /\ BufferInv'
  <2>1. PICK r \in Record : log' = [log EXCEPT ![q] = Append(@, r)]
    BY <1>1 DEF Produce
  <2>2. \A p \in Partitions : Len(log[p]) \in Nat /\ Len(log[p]) <= Len(log'[p]) /\ Len(log'[p]) \in Nat
    BY <2>1, AppendProperties, LenProperties DEF TypeOK
  <2>3. PositionInv'
    BY <1>1, <2>2 DEF Produce, PositionInv, TypeOK
  <2> QED
    BY <1>1, <2>3 DEF Produce, BufferInv, Buffered
<1>2. ASSUME NEW p \in Partitions, Receive(p) PROVE PositionInv' /\ BufferInv'
  <2>1. /\ position' = [position EXCEPT ![p] = position[p] + 1] /\ position[p] < Len(log[p])
        /\ log' = log /\ committed' = committed /\ stopping' = stopping /\ step = "wait"
        /\ step' \in {"wait", "upsert"}
    BY <1>2 DEF Receive, ReceiveInto
  <2>2. \A q \in Partitions :
            committed[q] \in Nat /\ position[q] \in Nat /\ Len(log[q]) \in Nat
    BY LenProperties DEF TypeOK
  <2>3. PositionInv'
    BY <2>1, <2>2 DEF PositionInv, TypeOK
  <2>4. ASSUME NEW id \in Buffered' PROVE id[2] \in 1 .. position'[id[1]]
    <3>1. CASE id \in Buffered
      <4>1. id[1] \in Partitions /\ id[2] \in 1 .. position[id[1]]
        BY <3>1, BufferedIds DEF BufferInv, Id
      <4> QED
        BY <4>1, <2>1, <2>2 DEF TypeOK
    <3>2. CASE id = NextId(p)
      BY <3>2, <2>1, <2>2 DEF NextId, TypeOK
    <3> QED
      BY <3>1, <3>2, <1>2, ReceivedIsBuffered
  <2> QED
    BY <2>1, <2>3, <2>4 DEF BufferInv
<1>3. CASE AutoCommit \/ Expire \/ Start
  BY <1>3 DEF PositionInv, BufferInv, Buffered, TypeOK, AutoCommit, Expire, Start
<1>4. CASE FlushNothing \/ UpsertFail \/ Publish \/ PublishFail
  BY <1>4, PositionsAtEnd DEF FlushNothing, UpsertFail, Publish, PublishFail
<1>5. CASE Upsert
  BY <1>5 DEF Upsert, UpsertAs, Upserted, CachePut, PositionInv, BufferInv, Buffered
<1>6. CASE Stop
  <2>1. CASE Leave
    BY <1>6, <2>1, PositionsAtEnd DEF Stop, Leave
  <2>2. CASE ~ Leave
    BY <1>6, <2>2 DEF Stop, PositionInv, BufferInv, Buffered
  <2> QED
    BY <2>1, <2>2
<1>7. CASE StopDead \/ Crash
  BY <1>7, PositionsAtEnd DEF StopDead, Crash
<1>8. CASE ReadFail
  <2>1. PositionInv'
    BY <1>8 DEF ReadFail, PositionInv, TypeOK
  <2> QED
    BY <1>8, <2>1, EmptyBuffer DEF ReadFail, BufferInv
<1>9. CASE UNCHANGED vars
  BY <1>9 DEF vars, PositionInv, BufferInv, Buffered
<1> QED
  BY <1>1, <1>2, <1>3, <1>4, <1>5, <1>6, <1>7, <1>8, <1>9 DEF Next, Flush

------------------------------------------------------------------------------
(* Stored before announced.                                                *)

\* The end of a flush caches nothing that was not cached or is not to be kept.
LEMMA CacheAtEnd ==
    /\ Gone => cache' = Nothing
    /\ \A kept : EndFlush(kept) => cache' \in {kept, Nothing}
BY DEF EndFlush, Leave, Gone

\* A group with a row keeps one when a batch is stored.
LEMMA RowsStay ==
    ASSUME TypeOK, NEW g \in Groups, rows' \in {rows, Batched(rows)}
    PROVE  /\ rows[g] # None => rows'[g] # None
           /\ PlacesOf(g) # {} /\ rows' = Batched(rows) => rows'[g] # None
<1>1. PlacesOf(g) # {} => Batched(rows)[g] # None
  BY BatchedProperties, BufferedIds
<1> QED
  BY <1>1, BatchedProperties

LEMMA StoredStep == TypeOK /\ StoredFirst /\ [Next]_vars => StoredFirst'
<1> SUFFICES ASSUME TypeOK, StoredFirst, [Next]_vars, NEW g \in Groups,
                    cache'[g] # None \/ diff'[g] # None
             PROVE  rows'[g] # None
  BY DEF StoredFirst
<1> USE DEF topic, worker
<1>1. Nothing[g] = None /\ (cache[g] # None \/ diff[g] # None => rows[g] # None)
  BY DEF Nothing, StoredFirst
<1>2. \A S \in SUBSET Cached : Sent(S)[g] # None => rows[g] # None
  BY <1>1 DEF Sent, Cached
<1>3. ASSUME rows' = rows, cache'[g] # None => cache[g] # None,
             diff'[g] # None => rows[g] # None
      PROVE  rows'[g] # None
  BY <1>1, <1>3
<1>4. ASSUME NEW p \in Partitions, Produce(p) \/ Receive(p) PROVE rows'[g] # None
  BY <1>1, <1>4 DEF Produce, Receive, ReceiveInto
<1>5. CASE AutoCommit \/ Expire \/ Start
  BY <1>1, <1>5 DEF AutoCommit, Expire, Start
<1>6. CASE FlushNothing \/ UpsertFail
  BY <1>1, <1>6, CacheAtEnd DEF FlushNothing, UpsertFail
<1>7. CASE Upsert
  <2>1. rows' = Batched(rows) /\ cache' = Batched(cache) /\ diff' = diff
    BY <1>7 DEF Upsert, UpsertAs, Upserted, CachePut
  <2>2. CASE PlacesOf(g) = {}
    BY <2>1, <2>2, <1>1, BatchedProperties, RowsStay
  <2>3. CASE PlacesOf(g) # {}
    BY <2>1, <2>3, RowsStay
  <2> QED
    BY <2>2, <2>3
<1>8. CASE Publish \/ PublishFail
  <2>1. rows' = rows /\ cache' \in {cache, Nothing} /\ \E S \in SUBSET Cached : diff' = Sent(S)
    BY <1>8, CacheAtEnd DEF Publish, PublishFail
  <2> QED
    BY <2>1, <1>1, <1>2
<1>9. ASSUME Interrupted, cache'[g] # None => cache[g] # None PROVE rows'[g] # None
  <2>1. rows' \in {rows, Batched(rows)} /\ (diff' = diff \/ \E S \in SUBSET Cached : diff' = Sent(S))
    BY <1>9 DEF Interrupted, Upserted
  <2> QED
    BY <2>1, <1>1, <1>2, <1>9, RowsStay
<1>10. CASE Stop
  BY <1>10, <1>9, <1>1, CacheAtEnd DEF Stop, Leave
<1>11. CASE StopDead
  BY <1>11, <1>1, CacheAtEnd DEF StopDead
<1>12. CASE ReadFail
  BY <1>12, <1>1 DEF ReadFail
<1>13. CASE Crash
  BY <1>13, <1>9, <1>1, CacheAtEnd DEF Crash
<1>14. CASE UNCHANGED vars
  BY <1>14, <1>1 DEF vars
<1> QED
  BY <1>4, <1>5, <1>6, <1>7, <1>8, <1>10, <1>11, <1>12, <1>13, <1>14 DEF Next, Flush

------------------------------------------------------------------------------
(* While nothing fails.                                                    *)

\* The steps of a behaviour in which nothing has failed.
LEMMA FaultlessStep ==
    ASSUME TypeOK, [Next]_vars, faults' = 0
    PROVE  /\ faults = 0
           /\ \/ \E p \in Partitions : Produce(p) \/ Receive(p)
              \/ AutoCommit \/ Expire \/ Start \/ FlushNothing \/ Upsert \/ Publish
              \/ Stop \/ StopDead \/ UNCHANGED vars
<1>1. Fault => faults' # 0
  BY DEF Fault, TypeOK
<1>2. ~ (UpsertFail \/ PublishFail \/ ReadFail \/ Crash)
  BY <1>1 DEF UpsertFail, PublishFail, ReadFail, Crash
<1>3. UNCHANGED vars => faults = 0
  BY DEF vars
<1> QED
  BY <1>2, <1>3 DEF Next, Flush, Produce, Receive, ReceiveInto, AutoCommit, Expire, Start,
                    FlushNothing, Upsert, UpsertAs, Upserted, CachePut, Publish, Stop, StopDead

\* Records are neither forgotten by a flush that ends, once they are delivered or
\* refused, nor by a worker that leaves.
LEMMA HandedAtEnd ==
    ASSUME TypeOK, PositionInv, HandedAccounted, log' = log, Valid \subseteq delivered',
           delivered \subseteq delivered'
    PROVE  /\ Gone /\ committed' \in {committed, position} => HandedAccounted'
           /\ \A kept : EndFlush(kept) => HandedAccounted'
<1>1. ASSUME NEW p \in Partitions, NEW i \in 1 .. position[p], log[p][i] \in Groups
      PROVE  <<p, i>> \in delivered'
  <2>1. <<p, i>> \in Buffered => <<p, i>> \in Valid
    BY <1>1 DEF Valid, Usable, Of
  <2> QED
    BY <1>1, <2>1 DEF HandedAccounted
<1>2. ASSUME \A p \in Partitions : position'[p] \in Nat /\ position'[p] <= position[p]
      PROVE  HandedAccounted'
  <2> SUFFICES ASSUME NEW p \in Partitions, NEW i \in 1 .. position'[p], log[p][i] \in Groups
               PROVE  <<p, i>> \in delivered'
    BY DEF HandedAccounted
  <2>1. i \in 1 .. position[p]
    BY <1>2 DEF TypeOK
  <2> QED
    BY <1>1, <2>1
<1>3. Gone /\ committed' \in {committed, position} => HandedAccounted'
  <2> SUFFICES ASSUME Gone, committed' \in {committed, position} PROVE HandedAccounted'
    OBVIOUS
  <2> QED
    BY <1>2 DEF Gone, PositionInv, TypeOK
<1>4. ASSUME NEW kept, EndFlush(kept), ~ stopping PROVE HandedAccounted'
  BY <1>2, <1>4 DEF EndFlush, TypeOK
<1> QED
  BY <1>3, <1>4 DEF EndFlush, Leave

LEMMA HandedStep ==
    ASSUME TypeOK, PositionInv, BufferInv, faults' = 0, [Next]_vars, step # "dead",
           HandedAccounted
    PROVE  HandedAccounted'
<1> USE DEF topic, worker
<1>1. ASSUME log' = log, position' = position, buffer' = buffer, delivered' = delivered
      PROVE  HandedAccounted'
  BY <1>1 DEF HandedAccounted, Buffered
<1>2. ASSUME NEW q \in Partitions, Produce(q) PROVE HandedAccounted'
  <2>1. position' = position /\ buffer' = buffer /\ delivered' = delivered
    BY <1>2 DEF Produce
  <2>2. \A p \in Partitions : \A i \in 1 .. position[p] : log'[p][i] = log[p][i]
    BY <1>2, ProduceKeeps
  <2> QED
    BY <2>1, <2>2 DEF HandedAccounted, Buffered
<1>3. ASSUME NEW q \in Partitions, Receive(q) PROVE HandedAccounted'
  <2>1. /\ position' = [position EXCEPT ![q] = position[q] + 1]
        /\ log' = log /\ delivered' = delivered /\ position[q] \in Nat
    BY <1>3 DEF Receive, ReceiveInto, TypeOK
  <2> SUFFICES ASSUME NEW p \in Partitions, NEW i \in 1 .. position'[p], log[p][i] \in Groups
               PROVE  <<p, i>> \in Buffered' \cup delivered
    BY <2>1 DEF HandedAccounted
  <2>2. CASE i \in 1 .. position[p]
    BY <1>3, <2>2, ReceivedIsBuffered DEF HandedAccounted
  <2>3. CASE i \notin 1 .. position[p]
    <3>1. <<p, i>> = NextId(q)
      BY <2>1, <2>3 DEF TypeOK, NextId
    <3>2. Of(NextId(q)) # Junk
      BY <3>1, BatcherAssumption DEF Of
    <3> QED
      BY <1>3, <3>1, <3>2, ReceivedIsBuffered
  <2> QED
    BY <2>2, <2>3
<1>4. CASE AutoCommit \/ Expire \/ Start \/ Upsert
  BY <1>4, <1>1 DEF AutoCommit, Expire, Start, Upsert, UpsertAs, Upserted, CachePut
<1>5. CASE FlushNothing \/ Publish
  BY <1>5, HandedAtEnd DEF FlushNothing, Publish
<1>6. CASE Stop
  <2>1. CASE buffer = <<>>
    BY <1>6, <2>1, HandedAtEnd, EmptyBuffer DEF Stop, Leave
  <2>2. CASE buffer # <<>>
    BY <1>6, <2>2, <1>1 DEF Stop
  <2> QED
    BY <2>1, <2>2
<1>7. CASE UNCHANGED vars
  BY <1>7, <1>1 DEF vars
<1> QED
  BY <1>2, <1>3, <1>4, <1>5, <1>6, <1>7, FaultlessStep DEF StopDead

\* Where all groups are settled in memory, table and topic, they stay so when a
\* flush ends or a worker leaves.
LEMMA SettledAtEnd ==
    ASSUME \A g \in Groups : rows'[g] = diff'[g],
           step' \notin {"dead", "publish"}, \A g \in Groups : cache'[g] = None
    PROVE  Agreement'
BY DEF Agreement, Settled

\* What the end of a flush leaves of step and cache.
LEMMA StepAtEnd ==
    /\ Gone => step' = "down"
    /\ \A kept : EndFlush(kept) => step' \in {"down", "wait"}
BY DEF EndFlush, Leave, Gone

LEMMA AgreementStep ==
    ASSUME TypeOK, PositionInv, BufferInv, faults' = 0, [Next]_vars, Agreement
    PROVE  Agreement'
<1> USE DEF topic, worker
<1>1. ASSUME \A g \in Groups : PlacesOf(g)' = PlacesOf(g),
             step' = step, cache' = cache, rows' = rows, diff' = diff
      PROVE  Agreement'
  BY <1>1 DEF Agreement, Settled
<1>2. \A g \in Groups : Nothing[g] = None
  BY DEF Nothing
<1>3. ASSUME NEW q \in Partitions, Produce(q) PROVE Agreement'
  <2>1. \A k \in DOMAIN buffer : buffer[k] \in Buffered /\ buffer[k] \in Id
    BY BufferedIds DEF Buffered
  <2>2. \A k \in DOMAIN buffer : log'[buffer[k][1]][buffer[k][2]] = Of(buffer[k])
    BY <1>3, <2>1, ProduceKeeps DEF BufferInv, Id, Of
  <2>3. \A g \in Groups : PlacesOf(g)' = PlacesOf(g)
    BY <1>3, <2>2 DEF PlacesOf, Of, Produce
  <2> QED
    BY <1>1, <1>3, <2>3 DEF Produce
<1>4. ASSUME step \in {"wait", "down"}, step' \in {"wait", "down", "upsert"},
             cache' = cache, rows' = rows, diff' = diff
      PROVE  Agreement'
  BY <1>4 DEF Agreement, Settled
<1>5. ASSUME NEW q \in Partitions, Receive(q) PROVE Agreement'
  BY <1>5, <1>4 DEF Receive, ReceiveInto
<1>6. CASE AutoCommit
  BY <1>6, <1>1 DEF AutoCommit, PlacesOf, Of
<1>7. CASE Expire \/ Start
  BY <1>7, <1>4 DEF Expire, Start
<1>8. CASE FlushNothing
  <2>1. \A g \in Groups : Settled(g)
    BY <1>8, PlacesAreValid DEF FlushNothing, Agreement
  <2>2. cache' \in {cache, Nothing} /\ step' \in {"down", "wait"} /\ rows' = rows /\ diff' = diff
    BY <1>8, CacheAtEnd, StepAtEnd DEF FlushNothing
  <2> QED
    BY <2>1, <2>2, <1>2, SettledAtEnd DEF Settled
<1>9. CASE Upsert
  <2>1. /\ rows' = Batched(rows) /\ cache' = Batched(cache) /\ diff' = diff
        /\ step = "upsert" /\ step' = "publish"
        /\ \A g \in Groups : PlacesOf(g)' = PlacesOf(g)
    BY <1>9 DEF Upsert, UpsertAs, Upserted, CachePut, PlacesOf, Of
  <2>2. ASSUME NEW g \in Groups, PlacesOf(g) = {}
        PROVE  cache'[g] = None /\ rows'[g] = diff'[g]
    BY <2>1, <2>2, BatchedProperties DEF Agreement, Settled
  <2>3. ASSUME NEW g \in Groups, PlacesOf(g) # {}
        PROVE  cache'[g] = rows'[g] /\ cache'[g] # None
    BY <2>1, <2>3, BatchedAgree, BatchedProperties, BufferedIds
  <2> QED
    BY <2>1, <2>2, <2>3 DEF Agreement, Settled
<1>10. CASE Publish
  <2>1. step = "publish" /\ rows' = rows /\ diff' = Sent(Cached)
    BY <1>10 DEF Publish
  <2>2. cache' = Nothing /\ step' \in {"down", "wait"}
    BY <1>10, CacheAtEnd, StepAtEnd DEF Publish
  <2>3. \A g \in Groups : rows[g] = Sent(Cached)[g]
    BY <2>1 DEF Agreement, Settled, Sent, Cached
  <2> QED
    BY <2>1, <2>2, <2>3, <1>2, SettledAtEnd
<1>11. CASE Stop
  <2>1. ASSUME NEW g \in Groups, PlacesOf(g) = {}
        PROVE  cache[g] = None /\ rows'[g] = diff'[g]
    <3>1. Settled(g)
      BY <2>1 DEF Agreement
    <3>2. rows'[g] = rows[g]
      BY <1>11, <2>1, BatchedProperties DEF Stop, Interrupted, Upserted
    <3>3. diff'[g] = diff[g]
      BY <1>11, <3>1 DEF Stop, Interrupted, Upserted, Sent, Cached, Settled
    <3> QED
      BY <3>1, <3>2, <3>3 DEF Settled
  <2>2. CASE buffer = <<>>
    <3>1. Leave
      BY <1>11, <2>2 DEF Stop
    <3> QED
      BY <3>1, <2>1, <2>2, <1>2, EmptyBuffer, CacheAtEnd, StepAtEnd, SettledAtEnd DEF Leave
  <2>3. CASE buffer # <<>>
    <3>1. step' = "upsert" /\ cache' = cache /\ \A g \in Groups : PlacesOf(g)' = PlacesOf(g)
      BY <1>11, <2>3 DEF Stop, PlacesOf, Of
    <3> QED
      BY <3>1, <2>1 DEF Agreement, Settled
  <2> QED
    BY <2>2, <2>3
<1>12. CASE UNCHANGED vars
  BY <1>12, <1>1 DEF vars, PlacesOf, Of
<1> QED
  BY <1>3, <1>5, <1>6, <1>7, <1>8, <1>9, <1>10, <1>11, <1>12, FaultlessStep
     DEF StopDead, Agreement

------------------------------------------------------------------------------
(* The theorems.                                                           *)

\* A worker hands records out before it commits them, stores groups before it
\* announces them and, as long as nothing fails, forgets no record: the inductive
\* invariant of every behaviour.
THEOREM Accounting == Spec => []IInv
<1>1. Init => IInv
  <2> SUFFICES ASSUME Init PROVE IInv
    OBVIOUS
  <2> USE DEF Init
  <2>1. TypeOK
    <3>1. <<>> \in Seq(Record) /\ <<>> \in Seq(Id)
      BY EmptySeq
    <3> QED
      BY <3>1 DEF TypeOK, Nothing, Steps
  <2>2. Len(<<>>) = 0
    OBVIOUS
  <2>3. PositionInv
    BY <2>2 DEF PositionInv
  <2>4. BufferInv /\ StoredFirst
    BY EmptyBuffer DEF BufferInv, StoredFirst, Nothing
  <2>5. HandedAccounted /\ Agreement
    BY DEF HandedAccounted, Agreement, Settled, Nothing
  <2> QED
    BY <2>1, <2>3, <2>4, <2>5 DEF IInv
<1>2. IInv /\ [Next]_vars => IInv'
  <2> SUFFICES ASSUME IInv, [Next]_vars PROVE IInv'
    OBVIOUS
  <2>1. TypeOK' /\ PositionInv' /\ BufferInv' /\ StoredFirst'
    BY TypeStep, PositionStep, StoredStep DEF IInv
  <2>2. faults' = 0 => HandedAccounted' /\ Agreement'
    <3> SUFFICES ASSUME faults' = 0 PROVE HandedAccounted' /\ Agreement'
      OBVIOUS
    <3>1. TypeOK /\ PositionInv /\ BufferInv
      BY DEF IInv
    <3>2. HandedAccounted /\ Agreement
      BY <3>1, FaultlessStep DEF IInv
    <3> QED
      BY <3>1, <3>2, HandedStep, AgreementStep DEF Agreement
  <2> QED
    BY <2>1, <2>2 DEF IInv
<1> QED
  BY <1>1, <1>2, PTL DEF Spec

\* Every variable keeps its type.
THEOREM TypeCorrect == Spec => []TypeOK
<1>1. IInv => TypeOK
  BY DEF IInv
<1> QED
  BY Accounting, <1>1, PTL

\* A group on the diff topic is in the table, whatever fails and whenever the
\* worker is stopped.
THEOREM NothingAnnouncedUnstored == Spec => []AnnouncedAreStored
<1>1. IInv => AnnouncedAreStored
  BY DEF IInv, StoredFirst, AnnouncedAreStored
<1> QED
  BY Accounting, <1>1, PTL

\* As long as nothing fails, a shutdown at any await loses no record, although
\* offsets are committed while their records are in the buffer.
THEOREM NothingLostByShutdown == Spec => []ShutdownLosesNothing
<1>1. IInv => ShutdownLosesNothing
  <2> SUFFICES ASSUME IInv, faults = 0, NEW p \in Partitions, NEW i \in 1 .. committed[p],
                      log[p][i] \in Groups
               PROVE  <<p, i>> \in Buffered \cup delivered
    BY DEF ShutdownLosesNothing
  <2>1. i \in 1 .. position[p]
    BY DEF IInv, TypeOK, PositionInv
  <2> QED
    BY <2>1 DEF IInv, HandedAccounted
<1> QED
  BY Accounting, <1>1, PTL

\* As long as nothing fails, table and diff topic show the same whenever the worker
\* waits for records.
THEOREM TableAndDiffAgree == Spec => []TableMatchesDiff
<1>1. IInv => TableMatchesDiff
  <2> SUFFICES ASSUME IInv, faults = 0, step = "wait" PROVE rows = diff
    BY DEF TableMatchesDiff
  <2>1. \A g \in Groups : rows[g] = diff[g]
    BY DEF IInv, Agreement, Settled
  <2> QED
    BY <2>1 DEF IInv, TypeOK
<1> QED
  BY Accounting, <1>1, PTL
==============================================================================
