------------------------ MODULE ConsumerRegistryProofs ------------------------
(***************************************************************************)
(* What the consumer registry guarantees for every set of channels, every  *)
(* length of the diff topic, and any number of stops and failures.         *)
(***************************************************************************)
EXTENDS ConsumerRegistry, SequenceTheorems, TLAPS

------------------------------------------------------------------------------
(* Facts about the operators of the model.                                 *)

\* Announcing a channel adds it to those announced and moves none of the others.
LEMMA AnnouncedGrows ==
    ASSUME events \in Seq(Channels), NEW c \in Channels, events' = Append(events, c)
    PROVE  /\ events' \in Seq(Channels)
           /\ Len(events') = Len(events) + 1
           /\ Announced' = Announced \cup {c}
<1>1. /\ events' \in Seq(Channels)
      /\ Len(events') = Len(events) + 1
      /\ \A i \in 1 .. Len(events) : events'[i] = events[i]
      /\ events'[Len(events) + 1] = c
  BY AppendProperties
<1>2. Len(events) \in Nat
  BY LenProperties
<1>3. 1 .. Len(events') = 1 .. Len(events) \cup {Len(events) + 1}
  BY <1>1, <1>2
<1> QED
  BY <1>1, <1>2, <1>3 DEF Announced

\* Only channels are announced.
LEMMA AnnouncedType ==
    ASSUME TypeOK PROVE Announced \subseteq Channels
BY ElementOfSeq DEF Announced, TypeOK

\* What a load that succeeds returns are channels.
LEMMA LoadedType ==
    ASSUME TypeOK PROVE Loaded \subseteq Channels
BY AnnouncedType DEF Loaded, LoadChannels, LoadGroups, GroupsTable, TypeOK

------------------------------------------------------------------------------
(* Type correctness.                                                       *)

LEMMA InitType == Init => TypeOK
BY RegistryAssumption, EmptySeq DEF Init, TypeOK, Nobody

\* joined is bounded by what the registry knows, so its type needs the invariant.
LEMMA NextType == IInv /\ [Next]_vars => TypeOK'
<1> SUFFICES ASSUME IInv, [Next]_vars PROVE TypeOK'
  OBVIOUS
<1>0. TypeOK /\ MemberInv /\ PhaseInv
  BY DEF IInv
<1>00. Len(events) \in Nat
  BY <1>0, LenProperties DEF TypeOK
<1> USE DEF TypeOK, topic, cached, manager, worker, counters, Failure,
       Clear, PutAll, PutOne, Join, AddConsumer, Register, RegisterTask, NextEvent, ShutdownAll
<1>1. ASSUME NEW c \in Channels, Announce(c) PROVE TypeOK'
  BY <1>0, <1>00, <1>1, AnnouncedGrows DEF Announce
<1>2. ASSUME NEW c \in Channels, StorePost(c) PROVE TypeOK'
  BY <1>0, <1>2 DEF StorePost
<1>3. CASE Expire
  BY <1>0, <1>3 DEF Expire
<1>4. CASE AutoCommit
  BY <1>0, <1>00, <1>4 DEF AutoCommit
<1>5. CASE Boot
  BY <1>0, <1>5, LoadedType DEF Boot, BootWith
<1>6. CASE BootUnloaded
  BY <1>0, <1>6 DEF BootUnloaded, BootWith
<1>7. CASE BootDone
  BY <1>0, <1>7 DEF BootDone, BootDoneWith, PhaseInv
<1>8. ASSUME NEW c \in Channels, BootCreate(c) PROVE TypeOK'
  <2>1. joined[c] = 0
    BY <1>0, <1>8 DEF BootCreate, MemberInv, PhaseInv
  <2> QED
    BY <1>0, <1>8, <2>1 DEF BootCreate
<1>9. ASSUME NEW c \in Channels, BootCreateFail(c) PROVE TypeOK'
  BY <1>0, <1>9 DEF BootCreateFail
<1>10. CASE StartDiff
  BY <1>0, <1>00, <1>10 DEF StartDiff
<1>11. CASE StartDiffFail
  BY <1>0, <1>11 DEF StartDiffFail
<1>12. ASSUME NEW c \in Channels, ReceiveKnown(c) PROVE TypeOK'
  BY <1>0, <1>00, <1>12 DEF ReceiveKnown, Hand
<1>13. ASSUME NEW c \in Channels, ReceiveNew(c) PROVE TypeOK'
  BY <1>0, <1>00, <1>13, RegistryAssumption DEF ReceiveNew, Hand, Unexpired
<1>14. CASE Create
  <2>1. target \in Channels /\ joined[target] = 0
    BY <1>0, <1>14 DEF Create, MemberInv
  <2> QED
    BY <1>0, <1>14, <2>1 DEF Create
<1>15. CASE CreateSecond
  <2>1. target \in Channels /\ joined[target] = 1
    BY <1>0, <1>15 DEF CreateSecond, Refused, MemberInv
  <2> QED
    BY <1>0, <1>15, <2>1 DEF CreateSecond
<1>16. CASE Undo
  <2>1. target \in Channels /\ joined[target] = 2
    BY <1>0, <1>16 DEF Undo, MemberInv
  <2> QED
    BY <1>0, <1>16, <2>1 DEF Undo
<1>17. CASE CreateFail
  BY <1>0, <1>17 DEF CreateFail
<1>18. CASE Shutdown \/ Die
  BY <1>0, <1>00, <1>18 DEF Shutdown, Die, StopDiff, End, Nobody
<1>19. CASE UNCHANGED vars
  BY <1>0, <1>19 DEF vars
<1> QED
  BY <1>1, <1>2, <1>3, <1>4, <1>5, <1>6, <1>7, <1>8, <1>9, <1>10, <1>11, <1>12,
     <1>13, <1>14, <1>15, <1>16, <1>17, <1>18, <1>19 DEF Next, Bootstrap, DiffWorker

------------------------------------------------------------------------------
(* The inductive invariant.                                                *)

LEMMA InitIInv == Init => IInv
<1> SUFFICES ASSUME Init PROVE IInv
  OBVIOUS
<1>1. TypeOK
  BY InitType
<1>2. PhaseInv /\ MemberInv /\ VkInv /\ MemoryInv
  BY DEF Init, Nobody, PhaseInv, MemberInv, VkInv, MemoryInv
<1> QED
  BY <1>1, <1>2 DEF IInv

LEMMA NextPhase == IInv /\ [Next]_vars => PhaseInv'
<1> SUFFICES ASSUME IInv, [Next]_vars PROVE PhaseInv'
  OBVIOUS
<1>0. TypeOK /\ PhaseInv
  BY DEF IInv
<1> USE DEF PhaseInv, topic, cached, manager, worker, counters, Failure,
       Clear, PutAll, PutOne, Join, AddConsumer, Register, RegisterTask, NextEvent, ShutdownAll
<1>1. CASE \E c \in Channels : Announce(c) \/ StorePost(c)
  BY <1>0, <1>1 DEF Announce, StorePost
<1>2. CASE Expire \/ AutoCommit \/ Shutdown \/ Die
  BY <1>0, <1>2 DEF Expire, AutoCommit, Shutdown, Die, End
<1>3. CASE Boot \/ BootUnloaded \/ BootDone
  BY <1>0, <1>3 DEF Boot, BootUnloaded, BootWith, BootDone, BootDoneWith
<1>4. ASSUME NEW c \in Channels, BootCreate(c) \/ BootCreateFail(c) PROVE PhaseInv'
  BY <1>0, <1>4 DEF BootCreate, BootCreateFail
<1>5. CASE StartDiff \/ StartDiffFail \/ CreateFail
  BY <1>0, <1>5 DEF StartDiff, StartDiffFail, CreateFail
<1>6. ASSUME NEW c \in Channels, ReceiveKnown(c) \/ ReceiveNew(c) PROVE PhaseInv'
  BY <1>0, <1>6 DEF ReceiveKnown, ReceiveNew, Hand
<1>7. CASE Create
  <2>1. phase = "running"
    BY <1>0, <1>7 DEF Create, TypeOK
  <2> QED
    BY <1>0, <1>7, <2>1 DEF Create
<1>8. CASE CreateSecond \/ Undo
  BY <1>0, <1>8 DEF CreateSecond, Undo
<1>9. CASE UNCHANGED vars
  BY <1>0, <1>9 DEF vars
<1> QED
  BY <1>1, <1>2, <1>3, <1>4, <1>5, <1>6, <1>7, <1>8, <1>9 DEF Next, Bootstrap, DiffWorker

LEMMA NextMember == IInv /\ [Next]_vars => MemberInv'
<1> SUFFICES ASSUME IInv, [Next]_vars PROVE MemberInv'
  OBVIOUS
<1>0. TypeOK /\ PhaseInv /\ MemberInv
  BY DEF IInv
<1> USE DEF MemberInv, topic, cached, manager, worker, counters, Failure,
       Clear, PutAll, PutOne, Join, AddConsumer, Register, RegisterTask, NextEvent, ShutdownAll
<1>1. CASE \E c \in Channels : Announce(c) \/ StorePost(c)
  BY <1>0, <1>1 DEF Announce, StorePost
<1>2. CASE Expire \/ AutoCommit
  BY <1>0, <1>2 DEF Expire, AutoCommit
<1>3. CASE Shutdown \/ Die
  BY <1>3 DEF Shutdown, Die, End, Nobody
<1>4. CASE Boot \/ BootUnloaded \/ BootDone
  BY <1>0, <1>4 DEF Boot, BootUnloaded, BootWith, BootDone, BootDoneWith, PhaseInv
<1>5. ASSUME NEW c \in Channels, BootCreate(c) PROVE MemberInv'
  <2>1. c \notin consumers /\ diff = "off" /\ joined[c] = 0
    BY <1>0, <1>5 DEF BootCreate, PhaseInv
  <2> QED
    BY <1>0, <1>5, <2>1 DEF BootCreate, TypeOK
<1>6. ASSUME NEW c \in Channels, BootCreateFail(c) PROVE MemberInv'
  BY <1>0, <1>6 DEF BootCreateFail
<1>7. CASE StartDiff \/ StartDiffFail \/ CreateFail
  BY <1>0, <1>7 DEF StartDiff, StartDiffFail, CreateFail
<1>8. ASSUME NEW c \in Channels, ReceiveKnown(c) \/ ReceiveNew(c) PROVE MemberInv'
  BY <1>0, <1>8 DEF ReceiveKnown, ReceiveNew, Hand
<1>9. CASE Create
  BY <1>0, <1>9 DEF Create, TypeOK
<1>10. CASE CreateSecond
  BY <1>0, <1>10 DEF CreateSecond, Refused, TypeOK
<1>11. CASE Undo
  BY <1>0, <1>11 DEF Undo, TypeOK
<1>12. CASE UNCHANGED vars
  BY <1>0, <1>12 DEF vars
<1> QED
  BY <1>1, <1>2, <1>3, <1>4, <1>5, <1>6, <1>7, <1>8, <1>9, <1>10, <1>11, <1>12
  DEF Next, Bootstrap, DiffWorker

LEMMA NextVk == IInv /\ [Next]_vars => VkInv'
<1> SUFFICES ASSUME IInv, [Next]_vars PROVE VkInv'
  OBVIOUS
<1>0. TypeOK /\ PhaseInv /\ VkInv /\ None \notin Channels
  BY RegistryAssumption DEF IInv
<1> USE DEF VkInv, topic, cached, manager, worker, counters, Failure,
       Clear, PutAll, PutOne, Join, AddConsumer, Register, RegisterTask, NextEvent, ShutdownAll
<1>1. CASE \E c \in Channels : Announce(c) \/ StorePost(c)
  BY <1>0, <1>1 DEF Announce, StorePost
<1>2. CASE Expire \/ AutoCommit \/ Shutdown \/ Die
  BY <1>0, <1>2 DEF Expire, AutoCommit, Shutdown, Die, End
<1>3. CASE Boot \/ BootUnloaded \/ BootDone
  BY <1>0, <1>3 DEF Boot, BootUnloaded, BootWith, BootDone, BootDoneWith
<1>4. ASSUME NEW c \in Channels, BootCreate(c) \/ BootCreateFail(c) PROVE VkInv'
  <2>1. diff = "off" /\ target = None
    BY <1>0, <1>4 DEF BootCreate, BootCreateFail, PhaseInv, TypeOK
  <2> QED
    BY <1>0, <1>4, <2>1 DEF BootCreate, BootCreateFail
<1>5. CASE StartDiff \/ StartDiffFail \/ CreateFail
  BY <1>0, <1>5 DEF StartDiff, StartDiffFail, CreateFail, TypeOK
<1>6. ASSUME NEW c \in Channels, ReceiveKnown(c) \/ ReceiveNew(c) PROVE VkInv'
  BY <1>0, <1>6 DEF ReceiveKnown, ReceiveNew, Hand, Owned, HasConsumer
<1>7. CASE Create \/ CreateSecond \/ Undo
  BY <1>0, <1>7 DEF Create, CreateSecond, Refused, Undo, TypeOK
<1>8. CASE UNCHANGED vars
  BY <1>0, <1>8 DEF vars
<1> QED
  BY <1>1, <1>2, <1>3, <1>4, <1>5, <1>6, <1>7, <1>8 DEF Next, Bootstrap, DiffWorker

LEMMA NextMemory == IInv /\ [Next]_vars => MemoryInv'
<1> SUFFICES ASSUME IInv, [Next]_vars PROVE MemoryInv'
  OBVIOUS
<1>0. TypeOK /\ PhaseInv /\ MemoryInv
  BY DEF IInv
<1> USE DEF MemoryInv, Remembers, topic, cached, manager, worker, counters, Failure,
       Clear, PutAll, PutOne, Join, AddConsumer, Register, RegisterTask, NextEvent, ShutdownAll
<1>1. ASSUME NEW c \in Channels, Announce(c) PROVE MemoryInv'
  <2>1. Announced \subseteq Announced'
    BY <1>0, <1>1, AnnouncedGrows DEF Announce, TypeOK
  <2> QED
    BY <1>0, <1>1, <2>1 DEF Announce
<1>2. ASSUME UNCHANGED events PROVE Announced' = Announced
  BY <1>2 DEF Announced
<1>3. ASSUME NEW c \in Channels, StorePost(c) PROVE MemoryInv'
  BY <1>0, <1>2, <1>3 DEF StorePost, PhaseInv
<1>4. CASE Expire \/ AutoCommit \/ Shutdown \/ Die
  BY <1>0, <1>2, <1>4 DEF Expire, AutoCommit, Shutdown, Die, End, PhaseInv
<1>5. CASE Boot
  <2>1. /\ Remembers => Loaded = Announced \/ (Announced = {} /\ Loaded = stored)
        /\ Announced' = Announced
    BY <1>2, <1>5 DEF Loaded, LoadChannels, LoadGroups, GroupsTable, Boot, BootWith
  <2>2. todo' = Loaded /\ UNCHANGED <<container, consumers, stored, served, target, failures>>
    BY <1>5 DEF Boot, BootWith
  <2> QED
    BY <1>0, <2>1, <2>2
<1>6. CASE BootUnloaded
  BY <1>0, <1>2, <1>6 DEF BootUnloaded, BootWith, TypeOK
<1>7. CASE BootDone
  BY <1>0, <1>2, <1>7 DEF BootDone, BootDoneWith
<1>8. ASSUME NEW c \in Channels, BootCreate(c) PROVE MemoryInv'
  BY <1>0, <1>2, <1>8 DEF BootCreate
<1>9. ASSUME NEW c \in Channels, BootCreateFail(c) PROVE MemoryInv'
  BY <1>0, <1>2, <1>9 DEF BootCreateFail, TypeOK
<1>10. CASE StartDiff \/ StartDiffFail \/ CreateFail
  BY <1>0, <1>2, <1>10 DEF StartDiff, StartDiffFail, CreateFail, TypeOK
<1>11. ASSUME NEW c \in Channels, ReceiveKnown(c) \/ ReceiveNew(c) PROVE MemoryInv'
  <2>1. c \in Announced /\ Announced' = Announced
    BY <1>0, <1>2, <1>11, LenProperties DEF ReceiveKnown, ReceiveNew, Hand, Announced, TypeOK
  <2> QED
    BY <1>0, <1>11, <2>1 DEF ReceiveKnown, ReceiveNew, Hand
<1>12. CASE Create
  BY <1>0, <1>2, <1>12 DEF Create, TypeOK
<1>13. CASE CreateSecond \/ Undo
  BY <1>0, <1>2, <1>13 DEF CreateSecond, Undo
<1>14. CASE UNCHANGED vars
  BY <1>0, <1>2, <1>14 DEF vars
<1> QED
  BY <1>1, <1>3, <1>4, <1>5, <1>6, <1>7, <1>8, <1>9, <1>10, <1>11, <1>12, <1>13, <1>14
  DEF Next, Bootstrap, DiffWorker

------------------------------------------------------------------------------
(* The theorems.                                                           *)

\* The inductive invariant: phases, dictionaries, Kafka groups and the memory of
\* the channels served fit together between any two steps.
THEOREM RegistryInvariant == Spec => []IInv
<1>1. IInv /\ [Next]_vars => IInv'
  BY NextType, NextPhase, NextMember, NextVk, NextMemory DEF IInv
<1> QED
  BY InitIInv, <1>1, PTL DEF Spec

\* The state of the registry has its type; in particular a process never has more
\* than two consumers in a group.
THEOREM TypeCorrect == Spec => []TypeOK
BY RegistryInvariant, PTL DEF IInv

\* Between two events the consumers registered, the tasks and the memberships in
\* Kafka groups agree, whatever expires, fails or stops.
THEOREM Agreement == Spec => []RegistryAgrees
<1>1. IInv => RegistryAgrees
  BY DEF IInv, PhaseInv, MemberInv, RegistryAgrees, Settled
<1> QED
  BY RegistryInvariant, <1>1, PTL

\* The VK process never has two consumers in the group of one of its groups.
THEOREM NoSecondMember == Spec => []OneMemberVk
<1>1. IInv => OneMemberVk
  BY DEF IInv, MemberInv, VkInv, OneMemberVk, OneMember
<1> QED
  BY RegistryInvariant, <1>1, PTL

\* Where the groups table is shared and nothing fails, a restart of the VK process
\* forgets no group.
THEOREM NothingForgotten == Spec => []RestartForgetsNothingVk
<1>1. IInv => RestartForgetsNothingVk
  BY DEF IInv, PhaseInv, MemoryInv, RestartForgetsNothingVk
<1> QED
  BY RegistryInvariant, <1>1, PTL
==============================================================================
