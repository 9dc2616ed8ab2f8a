-------------------------- MODULE SearchSessionProofs --------------------------
(***************************************************************************)
(* What the search sessions guarantee for every set of connections and of  *)
(* queries, and any number of queries and failures.                        *)
(***************************************************************************)
EXTENDS SearchSession, TLAPS

------------------------------------------------------------------------------
(* What a step of a task has to keep.                                      *)

\* What IInv says of one task.
TaskInv(c, t) == Making(t) /\ Fits(t) /\ Current(c, t)

LEMMA InitInv == Init => IInv
<1> SUFFICES ASSUME Init PROVE IInv
  OBVIOUS
<1>1. TypeOK
  BY DEF Init, TypeOK, Phases
<1>2. \A c \in Connections : answered[c] <= accepted[c] /\ tasks[c] = {}
  BY DEF Init
<1>3. CacheInv /\ NoBorrowedToken
  BY DEF Init, CacheInv, NoBorrowedToken
<1> QED
  BY <1>1, <1>2, <1>3 DEF IInv, OneTask

\* A task is alone, and its step puts the next task in its place.
LEMMA Replaced ==
    ASSUME IInv, NEW c \in Connections, NEW t \in tasks[c], NEW step, NEW reply,
           Goto(c, t, step, reply)
    PROVE  tasks' = [tasks EXCEPT ![c] = {[step |-> step, reply |-> reply]}]
<1>1. tasks[c] \ {t} = {}
  BY DEF IInv, OneTask
<1> QED
  BY <1>1 DEF Goto

LEMMA Removed ==
    ASSUME IInv, NEW c \in Connections, NEW t \in tasks[c]
    PROVE  tasks[c] \ {t} = {}
BY DEF IInv, OneTask

\* A step of a task of c disturbs nothing but c's own tasks.
LEMMA TaskKeeps ==
    ASSUME IInv, NEW c \in Connections, NEW t \in tasks[c], NEW new \in SUBSET Task,
           tasks' = [tasks EXCEPT ![c] = new],
           \A u, v \in new : u = v,
           \A u \in new : Making(u) /\ Fits(u)' /\ Current(c, u)',
           UNCHANGED <<phase, refused, accepted, groups>>,
           closed' \subseteq Connections, faults' \in Nat,
           answered' \in [Connections -> Nat],
           answered'[c] <= accepted[c],
           \A d \in Connections \ {c} : answered'[d] = answered[d],
           cache' \in [Forms -> Payload \cup {None}],
           CacheInv'
    PROVE  IInv'
<1>1. tasks' \in [Connections -> SUBSET Task]
  BY DEF IInv, TypeOK
<1>2. tasks'[c] = new /\ \A d \in Connections \ {c} : tasks'[d] = tasks[d]
  BY DEF IInv, TypeOK
<1>3. phase[c] = "receive"
  BY DEF IInv, OneTask
<1>4. \A d \in Connections : OneTask(d)'
  BY <1>2, <1>3 DEF IInv, OneTask
<1>5. ASSUME NEW d \in Connections, NEW u \in tasks'[d]
      PROVE  Making(u) /\ Fits(u)' /\ Current(d, u)'
  <2>1. CASE d = c
    BY <1>2, <1>5, <2>1
  <2>2. CASE d # c
    <3>1. u \in tasks[d]
      BY <1>2, <1>5, <2>2
    <3>2. Making(u) /\ Fits(u) /\ Current(d, u)
      BY <3>1 DEF IInv
    <3> QED
      BY <2>2, <3>2 DEF Fits, Current
  <2> QED
    BY <2>1, <2>2
<1>6. TypeOK'
  BY <1>1, <1>5 DEF IInv, TypeOK, Making
<1>7. \A d \in Connections : answered'[d] <= accepted'[d]
  BY DEF IInv
<1>8. NoBorrowedToken'
  BY DEF IInv, NoBorrowedToken
<1> QED
  BY <1>4, <1>5, <1>6, <1>7, <1>8 DEF IInv, Making

------------------------------------------------------------------------------
(* The steps of a task.                                                    *)

\* The task of a connection, as IInv knows it.
LEMMA TheTask ==
    ASSUME IInv, NEW c \in Connections, NEW t \in tasks[c]
    PROVE  /\ t \in Task /\ t.step \in Steps /\ t.reply \in Answer
           /\ TaskInv(c, t)
           /\ answered[c] <= accepted[c]
           /\ \A step \in Steps, reply \in Answer : [step |-> step, reply |-> reply] \in Task
BY DEF IInv, TypeOK, Task, TaskInv

\* A step that sends nothing and leaves the table, the cache and the connection alone.
LEMMA QuietKeeps ==
    ASSUME IInv, NEW c \in Connections, NEW t \in tasks[c],
           NEW step \in Steps, NEW reply \in Answer,
           Goto(c, t, step, reply),
           LET u == [step |-> step, reply |-> reply] IN Making(u) /\ Fits(u) /\ Current(c, u),
           UNCHANGED <<session, accepted, answered, groups>>, faults' \in Nat,
           cache' \in [Forms -> Payload \cup {None}], CacheInv'
    PROVE  IInv'
<1> DEFINE u == [step |-> step, reply |-> reply]
<1>1. u \in Task
  BY TheTask
<1>2. tasks' = [tasks EXCEPT ![c] = {u}]
  BY Replaced
<1>3. /\ UNCHANGED <<phase, refused, accepted, groups, answered, closed>>
      /\ closed' \subseteq Connections
      /\ answered' \in [Connections -> Nat]
      /\ answered'[c] <= accepted[c]
  BY DEF session, IInv, TypeOK
<1>4. Making(u) /\ Fits(u)' /\ Current(c, u)'
  BY <1>3 DEF Fits, Current
<1> HIDE DEF u
<1>5. /\ {u} \in SUBSET Task
      /\ \A x, y \in {u} : x = y
      /\ \A x \in {u} : Making(x) /\ Fits(x)' /\ Current(c, x)'
  BY <1>1, <1>4
<1>6. \A d \in Connections \ {c} : answered'[d] = answered[d]
  BY <1>3
<1> QED
  BY <1>2, <1>3, <1>5, <1>6, TaskKeeps

\* A task that ends: what TaskKeeps says when no task takes its place.
LEMMA EndKeeps ==
    ASSUME IInv, NEW c \in Connections, NEW t \in tasks[c], NEW new, new = {},
           tasks' = [tasks EXCEPT ![c] = new],
           UNCHANGED <<phase, refused, accepted, groups>>,
           closed' \subseteq Connections, faults' \in Nat,
           answered' \in [Connections -> Nat],
           answered'[c] <= accepted[c],
           \A d \in Connections \ {c} : answered'[d] = answered[d],
           cache' \in [Forms -> Payload \cup {None}],
           CacheInv'
    PROVE  IInv'
<1>1. /\ new \in SUBSET Task
      /\ \A u, v \in new : u = v
      /\ \A u \in new : Making(u) /\ Fits(u)' /\ Current(c, u)'
  OBVIOUS
<1> QED
  BY <1>1, TaskKeeps

\* The cache stays as good as it was when no group leaves the table.
LEMMA CacheUntouched ==
    ASSUME IInv, UNCHANGED cache, groups \subseteq groups'
    PROVE  CacheInv' /\ cache' \in [Forms -> Payload \cup {None}]
BY DEF IInv, CacheInv, TypeOK

LEMMA FaultType == ASSUME IInv, Fault PROVE faults' \in Nat
BY DEF IInv, TypeOK, Fault

LEMMA LookUpInv ==
    ASSUME IInv, NEW c \in Connections, NEW t \in tasks[c], LookUp(c, t) PROVE IInv'
<1> DEFINE f == t.reply.q.form
           hit == [t.reply EXCEPT !.payload = Cached(t), !.cached = TRUE]
<1>1. t.step = "lookup" /\ t.reply \in Answer /\ f \in Forms /\ Cached(t) = cache[f]
  BY TheTask DEF LookUp, At, Cached, CacheKey, Answer, Query
<1>2. UNCHANGED <<session, accepted, answered, groups, cache, faults>> /\ faults' \in Nat
  BY DEF LookUp, At, store, IInv, TypeOK
<1>3. CacheInv' /\ cache' \in [Forms -> Payload \cup {None}]
  BY <1>2, CacheUntouched
<1>4. Making(t) /\ Fits(t) /\ Current(c, t)
  BY TheTask DEF TaskInv
<1>5. CASE Cached(t) = None
  <2>1. Goto(c, t, "search", t.reply)
    BY <1>5 DEF LookUp
  <2>2. LET u == [step |-> "search", reply |-> t.reply] IN Making(u) /\ Fits(u) /\ Current(c, u)
    BY <1>1, <1>4 DEF Making, Fits, Current
  <2> QED
    BY <1>1, <1>2, <1>3, <2>1, <2>2, QuietKeeps DEF Steps
<1>6. CASE Cached(t) # None
  <2>1. Goto(c, t, "send", hit)
    BY <1>6 DEF LookUp
  <2>2. cache[f] \in Payload /\ cache[f].asked.form = f /\ (cache[f].inDb => f \in groups)
    BY <1>1, <1>6 DEF IInv, TypeOK, CacheInv
  <2>3. hit \in Answer
    BY <1>1, <2>2 DEF Answer
  <2>4. /\ hit.payload = cache[f] /\ hit.cached /\ hit.kind = t.reply.kind
        /\ hit.q = t.reply.q /\ hit.nr = t.reply.nr /\ hit.known = t.reply.known
    BY <1>1 DEF Answer
  <2>5. LET u == [step |-> "send", reply |-> hit] IN Making(u) /\ Fits(u) /\ Current(c, u)
    BY <1>1, <1>4, <1>6, <2>2, <2>4 DEF Making, Fits, Current
  <2> QED
    BY <1>2, <1>3, <2>1, <2>3, <2>5, QuietKeeps DEF Steps
<1> QED
  BY <1>5, <1>6

LEMMA SearchInv ==
    ASSUME IInv, NEW c \in Connections, NEW t \in tasks[c], Search(c, t) PROVE IInv'
<1>1. t.step = "search" /\ t.reply \in Answer /\ t.reply.q \in Query
  BY TheTask DEF Search, At, Answer
<1>2. UNCHANGED <<session, accepted, answered, groups, cache, faults>> /\ faults' \in Nat
  BY DEF Search, At, store, IInv, TypeOK
<1>3. CacheInv' /\ cache' \in [Forms -> Payload \cup {None}]
  BY <1>2, CacheUntouched
<1>4. Making(t) /\ Fits(t) /\ Current(c, t)
  BY TheTask DEF TaskInv
<1> DEFINE payload(found) == Annotated(t.reply.q, found, FALSE)
           reply(found) == [t.reply EXCEPT !.payload = payload(found)]
           step(found) == IF found THEN "exist" ELSE "store"
<1>5. PICK found \in BOOLEAN : Goto(c, t, step(found), reply(found))
  BY DEF Search
<1>6. /\ payload(found) \in Payload /\ payload(found).asked = t.reply.q
      /\ payload(found).found = found /\ payload(found).inDb = FALSE
  BY <1>1 DEF Payload, Annotated
<1>7. /\ reply(found) \in Answer /\ reply(found).payload = payload(found)
      /\ reply(found).kind = t.reply.kind /\ reply(found).q = t.reply.q
      /\ reply(found).nr = t.reply.nr /\ reply(found).known = t.reply.known
  BY <1>1, <1>6 DEF Answer
<1>8. payload(found) # None
  BY <1>6, SearchAssumption
<1>9. LET u == [step |-> step(found), reply |-> reply(found)]
      IN  Making(u) /\ Fits(u) /\ Current(c, u)
  BY <1>1, <1>4, <1>6, <1>7, <1>8 DEF Making, Fits, Current
<1>10. step(found) \in Steps
  BY DEF Steps
<1> QED
  BY <1>2, <1>3, <1>5, <1>7, <1>9, <1>10, QuietKeeps

LEMMA SearchRefusedInv ==
    ASSUME IInv, NEW c \in Connections, NEW t \in tasks[c], SearchRefused(c, t) PROVE IInv'
<1> DEFINE reply == [t.reply EXCEPT !.kind = "vk_auth"]
<1>1. t.step = "search" /\ t.reply \in Answer
  BY TheTask DEF SearchRefused, At
<1>2. UNCHANGED <<session, accepted, answered, groups, cache>> /\ faults' \in Nat
  BY FaultType DEF SearchRefused, At, store
<1>3. CacheInv' /\ cache' \in [Forms -> Payload \cup {None}]
  BY <1>2, CacheUntouched
<1>4. Making(t) /\ Fits(t) /\ Current(c, t)
  BY TheTask DEF TaskInv
<1>5. /\ reply \in Answer /\ reply.payload = t.reply.payload /\ reply.kind = "vk_auth"
      /\ reply.q = t.reply.q /\ reply.nr = t.reply.nr /\ reply.known = t.reply.known
  BY <1>1 DEF Answer, Kinds
<1>6. LET u == [step |-> "send", reply |-> reply] IN Making(u) /\ Fits(u) /\ Current(c, u)
  BY <1>1, <1>4, <1>5 DEF Making, Fits, Current
<1>7. Goto(c, t, "send", reply)
  BY DEF SearchRefused
<1> QED
  BY <1>2, <1>3, <1>5, <1>6, <1>7, QuietKeeps DEF Steps

LEMMA ExistInv ==
    ASSUME IInv, NEW c \in Connections, NEW t \in tasks[c], Exist(c, t) PROVE IInv'
<1> DEFINE q == t.reply.q
           known == q.form \in groups
           payload == Annotated(q, TRUE, known)
           reply == [t.reply EXCEPT !.payload = payload]
<1>1. t.step = "exist" /\ t.reply \in Answer /\ q \in Query
  BY TheTask DEF Exist, At, Answer
<1>2. UNCHANGED <<session, accepted, answered, groups, cache, faults>> /\ faults' \in Nat
  BY DEF Exist, At, store, IInv, TypeOK
<1>3. CacheInv' /\ cache' \in [Forms -> Payload \cup {None}]
  BY <1>2, CacheUntouched
<1>4. Making(t) /\ Fits(t) /\ Current(c, t)
  BY TheTask DEF TaskInv
<1>5. /\ payload \in Payload /\ payload.asked = q
      /\ payload.inDb = known
  <2> HIDE DEF known
  <2>1. known \in BOOLEAN
    BY DEF known
  <2> QED
    BY <1>1, <2>1 DEF Payload, Annotated
<1>6. /\ reply \in Answer /\ reply.payload = payload
      /\ reply.kind = t.reply.kind /\ reply.q = q
      /\ reply.nr = t.reply.nr /\ reply.known = t.reply.known
  BY <1>1, <1>5 DEF Answer
<1>7. payload # None
  BY <1>5, SearchAssumption
<1>8. LET u == [step |-> "store", reply |-> reply] IN Making(u) /\ Fits(u) /\ Current(c, u)
  BY <1>1, <1>4, <1>5, <1>6, <1>7 DEF Making, Fits, Current
<1>9. Goto(c, t, "store", reply)
  BY DEF Exist
<1> QED
  BY <1>2, <1>3, <1>6, <1>8, <1>9, QuietKeeps DEF Steps

LEMMA StoreInv ==
    ASSUME IInv, NEW c \in Connections, NEW t \in tasks[c], Store(c, t) PROVE IInv'
<1> DEFINE f == t.reply.q.form
<1>1. t.step = "store" /\ t.reply \in Answer /\ f \in Forms /\ CacheKey(t.reply.q) = f
  BY TheTask DEF Store, At, CacheKey, Answer, Query
<1>2. UNCHANGED <<session, accepted, answered, groups>> /\ faults' \in Nat
  BY FaultType DEF Store, At, IInv, TypeOK
<1>3. Making(t) /\ Fits(t) /\ Current(c, t)
  BY TheTask DEF TaskInv
<1>4. /\ t.reply.payload # None /\ t.reply.payload \in Payload
      /\ t.reply.payload.asked.form = f
      /\ t.reply.payload.inDb => f \in groups
  BY <1>1, <1>3 DEF Making, Fits, Answer
<1>5. CacheInv' /\ cache' \in [Forms -> Payload \cup {None}]
  <2>1. CASE UNCHANGED cache
    BY <1>2, <2>1, CacheUntouched
  <2>2. CASE cache' = [cache EXCEPT ![f] = t.reply.payload]
    BY <1>1, <1>2, <1>4, <2>2 DEF IInv, TypeOK, CacheInv
  <2> QED
    BY <1>1, <2>1, <2>2 DEF Store
<1>6. LET u == [step |-> "send", reply |-> t.reply] IN Making(u) /\ Fits(u) /\ Current(c, u)
  BY <1>1, <1>3 DEF Making, Fits, Current
<1>7. Goto(c, t, "send", t.reply)
  BY DEF Store
<1> QED
  BY <1>1, <1>2, <1>5, <1>6, <1>7, QuietKeeps DEF Steps

LEMMA FailInv ==
    ASSUME IInv, NEW c \in Connections, NEW t \in tasks[c], Fail(c, t) PROVE IInv'
<1> DEFINE reply == [t.reply EXCEPT !.kind = "upstream", !.payload = None]
<1>1. t.step \in {"lookup", "search", "exist"} /\ t.reply \in Answer
  BY TheTask DEF Fail
<1>2. UNCHANGED <<session, accepted, answered, groups, cache>> /\ faults' \in Nat
  BY FaultType DEF Fail, At, store
<1>3. CacheInv' /\ cache' \in [Forms -> Payload \cup {None}]
  BY <1>2, CacheUntouched
<1>4. Making(t) /\ Fits(t) /\ Current(c, t)
  BY TheTask DEF TaskInv
<1>5. /\ reply \in Answer /\ reply.payload = None /\ reply.kind = "upstream"
      /\ reply.q = t.reply.q /\ reply.nr = t.reply.nr /\ reply.known = t.reply.known
  BY <1>1 DEF Answer, Kinds
<1>6. LET u == [step |-> "send", reply |-> reply] IN Making(u) /\ Fits(u) /\ Current(c, u)
  BY <1>1, <1>4, <1>5 DEF Making, Fits, Current
<1>7. Goto(c, t, "send", reply)
  BY DEF Fail, Broken
<1> QED
  BY <1>2, <1>3, <1>5, <1>6, <1>7, QuietKeeps DEF Steps

LEMMA SendInv ==
    ASSUME IInv, NEW c \in Connections, NEW t \in tasks[c], Send(c, t) PROVE IInv'
<1>1. t.step = "send" /\ t \in Task /\ t.reply \in Answer
  BY TheTask DEF Send, At
<1>2. UNCHANGED <<phase, closed, refused, accepted, groups, cache, faults>>
  BY DEF Send, At, session, store
<1>3. closed' \subseteq Connections /\ faults' \in Nat
  BY <1>2 DEF IInv, TypeOK
<1>4. CacheInv' /\ cache' \in [Forms -> Payload \cup {None}]
  BY <1>2, CacheUntouched
<1>5. /\ Making(t) /\ Fits(t)
      /\ t.reply.nr = accepted[c]
      /\ answered[c] <= accepted[c] /\ accepted[c] \in Nat
      /\ answered \in [Connections -> Nat]
  BY TheTask DEF TaskInv, Current, IInv, TypeOK
<1>6. /\ answered' \in [Connections -> Nat]
      /\ answered'[c] <= accepted[c]
      /\ \A d \in Connections \ {c} : answered'[d] = answered[d]
  <2>1. CASE c \in closed
    BY <1>5, <2>1 DEF Send
  <2>2. CASE c \notin closed
    BY <1>5, <2>2 DEF Send
  <2> QED
    BY <2>1, <2>2
<1>7. CASE tasks' = [tasks EXCEPT ![c] = @ \ {t}]
  BY <1>2, <1>3, <1>4, <1>6, <1>7, Removed, EndKeeps
<1>8. CASE Goto(c, t, "close", t.reply)
  <2> DEFINE u == [step |-> "close", reply |-> t.reply]
  <2>1. tasks' = [tasks EXCEPT ![c] = {u}]
    BY <1>8, Replaced
  <2>2. u \in Task
    BY <1>1, TheTask DEF Steps
  <2>3. Making(u) /\ Fits(u)' /\ Current(c, u)'
    BY <1>1, <1>2, <1>5 DEF Making, Fits, Current
  <2> HIDE DEF u
  <2>4. /\ {u} \in SUBSET Task
        /\ \A x, y \in {u} : x = y
        /\ \A x \in {u} : Making(x) /\ Fits(x)' /\ Current(c, x)'
    BY <2>2, <2>3
  <2> QED
    BY <1>2, <1>3, <1>4, <1>6, <2>1, <2>4, TaskKeeps
<1> QED
  BY <1>7, <1>8 DEF Send

LEMMA CloseInv ==
    ASSUME IInv, NEW c \in Connections, NEW t \in tasks[c], Close(c, t) PROVE IInv'
<1>1. UNCHANGED <<phase, refused, accepted, answered, groups, cache, faults>>
  BY DEF Close, store
<1>2. /\ closed' \subseteq Connections /\ faults' \in Nat
      /\ answered' \in [Connections -> Nat] /\ answered'[c] <= accepted[c]
      /\ \A d \in Connections \ {c} : answered'[d] = answered[d]
  BY <1>1 DEF Close, IInv, TypeOK
<1>3. CacheInv' /\ cache' \in [Forms -> Payload \cup {None}]
  BY <1>1, CacheUntouched
<1>4. tasks' = [tasks EXCEPT ![c] = @ \ {t}]
  BY DEF Close
<1> QED
  BY <1>1, <1>2, <1>3, <1>4, Removed, EndKeeps

------------------------------------------------------------------------------
(* The steps of a handler and of the surroundings.                         *)

\* The handshake: no task is there yet, and one who is refused is ended.
LEMMA HandshakeKeeps ==
    ASSUME IInv, NEW c \in Connections, phase[c] \in {"handshake", "legacy"},
           NEW p \in Phases, phase' = [phase EXCEPT ![c] = p],
           closed' \subseteq Connections,
           refused' \subseteq refused \cup {c}, c \in refused' => p = "ended",
           UNCHANGED <<search, store, faults>>
    PROVE  IInv'
<1>1. UNCHANGED <<accepted, tasks, answered, cache, groups, faults>>
  BY DEF search, store
<1>2. TypeOK'
  BY <1>1 DEF IInv, TypeOK
<1>3. tasks[c] = {}
  BY DEF IInv, OneTask
<1>4. \A d \in Connections : OneTask(d)'
  BY <1>1, <1>3 DEF IInv, OneTask, TypeOK
<1>5. NoBorrowedToken'
  BY DEF IInv, NoBorrowedToken, TypeOK
<1>6. CacheInv'
  BY <1>1 DEF IInv, CacheInv
<1>7. \A d \in Connections : \A t \in tasks'[d] : Making(t) /\ Fits(t)' /\ Current(d, t)'
  BY <1>1 DEF IInv, Fits, Current
<1>8. \A d \in Connections : answered'[d] <= accepted'[d]
  BY <1>1 DEF IInv
<1> QED
  BY <1>2, <1>4, <1>5, <1>6, <1>7, <1>8 DEF IInv, Making

LEMMA ConnectInv ==
    ASSUME IInv, NEW c \in Connections, Connect(c) \/ LookUpLegacy(c) PROVE IInv'
<1>1. phase[c] \in {"handshake", "legacy"} /\ UNCHANGED <<search, store, faults>>
  BY DEF Connect, LookUpLegacy
<1>2. c \notin refused
  BY <1>1 DEF IInv, NoBorrowedToken
<1>3. \A p \in Phases : Go(c, p) => closed' \subseteq Connections
  BY DEF Go, IInv, TypeOK
<1>4. Refuse(c) => closed' \subseteq Connections
  BY DEF Refuse, IInv, TypeOK
<1>5. CASE Refuse(c) /\ refused' \subseteq refused \cup {c}
  BY <1>1, <1>4, <1>5, HandshakeKeeps DEF Refuse, Phases
<1>6. ASSUME NEW p \in Phases, Go(c, p), UNCHANGED refused PROVE IInv'
  BY <1>1, <1>2, <1>3, <1>6, HandshakeKeeps DEF Go
<1>7. CASE Fallback(c) /\ UNCHANGED refused
  BY <1>5, <1>6, <1>7 DEF Fallback, Phases
<1>8. CASE Unavailable(c) /\ UNCHANGED refused
  BY <1>6, <1>7, <1>8 DEF Unavailable, Phases
<1>9. CASE Connect(c)
  <2>1. CASE Unverified(c) /\ UNCHANGED refused
    BY <1>5, <2>1 DEF Unverified
  <2>2. CASE AskAuthService(c)
    <3>1. PICK reply \in Replies :
            /\ refused' = IF reply \in Explained \cup {"stale_token"} THEN refused \cup {c} ELSE refused
            /\ CASE reply \in Unexplained -> Unavailable(c)
                 [] reply = "token" -> Go(c, "receive")
                 [] OTHER -> Refused(c)
      BY <2>2 DEF AskAuthService
    <3>2. CASE reply \in Unexplained
      <4>1. reply \notin Explained \cup {"stale_token"}
        BY <3>2 DEF Explained, Unexplained
      <4> QED
        BY <1>8, <3>1, <3>2, <4>1 DEF Explained, Unexplained
    <3>3. CASE reply = "token"
      BY <1>6, <3>1, <3>3 DEF Explained, Unexplained, Phases
    <3>4. CASE reply \notin Unexplained \cup {"token"}
      <4>1. Refuse(c)
        BY <3>1, <3>4 DEF Refused
      <4> QED
        BY <1>5, <3>1, <4>1
    <3> QED
      BY <3>2, <3>3, <3>4
  <2> QED
    BY <1>9, <2>1, <2>2 DEF Connect
<1>10. CASE LookUpLegacy(c)
  BY <1>6, <1>7, <1>10 DEF LookUpLegacy, Stored, Phases
<1> QED
  BY <1>9, <1>10

\* A query takes the place of whatever task there was.
LEMMA AcceptInv ==
    ASSUME IInv, NEW c \in Connections, NEW q \in Query, Accept(c, q) PROVE IInv'
<1>0. PICK t : t = NewTask(c, q)
  OBVIOUS
<1>1. /\ phase[c] = "receive"
      /\ accepted' = [accepted EXCEPT ![c] = @ + 1]
      /\ tasks' = [tasks EXCEPT ![c] = {} \cup {t}]
      /\ UNCHANGED <<phase, closed, refused, answered, cache, groups, faults>>
  BY <1>0 DEF Accept, AcceptBeside, session, store
<1>2. accepted \in [Connections -> Nat] /\ answered \in [Connections -> Nat]
  BY DEF IInv, TypeOK
<1>3. accepted' \in [Connections -> Nat] /\ accepted'[c] = accepted[c] + 1
  BY <1>1, <1>2
<1>4. \A d \in Connections \ {c} : accepted'[d] = accepted[d]
  BY <1>1, <1>2
<1>5. t \in Task /\ t.step = "lookup" /\ t.reply.nr = accepted[c] + 1 /\ t.reply.q = q
      /\ t.reply.kind = "items" /\ t.reply.payload = None /\ t.reply.known = (q.form \in groups)
  <2> DEFINE known == q.form \in groups
             reply == [nr |-> accepted[c] + 1, q |-> q, kind |-> "items", payload |-> None,
                       cached |-> FALSE, known |-> known]
  <2>1. known \in BOOLEAN
    OBVIOUS
  <2>2. t = [step |-> "lookup", reply |-> reply]
    BY <1>0 DEF NewTask
  <2> HIDE DEF known
  <2>3. reply \in Answer /\ reply.nr = accepted[c] + 1 /\ reply.q = q
        /\ reply.kind = "items" /\ reply.payload = None /\ reply.known = known
    BY <1>2, <2>1 DEF Answer, Kinds
  <2> HIDE DEF reply
  <2>4. t \in Task /\ t.step = "lookup" /\ t.reply = reply
    BY <2>2, <2>3 DEF Task, Steps
  <2> QED
    BY <2>3, <2>4 DEF known
<1>6. Making(t) /\ Fits(t)' /\ Current(c, t)'
  <2>1. Making(t)
    BY <1>5 DEF Making
  <2>2. Fits(t)'
    BY <1>1, <1>5 DEF Fits
  <2>3. answered[c] <= accepted[c] /\ answered[c] \in Nat /\ accepted[c] \in Nat
    BY <1>2 DEF IInv
  <2>4. Current(c, t)'
    BY <1>1, <1>3, <1>5, <2>3 DEF Current
  <2> QED
    BY <2>1, <2>2, <2>4
<1>7. /\ tasks' \in [Connections -> SUBSET Task]
      /\ tasks'[c] = {t}
      /\ \A d \in Connections \ {c} : tasks'[d] = tasks[d]
  BY <1>1, <1>5 DEF IInv, TypeOK
<1>8. ASSUME NEW d \in Connections, NEW u \in tasks'[d]
      PROVE  Making(u) /\ Fits(u)' /\ Current(d, u)'
  <2>1. CASE d = c
    BY <1>6, <1>7, <1>8, <2>1
  <2>2. CASE d # c
    <3>1. Making(u) /\ Fits(u) /\ Current(d, u)
      BY <1>7, <1>8, <2>2 DEF IInv
    <3> QED
      BY <1>1, <1>4, <2>2, <3>1 DEF Fits, Current
  <2> QED
    BY <2>1, <2>2
<1>9. TypeOK'
  BY <1>1, <1>3, <1>7, <1>8 DEF IInv, TypeOK, Making
<1>10. \A d \in Connections : OneTask(d)'
  BY <1>1, <1>7 DEF IInv, OneTask
<1>11. \A d \in Connections : answered'[d] <= accepted'[d]
  BY <1>1, <1>2, <1>3, <1>4 DEF IInv
<1>12. CacheInv' /\ NoBorrowedToken'
  BY <1>1 DEF IInv, CacheInv, NoBorrowedToken
<1> QED
  BY <1>8, <1>9, <1>10, <1>11, <1>12 DEF IInv, Making

\* The handler ends, and its task with it.
LEMMA EndInv ==
    ASSUME IInv, NEW c \in Connections, Reject(c) \/ Disconnect(c) PROVE IInv'
<1>1. /\ phase' = [phase EXCEPT ![c] = "ended"]
      /\ tasks' = [tasks EXCEPT ![c] = {}]
      /\ UNCHANGED <<closed, refused, accepted, answered, cache, groups, faults>>
  BY DEF Reject, Disconnect, End, store
<1>2. /\ tasks' \in [Connections -> SUBSET Task]
      /\ tasks'[c] = {}
      /\ \A d \in Connections \ {c} : tasks'[d] = tasks[d] /\ phase'[d] = phase[d]
  BY <1>1 DEF IInv, TypeOK
<1>3. \A d \in Connections : \A t \in tasks'[d] : Making(t) /\ Fits(t)' /\ Current(d, t)'
  BY <1>1, <1>2 DEF IInv, Fits, Current
<1>4. TypeOK'
  BY <1>1, <1>2, <1>3 DEF IInv, TypeOK, Making, Phases
<1>5. \A d \in Connections : OneTask(d)'
  BY <1>2 DEF IInv, OneTask
<1>6. NoBorrowedToken'
  BY <1>1 DEF IInv, TypeOK, NoBorrowedToken
<1>7. CacheInv' /\ \A d \in Connections : answered'[d] <= accepted'[d]
  BY <1>1 DEF IInv, CacheInv
<1> QED
  BY <1>3, <1>4, <1>5, <1>6, <1>7 DEF IInv, Making

\* What touches no session: a client that goes, a payload that expires, a group that
\* is saved.
LEMMA SurroundingsInv ==
    ASSUME IInv,
           \/ \E c \in Connections : Leave(c)
           \/ \E f \in Forms : Expire(f) \/ SaveGroup(f)
    PROVE  IInv'
<1>1. UNCHANGED <<phase, refused, accepted, tasks, answered, faults>> /\ groups \subseteq groups'
  BY DEF Leave, Expire, SaveGroup, session, search, store
<1>2. TypeOK'
  BY <1>1 DEF IInv, TypeOK, Leave, Expire, SaveGroup, session, store
<1>3. CacheInv'
  BY <1>1 DEF IInv, TypeOK, CacheInv, Leave, Expire, SaveGroup, store
<1>4. \A c \in Connections : \A t \in tasks'[c] : Making(t) /\ Fits(t)' /\ Current(c, t)'
  BY <1>1 DEF IInv, Fits, Current
<1>5. /\ \A c \in Connections : answered'[c] <= accepted'[c]
      /\ \A c \in Connections : OneTask(c)'
      /\ NoBorrowedToken'
  BY <1>1 DEF IInv, OneTask, NoBorrowedToken
<1> QED
  BY <1>2, <1>3, <1>4, <1>5 DEF IInv, Making

LEMMA NextInv == IInv /\ [Next]_vars => IInv'
<1> SUFFICES ASSUME IInv, [Next]_vars PROVE IInv'
  OBVIOUS
<1>1. CASE UNCHANGED vars
  BY <1>1 DEF vars, session, search, store, IInv, TypeOK, OneTask, Making, Fits, Current,
              CacheInv, NoBorrowedToken
<1>2. ASSUME NEW c \in Connections, Connect(c) \/ LookUpLegacy(c) PROVE IInv'
  BY <1>2, ConnectInv
<1>3. ASSUME NEW c \in Connections, NEW q \in Query, Accept(c, q) PROVE IInv'
  BY <1>3, AcceptInv
<1>4. ASSUME NEW c \in Connections, Reject(c) \/ Disconnect(c) PROVE IInv'
  BY <1>4, EndInv
<1>5. ASSUME NEW c \in Connections, TaskStep(c) PROVE IInv'
  BY <1>5, LookUpInv, SearchInv, SearchRefusedInv, ExistInv, StoreInv, FailInv, SendInv, CloseInv
     DEF TaskStep
<1>6. CASE \/ \E c \in Connections : Leave(c)
           \/ \E f \in Forms : Expire(f) \/ SaveGroup(f)
  BY <1>6, SurroundingsInv
<1> QED
  BY <1>1, <1>2, <1>3, <1>4, <1>5, <1>6 DEF Next

------------------------------------------------------------------------------
(* The theorems.                                                           *)

\* Whatever is typed, sent, cancelled, refused or lost, on however many connections:
\* each has one task at most, of its last query, and that makes what the query
\* deserves.
THEOREM SearchInvariant == Spec => []IInv
BY InitInv, NextInv, PTL DEF Spec

\* No search goes on for a connection whose handler has ended.
THEOREM NoSearchOrphaned == Spec => []NoOrphanTask
<1>1. IInv => NoOrphanTask
  BY DEF IInv, OneTask, NoOrphanTask
<1> QED
  BY <1>1, SearchInvariant, PTL

\* The items sent for a query are its own, and their flags are true of the table.
THEOREM ItemsFit == Spec => []AnswersFit
<1>1. IInv => AnswersFit
  <2> SUFFICES ASSUME IInv, NEW c \in Connections, NEW t \in tasks[c],
                      t.step = "send", t.reply.kind = "items"
               PROVE  LET a == t.reply IN
                      /\ a.payload.asked.form = a.q.form
                      /\ a.payload.inDb => a.q.form \in groups
                      /\ ~ a.cached => /\ a.payload.asked = a.q
                                       /\ a.payload.found /\ a.known => a.payload.inDb
    BY DEF AnswersFit
  <2>1. Making(t) /\ Fits(t)
    BY DEF IInv
  <2> QED
    BY <2>1 DEF Making, Fits
<1> QED
  BY <1>1, SearchInvariant, PTL

\* A user AuthService refuses searches with nobody's token.
THEOREM NoTokenBorrowed == Spec => []NoBorrowedToken
<1>1. IInv => NoBorrowedToken
  BY DEF IInv
<1> QED
  BY <1>1, SearchInvariant, PTL

\* What is sent last answers what was typed last.
THEOREM OnlyNewestAnswered == Spec => NewestAnswered
<1> DEFINE Newest == \A c \in Connections : answered'[c] # answered[c] =>
                        /\ c \notin closed
                        /\ answered'[c] = accepted[c]
                        /\ answered[c] < answered'[c]
<1>1. ASSUME IInv, [Next]_vars PROVE [Newest]_answered
  <2> SUFFICES ASSUME NEW c \in Connections, answered'[c] # answered[c]
               PROVE  c \notin closed /\ answered'[c] = accepted[c] /\ answered[c] < answered'[c]
    OBVIOUS
  <2>1. PICK d \in Connections : \E t \in tasks[d] : Send(d, t)
    BY <1>1 DEF Next, vars, Connect, LookUpLegacy, Accept, AcceptBeside, Reject, Disconnect, End,
                Leave, TaskStep, LookUp, Search, SearchRefused, Exist, Store, Fail, Close, Expire,
                SaveGroup, search
  <2> PICK t \in tasks[d] : Send(d, t)
    BY <2>1
  <2>2. t.step = "send" /\ Current(d, t) /\ answered \in [Connections -> Nat]
    BY <1>1 DEF IInv, Send, At, TypeOK
  <2>3. d \notin closed /\ answered' = [answered EXCEPT ![d] = t.reply.nr]
    BY <2>2 DEF Send
  <2>4. d = c
    BY <2>2, <2>3
  <2> QED
    BY <2>2, <2>3, <2>4 DEF Current
<1> QED
  BY <1>1, SearchInvariant, PTL DEF Spec, NewestAnswered

==============================================================================
