------------------------------ MODULE ParseCache ------------------------------
(***************************************************************************)
(* POST /parse/vk of services/vk-parser: ParseVkDataAction with the tasks  *)
(* it runs.  A request asks for the posts of a group in a range of time.   *)
(* The action reads from cached_periods which parts of the range have been *)
(* parsed, reads the posts it has, fetches the gaps from VK one by one,    *)
(* saves each (group, posts, period, in that order, without a transaction) *)
(* and publishes it to Kafka, and answers with what it read and fetched.   *)
(*                                                                         *)
(* Requests interleave at every await.  A request of several links does    *)
(* for each what a request of that link does, one after the other, so a    *)
(* request here has one link, spelt as the group's screen name.            *)
(*                                                                         *)
(* Time is counted in microseconds, the epsilon of the code, as if every   *)
(* one could bring a post; ids count up on each wall, as VK assigns them,  *)
(* so two walls use the same ids.                                          *)
(***************************************************************************)
EXTENDS Naturals, Sequences, FiniteSets, Folds

CONSTANTS
    Groups,         \* the VK groups
    Requests,       \* the requests that may run at one time
    None,           \* no row, no group
    Horizon,        \* bound: the last moment
    MaxRequests,    \* bound: the requests of a behaviour
    MaxEdits,       \* bound: the times the counters of posts change
    MaxFaults       \* bound: the failures of VK, Kafka, the database and requests

VARIABLES
    now,        \* the moment
    wall,       \* wall[g][t]: 0, or the revision of the post of g made at t
    groupRow,   \* groupRow[g]: "absent", or how old last_parsed_at is: "recent", "old"
    rows,       \* rows[id]: the row of the posts table, or None
    periods,    \* periods[g]: the rows of cached_periods
    published,  \* published[g]: the posts that have been sent to Kafka
    req,        \* req[r]: the local state of a request
    missed,     \* history: missed[g], the moments of recorded periods VK gave no post for
    started, edits, faults

tables == <<groupRow, rows, periods>>
vk == <<now, wall, edits>>
vars == <<vk, tables, published, req, missed, started, faults>>

Times == 1 .. Horizon
Period == [from : Times, to : Times]
Row == [group : Groups, at : Times, rev : Nat]
Seen == Times \X Nat      \* a post as a response shows it: date and counters

ASSUME ParseAssumption ==
    /\ IsFiniteSet(Groups)
    /\ None \notin Groups /\ None \notin Row
    /\ Horizon \in Nat \ {0}
    /\ MaxRequests \in Nat /\ MaxEdits \in Nat /\ MaxFaults \in Nat

Steps == {"idle", "check", "read", "fetch", "group", "groupRow", "posts", "postRow",
          "publish", "done"}
Request == [step : Steps, group : Groups \cup {None}, range : Period, all : BOOLEAN,
            gaps : Seq(Period), cached : SUBSET Seen, fresh : SUBSET Seen,
            hand : SUBSET Seen, todo : SUBSET Seen, post : Seen \cup {None},
            found : BOOLEAN, lost : SUBSET Times]

Inside(p) == Times \cap (p.from .. p.to)

\* The post of g made at t has the number of posts up to it as its id.
IdOf(g, t) == Cardinality({u \in 1 .. t : wall[g][u] # 0})

IsRowOf(row, g, t) == row # None /\ row.group = g /\ row.at = t
Stored(g, t) == wall[g][t] # 0 /\ IsRowOf(rows[IdOf(g, t)], g, t)

Dates(posts) == {post[1] : post \in posts}

\* Between "fetch" and the end of "publish" the first gap is the one in work.
InWork == Steps \ {"idle", "check", "read", "fetch", "done"}
Saving == InWork \ {"publish"}

TypeOK ==
    /\ now \in 0 .. Horizon
    /\ wall \in [Groups -> [Times -> Nat]]
    /\ groupRow \in [Groups -> {"absent", "recent", "old"}]
    /\ rows \in [Times -> Row \cup {None}]
    /\ periods \in [Groups -> SUBSET Period]
    /\ published \in [Groups -> SUBSET Times]
    /\ req \in [Requests -> Request]
    /\ \A r \in Requests :
        /\ req[r].step # "idle" => req[r].group \in Groups
        /\ req[r].step \in InWork => req[r].gaps # <<>>
        /\ req[r].step = "postRow" => req[r].post \in Seen
    /\ missed \in [Groups -> SUBSET Times]
    /\ started \in Nat /\ edits \in Nat /\ faults \in Nat

Idle == [step |-> "idle", group |-> None, range |-> [from |-> 1, to |-> 1], all |-> FALSE,
         gaps |-> <<>>, cached |-> {}, fresh |-> {}, hand |-> {}, todo |-> {},
         post |-> None, found |-> FALSE, lost |-> {}]

Init ==
    /\ now = 0
    /\ wall = [g \in Groups |-> [t \in Times |-> 0]]
    /\ groupRow = [g \in Groups |-> "absent"]
    /\ rows = [id \in Times |-> None]
    /\ periods = [g \in Groups |-> {}]
    /\ published = [g \in Groups |-> {}]
    /\ req = [r \in Requests |-> Idle]
    /\ missed = [g \in Groups |-> {}]
    /\ started = 0 /\ edits = 0 /\ faults = 0

------------------------------------------------------------------------------
(* calculate_missing_periods.                                              *)

Larger(m, n) == IF m > n THEN m ELSE n
Smaller(m, n) == IF m < n THEN m ELSE n

Gap(from, to) == IF from <= to THEN <<[from |-> from, to |-> to]>> ELSE <<>>

\* What the loop knows: the gaps so far, and the first moment not yet covered.
Begin(range) == [gaps |-> <<>>, current |-> range.from]

\* One turn: the gap before a period, and what the period covers.
Turn(range, epsilon, p, so) ==
    LET from == Larger(p.from, range.from)
        to   == Smaller(p.to, range.to)
    IN  IF to < range.from \/ from > range.to THEN so
        ELSE [gaps |-> so.gaps \o Gap(so.current, from - 1),
              current |-> Larger(so.current, to + epsilon)]

Latest(cached) == CHOOSE p \in cached : \A q \in cached : q.from <= p.from

\* The last period of all is the last to have its turn.
Gaps(range, cached, epsilon) ==
    LET end == MapThenFoldSet(LAMBDA p, so : Turn(range, epsilon, p, so), Begin(range),
                              LAMBDA p : p, Latest, cached)
    IN  end.gaps \o Gap(end.current, range.to)

\* Mutant of MissingPeriods: the moment after a cached period is taken for cached.
GapsSkipping(range, cached) == Gaps(range, cached, 2)

\* The cached periods by their start.  Behind the loop's break no turn would
\* change a thing.
MissingPeriods(range, cached) == Gaps(range, cached, 1)

\* Mutant of Overlapping: periods that share only a bound with the range are left out.
OverlappingInside(g, range) ==
    {p \in periods[g] : p.from < range.to /\ p.to > range.from}

\* The periods of the query; their bounds are inclusive.
Overlapping(g, range) ==
    {p \in periods[g] : p.from <= range.to /\ p.to >= range.from}

------------------------------------------------------------------------------
(* VK and the clock.                                                       *)

\* The next moment, in which some groups post.
Tick ==
    /\ now < Horizon
    /\ now' = now + 1
    /\ \E posting \in SUBSET Groups :
        wall' = [g \in Groups |->
                   IF g \in posting THEN [wall[g] EXCEPT ![now + 1] = 1] ELSE wall[g]]
    /\ UNCHANGED <<edits, tables, published, req, missed, started, faults>>

\* The views, likes, comments or reposts of a post change.
Edit(g, t) ==
    /\ edits < MaxEdits
    /\ wall[g][t] # 0
    /\ wall' = [wall EXCEPT ![g][t] = @ + 1]
    /\ edits' = edits + 1
    /\ UNCHANGED <<now, tables, published, req, missed, started, faults>>

\* 24 hours have passed since last_parsed_at.
Age(g) ==
    /\ groupRow[g] = "recent"
    /\ groupRow' = [groupRow EXCEPT ![g] = "old"]
    /\ UNCHANGED <<vk, rows, periods, published, req, missed, started, faults>>

------------------------------------------------------------------------------
(* A request.                                                              *)

Fault == faults < MaxFaults /\ faults' = faults + 1

Becomes(r, state) == req' = [req EXCEPT ![r] = state]

\* The range may reach beyond the present, as "until the end of today" does.
Start(r) ==
    /\ req[r].step \in {"idle", "done"}
    /\ started < MaxRequests
    /\ started' = started + 1
    /\ \E g \in Groups, range \in Period, all \in BOOLEAN :
        /\ range.from <= range.to
        /\ Becomes(r, [Idle EXCEPT !.step = "check", !.group = g, !.range = range, !.all = all])
    /\ UNCHANGED <<vk, tables, published, missed, faults>>

\* CacheCheckTask.  Its two queries are one step: rows are never deleted, so what
\* the first has seen still stands at the second.  parse_all is not looked at again.
Check(r) ==
    LET g == req[r].group
        full == groupRow[g] = "absent" \/ (req[r].all /\ groupRow[g] = "old")
    IN
    /\ req[r].step = "check"
    /\ Becomes(r, [req[r] EXCEPT !.step = "read", !.all = FALSE,
                     !.gaps = IF full THEN <<req[r].range>>
                              ELSE MissingPeriods(req[r].range, Overlapping(g, req[r].range))])
    /\ UNCHANGED <<vk, tables, published, missed, started, faults>>

RowsOf(g, range) ==
    LET own == {id \in Times : rows[id] # None /\ rows[id].group = g
                                 /\ rows[id].at \in Inside(range)}
    IN  {<<rows[id].at, rows[id].rev>> : id \in own}

\* _build_response_from_cache.
ReadCached(r) ==
    LET g == req[r].group IN
    /\ req[r].step = "read"
    /\ Becomes(r, [req[r] EXCEPT !.step = "fetch",
                     !.cached = IF groupRow[g] = "absent" THEN {}
                                ELSE RowsOf(g, req[r].range)])
    /\ UNCHANGED <<vk, tables, published, missed, started, faults>>

\* _flatten_parsed_result: what is saved and sent of the posts VK gave.
Flattened(g, got) == {<<t, wall[g][t]>> : t \in got}

\* _merge_domain_payloads: a post is in both when all it shows is the same.
Merged(left, right) == left \cup right

FetchMerging(r, earlier) ==
    LET g == req[r].group
        gap == Inside(Head(req[r].gaps))
        there == {t \in gap : wall[g][t] # 0}
    IN
    /\ req[r].step = "fetch"
    /\ req[r].gaps # <<>>
    /\ \E got \in SUBSET there :
        LET posts == Flattened(g, got) IN
        /\ IF got = there THEN UNCHANGED faults ELSE Fault
        /\ Becomes(r, [req[r] EXCEPT !.step = "group", !.hand = posts,
                         !.fresh = Merged(earlier, posts),
                         !.lost = @ \cup (there \ got) \cup {t \in gap : t > now}])
    /\ UNCHANGED <<vk, tables, published, missed, started>>

\* Mutant: the payload of a gap replaces that of the gap before.
FetchReplacing(r) == FetchMerging(r, {})

\* FetchVkWallTask gets the posts of the first gap.  A call VK refuses inside an
\* execute is passed over, so any of them may be lacking, all if it is the one
\* for the number of posts; posts made between two calls, which move the others
\* past the end of a page, count as such a fault as well, and so do posts that the
\* searches do not find on a quiet wall (Tied and OutOfOrder of WallClient).  Those
\* still to be made are lacking in any case.
Fetch(r) == FetchMerging(r, req[r].fresh)

\* VK does not resolve the link or describe the group: nothing to save.
FetchNothing(r) ==
    /\ req[r].step = "fetch"
    /\ req[r].gaps # <<>>
    /\ Fault
    /\ Becomes(r, [req[r] EXCEPT !.gaps = Tail(@), !.lost = @ \cup Inside(Head(req[r].gaps))])
    /\ UNCHANGED <<vk, tables, published, missed, started>>

------------------------------------------------------------------------------
(* SaveParsedDataTask.                                                     *)

EndSave(r) ==
    Becomes(r, [req[r] EXCEPT !.step = "publish", !.todo = {}, !.post = None, !.found = FALSE])

LookForGroup(r) ==
    /\ req[r].step = "group"
    /\ Becomes(r, [req[r] EXCEPT !.step = "groupRow",
                     !.found = groupRow[req[r].group] # "absent"])
    /\ UNCHANGED <<vk, tables, published, missed, started, faults>>

\* Another request has inserted the row meanwhile: the insert raises, and the
\* action goes on to publish.
Conflict(r) ==
    /\ EndSave(r)
    /\ UNCHANGED tables

SaveGroup(r) ==
    LET g == req[r].group IN
    /\ req[r].step = "groupRow"
    /\ IF ~ req[r].found /\ groupRow[g] # "absent"
       THEN Conflict(r)
       ELSE /\ groupRow' = [groupRow EXCEPT ![g] = "recent"]
            /\ Becomes(r, [req[r] EXCEPT !.step = "posts", !.todo = req[r].hand, !.found = FALSE])
            /\ UNCHANGED <<rows, periods>>
    /\ UNCHANGED <<vk, published, missed, started, faults>>

\* The posts come in the order of the wall, newest first.
LookForPost(r) ==
    /\ req[r].step = "posts"
    /\ \E post \in req[r].todo :
        /\ \A other \in req[r].todo : other[1] <= post[1]
        /\ Becomes(r, [req[r] EXCEPT !.step = "postRow", !.post = post,
                         !.found = rows[IdOf(req[r].group, post[1])] # None])
    /\ UNCHANGED <<vk, tables, published, missed, started, faults>>

\* An update sets the counters only, on whatever row has the id: when that is the
\* row of another group, this post gets none.
SavePost(r) ==
    LET g == req[r].group
        t == req[r].post[1]
        id == IdOf(g, t)
        row == IF req[r].found THEN [rows[id] EXCEPT !.rev = req[r].post[2]]
               ELSE [group |-> g, at |-> t, rev |-> req[r].post[2]]
    IN
    /\ req[r].step = "postRow"
    /\ IF ~ req[r].found /\ rows[id] # None
       THEN Conflict(r)
       ELSE /\ rows' = [rows EXCEPT ![id] = row]
            /\ Becomes(r, [req[r] EXCEPT !.step = "posts", !.todo = @ \ {req[r].post},
                             !.post = None, !.found = FALSE,
                             !.lost = IF IsRowOf(row, g, t) THEN @ ELSE @ \cup {t}])
            /\ UNCHANGED <<groupRow, periods>>
    /\ UNCHANGED <<vk, published, missed, started, faults>>

Record(r) ==
    LET g == req[r].group
        gap == Head(req[r].gaps)
    IN
    /\ periods' = [periods EXCEPT ![g] = @ \cup {gap}]
    /\ missed' = [missed EXCEPT ![g] = @ \cup (req[r].lost \cap Inside(gap))]
    /\ EndSave(r)
    /\ UNCHANGED <<vk, groupRow, rows, published, started, faults>>

\* Mutant of SavePeriod: the period may be recorded before its posts are saved.
RecordEarly(r) == req[r].step = "posts" /\ Record(r)

\* The posts are saved: the period is looked for and updated or inserted, and
\* either way it is recorded.  Two rows of one period, which concurrent requests
\* can leave, mean what one does.
SavePeriod(r) == req[r].step = "posts" /\ req[r].todo = {} /\ Record(r)

\* Mutant of SaveFail: a post that cannot be saved is passed over.
SkipPost(r) ==
    /\ req[r].step = "postRow"
    /\ Fault
    /\ Becomes(r, [req[r] EXCEPT !.step = "posts", !.todo = @ \ {req[r].post},
                     !.post = None, !.found = FALSE])
    /\ UNCHANGED <<vk, tables, published, missed, started>>

\* The database raises, which ends the task; the action logs it and goes on.
SaveFail(r) ==
    /\ req[r].step \in Saving
    /\ Fault
    /\ EndSave(r)
    /\ UNCHANGED <<vk, tables, published, missed, started>>

------------------------------------------------------------------------------
(* PublishToKafkaTask, and the end of a request.                           *)

PublishOnly(r, sent) ==
    LET g == req[r].group IN
    /\ published' = [published EXCEPT ![g] = @ \cup Dates(sent)]
    /\ Becomes(r, [req[r] EXCEPT !.step = "fetch", !.gaps = Tail(@), !.hand = {}])
    /\ UNCHANGED <<vk, tables, missed, started>>

\* Mutant: what the table holds already, saved by whichever request, is not sent.
PublishUnsaved(r) ==
    /\ req[r].step = "publish"
    /\ PublishOnly(r, {post \in req[r].hand : ~ Stored(req[r].group, post[1])})
    /\ UNCHANGED faults

\* Every post of the gap is sent, whatever became of its row.
Publish(r) ==
    /\ req[r].step = "publish"
    /\ PublishOnly(r, req[r].hand)
    /\ UNCHANGED faults

\* A send raises; the exception is logged.
PublishFail(r) ==
    /\ req[r].step = "publish"
    /\ Fault
    /\ \E sent \in SUBSET req[r].hand : PublishOnly(r, sent)

\* No gap is left: the answer merges what was read with what was fetched.
Answer(r) ==
    /\ req[r].step = "fetch"
    /\ req[r].gaps = <<>>
    /\ Becomes(r, [req[r] EXCEPT !.step = "done"])
    /\ UNCHANGED <<vk, tables, published, missed, started, faults>>

\* A query or the fetch raises, or the process goes: what was saved stays.
Abort(r) ==
    /\ req[r].step \notin {"idle", "done"}
    /\ Fault
    /\ Becomes(r, Idle)
    /\ UNCHANGED <<vk, tables, published, missed, started>>

RequestStep(r) ==
    \/ Start(r) \/ Check(r) \/ ReadCached(r)
    \/ Fetch(r) \/ FetchNothing(r)
    \/ LookForGroup(r) \/ SaveGroup(r) \/ LookForPost(r) \/ SavePost(r)
    \/ SavePeriod(r) \/ SaveFail(r)
    \/ Publish(r) \/ PublishFail(r)
    \/ Answer(r) \/ Abort(r)

Next ==
    \/ Tick
    \/ \E g \in Groups : Age(g) \/ \E t \in Times : Edit(g, t)
    \/ \E r \in Requests : RequestStep(r)

Spec == Init /\ [][Next]_vars

------------------------------------------------------------------------------
(* Properties.                                                             *)

Covered(g) == UNION {Inside(p) : p \in periods[g]}

\* A moment cached_periods claims has no post of the group, or its post is in the
\* table, or it is one the parser lacked in a known way: made after the fetch,
\* passed over by VK, or kept out by another group's row with its id.  Failures of
\* the save at any step, lost requests and requests of one group side by side add
\* no other: the period is the last thing to be written.
PeriodsAccounted ==
    \A g \in Groups : \A t \in Covered(g) :
        t <= now /\ wall[g][t] # 0 => Stored(g, t) \/ t \in missed[g]

Answered(r) == Merged(req[r].cached, req[r].fresh)

\* An answer lacks no post of its range but those lost in these ways: it matters
\* that the periods are read before the posts, and that gaps and periods together
\* are the range.
AnswersComplete ==
    \A r \in Requests : req[r].step = "done" =>
        LET g == req[r].group IN
        \A t \in Inside(req[r].range) :
            wall[g][t] # 0 => t \in Dates(Answered(r)) \cup req[r].lost \cup missed[g]

\* graph_data is merged and deduplicated: an answer shows no post twice.
NoPostTwice ==
    \A r \in Requests : req[r].step = "done" =>
        \A x, y \in Answered(r) : x[1] = y[1] => x = y

\* As long as nothing fails, a post in the table has been sent to Kafka or is in
\* the hands of a request that is going to send it, the one that lost the race for
\* its row included.
SavedArePublished ==
    faults = 0 =>
        \A g \in Groups, t \in Times : Stored(g, t) =>
            \/ t \in published[g]
            \/ \E r \in Requests : /\ req[r].step \in InWork
                                   /\ req[r].group = g /\ t \in Dates(req[r].hand)

TimesOf(gaps) == UNION {gaps[i].from .. gaps[i].to : i \in 1 .. Len(gaps)}

\* The gaps are what the reference definition says: just the moments of the range
\* in no cached period, each in one gap, in order of time.
AreTheRest(gaps, range, cached) ==
    /\ TimesOf(gaps) = (range.from .. range.to) \ UNION {p.from .. p.to : p \in cached}
    /\ \A i, j \in 1 .. Len(gaps) : i < j => gaps[i].to < gaps[j].from

\* It is so whatever periods are cached: touching, overlapping, one inside
\* another, or reaching beyond the range.  The states before the first request
\* are enough to ask for all of them.
GapsAreTheRest ==
    LET proper == {p \in [from : 1 .. Horizon + 1, to : 1 .. Horizon + 1] : p.from <= p.to}
    IN  started = 0 =>
            \A range \in proper, cached \in SUBSET proper :
                AreTheRest(MissingPeriods(range, cached), range, cached)

\* Only the gaps are fetched: when it is not told to parse everything, a request
\* sets out for the part of its range that no recorded period covers.
OnlyGapsFetched ==
    [][\A r \in Requests :
        req[r].step = "check" /\ req'[r].step = "read" /\ ~ req[r].all =>
            AreTheRest(req'[r].gaps, req[r].range, periods[req[r].group])]_req
------------------------------------------------------------------------------
(* The inductive invariant.                                                *)

\* Posts, and so rows, are of moments that have been.
RowInv ==
    /\ \A g \in Groups : \A t \in Times : wall[g][t] # 0 => t <= now
    /\ \A id \in Times : rows[id] # None => rows[id].at <= now

\* What a request has in hand are posts of its group.
HandInv(r) ==
    /\ req[r].step \in {"posts", "postRow"} => req[r].todo \subseteq req[r].hand
    /\ req[r].step = "postRow" => req[r].post \in req[r].hand
    /\ req[r].step \in InWork =>
        \A post \in req[r].hand : wall[req[r].group][post[1]] # 0

\* Every moment of the gap in work is without a post, in hand, or lost.
GapInv(r) ==
    req[r].step \in Saving =>
        \A t \in Inside(Head(req[r].gaps)) :
            \/ t \in Dates(req[r].hand) \cup req[r].lost
            \/ t <= now /\ wall[req[r].group][t] = 0

\* The posts in hand that are no longer to do are stored or lost, and a row that
\* was found is there.
SavedInv(r) ==
    /\ req[r].step \in {"posts", "postRow"} =>
        \A post \in req[r].hand \ req[r].todo :
            post[1] \in req[r].lost \/ Stored(req[r].group, post[1])
    /\ req[r].step = "postRow" /\ req[r].found =>
        rows[IdOf(req[r].group, req[r].post[1])] # None

RequestInv(r) == HandInv(r) /\ GapInv(r) /\ SavedInv(r)

\* Every moment of a recorded period is without a post, stored, or missed.
PeriodInv ==
    \A g \in Groups : \A p \in periods[g] : \A t \in Inside(p) :
        t \in missed[g] \/ (t <= now /\ wall[g][t] = 0) \/ Stored(g, t)

\* Nothing begins after it ends.
ProperPeriods == {p \in Period : p.from <= p.to}

RangeInv ==
    /\ \A g \in Groups : periods[g] \subseteq ProperPeriods
    /\ \A r \in Requests : /\ req[r].range \in ProperPeriods
                           /\ req[r].gaps \in Seq(ProperPeriods)

\* A group without a row has no recorded period, and none is about to be recorded.
GroupInv ==
    /\ \A g \in Groups : groupRow[g] = "absent" => periods[g] = {}
    /\ \A r \in Requests :
        req[r].step \in {"posts", "postRow"} => groupRow[req[r].group] # "absent"

\* The gaps still to be fetched.
ToCome(r) == IF req[r].step \in InWork THEN Tail(req[r].gaps) ELSE req[r].gaps

\* Every moment of the range is without a post, in the answer so far, lost or
\* missed, or its turn is still to come.
AnswerInv(r) ==
    /\ req[r].step = "done" => req[r].gaps = <<>>
    /\ req[r].step = "read" =>
        Inside(req[r].range) \subseteq TimesOf(req[r].gaps) \cup Covered(req[r].group)
    /\ req[r].step \in InWork \cup {"fetch", "done"} =>
        \A t \in Inside(req[r].range) :
            \/ t \in Dates(Answered(r)) \cup req[r].lost \cup missed[req[r].group]
            \/ t \in TimesOf(ToCome(r))
            \/ t <= now /\ wall[req[r].group][t] = 0

\* What holds of the parser's cache between any two steps: every post of a period
\* on its way to cached_periods, or there, can be accounted for, and so can every
\* post of a range on its way to the answer, or in it.
IInv ==
    /\ TypeOK /\ RowInv /\ PeriodInv /\ RangeInv /\ GroupInv
    /\ \A r \in Requests : RequestInv(r) /\ AnswerInv(r)
==============================================================================
