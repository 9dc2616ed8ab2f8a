------------------------------ MODULE WallClient ------------------------------
(***************************************************************************)
(* What the VK parser does to fetch the posts of a group in a range of     *)
(* time: get_vk_data of services/vk-parser/src/VkParser with the client    *)
(* and the execute pool it uses.  It resolves the link, asks for the group *)
(* and for the number of its posts, finds the offsets of the range by two  *)
(* binary searches, one wall.get per probe, fetches the pages between them *)
(* and keeps the posts whose date is in the range.                         *)
(*                                                                         *)
(* Offset 0 is the newest post of the wall, so a post that is made or      *)
(* deleted meanwhile shifts the offsets of all older ones.  But a post the *)
(* group has pinned stands at offset 0 however old it is, and the searches *)
(* take its date for that of the newest.                                   *)
(*                                                                         *)
(* Every call goes through AdvancedExecutePool: the calls are cut into     *)
(* chunks, the chunks are executed side by side, and those VK refused are  *)
(* tried again, in smaller chunks if the answer was too large (error 13).  *)
(* (The calls that resolve, inform and count go through a pool of their    *)
(* own, of 25 calls a chunk; they are one call each.)                      *)
(* A request of several groups does this for one group after the other;    *)
(* here there is one.                                                      *)
(***************************************************************************)
EXTENDS Integers, Sequences, FiniteSets, SequencesExt

CONSTANTS
    Horizon,         \* bound: the last second a post may be dated
    MaxPosts,        \* bound: the posts of the wall at first
    MaxPinned,       \* bound: those of a wall with a pinned post
    PageSize,        \* the posts of a page (100), not one alone
    CallsPerExecute, \* call_number_per_request: the calls of a chunk (12)
    MaxChanges,      \* bound: the posts made or deleted during a fetch
    MaxFaults        \* bound: the calls and executes that fail

ASSUME WallAssumption ==
    /\ Horizon \in Nat \ {0} /\ MaxPosts \in Nat /\ MaxPinned \in Nat
    /\ PageSize \in Nat \ {0, 1} /\ CallsPerExecute \in Nat \ {0}
    /\ MaxChanges \in Nat /\ MaxFaults \in Nat

VARIABLES
    wall,       \* the posts of the group, the oldest first, without the pinned one
    pin,        \* the pinned post, if there is one
    lastId,     \* the id of the newest post ever
    range,      \* start_date and end_date of the request
    step,       \* what the client is waiting for
    total,      \* posts_count
    left, right,        \* the bounds of the binary search
    startIndex,         \* what the first search found
    pool,       \* the chunks to execute, those that failed with their error
    got,        \* the calls of the pool that were answered, with the answer
    answer,     \* what get_vk_data returns: a set of posts, their order left out
    counted,    \* history: lastId when the posts were counted
    deleted,    \* history: the posts deleted since
    dropped,    \* history: a call was refused or lost since the group was found
    split,      \* history: a chunk has been split since then
    faults      \* failures so far

search == <<total, left, right, startIndex>>
calls == <<pool, got>>
history == <<counted, deleted, dropped, split>>
vk == <<wall, pin, lastId>>
vars == <<vk, range, step, search, calls, answer, history, faults>>

Dates == 1 .. Horizon
Post == [id : Nat, at : Dates]
Searches == {"start", "end"}
Steps == {"resolve", "info", "count", "pages", "done", "nothing", "failed"} \cup Searches
Errors == {"none", "too large", "other", "no dict"}

\* The calls of a step differ in their offset alone.
Chunk == [calls : Seq(Nat), size : Nat, error : Errors]

TypeOK ==
    /\ wall \in Seq(Post) /\ pin \in Seq(Post) /\ Len(pin) <= 1
    /\ range \in [from : Dates, to : Dates]
    /\ step \in Steps
    /\ total \in Nat /\ left \in Nat /\ right \in Int /\ startIndex \in Nat
    /\ pool \subseteq Chunk
    /\ DOMAIN got \subseteq Nat
    /\ \A o \in DOMAIN got : got[o].count \in Nat /\ got[o].items \in Seq(Post)
    /\ answer \subseteq Post
    /\ lastId \in Nat /\ counted \in 0 .. lastId /\ deleted \in Nat /\ faults \in Nat
    /\ dropped \in BOOLEAN /\ split \in BOOLEAN

Fault == faults < MaxFaults /\ faults' = faults + 1

------------------------------------------------------------------------------
(* The execute pool.                                                       *)

\* chunks(): consecutive pieces, the last one possibly shorter.
Pieces(seq, size) ==
    {[calls |-> SubSeq(seq, size * k + 1, IF size * (k + 1) < Len(seq) THEN size * (k + 1)
                                          ELSE Len(seq)),
      size |-> size, error |-> "none"] : k \in 0 .. ((Len(seq) - 1) \div size)}

Ask(offsets) ==
    /\ pool' = Pieces(offsets, CallsPerExecute)
    /\ got' = <<>>

\* The wall from its last offset to its first.
Shown == wall \o pin

\* wall.get(offset, count): the posts from there on, the newest first.
WallGet(offset, count) ==
    LET size == IF offset + count < Len(Shown) THEN count
                ELSE IF offset < Len(Shown) THEN Len(Shown) - offset ELSE 0
    IN  [count |-> Len(Shown), items |-> [i \in 1 .. size |-> Shown[Len(Shown) - offset - i + 1]]]

\* An execute VK answers with "too many requests" (6) is repeated by the session
\* after three seconds, until it is answered otherwise: that is no step here.
Waiting(chunk) == chunk \in pool /\ chunk.error = "none"

ClientUnchanged == UNCHANGED <<vk, range, search, answer, counted, deleted>>

\* VK answers an execute; calls it refused are error results and not asked again.
Execute(chunk) ==
    /\ Waiting(chunk)
    /\ pool' = pool \ {chunk}
    /\ \E refused \in SUBSET ToSet(chunk.calls) :
        /\ IF refused = {} THEN UNCHANGED faults ELSE Fault
        /\ got' = [o \in DOMAIN got \cup (ToSet(chunk.calls) \ refused) |->
                    IF o \in DOMAIN got THEN got[o]
                    ELSE WallGet(o, IF step = "pages" THEN PageSize ELSE 1)]
        /\ dropped' = (dropped \/ refused # {})
    /\ UNCHANGED <<step, split>>
    /\ ClientUnchanged

\* An exception without arguments, as of a timeout, becomes {}, which is taken for
\* no error: the calls are neither answered nor tried again.
ExecuteLost(chunk) ==
    /\ Waiting(chunk)
    /\ Fault
    /\ pool' = pool \ {chunk}
    /\ dropped' = TRUE
    /\ UNCHANGED <<step, got, split>>
    /\ ClientUnchanged

\* VK refuses the execute as a whole, because the answer would be too large as
\* often as it likes.
ExecuteFail(chunk) ==
    /\ Waiting(chunk)
    /\ \E error \in Errors \ {"none"} :
        /\ IF error = "too large" THEN UNCHANGED faults ELSE Fault
        /\ pool' = (pool \ {chunk}) \cup {[chunk EXCEPT !.error = error]}
    /\ UNCHANGED <<step, got, dropped, split>>
    /\ ClientUnchanged

\* When all have ended, the failed ones are tried again: the size of the chunks a
\* failed one is cut into.
Again(chunk) == IF chunk.error = "too large" THEN chunk.size \div 2 ELSE chunk.size

RoundOver == pool # {} /\ \A chunk \in pool : chunk.error # "none"

\* handle_error reads the error as a dict, and chunks() has no chunks of size 0:
\* either raises, out of the pool and out of the request.
Hopeless(chunk) == chunk.error = "no dict" \/ Again(chunk) = 0

Retry ==
    /\ RoundOver
    /\ ~ \E chunk \in pool : Hopeless(chunk)
    /\ pool' = UNION {Pieces(chunk.calls, Again(chunk)) : chunk \in pool}
    /\ split' = (split \/ \E chunk \in pool : chunk.error = "too large")
    /\ UNCHANGED <<step, got, dropped, faults>>
    /\ ClientUnchanged

PoolFail ==
    /\ RoundOver
    /\ \E chunk \in pool : Hopeless(chunk)
    /\ step' = "failed"
    /\ pool' = {}
    /\ UNCHANGED <<got, dropped, split, faults>>
    /\ ClientUnchanged

------------------------------------------------------------------------------
(* The client.                                                             *)

Answered(s) == step = s /\ pool = {}

Finish(posts) ==
    /\ step' = "done"
    /\ answer' = posts
    /\ UNCHANGED <<search, calls>>

\* The link is no group, or VK refused to say: the result is empty.
FindNothing == step' = "nothing" /\ UNCHANGED <<search, calls, answer>>

Resolved ==
    /\ Answered("resolve")
    /\ \/ /\ 0 \in DOMAIN got
          /\ step' = "info"
          /\ Ask(<<0>>)
          /\ UNCHANGED <<search, answer>>
       \/ FindNothing
    /\ UNCHANGED <<vk, range, history, faults>>

Informed ==
    /\ Answered("info")
    /\ IF 0 \in DOMAIN got
       THEN step' = "count" /\ Ask(<<0>>) /\ UNCHANGED <<search, answer>>
       ELSE FindNothing
    /\ dropped' = FALSE /\ split' = FALSE
    /\ UNCHANGED <<vk, range, counted, deleted, faults>>

Mid(l, r) == (l + r) \div 2

SearchFor(s, count) ==
    /\ step' = s
    /\ left' = 0
    /\ right' = count - 1
    /\ Ask(<<Mid(0, count - 1)>>)

\* A count that could not be got is 0, as if the wall were empty.
Count == IF 0 \in DOMAIN got THEN got[0].count ELSE 0

Counted ==
    /\ Answered("count")
    /\ IF Count = 0
       THEN Finish({})
       ELSE /\ total' = Count
            /\ SearchFor("start", Count)
            /\ UNCHANGED <<startIndex, answer>>
    /\ counted' = lastId /\ deleted' = 0
    /\ UNCHANGED <<vk, range, dropped, split, faults>>

\* The date of the post at mid, or 0: the call was refused, or no post is there.
Probe ==
    LET mid == Mid(left, right) IN
    IF mid \in DOMAIN got /\ got[mid].items # <<>> THEN Last(got[mid].items).at ELSE 0

\* The first search goes to the last post that is not before the range, the second
\* to the first that is not after it.  A call without a date counts as too old in
\* the first, as too new in the second.
Narrow ==
    IF step = "start" THEN Probe = 0 \/ Probe < range.from
    ELSE Probe # 0 /\ Probe <= range.to

NextRight == IF Narrow THEN Mid(left, right) - 1 ELSE right

\* Mutant: the probed offset remains in the interval.
NextLeftMid == IF Narrow THEN left ELSE Mid(left, right)

NextLeft == IF Narrow THEN left ELSE Mid(left, right) + 1

\* A post of the very second that is looked for ends the search.
Hit == Probe = (IF step = "start" THEN range.from ELSE range.to)

Over == Hit \/ NextLeft > NextRight

\* Mutant: the last offset that is not before the range, in place of the next.
FoundInside == IF Hit THEN Mid(left, right)
               ELSE IF NextLeft > 0 THEN NextLeft - 1 ELSE 0

Found == IF Hit THEN Mid(left, right)
         ELSE IF NextLeft < total THEN NextLeft ELSE NextRight

SearchOn ==
    /\ step \in Searches /\ pool = {}
    /\ ~ Over
    /\ left' = NextLeft
    /\ right' = NextRight
    /\ Ask(<<Mid(NextLeft, NextRight)>>)
    /\ UNCHANGED <<vk, range, step, total, startIndex, answer, history, faults>>

StartFound ==
    /\ Answered("start")
    /\ Over
    /\ startIndex' = Found
    /\ SearchFor("end", total)
    /\ UNCHANGED <<vk, range, total, answer, history, faults>>

\* Mutant: range(end, start, PageSize).
OffsetsShort(start, end) ==
    [i \in 1 .. ((start - end + PageSize - 1) \div PageSize) |-> end + PageSize * (i - 1)]

\* range(end, start + 1, PageSize), after the two have been put in order.
Offsets(start, end) ==
    LET newer == IF end > start THEN start ELSE end
        older == IF end > start THEN end ELSE start
    IN  [i \in 1 .. ((older - newer) \div PageSize + 1) |-> newer + PageSize * (i - 1)]

EndFound ==
    /\ Answered("end")
    /\ Over
    /\ step' = "pages"
    /\ Ask(Offsets(startIndex, Found))
    /\ UNCHANGED <<vk, range, search, answer, history, faults>>

\* The posts of all pages that were answered, each once, those outside of the range
\* left out.
Posts == {p \in UNION {ToSet(got[o].items) : o \in DOMAIN got} :
            range.from <= p.at /\ p.at <= range.to}

Collected ==
    /\ Answered("pages")
    /\ Finish(Posts)
    /\ UNCHANGED <<vk, range, history, faults>>

------------------------------------------------------------------------------
(* VK.                                                                     *)

Active == step \notin {"done", "nothing", "failed"}

Standing == ToSet(wall) \cup ToSet(pin)

\* A post is made, not earlier than the newest.  What happens before the posts are
\* counted makes no difference to the fetch: Init has every wall already.
MakePost ==
    /\ Active
    /\ lastId - counted + deleted < MaxChanges
    /\ step \notin {"resolve", "info", "count"}
    /\ \E d \in Dates :
        /\ \A p \in Standing : p.at <= d
        /\ wall' = Append(wall, [id |-> lastId + 1, at |-> d])
    /\ lastId' = lastId + 1
    /\ UNCHANGED <<pin, range, step, search, calls, answer, history, faults>>

DeletePost ==
    /\ Active
    /\ lastId - counted + deleted < MaxChanges
    /\ step \notin {"resolve", "info", "count"}
    /\ \/ (\E i \in DOMAIN wall : wall' = RemoveAt(wall, i)) /\ UNCHANGED pin
       \/ pin # <<>> /\ pin' = <<>> /\ UNCHANGED wall
    /\ deleted' = deleted + 1
    /\ UNCHANGED <<lastId, range, step, search, calls, answer, counted, dropped, split, faults>>

------------------------------------------------------------------------------

Init ==
    /\ \E n \in 0 .. MaxPosts : \E at \in [1 .. n -> Dates] :
        /\ \A i, j \in 1 .. n : i < j => at[i] <= at[j]
        /\ LET posts == [i \in 1 .. n |-> [id |-> i, at |-> at[i]]]
           IN  \/ wall = posts /\ pin = <<>>
               \/ /\ n <= MaxPinned
                  /\ \E k \in 1 .. n : wall = RemoveAt(posts, k) /\ pin = <<posts[k]>>
        /\ lastId = n
    /\ range \in {r \in [from : Dates, to : Dates] : r.from <= r.to}
    /\ step = "resolve"
    /\ pool = Pieces(<<0>>, CallsPerExecute)
    /\ got = <<>>
    /\ total = 0 /\ left = 0 /\ right = 0 /\ startIndex = 0
    /\ answer = {}
    /\ counted = 0 /\ deleted = 0 /\ split = FALSE /\ faults = 0
    /\ dropped = FALSE

Pool == \/ \E chunk \in pool : Execute(chunk) \/ ExecuteLost(chunk) \/ ExecuteFail(chunk)
        \/ Retry \/ PoolFail

Client == \/ Resolved \/ Informed \/ Counted
          \/ SearchOn \/ StartFound \/ EndFound \/ Collected

Next == Pool \/ Client \/ MakePost \/ DeletePost

Spec == Init /\ [][Next]_vars

\* VK answers or refuses in the end (the session has a timeout), and the event loop
\* goes on.
FairSpec == Spec /\ WF_vars(Pool) /\ WF_vars(Client)

------------------------------------------------------------------------------
\* The posts a request is owed: those of the range that were on the wall when they
\* were counted and still are.
Owed == {p \in Standing : p.id <= counted /\ range.from <= p.at /\ p.at <= range.to}

Missing == Owed \ answer

\* Another post bears the date of p, which is the beginning or the end of the range.
Tied(p) == /\ p.at \in {range.from, range.to}
           /\ \E q \in Standing \ {p} : q.at = p.at

\* p is pinned before a newer post, which is at the end of the range or after it.
OutOfOrder(p) == /\ p \in ToSet(pin)
                 /\ \E q \in ToSet(wall) : q.at > p.at /\ q.at >= range.to

Quiet == lastId = counted /\ deleted = 0

\* While the wall does not change and VK refuses no call, every post of the range is
\* answered, however often an execute fails and is tried again, with two exceptions:
\* of several posts of the very second at which the range begins or ends some may be
\* missing, and so may a pinned post if a newer one is not before the end of the range,
\* for it stands at offset 0 and the second search stops behind that.
RangeAnswered ==
    step = "done" /\ Quiet /\ ~ dropped => \A p \in Missing : Tied(p) \/ OutOfOrder(p)

\* One post made meanwhile shifts the wall by one, and is made up for by the post
\* behind the range the first search returns, if there is one, no post has the
\* date of a bound, none is pinned, and all pages come from one execute.
OneNewPostAbsorbed ==
    /\ step = "done" /\ ~ dropped /\ ~ split
    /\ pin = <<>>
    /\ lastId <= counted + 1 /\ deleted = 0
    /\ total <= PageSize * CallsPerExecute
    /\ \E p \in ToSet(wall) : p.at < range.from
    /\ \A p \in ToSet(wall) : p.at \notin {range.from, range.to}
    => Missing = {}

(* The inductive invariant behind both.                                    *)

\* Posts by their place on the wall, the oldest first, do not shift when a post is
\* made: what stands at an offset is among those Shift places from the one that
\* stood there when the posts were counted.
Shift == lastId - counted
At(i) == wall[i].at

WallInv ==
    /\ \A i \in DOMAIN wall : wall[i].id <= lastId
    /\ pin # <<>> => pin[1].id <= lastId /\ \A i \in DOMAIN wall : wall[i].id # pin[1].id
    /\ \A i, j \in DOMAIN wall : i < j => At(i) <= At(j) /\ wall[i].id < wall[j].id
    /\ range.from <= range.to

\* Nothing but refused calls and deleted posts spoils the bookkeeping below.
Sound == ~ dropped /\ deleted = 0

Counting == {"resolve", "info", "count"}

CountInv ==
    /\ step \in Counting => deleted = 0
    /\ step \in {"done", "nothing", "failed"} => pool = {}
    /\ step \in Searches \cup {"pages"} => total > 0
    /\ Sound /\ step \in Searches \cup {"pages"} =>
        /\ Len(Shown) = total + Shift
        /\ \A i \in DOMAIN wall : wall[i].id <= counted => i <= total

\* The bound that a search looks for, and what it has found out: the posts newer
\* than its interval are after the bound, those older are before it.
Bound == IF step = "start" THEN range.from ELSE range.to

\* Nothing but the pinned post is before offset 1.
PinAfter(date, offset) == offset = 1 /\ pin # <<>> => pin[1].at > date

SearchInv ==
    step \in Searches =>
        /\ 0 <= left /\ left <= right /\ right < total
        /\ Sound =>
            /\ \A i \in DOMAIN wall : i > total + Shift - left => At(i) > Bound
            /\ \A i \in DOMAIN wall : i < total - right => At(i) < Bound
            /\ PinAfter(Bound, left)

\* One of the posts that stand, or have stood, at the offset has the date.
Dated(offset, date) ==
    \E i \in total - offset .. total + Shift - offset : i \in DOMAIN wall /\ At(i) = date

\* What the two searches return: the first one 0, too, when the pinned post is not
\* after the beginning of the range.
IsStart(offset) ==
    \/ offset = total - 1
    \/ pin # <<>> /\ offset = 0 /\ \A i \in DOMAIN wall : i < total - 1 => At(i) < range.from
    \/ \A i \in DOMAIN wall : i <= total - offset => At(i) < range.from
    \/ Dated(offset, range.from)

IsEnd(offset) ==
    \/ /\ \A i \in DOMAIN wall : i > total + Shift - offset => At(i) > range.to
       /\ PinAfter(range.to, offset)
    \/ Dated(offset, range.to)

StartInv ==
    step \in {"end", "pages"} => startIndex < total /\ (Sound => IsStart(startIndex))

\* The calls of the step that are answered or will be.
Asked == DOMAIN got \cup UNION {ToSet(chunk.calls) : chunk \in pool}

CallInv ==
    ~ dropped =>
        /\ step \in Counting => Asked = {0}
        /\ step \in Searches => Asked = {Mid(left, right)}
        /\ step = "pages" => \E e \in 0 .. total - 1 :
            Asked = ToSet(Offsets(startIndex, e)) /\ (deleted = 0 => IsEnd(e))

\* The answers of a step, as far as the wall has not changed.
GotInv ==
    Sound =>
        /\ step = "count" => \A o \in DOMAIN got : got[o].count = Len(Shown)
        /\ step \in Searches => \A o \in DOMAIN got :
            /\ o = 0 /\ pin # <<>> => got[o].items = pin
            /\ o > 0 \/ pin = <<>> =>
                got[o].items # <<>> /\ Dated(o, Last(got[o].items).at)
        /\ step = "pages" /\ Quiet => \A o \in DOMAIN got : got[o] = WallGet(o, PageSize)

\* What OneNewPostAbsorbed asks of the wall and of the pool.
OneNewPost ==
    /\ Sound /\ ~ split
    /\ pin = <<>>
    /\ lastId <= counted + 1
    /\ total <= PageSize * CallsPerExecute
    /\ \E p \in ToSet(wall) : p.at < range.from
    /\ \A p \in ToSet(wall) : p.at \notin {range.from, range.to}

\* The pages are all to be asked for in one execute, or all answered by one.
OneExecuteInv ==
    step = "pages" /\ OneNewPost =>
        \/ /\ DOMAIN got = {}
           /\ \E chunk \in pool :
               /\ pool = {chunk}
               /\ chunk.size = CallsPerExecute
               /\ Len(chunk.calls) \in 1 .. CallsPerExecute
        \/ pool = {} /\ Owed \subseteq UNION {ToSet(got[o].items) : o \in DOMAIN got}

\* What holds of a fetch after every call and every change to the wall.
IInv ==
    /\ TypeOK /\ WallInv /\ CountInv /\ SearchInv /\ StartInv
    /\ CallInv /\ GotInv /\ OneExecuteInv /\ RangeAnswered /\ OneNewPostAbsorbed

(* Liveness.                                                               *)

\* A fetch ends, whatever VK answers and however posts shift under the searches, if
\* other errors than 13 come to an end; those end with the halving.
FetchEnds == <>(step \in {"done", "nothing", "failed"})
==============================================================================
