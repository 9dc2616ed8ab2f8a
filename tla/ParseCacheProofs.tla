--------------------------- MODULE ParseCacheProofs ---------------------------
(***************************************************************************)
(* What cached_periods and Kafka promise about the posts of a wall, for    *)
(* every set of groups and requests, every horizon, and any number of      *)
(* requests, edits and failures.                                           *)
(*                                                                         *)
(* Which periods are recorded does not depend on MissingPeriods: whichever *)
(* gaps a request sets out for, a recorded period can be accounted for.    *)
(* So in the first part the types of the fields that only choose the gaps, *)
(* or only feed the answer, are left open.  That the gaps are the right    *)
(* ones, and the answers complete, is proved behind it.                    *)
(***************************************************************************)
EXTENDS ParseCache, LastOffset, FiniteSetTheorems, FunctionTheorems, SequenceTheorems,
        TLAPS

\* A request whose fields of no account have their values in G.
Shape(G) ==
    [step : Steps, group : Groups \cup {None}, range : G, all : G,
     gaps : G, cached : G, fresh : G,
     hand : SUBSET Seen, todo : SUBSET Seen, post : Seen \cup {None},
     found : BOOLEAN, lost : SUBSET Times]

Shaped == \E G : req \in [Requests -> Shape(G)]

Types ==
    /\ now \in 0 .. Horizon
    /\ wall \in [Groups -> [Times -> Nat]]
    /\ rows \in [Times -> Row \cup {None}]
    /\ periods = [g \in Groups |-> periods[g]]
    /\ published \in [Groups -> SUBSET Times]
    /\ missed \in [Groups -> SUBSET Times]
    /\ faults \in Nat
    /\ Shaped
    /\ \A r \in Requests : req[r].step # "idle" => req[r].group \in Groups

\* The inductive invariant.
Core ==
    /\ Types /\ RowInv /\ PeriodInv
    /\ \A r \in Requests : RequestInv(r)
    /\ SavedArePublished

\* What every step does: time goes on, posts neither appear in the past nor
\* vanish, and a row stays that of its post.
Grows ==
    /\ now <= now'
    /\ \A g \in Groups, t \in Times : t <= now => (wall'[g][t] = 0 <=> wall[g][t] = 0)
    /\ \A id \in Times : rows[id] # None =>
        /\ rows'[id] # None
        /\ rows'[id].group = rows[id].group
        /\ rows'[id].at = rows[id].at

------------------------------------------------------------------------------
(* Facts about the operators of the model.                                 *)

\* A larger set of values for the open fields does no harm.
LEMMA ShapeGrows ==
    ASSUME NEW G, NEW H, G \subseteq H PROVE Shape(G) \subseteq Shape(H)
BY DEF Shape

\* A request may become anything that has a shape.
LEMMA BecomesShaped ==
    ASSUME Shaped, NEW r \in Requests, NEW H, NEW s \in Shape(H), Becomes(r, s)
    PROVE  Shaped' /\ req' = [req EXCEPT ![r] = s]
<1>1. PICK G : req \in [Requests -> Shape(G)]
  BY DEF Shaped
<1>2. Shape(G) \subseteq Shape(G \cup H) /\ Shape(H) \subseteq Shape(G \cup H)
  BY ShapeGrows
<1>3. req' = [req EXCEPT ![r] = s]
  BY DEF Becomes
<1>4. req' \in [Requests -> Shape(G \cup H)]
  BY <1>1, <1>2, <1>3
<1> QED
  BY <1>3, <1>4 DEF Shaped

LEMMA DateOf ==
    ASSUME NEW posts, NEW post \in posts PROVE post[1] \in Dates(posts)
BY DEF Dates

\* On any wall, a post that has been made has an id the table can hold.
LEMMA IdType ==
    ASSUME NEW w, NEW t \in Times, w[t] # 0
    PROVE  Cardinality({u \in 1 .. t : w[u] # 0}) \in Times
<1> DEFINE S == {u \in 1 .. t : w[u] # 0}
<1>1. t \in Nat /\ 1 <= t /\ t <= Horizon /\ Horizon \in Nat
  BY ParseAssumption DEF Times
<1>2. IsFiniteSet(1 .. t) /\ Cardinality(1 .. t) = t
  BY <1>1, FS_Interval
<1>3. IsFiniteSet(S) /\ Cardinality(S) <= t
  <2>1. S \in SUBSET (1 .. t)
    OBVIOUS
  <2> QED
    BY <1>2, <2>1, FS_Subset
<1>4. Cardinality(S) \in Nat /\ Cardinality(S) # 0
  <2>1. t \in S
    BY <1>1
  <2>2. S # {}
    BY <2>1
  <2> QED
    BY <1>3, <2>2, FS_CardinalityType, FS_EmptySet
<1>5. Cardinality(S) \in 1 .. Horizon
  BY <1>1, <1>3, <1>4
<1> QED
  BY <1>5 DEF Times

LEMMA IdOfType ==
    ASSUME NEW g, NEW t \in Times
    PROVE  /\ wall[g][t] # 0 => IdOf(g, t) \in Times
           /\ wall'[g][t] # 0 => IdOf(g, t)' \in Times
BY IdType DEF IdOf

\* The ids of posts never change.
LEMMA IdOfStable ==
    ASSUME Types, Grows, NEW g \in Groups, NEW t \in Times, t <= now
    PROVE  IdOf(g, t)' = IdOf(g, t)
<1>1. \A u \in 1 .. t : u \in Times /\ u <= now
  BY ParseAssumption DEF Types, Times
<1>2. {u \in 1 .. t : wall'[g][u] # 0} = {u \in 1 .. t : wall[g][u] # 0}
  BY <1>1 DEF Grows
<1> QED
  BY <1>2 DEF IdOf

\* What is stored stays stored.
LEMMA StoredStays ==
    ASSUME Types, RowInv, Grows, NEW g \in Groups, NEW t \in Times, Stored(g, t)
    PROVE  Stored(g, t)'
<1>1. wall[g][t] # 0 /\ t <= now
  BY DEF Stored, RowInv
<1>2. IdOf(g, t) \in Times
  BY <1>1, IdOfType
<1>3. IdOf(g, t)' = IdOf(g, t)
  BY <1>1, IdOfStable
<1>4. wall'[g][t] # 0
  BY <1>1 DEF Grows
<1> QED
  BY <1>2, <1>3, <1>4 DEF Stored, IsRowOf, Grows

------------------------------------------------------------------------------
(* Types, and what grows.                                                  *)

LEMMA InitCore == Init => Core
<1> SUFFICES ASSUME Init PROVE Core
  OBVIOUS
<1>1. Shaped
  <2> DEFINE G == {[from |-> 1, to |-> 1], FALSE, <<>>, {}}
  <2>1. Idle \in Shape(G)
    BY DEF Idle, Shape, Steps
  <2>2. req \in [Requests -> Shape(G)]
    BY <2>1 DEF Init
  <2> QED
    BY <2>2 DEF Shaped
<1>2. \A r \in Requests : req[r].step = "idle"
  BY DEF Init, Idle
<1>3. Types
  BY <1>1, <1>2, ParseAssumption DEF Init, Types
<1>4. RowInv /\ PeriodInv
  BY DEF Init, RowInv, PeriodInv
<1>5. \A r \in Requests : RequestInv(r)
  BY <1>2 DEF RequestInv, HandInv, GapInv, SavedInv, InWork, Saving, Steps
<1>6. SavedArePublished
  BY DEF Init, SavedArePublished, Stored
<1> QED
  BY <1>3, <1>4, <1>5, <1>6 DEF Core

\* A step of a request leaves every request shaped, and changes no other.
LEMMA RequestShaped ==
    ASSUME Types, NEW r \in Requests, HandInv(r), RequestStep(r)
    PROVE  /\ Shaped'
           /\ req'[r].step # "idle" => req'[r].group \in Groups
           /\ \A q \in Requests \ {r} : req'[q] = req[q]
<1>1. PICK G : req \in [Requests -> Shape(G)]
  BY DEF Types, Shaped
<1>2. req[r] \in Shape(G) /\ Shaped /\ (req[r].step # "idle" => req[r].group \in Groups)
  BY <1>1 DEF Types, Shaped
<1> DEFINE Fine(s) == (\E H : s \in Shape(H)) /\ (s.step # "idle" => s.group \in Groups)
<1>3. ASSUME NEW s, Fine(s), Becomes(r, s)
      PROVE  /\ Shaped'
             /\ req'[r].step # "idle" => req'[r].group \in Groups
             /\ \A q \in Requests \ {r} : req'[q] = req[q]
  <2>1. PICK H : s \in Shape(H)
    BY <1>3
  <2>2. Shaped' /\ req' = [req EXCEPT ![r] = s]
    BY <1>2, <1>3, <2>1, BecomesShaped
  <2> QED
    BY <1>1, <1>3, <2>2
<1> HIDE DEF Fine
<1>4. CASE Start(r)
  <2>1. PICK g \in Groups, range \in Period, all \in BOOLEAN :
          Becomes(r, [Idle EXCEPT !.step = "check", !.group = g, !.range = range, !.all = all])
    BY <1>4 DEF Start
  <2> DEFINE s == [Idle EXCEPT !.step = "check", !.group = g, !.range = range, !.all = all]
  <2>2. s \in Shape({range, all, <<>>, {}}) /\ s.group \in Groups
    BY DEF Shape, Idle, Steps
  <2>3. Fine(s)
    BY <2>2 DEF Fine
  <2> QED
    BY <1>3, <2>1, <2>3
<1>5. CASE Check(r)
  <2>1. PICK gaps : Becomes(r, [req[r] EXCEPT !.step = "read", !.all = FALSE, !.gaps = gaps])
    BY <1>5 DEF Check
  <2>2. [req[r] EXCEPT !.step = "read", !.all = FALSE, !.gaps = gaps] \in Shape(G \cup {gaps, FALSE})
    BY <1>2 DEF Shape, Steps
  <2>3. Fine([req[r] EXCEPT !.step = "read", !.all = FALSE, !.gaps = gaps])
    BY <1>2, <1>5, <2>2 DEF Fine, Shape, Check
  <2> QED
    BY <1>3, <2>1, <2>3
<1>6. CASE ReadCached(r)
  <2>1. PICK cached : Becomes(r, [req[r] EXCEPT !.step = "fetch", !.cached = cached])
    BY <1>6 DEF ReadCached
  <2>2. [req[r] EXCEPT !.step = "fetch", !.cached = cached] \in Shape(G \cup {cached})
    BY <1>2 DEF Shape, Steps
  <2>3. Fine([req[r] EXCEPT !.step = "fetch", !.cached = cached])
    BY <1>2, <1>6, <2>2 DEF Fine, Shape, ReadCached
  <2> QED
    BY <1>3, <2>1, <2>3
<1>7. CASE Fetch(r)
  <2> DEFINE g == req[r].group
             gap == Inside(Head(req[r].gaps))
             there == {t \in gap : wall[g][t] # 0}
             Posts(got) == {<<t, wall[g][t]>> : t \in got}
             lost(got) == req[r].lost \cup (there \ got) \cup {t \in gap : t > now}
             Fetched(got) == [req[r] EXCEPT !.step = "group", !.hand = Posts(got),
                                !.fresh = req[r].fresh \cup Posts(got), !.lost = lost(got)]
  <2>1. PICK got \in SUBSET there : Becomes(r, Fetched(got))
    BY <1>7 DEF Fetch, FetchMerging, Flattened, Merged
  <2>2. g \in Groups /\ gap \subseteq Times
    BY <1>2, <1>7 DEF Fetch, FetchMerging, Flattened, Merged, Inside
  <2>3. Posts(got) \in SUBSET Seen /\ lost(got) \in SUBSET Times
    <3>1. \A t \in got : t \in Times /\ wall[g][t] \in Nat
      BY <2>2 DEF Types
    <3>2. req[r].lost \in SUBSET Times
      BY <1>2 DEF Shape
    <3> QED
      BY <2>2, <3>1, <3>2 DEF Seen
  <2> HIDE DEF Posts, lost
  <2>4. Fetched(got) \in Shape(G \cup {req[r].fresh \cup Posts(got)}) /\ Fetched(got).group \in Groups
    BY <1>2, <2>2, <2>3 DEF Shape, Steps
  <2>5. Fine(Fetched(got))
    BY <2>4 DEF Fine
  <2> QED
    BY <1>3, <2>1, <2>5
<1>8. CASE FetchNothing(r)
  <2> DEFINE s == [req[r] EXCEPT !.gaps = Tail(@), !.lost = @ \cup Inside(Head(req[r].gaps))]
  <2>1. Inside(Head(req[r].gaps)) \subseteq Times
    BY DEF Inside
  <2>2. s \in Shape(G \cup {Tail(req[r].gaps)}) /\ s.step = req[r].step /\ s.group = req[r].group
    BY <1>2, <2>1 DEF Shape
  <2>3. Fine(s)
    BY <1>2, <2>2 DEF Fine
  <2> QED
    BY <1>3, <1>8, <2>3 DEF FetchNothing
<1>9. CASE LookForGroup(r)
  <2> DEFINE s == [req[r] EXCEPT !.step = "groupRow", !.found = groupRow[req[r].group] # "absent"]
  <2>1. s \in Shape(G) /\ s.group = req[r].group
    BY <1>2 DEF Shape, Steps
  <2>2. Fine(s)
    BY <1>2, <1>9, <2>1 DEF Fine, LookForGroup
  <2> QED
    BY <1>3, <1>9, <2>2 DEF LookForGroup
<1>10. ASSUME EndSave(r), req[r].step # "idle"
       PROVE  /\ Shaped'
              /\ req'[r].step # "idle" => req'[r].group \in Groups
              /\ \A q \in Requests \ {r} : req'[q] = req[q]
  <2> DEFINE s == [req[r] EXCEPT !.step = "publish", !.todo = {}, !.post = None, !.found = FALSE]
  <2>1. s \in Shape(G) /\ s.group = req[r].group
    BY <1>2 DEF Shape, Steps
  <2>2. Fine(s)
    BY <1>2, <1>10, <2>1 DEF Fine
  <2> QED
    BY <1>3, <1>10, <2>2 DEF EndSave
<1>11. CASE SaveGroup(r)
  <2> DEFINE s == [req[r] EXCEPT !.step = "posts", !.todo = req[r].hand, !.found = FALSE]
  <2>1. s \in Shape(G) /\ s.group = req[r].group
    BY <1>2 DEF Shape, Steps
  <2>2. Fine(s)
    BY <1>2, <1>11, <2>1 DEF Fine, SaveGroup
  <2> QED
    BY <1>3, <1>10, <1>11, <2>2 DEF SaveGroup, Conflict
<1>12. CASE LookForPost(r)
  <2> DEFINE found(post) == rows[IdOf(req[r].group, post[1])] # None
             s(post) == [req[r] EXCEPT !.step = "postRow", !.post = post, !.found = found(post)]
  <2>1. PICK post \in req[r].todo : Becomes(r, s(post))
    BY <1>12 DEF LookForPost
  <2>2. found(post) \in BOOLEAN
    OBVIOUS
  <2> HIDE DEF found
  <2>3. s(post) \in Shape(G) /\ s(post).group = req[r].group
    BY <1>2, <2>2 DEF Shape, Steps
  <2>4. Fine(s(post))
    BY <1>2, <1>12, <2>3 DEF Fine, LookForPost
  <2> QED
    BY <1>3, <2>1, <2>4
<1>13. CASE SavePost(r)
  <2> DEFINE s(lost) == [req[r] EXCEPT !.step = "posts", !.todo = @ \ {req[r].post},
                           !.post = None, !.found = FALSE, !.lost = lost]
             t == req[r].post[1]
  <2>1. req[r].step = "postRow"
    BY <1>13 DEF SavePost
  <2>2. EndSave(r) \/ Becomes(r, s(req[r].lost)) \/ Becomes(r, s(req[r].lost \cup {t}))
    BY <1>13 DEF SavePost, Conflict
  <2>3. ASSUME NEW lost \in SUBSET Times PROVE Fine(s(lost))
    <3>1. s(lost) \in Shape(G) /\ s(lost).group = req[r].group
      BY <1>2, <2>3 DEF Shape, Steps
    <3> QED
      BY <1>2, <2>1, <3>1 DEF Fine
  <2>4. req[r].lost \in SUBSET Times /\ t \in Times
    BY <1>2, <2>1 DEF HandInv, InWork, Steps, Shape, Seen
  <2>5. req[r].lost \cup {t} \in SUBSET Times
    BY <2>4
  <2>6. CASE EndSave(r)
    BY <1>10, <2>1, <2>6
  <2>7. CASE Becomes(r, s(req[r].lost))
    BY <1>3, <2>3, <2>4, <2>7
  <2>8. CASE Becomes(r, s(req[r].lost \cup {t}))
    BY <1>3, <2>3, <2>5, <2>8
  <2> QED
    BY <2>2, <2>6, <2>7, <2>8
<1>14. CASE SavePeriod(r)
  BY <1>10, <1>14 DEF SavePeriod, Record
<1>15. CASE SaveFail(r)
  BY <1>10, <1>15 DEF SaveFail, Saving, InWork
<1>16. ASSUME Publish(r) \/ PublishFail(r)
       PROVE  /\ Shaped'
              /\ req'[r].step # "idle" => req'[r].group \in Groups
              /\ \A q \in Requests \ {r} : req'[q] = req[q]
  <2> DEFINE s == [req[r] EXCEPT !.step = "fetch", !.gaps = Tail(@), !.hand = {}]
  <2>1. s \in Shape(G \cup {Tail(req[r].gaps)}) /\ s.group = req[r].group
    BY <1>2 DEF Shape, Steps
  <2>2. Becomes(r, s) /\ req[r].step = "publish"
    BY <1>16 DEF Publish, PublishFail, PublishOnly
  <2>3. Fine(s)
    BY <1>2, <2>1, <2>2 DEF Fine
  <2> QED
    BY <1>3, <2>2, <2>3
<1>17. CASE Answer(r)
  <2> DEFINE s == [req[r] EXCEPT !.step = "done"]
  <2>1. s \in Shape(G) /\ s.group = req[r].group
    BY <1>2 DEF Shape, Steps
  <2>2. Fine(s)
    BY <1>2, <1>17, <2>1 DEF Fine, Answer
  <2> QED
    BY <1>3, <1>17, <2>2 DEF Answer
<1>18. CASE Abort(r)
  <2>1. Idle \in Shape({[from |-> 1, to |-> 1], FALSE, <<>>, {}}) /\ Idle.step = "idle"
    BY DEF Idle, Shape, Steps
  <2>2. Fine(Idle)
    BY <2>1 DEF Fine
  <2> QED
    BY <1>3, <1>18, <2>2 DEF Abort
<1> QED
  BY <1>4, <1>5, <1>6, <1>7, <1>8, <1>9, <1>11, <1>12, <1>13, <1>14, <1>15, <1>16,
     <1>17, <1>18 DEF RequestStep

\* The request has done the post in hand, whose id now has this row.
PostDone(r, row) ==
    Becomes(r, [req[r] EXCEPT !.step = "posts", !.todo = @ \ {req[r].post},
                  !.post = None, !.found = FALSE,
                  !.lost = IF IsRowOf(row, req[r].group, req[r].post[1]) THEN @
                           ELSE @ \cup {req[r].post[1]}])

\* What saving a post does: the insert raises and ends the save, or the post's id
\* has a row, that of its post if it had one before, and the post is done.
LEMMA SavePostEffect ==
    ASSUME Types, NEW r \in Requests, HandInv(r), SavedInv(r), SavePost(r),
           NEW g, g = req[r].group, NEW t, t = req[r].post[1]
    PROVE  /\ g \in Groups /\ t \in Times /\ wall[g][t] # 0 /\ IdOf(g, t) \in Times
           /\ req[r].post \in req[r].hand
           /\ \/ EndSave(r) /\ UNCHANGED rows
              \/ \E row \in Row :
                   /\ rows' = [rows EXCEPT ![IdOf(g, t)] = row]
                   /\ rows[IdOf(g, t)] # None =>
                        row.group = rows[IdOf(g, t)].group /\ row.at = rows[IdOf(g, t)].at
                   /\ rows[IdOf(g, t)] = None => row.group = g /\ row.at = t
                   /\ PostDone(r, row)
<1>1. PICK G : req \in [Requests -> Shape(G)]
  BY DEF Types, Shaped
<1>2. req[r].step = "postRow" /\ g \in Groups
  BY DEF SavePost, Types
<1>3. req[r].post \in req[r].hand /\ req[r].hand \subseteq Seen /\ wall[g][t] # 0
  BY <1>1, <1>2 DEF HandInv, InWork, Steps, Shape
<1>4. t \in Times /\ req[r].post[2] \in Nat
  BY <1>3 DEF Seen
<1>5. IdOf(g, t) \in Times
  BY <1>2, <1>3, <1>4, IdOfType
<1> DEFINE id == IdOf(g, t)
           inserted == [group |-> g, at |-> t, rev |-> req[r].post[2]]
           updated == [rows[id] EXCEPT !.rev = req[r].post[2]]
           row == IF req[r].found THEN updated ELSE inserted
<1>6. inserted \in Row
  BY <1>2, <1>4 DEF Row
<1>7. ASSUME rows[id] # None PROVE updated \in Row /\ updated.group = rows[id].group /\ updated.at = rows[id].at
  <2>1. rows[id] \in Row
    BY <1>5, <1>7 DEF Types
  <2> QED
    BY <1>4, <2>1 DEF Row
<1>8. req[r].found => rows[id] # None
  BY <1>2 DEF SavedInv
<1>9. CASE ~ req[r].found /\ rows[id] # None
  BY <1>2, <1>3, <1>4, <1>5, <1>9 DEF SavePost, Conflict, tables
<1>10. CASE ~ (~ req[r].found /\ rows[id] # None)
  <2>1. /\ rows' = [rows EXCEPT ![id] = row]
        /\ PostDone(r, row)
    BY <1>10 DEF SavePost, PostDone
  <2>2. row \in Row
    BY <1>6, <1>7, <1>8
  <2>3. rows[id] # None => row.group = rows[id].group /\ row.at = rows[id].at
    BY <1>7, <1>10
  <2>4. rows[id] = None => row.group = g /\ row.at = t
    BY <1>8
  <2> HIDE DEF row
  <2> QED
    BY <1>2, <1>3, <1>4, <1>5, <2>1, <2>2, <2>3, <2>4
<1> QED
  BY <1>9, <1>10

LEMMA PostDoneFields ==
    ASSUME Types, NEW r \in Requests, NEW row, PostDone(r, row)
    PROVE  /\ req'[r].step = "posts" /\ req'[r].todo = req[r].todo \ {req[r].post}
           /\ req'[r].group = req[r].group /\ req'[r].gaps = req[r].gaps
           /\ req'[r].hand = req[r].hand
           /\ req[r].lost \subseteq req'[r].lost
           /\ IsRowOf(row, req[r].group, req[r].post[1]) \/ req[r].post[1] \in req'[r].lost
<1>1. PICK G : req \in [Requests -> Shape(G)]
  BY DEF Types, Shaped
<1>2. req[r] \in Shape(G)
  BY <1>1
<1>3. PICK lost : /\ req'[r] = [req[r] EXCEPT !.step = "posts", !.todo = @ \ {req[r].post},
                                  !.post = None, !.found = FALSE, !.lost = lost]
                  /\ req[r].lost \subseteq lost
                  /\ IsRowOf(row, req[r].group, req[r].post[1]) \/ req[r].post[1] \in lost
  <2> DEFINE lost == IF IsRowOf(row, req[r].group, req[r].post[1]) THEN req[r].lost
                     ELSE req[r].lost \cup {req[r].post[1]}
  <2>1. req' = [req EXCEPT ![r] = [req[r] EXCEPT !.step = "posts", !.todo = @ \ {req[r].post},
                                     !.post = None, !.found = FALSE, !.lost = lost]]
    BY DEF PostDone, Becomes
  <2>2. req[r].lost \subseteq lost /\ (IsRowOf(row, req[r].group, req[r].post[1]) \/ req[r].post[1] \in lost)
    OBVIOUS
  <2> HIDE DEF lost
  <2> QED
    BY <1>1, <2>1, <2>2
<1> QED
  BY <1>2, <1>3 DEF Shape

\* Which steps of a request touch which of the other variables.
LEMMA RequestFrame ==
    ASSUME NEW r \in Requests, RequestStep(r)
    PROVE  /\ UNCHANGED <<now, wall>>
           /\ SavePost(r) \/ UNCHANGED rows
           /\ SavePeriod(r) \/ UNCHANGED <<periods, missed>>
           /\ Publish(r) \/ PublishFail(r) \/ UNCHANGED published
           /\ UNCHANGED faults \/ Fault
<1> USE DEF vk, tables
<1>1. CASE Start(r) \/ Check(r) \/ ReadCached(r)
  BY <1>1 DEF Start, Check, ReadCached
<1>2. CASE Fetch(r) \/ FetchNothing(r)
  BY <1>2 DEF Fetch, FetchMerging, Flattened, Merged, FetchNothing
<1>3. CASE LookForGroup(r) \/ SaveGroup(r) \/ LookForPost(r)
  BY <1>3 DEF LookForGroup, SaveGroup, LookForPost, Conflict
<1>4. CASE SavePost(r)
  BY <1>4 DEF SavePost, Conflict
<1>5. CASE SavePeriod(r) \/ SaveFail(r)
  BY <1>5 DEF SavePeriod, SaveFail, Record
<1>6. CASE Publish(r) \/ PublishFail(r)
  BY <1>6 DEF Publish, PublishFail, PublishOnly
<1>7. CASE Answer(r) \/ Abort(r)
  BY <1>7 DEF Answer, Abort
<1> QED
  BY <1>1, <1>2, <1>3, <1>4, <1>5, <1>6, <1>7 DEF RequestStep

LEMMA NextTypes == Core /\ [Next]_vars => Types'
<1> SUFFICES ASSUME Core, [Next]_vars PROVE Types'
  OBVIOUS
<1>1. Types /\ \A r \in Requests : HandInv(r) /\ SavedInv(r)
  BY DEF Core, RequestInv
<1>2. ASSUME UNCHANGED req
      PROVE  Shaped' /\ \A r \in Requests : req'[r].step # "idle" => req'[r].group \in Groups
  BY <1>1, <1>2 DEF Types, Shaped
<1>3. CASE Tick
  <2>1. now' = now + 1 /\ now' \in 0 .. Horizon
    BY <1>1, <1>3, ParseAssumption DEF Tick, Types
  <2>2. PICK posting : wall' = [g \in Groups |->
                         IF g \in posting THEN [wall[g] EXCEPT ![now + 1] = 1] ELSE wall[g]]
    BY <1>3 DEF Tick
  <2>3. \A g \in Groups : wall'[g] \in [Times -> Nat]
    BY <1>1, <2>2 DEF Types
  <2>4. wall' \in [Groups -> [Times -> Nat]]
    BY <2>2, <2>3
  <2> QED
    BY <1>1, <1>2, <1>3, <2>1, <2>4 DEF Tick, Types, tables
<1>4. ASSUME NEW g \in Groups, Age(g) PROVE Types'
  BY <1>1, <1>2, <1>4 DEF Age, Types, vk
<1>5. ASSUME NEW g \in Groups, NEW t \in Times, Edit(g, t) PROVE Types'
  BY <1>1, <1>2, <1>5 DEF Edit, Types, tables
<1>6. ASSUME NEW r \in Requests, RequestStep(r) PROVE Types'
  <2>1. Shaped' /\ \A q \in Requests : req'[q].step # "idle" => req'[q].group \in Groups
    BY <1>1, <1>6, RequestShaped DEF Types
  <2>2. UNCHANGED <<now, wall>> /\ faults' \in Nat
    BY <1>1, <1>6, RequestFrame DEF Fault, Types
  <2>3. rows' \in [Times -> Row \cup {None}]
    <3>1. CASE SavePost(r)
      <4>1. rows' = rows \/ \E id \in Times, row \in Row : rows' = [rows EXCEPT ![id] = row]
        BY <1>1, <3>1, SavePostEffect
      <4> QED
        BY <1>1, <4>1 DEF Types
    <3> QED
      BY <1>1, <1>6, <3>1, RequestFrame DEF Types
  <2>4. /\ periods' = [g \in Groups |-> periods'[g]]
        /\ missed' \in [Groups -> SUBSET Times]
    <3>1. CASE SavePeriod(r)
      <4>1. req[r].lost \cap Inside(Head(req[r].gaps)) \subseteq Times
        BY DEF Inside
      <4> QED
        BY <1>1, <3>1, <4>1 DEF SavePeriod, Record, Types
    <3> QED
      BY <1>1, <1>6, <3>1, RequestFrame DEF Types
  <2>5. published' \in [Groups -> SUBSET Times]
    <3>1. PICK G : req \in [Requests -> Shape(G)]
      BY <1>1 DEF Types, Shaped
    <3>2. ASSUME NEW sent \in SUBSET req[r].hand, PublishOnly(r, sent)
          PROVE  published' \in [Groups -> SUBSET Times]
      <4>1. Dates(sent) \subseteq Times
        BY <3>1, <3>2 DEF Shape, Seen, Dates
      <4> QED
        BY <1>1, <3>2, <4>1 DEF PublishOnly, Types
    <3>3. CASE Publish(r) \/ PublishFail(r)
      BY <3>2, <3>3 DEF Publish, PublishFail
    <3> QED
      BY <1>1, <1>6, <3>3, RequestFrame DEF Types
  <2> QED
    BY <1>1, <2>1, <2>2, <2>3, <2>4, <2>5 DEF Types
<1>7. CASE UNCHANGED vars
  BY <1>1, <1>2, <1>7 DEF Types, vars, vk, tables
<1> QED
  BY <1>3, <1>4, <1>5, <1>6, <1>7 DEF Next

LEMMA NextGrows == Core /\ [Next]_vars => Grows
<1> SUFFICES ASSUME Core, [Next]_vars PROVE Grows
  OBVIOUS
<1>1. Types /\ now \in Int /\ \A r \in Requests : HandInv(r) /\ SavedInv(r)
  BY DEF Core, RequestInv, Types
<1>2. CASE Tick
  <2>1. now' = now + 1 /\ rows' = rows
    BY <1>2 DEF Tick, tables
  <2>2. PICK posting : wall' = [g \in Groups |->
                         IF g \in posting THEN [wall[g] EXCEPT ![now + 1] = 1] ELSE wall[g]]
    BY <1>2 DEF Tick
  <2>3. ASSUME NEW g \in Groups, NEW t \in Times, t <= now PROVE wall'[g][t] = wall[g][t]
    <3>1. t # now + 1
      BY <1>1, <2>3 DEF Times
    <3> QED
      BY <1>1, <2>2, <3>1 DEF Types
  <2> QED
    BY <1>1, <2>1, <2>3 DEF Grows
<1>3. ASSUME NEW g \in Groups, NEW t \in Times, Edit(g, t) PROVE Grows
  <2>1. now' = now /\ rows' = rows /\ wall' = [wall EXCEPT ![g][t] = @ + 1] /\ wall[g][t] # 0
    BY <1>3 DEF Edit, tables
  <2>2. ASSUME NEW h \in Groups, NEW u \in Times PROVE wall'[h][u] = 0 <=> wall[h][u] = 0
    BY <1>1, <2>1 DEF Types
  <2> QED
    BY <1>1, <2>1, <2>2 DEF Grows
<1>4. ASSUME NEW r \in Requests, RequestStep(r) PROVE Grows
  <2>1. UNCHANGED <<now, wall>>
    BY <1>4, RequestFrame
  <2>2. CASE SavePost(r)
    <3>1. \/ UNCHANGED rows
          \/ \E id \in Times, row \in Row :
               /\ rows' = [rows EXCEPT ![id] = row]
               /\ rows[id] # None => row.group = rows[id].group /\ row.at = rows[id].at
      BY <1>1, <2>2, SavePostEffect
    <3>2. \A id \in Times : rows[id] # None =>
            /\ rows'[id] # None
            /\ rows'[id].group = rows[id].group
            /\ rows'[id].at = rows[id].at
      BY <1>1, <3>1, ParseAssumption DEF Types
    <3> QED
      BY <1>1, <2>1, <3>2 DEF Grows
  <2> QED
    BY <1>1, <1>4, <2>1, <2>2, RequestFrame DEF Grows
<1>5. ASSUME NEW g \in Groups, Age(g) PROVE Grows
  BY <1>1, <1>5 DEF Age, Grows, vk
<1>6. CASE UNCHANGED vars
  BY <1>1, <1>6 DEF Grows, vars, vk, tables
<1> QED
  BY <1>2, <1>3, <1>4, <1>5, <1>6 DEF Next

------------------------------------------------------------------------------
(* The parts of the invariant.                                             *)

LEMMA NextRowInv == Core /\ [Next]_vars => RowInv'
<1> SUFFICES ASSUME Core, [Next]_vars PROVE RowInv'
  OBVIOUS
<1>1. Types /\ RowInv /\ Grows /\ Types' /\ now \in Int /\ now' \in Int
      /\ \A r \in Requests : HandInv(r) /\ SavedInv(r)
  BY NextGrows, NextTypes DEF Core, RequestInv, Types
<1>2. \A g \in Groups : \A t \in Times : wall'[g][t] # 0 => t <= now'
  <2>1. CASE Tick
    <3>1. PICK posting : wall' = [g \in Groups |->
                           IF g \in posting THEN [wall[g] EXCEPT ![now + 1] = 1] ELSE wall[g]]
      BY <2>1 DEF Tick
    <3>2. \A g \in Groups : \A t \in Times : wall'[g][t] # 0 => wall[g][t] # 0 \/ t = now + 1
      BY <1>1, <3>1 DEF Types
    <3> QED
      BY <1>1, <2>1, <3>2 DEF Tick, RowInv, Times
  <2>2. ASSUME NEW g \in Groups, NEW t \in Times, Edit(g, t)
      PROVE \A h \in Groups : \A u \in Times : wall'[h][u] # 0 => u <= now'
    <3>1. \A h \in Groups : \A u \in Times : wall'[h][u] # 0 => wall[h][u] # 0
      BY <1>1, <2>2 DEF Edit, Types
    <3> QED
      BY <1>1, <2>2, <3>1 DEF Edit, RowInv
  <2>3. CASE UNCHANGED <<now, wall>>
    BY <1>1, <2>3 DEF RowInv
  <2> QED
    BY <2>1, <2>2, <2>3, RequestFrame DEF Next, Age, vars, vk
<1>3. \A id \in Times : rows'[id] # None => rows'[id].at <= now'
  <2>1. ASSUME NEW r \in Requests, SavePost(r)
      PROVE \A id \in Times : rows'[id] # None => rows'[id].at <= now'
    <3>1. /\ req[r].group \in Groups /\ req[r].post[1] \in Times
          /\ wall[req[r].group][req[r].post[1]] # 0
      BY <1>1, <2>1, SavePostEffect
    <3>2. \/ UNCHANGED rows
          \/ \E id \in Times, row \in Row :
               /\ rows' = [rows EXCEPT ![id] = row]
               /\ rows[id] # None => row.at = rows[id].at
               /\ rows[id] = None => row.at = req[r].post[1]
      BY <1>1, <2>1, SavePostEffect
    <3>3. req[r].post[1] <= now
      BY <1>1, <3>1 DEF RowInv
    <3>4. \A id \in Times : rows'[id] # None => rows'[id].at <= now
      BY <1>1, <3>2, <3>3 DEF RowInv, Types
    <3>5. now' = now
      BY <2>1 DEF SavePost, vk
    <3> QED
      BY <3>4, <3>5
  <2>2. ASSUME UNCHANGED rows
      PROVE \A id \in Times : rows'[id] # None => rows'[id].at <= now'
    <3>1. \A id \in Times : rows[id] # None => rows[id].at \in Int
      BY <1>1 DEF Types, Row, Times
    <3> QED
      BY <1>1, <2>2, <3>1 DEF RowInv, Grows
  <2> QED
    BY <2>1, <2>2, RequestFrame DEF Next, Tick, Age, Edit, vars, vk, tables
<1> QED
  BY <1>2, <1>3 DEF RowInv

\* A request that does nothing is not disturbed by what the others do.
LEMMA OtherRequest ==
    ASSUME Core, Grows, Types', NEW q \in Requests, req'[q] = req[q]
    PROVE  RequestInv(q)'
<1>1. Types /\ RowInv /\ HandInv(q) /\ GapInv(q) /\ SavedInv(q) /\ now \in Int /\ now' \in Int
  BY DEF Core, RequestInv, Types
<1>2. PICK G : req \in [Requests -> Shape(G)]
  BY <1>1 DEF Types, Shaped
<1>3. /\ req[q].hand \subseteq Seen
      /\ req[q].step # "idle" => req[q].group \in Groups
  BY <1>1, <1>2 DEF Shape, Types
<1>4. \A post \in Seen : post[1] \in Times
  BY DEF Seen
<1>5. HandInv(q)'
  <2>1. ASSUME req[q].step \in InWork, NEW post \in req[q].hand
        PROVE  wall'[req[q].group][post[1]] # 0
    <3>1. req[q].group \in Groups /\ post[1] \in Times /\ wall[req[q].group][post[1]] # 0
      BY <1>1, <1>3, <1>4, <2>1 DEF HandInv, InWork
    <3> QED
      BY <1>1, <3>1 DEF RowInv, Grows
  <2> QED
    BY <1>1, <2>1 DEF HandInv
<1>6. GapInv(q)'
  <2>1. ASSUME req[q].step \in Saving, NEW t \in Inside(Head(req[q].gaps))
        PROVE  \/ t \in Dates(req[q].hand) \cup req[q].lost
               \/ t <= now' /\ wall'[req[q].group][t] = 0
    <3>1. req[q].group \in Groups /\ t \in Times
      BY <1>3, <2>1 DEF Saving, InWork, Inside
    <3>2. t \in Dates(req[q].hand) \cup req[q].lost \/ (t <= now /\ wall[req[q].group][t] = 0)
      BY <1>1, <2>1 DEF GapInv
    <3> QED
      BY <1>1, <3>1, <3>2 DEF Grows, Times
  <2> QED
    BY <2>1 DEF GapInv, Inside, Dates
<1>7. SavedInv(q)'
  <2>1. ASSUME req[q].step \in {"posts", "postRow"}, NEW post \in req[q].hand \ req[q].todo
        PROVE  post[1] \in req[q].lost \/ Stored(req[q].group, post[1])'
    <3>1. req[q].group \in Groups /\ post[1] \in Times
      BY <1>3, <1>4, <2>1
    <3>2. post[1] \in req[q].lost \/ Stored(req[q].group, post[1])
      BY <1>1, <2>1 DEF SavedInv
    <3> QED
      BY <1>1, <3>1, <3>2, StoredStays
  <2>2. ASSUME req[q].step = "postRow", req[q].found
        PROVE  (rows[IdOf(req[q].group, req[q].post[1])] # None)'
    <3>1. PICK g \in Groups, t \in Times :
            g = req[q].group /\ t = req[q].post[1] /\ wall[g][t] # 0
      BY <1>1, <1>3, <1>4, <2>2 DEF HandInv, InWork, Steps
    <3>2. IdOf(g, t) \in Times /\ rows[IdOf(g, t)] # None /\ t <= now
      BY <1>1, <2>2, <3>1, IdOfType DEF SavedInv, RowInv
    <3>3. IdOf(g, t)' = IdOf(g, t)
      BY <1>1, <3>2, IdOfStable
    <3>4. (rows[IdOf(g, t)] # None)'
      BY <3>2, <3>3 DEF Grows
    <3> QED
      BY <3>1, <3>4
  <2> QED
    BY <2>1, <2>2 DEF SavedInv
<1> QED
  BY <1>5, <1>6, <1>7 DEF RequestInv

\* A request's own step keeps what holds of it.
LEMMA OwnStep ==
    ASSUME Core, Grows, Types', NEW r \in Requests, RequestStep(r)
    PROVE  RequestInv(r)'
<1>1. Types /\ RowInv /\ HandInv(r) /\ GapInv(r) /\ SavedInv(r)
      /\ now \in Int /\ UNCHANGED <<now, wall>>
  BY RequestFrame DEF Core, RequestInv, Types
<1>2. PICK G : req \in [Requests -> Shape(G)]
  BY <1>1 DEF Types, Shaped
<1>3. req[r] \in Shape(G) /\ req[r].hand \subseteq Seen
  BY <1>2 DEF Shape
<1>4. ASSUME NEW s, Becomes(r, s) PROVE req'[r] = s
  BY <1>2, <1>4 DEF Becomes
\* Outside the work on a gap there is nothing to show.
<1>5. ASSUME req'[r].step \notin InWork PROVE RequestInv(r)'
  BY <1>5 DEF RequestInv, HandInv, GapInv, SavedInv, Saving, InWork, Steps
<1>6. CASE Start(r)
  <2>1. req'[r].step = "check"
    BY <1>4, <1>6 DEF Start, Idle
  <2> QED
    BY <1>5, <2>1 DEF InWork
<1>7. CASE Check(r)
  <2>1. PICK gaps : Becomes(r, [req[r] EXCEPT !.step = "read", !.all = FALSE, !.gaps = gaps])
    BY <1>7 DEF Check
  <2>2. req'[r].step = "read"
    BY <1>3, <1>4, <2>1 DEF Shape
  <2> QED
    BY <1>5, <2>2 DEF InWork
<1>8. CASE ReadCached(r)
  <2>1. PICK cached : Becomes(r, [req[r] EXCEPT !.step = "fetch", !.cached = cached])
    BY <1>8 DEF ReadCached
  <2>2. req'[r].step = "fetch"
    BY <1>3, <1>4, <2>1 DEF Shape
  <2> QED
    BY <1>5, <2>2 DEF InWork
<1>9. CASE FetchNothing(r)
  <2>1. req'[r].step = "fetch"
    BY <1>3, <1>4, <1>9 DEF FetchNothing, Shape
  <2> QED
    BY <1>5, <2>1 DEF InWork
<1>10. CASE Publish(r) \/ PublishFail(r)
  <2>1. req'[r].step = "fetch"
    BY <1>3, <1>4, <1>10 DEF Publish, PublishFail, PublishOnly, Shape
  <2> QED
    BY <1>5, <2>1 DEF InWork
<1>11. CASE Answer(r)
  <2>1. req'[r].step = "done"
    BY <1>3, <1>4, <1>11 DEF Answer, Shape
  <2> QED
    BY <1>5, <2>1 DEF InWork
<1>12. CASE Abort(r)
  <2>1. req'[r].step = "idle"
    BY <1>4, <1>12 DEF Abort, Idle
  <2> QED
    BY <1>5, <2>1 DEF InWork
<1>13. CASE Fetch(r)
  <2> DEFINE g == req[r].group
             gap == Inside(Head(req[r].gaps))
             there == {t \in gap : wall[g][t] # 0}
             Posts(got) == {<<t, wall[g][t]>> : t \in got}
             lost(got) == req[r].lost \cup (there \ got) \cup {t \in gap : t > now}
             Fetched(got) == [req[r] EXCEPT !.step = "group", !.hand = Posts(got),
                                !.fresh = req[r].fresh \cup Posts(got), !.lost = lost(got)]
  <2>1. PICK got \in SUBSET there : Becomes(r, Fetched(got))
    BY <1>13 DEF Fetch, FetchMerging, Flattened, Merged
  <2>2. gap \subseteq Times
    BY DEF Inside
  <2>3. \A post \in Posts(got) : wall[g][post[1]] # 0
    OBVIOUS
  <2>4. \A t \in gap : t \in Dates(Posts(got)) \cup lost(got) \/ (t <= now /\ wall[g][t] = 0)
    <3>1. ASSUME NEW t \in got PROVE t \in Dates(Posts(got))
      <4>1. <<t, wall[g][t]>> \in Posts(got) /\ <<t, wall[g][t]>>[1] = t
        OBVIOUS
      <4> HIDE DEF Posts
      <4> QED
        BY <4>1, DateOf
    <3> QED
      BY <1>1, <2>2, <3>1 DEF Times
  <2> HIDE DEF Posts, lost
  <2>5. /\ req'[r].step = "group" /\ req'[r].group = g /\ req'[r].gaps = req[r].gaps
        /\ req'[r].hand = Posts(got) /\ req'[r].lost = lost(got)
    BY <1>3, <1>4, <2>1 DEF Shape
  <2>6. HandInv(r)'
    BY <1>1, <2>3, <2>5 DEF HandInv
  <2>7. GapInv(r)'
    BY <1>1, <2>4, <2>5 DEF GapInv
  <2>8. SavedInv(r)'
    BY <2>5 DEF SavedInv
  <2> QED
    BY <2>6, <2>7, <2>8 DEF RequestInv
<1>14. CASE LookForGroup(r)
  <2>1. /\ req[r].step = "group" /\ req'[r].step = "groupRow"
        /\ req'[r].group = req[r].group /\ req'[r].gaps = req[r].gaps
        /\ req'[r].hand = req[r].hand /\ req'[r].lost = req[r].lost
    BY <1>3, <1>4, <1>14 DEF LookForGroup, Shape
  <2> QED
    BY <1>1, <2>1 DEF RequestInv, HandInv, GapInv, SavedInv, InWork, Saving, Steps
<1>15. ASSUME EndSave(r), req[r].step \in Saving PROVE RequestInv(r)'
  <2>1. /\ req'[r].step = "publish"
        /\ req'[r].group = req[r].group /\ req'[r].hand = req[r].hand
    BY <1>3, <1>4, <1>15 DEF EndSave, Shape
  <2> QED
    BY <1>1, <1>15, <2>1 DEF RequestInv, HandInv, GapInv, SavedInv, InWork, Saving, Steps
<1>16. CASE SaveGroup(r)
  <2>1. req[r].step = "groupRow"
    BY <1>16 DEF SaveGroup
  <2>2. CASE EndSave(r)
    BY <1>15, <2>1, <2>2 DEF Saving, InWork, Steps
  <2>3. CASE ~ EndSave(r)
    <3>1. /\ req'[r].step = "posts" /\ req'[r].todo = req[r].hand
          /\ req'[r].group = req[r].group /\ req'[r].gaps = req[r].gaps
          /\ req'[r].hand = req[r].hand /\ req'[r].lost = req[r].lost
      BY <1>3, <1>4, <1>16, <2>3 DEF SaveGroup, Conflict, Shape
    <3> QED
      BY <1>1, <2>1, <3>1 DEF RequestInv, HandInv, GapInv, SavedInv, InWork, Saving, Steps
  <2> QED
    BY <2>2, <2>3
<1>17. CASE LookForPost(r)
  <2> DEFINE found(post) == rows[IdOf(req[r].group, post[1])] # None
             s(post) == [req[r] EXCEPT !.step = "postRow", !.post = post, !.found = found(post)]
  <2>1. PICK post \in req[r].todo : Becomes(r, s(post))
    BY <1>17 DEF LookForPost
  <2>2. found(post) \in BOOLEAN /\ (found(post) => rows[IdOf(req[r].group, post[1])] # None)
    OBVIOUS
  <2> HIDE DEF found
  <2>3. req[r].step = "posts" /\ rows' = rows
    BY <1>17 DEF LookForPost, tables
  <2>4. /\ req'[r].step = "postRow" /\ req'[r].todo = req[r].todo
        /\ req'[r].group = req[r].group /\ req'[r].gaps = req[r].gaps
        /\ req'[r].hand = req[r].hand /\ req'[r].lost = req[r].lost
        /\ req'[r].post = post /\ req'[r].found = found(post)
    BY <1>3, <1>4, <2>1, <2>2 DEF Shape
  <2>5. HandInv(r)' /\ GapInv(r)'
    BY <1>1, <2>1, <2>3, <2>4 DEF HandInv, GapInv, InWork, Saving, Steps
  <2>6. \A g, t : IdOf(g, t)' = IdOf(g, t) /\ (Stored(g, t)' <=> Stored(g, t))
    BY <1>1, <2>3 DEF Stored, IdOf, IsRowOf
  <2>7. SavedInv(r)'
    BY <1>1, <2>2, <2>3, <2>4, <2>6 DEF SavedInv
  <2> QED
    BY <2>5, <2>7 DEF RequestInv
<1>18. CASE SavePost(r)
  <2>1. PICK g \in Groups, t \in Times :
          /\ g = req[r].group /\ t = req[r].post[1]
          /\ wall[g][t] # 0 /\ IdOf(g, t) \in Times /\ req[r].post \in req[r].hand
          /\ \/ EndSave(r) /\ UNCHANGED rows
             \/ \E row \in Row : rows' = [rows EXCEPT ![IdOf(g, t)] = row] /\ PostDone(r, row)
    BY <1>1, <1>18, SavePostEffect
  <2>2. req[r].step = "postRow"
    BY <1>18 DEF SavePost
  <2>3. CASE EndSave(r)
    BY <1>15, <2>2, <2>3 DEF Saving, InWork, Steps
  <2>4. ASSUME NEW row \in Row, rows' = [rows EXCEPT ![IdOf(g, t)] = row], PostDone(r, row)
        PROVE  RequestInv(r)'
    <3>1. /\ req'[r].step = "posts" /\ req'[r].todo = req[r].todo \ {req[r].post}
          /\ req'[r].group = g /\ req'[r].gaps = req[r].gaps /\ req'[r].hand = req[r].hand
          /\ req[r].lost \subseteq req'[r].lost
          /\ IsRowOf(row, g, t) \/ t \in req'[r].lost
      BY <1>1, <2>1, <2>4, PostDoneFields
    <3>2. HandInv(r)' /\ GapInv(r)'
      BY <1>1, <2>1, <2>2, <3>1 DEF HandInv, GapInv, InWork, Saving, Steps
    <3>3. IsRowOf(row, g, t) => Stored(g, t)'
      <4>1. rows'[IdOf(g, t)] = row /\ IdOf(g, t)' = IdOf(g, t)
        BY <1>1, <2>1, <2>4 DEF Types, IdOf
      <4> QED
        BY <1>1, <2>1, <4>1 DEF Stored, IsRowOf
    <3>4. ASSUME NEW post \in req[r].hand \ (req[r].todo \ {req[r].post})
          PROVE  post[1] \in req'[r].lost \/ Stored(g, post[1])'
      <4>1. CASE post = req[r].post
        BY <2>1, <3>1, <3>3, <4>1
      <4>2. CASE post \notin req[r].todo
        <5>1. post[1] \in Times
          BY <1>3 DEF Seen
        <5>2. post[1] \in req[r].lost \/ Stored(g, post[1])
          BY <1>1, <2>1, <2>2, <4>2 DEF SavedInv
        <5> QED
          BY <1>1, <3>1, <5>1, <5>2, StoredStays
      <4> QED
        BY <4>1, <4>2
    <3>5. SavedInv(r)'
      BY <2>1, <3>1, <3>4 DEF SavedInv
    <3> QED
      BY <3>2, <3>5 DEF RequestInv
  <2> QED
    BY <2>1, <2>3, <2>4
<1>19. CASE SavePeriod(r)
  BY <1>15, <1>19 DEF SavePeriod, Record, Saving, InWork, Steps
<1>20. CASE SaveFail(r)
  BY <1>15, <1>20 DEF SaveFail
<1> QED
  BY <1>6, <1>7, <1>8, <1>9, <1>10, <1>11, <1>12, <1>13, <1>14, <1>16, <1>17, <1>18,
     <1>19, <1>20 DEF RequestStep

\* Recorded periods stay accounted for.
LEMMA NextPeriodInv == Core /\ [Next]_vars => PeriodInv'
<1> SUFFICES ASSUME Core, [Next]_vars PROVE PeriodInv'
  OBVIOUS
<1>1. Types /\ RowInv /\ PeriodInv /\ Grows /\ Types' /\ now \in Int /\ now' \in Int
      /\ \A r \in Requests : RequestInv(r)
  BY NextGrows, NextTypes DEF Core, Types
<1>2. ASSUME NEW g \in Groups, NEW p \in periods[g], NEW t \in Inside(p), missed[g] \subseteq missed'[g]
      PROVE  t \in missed'[g] \/ (t <= now' /\ wall'[g][t] = 0) \/ Stored(g, t)'
  <2>1. t \in Times
    BY DEF Inside
  <2>2. t \in missed[g] \/ (t <= now /\ wall[g][t] = 0) \/ Stored(g, t)
    BY <1>1 DEF PeriodInv
  <2> QED
    BY <1>1, <1>2, <2>1, <2>2, StoredStays DEF Grows, Times
<1>3. CASE UNCHANGED <<periods, missed>>
  BY <1>2, <1>3 DEF PeriodInv, Inside
<1>4. ASSUME NEW r \in Requests, SavePeriod(r) PROVE PeriodInv'
  <2> DEFINE g == req[r].group
             gap == Head(req[r].gaps)
  <2>1. /\ req[r].step = "posts" /\ req[r].todo = {} /\ g \in Groups
        /\ periods' = [periods EXCEPT ![g] = @ \cup {gap}]
        /\ missed' = [missed EXCEPT ![g] = @ \cup (req[r].lost \cap Inside(gap))]
    BY <1>1, <1>4 DEF SavePeriod, Record, Types
  <2>2. \A h \in Groups : missed[h] \subseteq missed'[h]
    BY <1>1, <2>1 DEF Types
  <2>3. ASSUME NEW t \in Inside(gap)
        PROVE  t \in missed'[g] \/ (t <= now /\ wall[g][t] = 0) \/ Stored(g, t)
    <3>1. t \in Dates(req[r].hand) \cup req[r].lost \/ (t <= now /\ wall[g][t] = 0)
      BY <1>1, <2>1 DEF RequestInv, GapInv, Saving, InWork, Steps
    <3>2. t \in Dates(req[r].hand) => t \in req[r].lost \/ Stored(g, t)
      BY <1>1, <2>1 DEF RequestInv, SavedInv, Dates
    <3>3. t \in req[r].lost => t \in missed'[g]
      BY <1>1, <2>1 DEF Types
    <3> QED
      BY <3>1, <3>2, <3>3
  <2>4. UNCHANGED <<now, wall, rows>>
    BY <1>4 DEF SavePeriod, Record, vk
  <2>5. \A h \in Groups : \A p, t : p \in periods[h] /\ t \in Inside(p) =>
          t \in missed'[h] \/ (t <= now' /\ wall'[h][t] = 0) \/ Stored(h, t)'
    BY <1>2, <2>2
  <2>6. \A h \in Groups : \A t : Stored(h, t)' <=> Stored(h, t)
    BY <2>4 DEF Stored, IdOf, IsRowOf
  <2>7. ASSUME NEW h \in Groups, NEW p \in periods'[h], NEW t \in Inside(p)
        PROVE  t \in missed'[h] \/ (t <= now' /\ wall'[h][t] = 0) \/ Stored(h, t)'
    <3>1. p \in periods[h] \/ (h = g /\ p = gap)
      BY <1>1, <2>1 DEF Types
    <3> QED
      BY <2>3, <2>4, <2>5, <2>6, <3>1
  <2> QED
    BY <2>7 DEF PeriodInv, Inside
<1> QED
  BY <1>3, <1>4, RequestFrame DEF Next, Tick, Age, Edit, vars, tables

\* Without a row saved in the step, nothing is stored that was not before.
LEMMA StoredBefore ==
    ASSUME Types, RowInv, Grows, RowInv', UNCHANGED rows, NEW g \in Groups, NEW t \in Times,
           Stored(g, t)'
    PROVE  Stored(g, t)
<1>1. IdOf(g, t)' \in Times /\ rows[IdOf(g, t)'] # None /\ rows[IdOf(g, t)'].at = t
  BY IdOfType DEF Stored, IsRowOf
<1>2. t <= now
  BY <1>1 DEF RowInv
<1>3. IdOf(g, t)' = IdOf(g, t)
  BY <1>2, IdOfStable
<1> QED
  BY <1>2, <1>3 DEF Stored, IsRowOf, Grows

\* While nothing fails, what is stored has been sent or is about to be.
LEMMA NextPublished == Core /\ [Next]_vars => SavedArePublished'
<1> DEFINE Sent(g, t) ==
             \/ t \in published[g]
             \/ \E r \in Requests : /\ req[r].step \in InWork
                                    /\ req[r].group = g /\ t \in Dates(req[r].hand)
<1> SUFFICES ASSUME Core, [Next]_vars, faults' = 0,
                    NEW g \in Groups, NEW t \in Times, Stored(g, t)'
             PROVE  Sent(g, t)'
  BY DEF SavedArePublished
<1>1. /\ Types /\ RowInv /\ Grows /\ Types' /\ RowInv'
      /\ \A r \in Requests : HandInv(r) /\ SavedInv(r)
  BY NextGrows, NextTypes, NextRowInv DEF Core, RequestInv
<1>2. faults = 0 /\ ~ Fault
  <2>1. faults \in Nat /\ ~ Fault
    BY <1>1 DEF Types, Fault
  <2>2. UNCHANGED faults
    BY <2>1, RequestFrame DEF Next, Tick, Age, Edit, vars
  <2> QED
    BY <2>1, <2>2
<1>3. Stored(g, t) => Sent(g, t)
  BY <1>2 DEF Core, SavedArePublished
<1>4. ASSUME UNCHANGED <<rows, published, req>> PROVE Sent(g, t)'
  BY <1>1, <1>3, <1>4, StoredBefore
<1>5. ASSUME NEW r \in Requests, RequestStep(r) PROVE Sent(g, t)'
  <2>1. PICK G : req \in [Requests -> Shape(G)]
    BY <1>1 DEF Types, Shaped
  <2>2. req[r] \in Shape(G) /\ \A q \in Requests \ {r} : req'[q] = req[q]
    BY <1>1, <1>5, <2>1, RequestShaped
  <2>3. ASSUME NEW s, Becomes(r, s) PROVE req'[r] = s
    BY <2>1, <2>3 DEF Becomes
  <2>4. published[g] \subseteq published'[g]
    <3>1. CASE Publish(r) \/ PublishFail(r)
      <4>1. PICK sent : published' = [published EXCEPT ![req[r].group] = @ \cup sent]
        BY <3>1 DEF Publish, PublishFail, PublishOnly
      <4> QED
        BY <1>1, <4>1 DEF Types
    <3> QED
      BY <1>5, <3>1, RequestFrame
  \* The request goes on with its gap, or it had none, or it publishes.
  <2>5. \/ req'[r].step \in InWork /\ req'[r].group = req[r].group /\ req'[r].hand = req[r].hand
        \/ req[r].step \notin InWork
        \/ Publish(r)
    <3> DEFINE Goes(s) == s.step \in InWork /\ s.group = req[r].group /\ s.hand = req[r].hand
    <3>0. ASSUME NEW s, Becomes(r, s), Goes(s) PROVE Goes(req'[r])
      BY <2>3, <3>0
    <3>1. CASE Start(r) \/ Check(r) \/ ReadCached(r) \/ Fetch(r) \/ FetchNothing(r) \/ Answer(r)
      <4>1. req[r].step \in {"idle", "done", "check", "read", "fetch"}
        BY <3>1 DEF Start, Check, ReadCached, Fetch, FetchMerging, FetchNothing, Answer
      <4> QED
        BY <4>1 DEF InWork
    <3>2. CASE LookForGroup(r)
      <4> DEFINE s == [req[r] EXCEPT !.step = "groupRow",
                                     !.found = groupRow[req[r].group] # "absent"]
      <4>1. Becomes(r, s)
        BY <3>2 DEF LookForGroup
      <4>2. Goes(s)
        BY <2>2 DEF Shape, InWork, Steps
      <4> HIDE DEF s
      <4> QED
        BY <3>0, <4>1, <4>2
    <3>3. CASE EndSave(r)
      <4> DEFINE s == [req[r] EXCEPT !.step = "publish", !.todo = {}, !.post = None,
                                     !.found = FALSE]
      <4>1. Becomes(r, s)
        BY <3>3 DEF EndSave
      <4>2. Goes(s)
        BY <2>2 DEF Shape, InWork, Steps
      <4> HIDE DEF s
      <4> QED
        BY <3>0, <4>1, <4>2
    <3>4. CASE SaveGroup(r)
      <4> DEFINE s == [req[r] EXCEPT !.step = "posts", !.todo = req[r].hand, !.found = FALSE]
      <4>1. EndSave(r) \/ Becomes(r, s)
        BY <3>4 DEF SaveGroup, Conflict
      <4>2. Goes(s)
        BY <2>2 DEF Shape, InWork, Steps
      <4> HIDE DEF s
      <4> QED
        BY <3>0, <3>3, <4>1, <4>2
    <3>5. CASE LookForPost(r)
      <4>1. PICK post, found :
              Becomes(r, [req[r] EXCEPT !.step = "postRow", !.post = post, !.found = found])
        BY <3>5 DEF LookForPost
      <4> DEFINE s == [req[r] EXCEPT !.step = "postRow", !.post = post, !.found = found]
      <4>2. Goes(s)
        BY <2>2 DEF Shape, InWork, Steps
      <4>3. Becomes(r, s)
        BY <4>1
      <4> HIDE DEF s
      <4> QED
        BY <3>0, <4>2, <4>3
    <3>6. CASE SavePost(r)
      <4>1. EndSave(r) \/ \E row \in Row : PostDone(r, row)
        BY <1>1, <3>6, SavePostEffect
      <4> QED
        BY <1>1, <3>3, <4>1, PostDoneFields DEF InWork, Steps
    <3>7. CASE SavePeriod(r)
      BY <3>3, <3>7 DEF SavePeriod, Record
    <3>8. CASE SaveFail(r) \/ PublishFail(r) \/ Abort(r)
      BY <1>2, <3>8 DEF SaveFail, PublishFail, Abort
    <3> QED
      BY <1>5, <3>1, <3>2, <3>4, <3>5, <3>6, <3>7, <3>8 DEF RequestStep
  <2>6. Sent(g, t) => Sent(g, t)'
    <3>1. CASE t \in published[g]
      BY <2>4, <3>1
    <3>2. ASSUME NEW q \in Requests, req[q].step \in InWork, req[q].group = g, t \in Dates(req[q].hand)
          PROVE  Sent(g, t)'
      <4>1. CASE q # r
        BY <2>2, <3>2, <4>1 DEF Dates
      <4>2. CASE q = r /\ Publish(r)
        BY <1>1, <3>2, <4>2 DEF Publish, PublishOnly, Types
      <4>3. CASE q = r /\ ~ Publish(r)
        BY <2>5, <3>2, <4>3 DEF Dates
      <4> QED
        BY <4>1, <4>2, <4>3
    <3> QED
      BY <3>1, <3>2
  <2>7. CASE UNCHANGED rows
    BY <1>1, <1>3, <2>6, <2>7, StoredBefore
  <2>8. CASE SavePost(r)
    <3>1. PICK h \in Groups, u \in Times :
            /\ h = req[r].group /\ u = req[r].post[1]
            /\ IdOf(h, u) \in Times /\ req[r].post \in req[r].hand
            /\ \/ UNCHANGED rows
               \/ \E row \in Row :
                    /\ rows' = [rows EXCEPT ![IdOf(h, u)] = row]
                    /\ rows[IdOf(h, u)] # None =>
                         row.group = rows[IdOf(h, u)].group /\ row.at = rows[IdOf(h, u)].at
                    /\ rows[IdOf(h, u)] = None => row.group = h /\ row.at = u
      BY <1>1, <2>8, SavePostEffect
    <3>2. IdOf(g, t)' = IdOf(g, t) /\ wall' = wall
      BY <1>5, RequestFrame DEF IdOf
    <3>3. Stored(g, t) \/ (g = h /\ t = u)
      <4>1. IdOf(g, t) \in Times /\ wall[g][t] # 0 /\ IsRowOf(rows'[IdOf(g, t)], g, t)
        BY <3>2, IdOfType DEF Stored, IsRowOf
      <4>2. CASE rows'[IdOf(g, t)] = rows[IdOf(g, t)]
        BY <4>1, <4>2 DEF Stored
      <4>3. CASE rows'[IdOf(g, t)] # rows[IdOf(g, t)]
        <5>1. PICK row \in Row :
                /\ rows' = [rows EXCEPT ![IdOf(h, u)] = row]
                /\ rows[IdOf(h, u)] # None =>
                     row.group = rows[IdOf(h, u)].group /\ row.at = rows[IdOf(h, u)].at
                /\ rows[IdOf(h, u)] = None => row.group = h /\ row.at = u
          BY <3>1, <4>3
        <5>2. IdOf(g, t) = IdOf(h, u) /\ rows'[IdOf(g, t)] = row
          BY <1>1, <3>1, <4>1, <4>3, <5>1 DEF Types
        <5> QED
          BY <4>1, <5>1, <5>2 DEF Stored, IsRowOf
      <4> QED
        BY <4>2, <4>3
    <3>4. CASE g = h /\ t = u
      <4>1. t \in Dates(req[r].hand) /\ req[r].step \in InWork
        BY <2>8, <3>1, <3>4, DateOf DEF SavePost, InWork, Steps
      <4> QED
        BY <2>6, <3>1, <3>4, <4>1
    <3> QED
      BY <1>3, <2>6, <3>3, <3>4
  <2> QED
    BY <1>5, <2>7, <2>8, RequestFrame
<1>6. CASE Tick \/ (\E h \in Groups : Age(h) \/ \E u \in Times : Edit(h, u)) \/ UNCHANGED vars
  BY <1>4, <1>6 DEF Tick, Age, Edit, vars, vk, tables
<1> QED
  BY <1>5, <1>6 DEF Next

LEMMA NextCore == ASSUME Core, [Next]_vars PROVE Core'
<1>1. Types' /\ Grows /\ RowInv' /\ PeriodInv' /\ SavedArePublished'
  BY NextTypes, NextGrows, NextRowInv, NextPeriodInv, NextPublished
<1>2. ASSUME NEW q \in Requests PROVE RequestInv(q)'
  <2>1. ASSUME NEW r \in Requests, RequestStep(r) PROVE RequestInv(q)'
    <3>1. q = r \/ req'[q] = req[q]
      BY <2>1, RequestShaped DEF Core, RequestInv
    <3> QED
      BY <1>1, <2>1, <3>1, OwnStep, OtherRequest
  <2>2. CASE UNCHANGED req
    BY <1>1, <2>2, OtherRequest
  <2> QED
    BY <2>1, <2>2 DEF Next, Tick, Age, Edit, vars
<1> QED
  BY <1>1, <1>2 DEF Core

------------------------------------------------------------------------------
(* The gaps a request sets out for: calculate_missing_periods.              *)

\* The periods of the first n moments.
Proper(n) == {p \in [from : 1 .. n, to : 1 .. n] : p.from <= p.to}

LEMMA ProperFinite ==
    ASSUME NEW n \in Nat, NEW S \in SUBSET Proper(n) PROVE IsFiniteSet(S)
<1> DEFINE bounds == [p \in S |-> <<p.from, p.to>>]
<1>1. IsFiniteSet((1 .. n) \X (1 .. n))
  <2>1. IsFiniteSet(1 .. n)
    BY FS_Interval
  <2> QED
    BY <2>1, FS_Product
<1>2. bounds \in Injection(S, (1 .. n) \X (1 .. n))
  <2>1. bounds \in [S -> (1 .. n) \X (1 .. n)]
    BY DEF Proper
  <2>2. ASSUME NEW p \in S, NEW q \in S, bounds[p] = bounds[q] PROVE p = q
    BY <2>2 DEF Proper
  <2> HIDE DEF bounds
  <2> QED
    BY <2>1, <2>2 DEF Injection, IsInjective
<1> QED
  BY <1>1, <1>2, FS_Injection

LEMMA LatestIsLast ==
    ASSUME NEW n \in Nat, NEW S \in SUBSET Proper(n), S # {}
    PROVE  Latest(S) \in S /\ \A q \in S : q.from <= Latest(S).from
<1> DEFINE starts == {p.from : p \in S}
<1>1. starts \in SUBSET (1 .. n) /\ starts # {}
  BY DEF Proper
<1>2. PICK m \in starts : \A j \in starts : j <= m
  <2> HIDE DEF starts
  <2> QED
    BY <1>1, LastExists
<1>3. \E p \in S : \A q \in S : q.from <= p.from
  BY <1>2
<1> QED
  BY <1>3 DEF Latest

\* The loop over the periods, as a function of the periods it has seen.
Body(range, iter, s) ==
    IF s = {} THEN Begin(range) ELSE Turn(range, 1, Latest(s), iter[s \ {Latest(s)}])

Loop(range, cached) == CHOOSE iter : iter = [s \in SUBSET cached |-> Body(range, iter, s)]

LEMMA GapsAreLoop ==
    ASSUME NEW range, NEW cached
    PROVE  MissingPeriods(range, cached) =
             Loop(range, cached)[cached].gaps
               \o Gap(Loop(range, cached)[cached].current, range.to)
BY DEF MissingPeriods, Gaps, MapThenFoldSet, Loop, Body

\* There is no smallest number of periods at which something goes wrong.
LEMMA NoSmallest ==
    ASSUME NEW Bad, Bad \subseteq Nat, \A m \in Bad : \E k \in Bad : k < m
    PROVE  Bad = {}
<1> SUFFICES ASSUME Bad # {} PROVE FALSE
  OBVIOUS
<1>1. PICK m \in Bad : \A k \in Bad : ~ (<<k, m>> \in OpToRel(<, Nat))
  BY NatLessThanWellFounded, WFMin, Zenon
<1>2. \A k \in Bad : ~ (k < m)
  BY <1>1 DEF OpToRel
<1> QED
  BY <1>2

LEMMA LoopExists ==
    ASSUME NEW n \in Nat, NEW cached \in SUBSET Proper(n), NEW range
    PROVE  \E iter : iter = [s \in SUBSET cached |-> Body(range, iter, s)]
<1> DEFINE Small(m) == {s \in SUBSET cached : Cardinality(s) <= m}
           Reached(m) == \E iter : iter = [s \in Small(m) |-> Body(range, iter, s)]
           Bad == {m \in Nat : ~ Reached(m)}
<1>1. \A s \in SUBSET cached : /\ IsFiniteSet(s)
                               /\ Cardinality(s) \in Nat
                               /\ Cardinality(s) <= Cardinality(cached)
                               /\ Cardinality(s) = 0 <=> s = {}
  BY ProperFinite, FS_Subset, FS_CardinalityType, FS_EmptySet
<1>2. \A s \in SUBSET cached : s # {} =>
        /\ s \ {Latest(s)} \in SUBSET cached
        /\ Cardinality(s \ {Latest(s)}) = Cardinality(s) - 1
  BY <1>1, LatestIsLast, FS_RemoveElement
<1>3. Reached(0)
  <2> DEFINE iter == [s \in Small(0) |-> Begin(range)]
  <2>1. \A s \in Small(0) : s = {}
    BY <1>1
  <2>2. \A s \in Small(0) : Body(range, iter, s) = Begin(range)
    BY <2>1 DEF Body
  <2>3. iter = [s \in Small(0) |-> Body(range, iter, s)]
    BY <2>2
  <2> QED
    BY <2>3
<1>4. ASSUME NEW m \in Nat, Reached(m) PROVE Reached(m + 1)
  <2>1. PICK iter : iter = [s \in Small(m) |-> Body(range, iter, s)]
    BY <1>4
  <2> DEFINE next == [s \in Small(m + 1) |-> Body(range, iter, s)]
  <2>2. \A s \in Small(m + 1) : s # {} => s \ {Latest(s)} \in Small(m)
    BY <1>1, <1>2
  <2>3. \A s \in Small(m) : s \in Small(m + 1)
    BY <1>1
  <2> HIDE DEF Small
  <2>4. \A s \in Small(m) : next[s] = iter[s]
    BY <2>1, <2>3
  <2>5. \A s \in Small(m + 1) : Body(range, next, s) = Body(range, iter, s)
    <3> SUFFICES ASSUME NEW s \in Small(m + 1)
                 PROVE  Body(range, next, s) = Body(range, iter, s)
      OBVIOUS
    <3>1. s # {} => next[s \ {Latest(s)}] = iter[s \ {Latest(s)}]
      BY <2>2, <2>4
    <3> HIDE DEF next
    <3> QED
      BY <3>1 DEF Body
  <2>6. next = [s \in Small(m + 1) |-> Body(range, next, s)]
    BY <2>5
  <2> QED
    BY <2>6
<1> HIDE DEF Reached
<1>5. Bad = {}
  <2>1. ASSUME NEW m \in Bad PROVE \E k \in Bad : k < m
    <3>1. m # 0 /\ m - 1 \in Nat /\ m - 1 < m /\ m = (m - 1) + 1
      BY <1>3
    <3> QED
      BY <1>4, <3>1
  <2> HIDE DEF Bad
  <2>2. Bad \subseteq Nat
    BY DEF Bad
  <2> QED
    BY <2>1, <2>2, NoSmallest
<1>6. Reached(Cardinality(cached))
  BY <1>1, <1>5
<1>7. Small(Cardinality(cached)) = SUBSET cached
  BY <1>1
<1> QED
  BY <1>6, <1>7 DEF Reached

LEMMA LoopTurns ==
    ASSUME NEW n \in Nat, NEW cached \in SUBSET Proper(n), NEW range
    PROVE  /\ Loop(range, cached)[{}] = Begin(range)
           /\ \A s \in SUBSET cached : s # {} =>
                Loop(range, cached)[s] =
                  Turn(range, 1, Latest(s), Loop(range, cached)[s \ {Latest(s)}])
<1>1. Loop(range, cached) = [s \in SUBSET cached |-> Body(range, Loop(range, cached), s)]
  BY LoopExists DEF Loop
<1> QED
  BY <1>1 DEF Body

------------------------------------------------------------------------------
Spans(p, t) == p.from <= t /\ t <= p.to

InOrder(gaps) == \A i, j \in 1 .. Len(gaps) : i < j => gaps[i].to < gaps[j].from

InGap(gaps, t) == \E i \in 1 .. Len(gaps) : Spans(gaps[i], t)

\* Another gap, behind those there are.
LEMMA GapAppended ==
    ASSUME NEW n \in Nat, NEW gaps \in Seq(Proper(n)), NEW from \in Nat \ {0}, NEW to \in 0 .. n,
           InOrder(gaps), \A i \in 1 .. Len(gaps) : gaps[i].to < from
    PROVE  LET more == gaps \o Gap(from, to)
           IN  /\ more \in Seq(Proper(n))
               /\ InOrder(more)
               /\ \A i \in 1 .. Len(more) : more[i].to < from \/ more[i].to <= to
               /\ \A t \in Nat : InGap(more, t) <=> InGap(gaps, t) \/ (from <= t /\ t <= to)
<1> DEFINE more == gaps \o Gap(from, to)
           gap == [from |-> from, to |-> to]
<1>1. CASE from > to
  <2>1. Gap(from, to) = <<>>
    BY <1>1 DEF Gap
  <2>2. more = gaps
    BY <2>1
  <2>3. \A t \in Nat : ~ (from <= t /\ t <= to)
    BY <1>1
  <2> QED
    BY <2>2, <2>3
<1>2. CASE from <= to
  <2>1. gap \in Proper(n)
    BY <1>2 DEF Proper
  <2>2. more = Append(gaps, gap)
    BY <1>2, <2>1 DEF Gap
  <2>3. PICK k \in Nat : k = Len(gaps)
    BY LenProperties
  <2>4. /\ more \in Seq(Proper(n)) /\ Len(more) = k + 1
        /\ \A i \in 1 .. k : more[i] = gaps[i]
        /\ more[k + 1] = gap
    BY <2>1, <2>2, <2>3, AppendProperties
  <2>5. \A i \in 1 .. k + 1 : i \in 1 .. k \/ i = k + 1
    BY <2>3
  <2>6. gap.from = from /\ gap.to = to
    OBVIOUS
  <2>7. \A i \in 1 .. k : gaps[i].to \in Nat
    BY <2>3, ElementOfSeq, LenProperties DEF Proper
  <2> HIDE DEF more, gap
  <2>8. InOrder(more)
    <3> SUFFICES ASSUME NEW i \in 1 .. k + 1, NEW j \in 1 .. k + 1, i < j
                 PROVE  more[i].to < more[j].from
      BY <2>4 DEF InOrder
    <3>1. i \in 1 .. k
      BY <2>3
    <3>2. CASE j \in 1 .. k
      BY <2>3, <2>4, <3>1, <3>2 DEF InOrder
    <3>3. CASE j = k + 1
      BY <2>3, <2>4, <2>6, <3>1, <3>3
    <3> QED
      BY <2>5, <3>2, <3>3
  <2>9. \A i \in 1 .. k + 1 : more[i].to < from \/ more[i].to <= to
    BY <2>3, <2>4, <2>5, <2>6
  <2>10. ASSUME NEW t \in Nat
         PROVE  InGap(more, t) <=> InGap(gaps, t) \/ (from <= t /\ t <= to)
    <3>1. ASSUME InGap(more, t) PROVE InGap(gaps, t) \/ (from <= t /\ t <= to)
      BY <2>3, <2>4, <2>5, <2>6, <3>1 DEF InGap, Spans
    <3>2. ASSUME InGap(gaps, t) PROVE InGap(more, t)
      BY <2>3, <2>4, <3>2 DEF InGap, Spans
    <3>3. ASSUME from <= t, t <= to PROVE InGap(more, t)
      <4>1. k + 1 \in 1 .. k + 1 /\ Spans(more[k + 1], t)
        BY <2>4, <2>6, <3>3 DEF Spans
      <4> QED
        BY <2>4, <4>1 DEF InGap
    <3> QED
      BY <3>1, <3>2, <3>3
  <2> QED
    BY <2>4, <2>8, <2>9, <2>10 DEF more
<1> QED
  BY <1>1, <1>2

\* What the loop has found out when the periods of s have had their turns.
Knows(range, n, s, so) ==
    /\ so.gaps \in Seq(Proper(n)) /\ InOrder(so.gaps)
    /\ so.current \in Nat /\ range.from <= so.current /\ so.current <= range.to + 1
    /\ \A i \in 1 .. Len(so.gaps) : so.gaps[i].to < so.current
    /\ \A t \in Nat : InGap(so.gaps, t) <=>
         range.from <= t /\ t < so.current /\ \A p \in s : ~ Spans(p, t)
    /\ \A p \in s : \A t \in Nat : Spans(p, t) /\ t <= range.to => t < so.current
    /\ so.current = range.from \/ \E q \in s : so.current <= q.to + 1

LEMMA BeginKnows ==
    ASSUME NEW n \in Nat, NEW range \in Proper(n)
    PROVE  Knows(range, n, {}, Begin(range))
<1>1. Begin(range).gaps = <<>> /\ Begin(range).current = range.from
  BY DEF Begin
<1>2. range.from \in Nat /\ range.to \in Nat /\ range.from <= range.to
  BY DEF Proper
<1>3. Len(<<>>) = 0 /\ <<>> \in Seq(Proper(n)) /\ 1 .. 0 = {}
  OBVIOUS
<1> QED
  BY <1>1, <1>2, <1>3 DEF Knows, InOrder, InGap

\* A turn of the latest of them adds what the others leave open before it.
LEMMA TurnKnows ==
    ASSUME NEW n \in Nat, NEW range \in Proper(n), NEW s \in SUBSET Proper(n), NEW p \in s,
           \A q \in s : q.from <= p.from, NEW so, Knows(range, n, s \ {p}, so)
    PROVE  Knows(range, n, s, Turn(range, 1, p, so))
<1> DEFINE rest == s \ {p}
           from == Larger(p.from, range.from)
           to == Smaller(p.to, range.to)
<1>1. /\ range.from \in Nat \ {0} /\ range.to \in 1 .. n /\ range.from <= range.to
      /\ \A q \in s : q.from \in Nat \ {0} /\ q.to \in 1 .. n /\ q.from <= q.to
  BY DEF Proper
<1>2. PICK gaps, current : gaps = so.gaps /\ current = so.current
  OBVIOUS
<1>3. /\ gaps \in Seq(Proper(n)) /\ InOrder(gaps)
      /\ current \in Nat /\ range.from <= current /\ current <= range.to + 1
      /\ \A i \in 1 .. Len(gaps) : gaps[i].to < current
      /\ \A t \in Nat : InGap(gaps, t) <=>
           range.from <= t /\ t < current /\ \A q \in rest : ~ Spans(q, t)
      /\ \A q \in rest : \A t \in Nat : Spans(q, t) /\ t <= range.to => t < current
      /\ current = range.from \/ \E q \in rest : current <= q.to + 1
  BY <1>2 DEF Knows
<1>4. /\ from \in Nat \ {0} /\ to \in 1 .. n
      /\ from >= p.from /\ from >= range.from /\ from \in {p.from, range.from}
      /\ to <= p.to /\ to <= range.to /\ to \in {p.to, range.to}
  BY <1>1 DEF Larger, Smaller
<1>5. Turn(range, 1, p, so) =
        IF to < range.from \/ from > range.to THEN so
        ELSE [gaps |-> gaps \o Gap(current, from - 1), current |-> Larger(current, to + 1)]
  BY <1>2 DEF Turn
<1> HIDE DEF from, to
<1>6. CASE to < range.from \/ from > range.to
  <2>1. \A t \in Nat : Spans(p, t) => t < range.from \/ t > range.to
    BY <1>1, <1>4, <1>6 DEF Spans
  <2>2. Turn(range, 1, p, so) = so
    BY <1>5, <1>6
  <2>3. \A t \in Nat : InGap(gaps, t) <=>
          range.from <= t /\ t < current /\ \A q \in s : ~ Spans(q, t)
    <3> SUFFICES ASSUME NEW t \in Nat, range.from <= t, t < current
                 PROVE  (\A q \in rest : ~ Spans(q, t)) <=> (\A q \in s : ~ Spans(q, t))
      BY <1>3
    <3>1. ~ Spans(p, t)
      BY <1>1, <1>3, <2>1
    <3> QED
      BY <3>1
  <2>4. \A q \in s : \A t \in Nat : Spans(q, t) /\ t <= range.to => t < current
    <3> SUFFICES ASSUME NEW t \in Nat, Spans(p, t), t <= range.to PROVE t < current
      BY <1>3
    <3> QED
      BY <1>1, <1>3, <2>1
  <2> QED
    BY <1>2, <1>3, <2>2, <2>3, <2>4 DEF Knows
<1>7. CASE ~ (to < range.from \/ from > range.to)
  <2>0. PICK before : before = from - 1
    OBVIOUS
  <2> DEFINE more == gaps \o Gap(current, before)
             next == Larger(current, to + 1)
  <2>1. Turn(range, 1, p, so).gaps = more /\ Turn(range, 1, p, so).current = next
    BY <1>5, <1>7, <2>0
  <2>2. current \in Nat \ {0} /\ before \in 0 .. n /\ before <= to /\ before = from - 1
    BY <1>1, <1>3, <1>4, <1>7, <2>0
  <2>3. /\ more \in Seq(Proper(n)) /\ InOrder(more)
        /\ \A i \in 1 .. Len(more) : more[i].to < current \/ more[i].to <= before
        /\ \A t \in Nat : InGap(more, t) <=> InGap(gaps, t) \/ (current <= t /\ t <= before)
    <3>1. /\ gaps \in Seq(Proper(n)) /\ current \in Nat \ {0} /\ before \in 0 .. n
          /\ InOrder(gaps) /\ \A i \in 1 .. Len(gaps) : gaps[i].to < current
      BY <1>3, <2>2
    <3> QED
      BY <3>1, GapAppended, Zenon
  <2>4. /\ next \in Nat /\ next >= current /\ next >= to + 1 /\ next <= range.to + 1
        /\ next \in {current, to + 1}
    BY <1>1, <1>3, <1>4 DEF Larger
  <2> HIDE DEF more, next
  <2>5. \A i \in 1 .. Len(more) : more[i].to < next
    <3>1. \A i \in 1 .. Len(more) : more[i].to \in Nat
      BY <2>3, ElementOfSeq, LenProperties DEF Proper
    <3> QED
      BY <1>3, <1>4, <2>2, <2>3, <2>4, <3>1
  <2>6. ASSUME NEW t \in Nat
        PROVE  InGap(more, t) <=> range.from <= t /\ t < next /\ \A q \in s : ~ Spans(q, t)
    <3>1. /\ InGap(more, t) <=> InGap(gaps, t) \/ (current <= t /\ t <= before)
          /\ InGap(gaps, t) <=>
               range.from <= t /\ t < current /\ \A q \in rest : ~ Spans(q, t)
      BY <1>3, <2>3
    <3>2. (\A q \in s : ~ Spans(q, t)) <=> ~ Spans(p, t) /\ \A q \in rest : ~ Spans(q, t)
      OBVIOUS
    <3>3. ASSUME range.from <= t, t < current, Spans(p, t)
          PROVE  \E q \in rest : Spans(q, t)
      <4>1. PICK q \in rest : current <= q.to + 1
        BY <1>1, <1>3, <3>3
      <4>2. /\ q.from \in Nat /\ q.to \in Nat /\ p.from \in Nat /\ current \in Nat
            /\ q.from <= p.from /\ p.from <= t
        BY <1>1, <1>3, <3>3 DEF Spans
      <4>3. q.from <= t /\ t <= q.to
        BY <3>3, <4>1, <4>2
      <4> QED
        BY <4>3 DEF Spans
    <3>4. ASSUME current <= t, t <= before
          PROVE  /\ range.from <= t /\ t < next
                 /\ ~ Spans(p, t) /\ \A q \in rest : ~ Spans(q, t)
      <4>1. range.from <= t /\ t < next /\ t < from /\ t <= range.to
        BY <1>1, <1>3, <1>4, <2>2, <2>4, <3>4
      <4>2. ~ Spans(p, t)
        BY <1>1, <1>4, <4>1 DEF Spans
      <4>3. ASSUME NEW q \in rest PROVE ~ Spans(q, t)
        <5>1. Spans(q, t) => t < current
          BY <1>3, <4>1
        <5> QED
          BY <1>3, <3>4, <5>1
      <4> QED
        BY <4>1, <4>2, <4>3
    <3>5. ASSUME current <= t, t < next, ~ Spans(p, t) PROVE t <= before
      BY <1>1, <1>3, <1>4, <2>2, <2>4, <3>5 DEF Spans
    <3>6. t < current => t < next
      BY <1>3, <2>4
    <3>7. t < current \/ current <= t
      BY <1>3
    <3>8. ~ (t < current /\ current <= t)
      BY <1>3
    <3> HIDE DEF rest
    <3> QED
      BY <3>1, <3>2, <3>3, <3>4, <3>5, <3>6, <3>7, <3>8
  <2>7. \A q \in s : \A t \in Nat : Spans(q, t) /\ t <= range.to => t < next
    <3>1. \A t \in Nat : Spans(p, t) /\ t <= range.to => t <= to
      BY <1>1, <1>4 DEF Spans
    <3>2. \A q \in rest : \A t \in Nat : Spans(q, t) /\ t <= range.to => t < next
      BY <1>3, <2>4
    <3>3. \A t \in Nat : Spans(p, t) /\ t <= range.to => t < next
      BY <1>4, <2>4, <3>1
    <3> QED
      BY <3>2, <3>3
  <2>8. next = range.from \/ \E q \in s : next <= q.to + 1
    <3>1. next = to + 1 => next <= p.to + 1
      BY <1>1, <1>4
    <3> QED
      BY <1>3, <2>4, <3>1
  <2>9. range.from <= next
    BY <1>1, <1>3, <2>4
  <2>10. PICK turned : turned = Turn(range, 1, p, so)
    OBVIOUS
  <2>11. turned.gaps = more /\ turned.current = next
    BY <2>1, <2>10
  <2>12. Knows(range, n, s, turned)
    BY <2>3, <2>4, <2>5, <2>6, <2>7, <2>8, <2>9, <2>11 DEF Knows
  <2> QED
    BY <2>10, <2>12
<1> QED
  BY <1>6, <1>7

LEMMA LoopKnows ==
    ASSUME NEW n \in Nat, NEW range \in Proper(n), NEW cached \in SUBSET Proper(n)
    PROVE  Knows(range, n, cached, Loop(range, cached)[cached])
<1> DEFINE Known(s) == Knows(range, n, s, Loop(range, cached)[s])
           Bad == {Cardinality(s) : s \in {u \in SUBSET cached : ~ Known(u)}}
<1>1. \A s \in SUBSET cached : /\ IsFiniteSet(s) /\ Cardinality(s) \in Nat
                               /\ s \in SUBSET Proper(n)
  BY ProperFinite, FS_Subset, FS_CardinalityType
<1>2. Known({})
  BY LoopTurns, BeginKnows
<1>3. ASSUME NEW s \in SUBSET cached, s # {}, Known(s \ {Latest(s)}) PROVE Known(s)
  <2>1. Latest(s) \in s /\ \A q \in s : q.from <= Latest(s).from
    BY <1>1, <1>3, LatestIsLast
  <2>2. PICK p, so : /\ p \in s /\ p = Latest(s) /\ so = Loop(range, cached)[s \ {p}]
                     /\ \A q \in s : q.from <= p.from
    BY <2>1
  <2>3. Loop(range, cached)[s] = Turn(range, 1, p, so)
    BY <1>3, <2>2, LoopTurns
  <2>4. Knows(range, n, s \ {p}, so)
    BY <1>3, <2>2
  <2>5. Knows(range, n, s, Turn(range, 1, p, so))
    BY <1>1, <2>2, <2>4, TurnKnows
  <2> QED
    BY <2>3, <2>5
<1> HIDE DEF Known
<1>4. Bad = {}
  <2>1. Bad \subseteq Nat
    BY <1>1
  <2>2. ASSUME NEW m \in Bad PROVE \E k \in Bad : k < m
    <3>1. PICK s \in SUBSET cached : ~ Known(s) /\ m = Cardinality(s)
      BY <2>2
    <3>2. s # {}
      BY <1>2, <3>1
    <3>3. Latest(s) \in s
      BY <1>1, <3>2, LatestIsLast
    <3>4. ~ Known(s \ {Latest(s)}) /\ s \ {Latest(s)} \in SUBSET cached
      BY <1>3, <3>1, <3>2
    <3>5. Cardinality(s \ {Latest(s)}) = Cardinality(s) - 1
      BY <1>1, <3>3, FS_RemoveElement
    <3>6. Cardinality(s \ {Latest(s)}) < m
      BY <1>1, <3>1, <3>5
    <3> QED
      BY <3>4, <3>6
  <2> HIDE DEF Bad
  <2> QED
    BY <2>1, <2>2, NoSmallest
<1>5. Known(cached)
  BY <1>4
<1> QED
  BY <1>5 DEF Known

\* The gaps found are proper periods of the range: together with the cached periods
\* they are the range, and none shares a moment with a cached period or another gap.
LEMMA MissingPeriodsAreTheRest ==
    ASSUME NEW n \in Nat, NEW range \in Proper(n), NEW cached \in SUBSET Proper(n)
    PROVE  /\ MissingPeriods(range, cached) \in Seq(Proper(n))
           /\ AreTheRest(MissingPeriods(range, cached), range, cached)
<1>1. PICK gaps, current : /\ gaps = Loop(range, cached)[cached].gaps
                           /\ current = Loop(range, cached)[cached].current
  OBVIOUS
<1>2. /\ gaps \in Seq(Proper(n)) /\ InOrder(gaps)
      /\ current \in Nat /\ range.from <= current /\ current <= range.to + 1
      /\ \A i \in 1 .. Len(gaps) : gaps[i].to < current
      /\ \A t \in Nat : InGap(gaps, t) <=>
           range.from <= t /\ t < current /\ \A p \in cached : ~ Spans(p, t)
      /\ \A p \in cached : \A t \in Nat : Spans(p, t) /\ t <= range.to => t < current
  BY <1>1, LoopKnows DEF Knows
<1>3. /\ range.from \in Nat \ {0} /\ range.to \in 0 .. n
      /\ \A p \in Proper(n) : p.from \in Nat /\ p.to \in Nat
  BY DEF Proper
<1> DEFINE all == gaps \o Gap(current, range.to)
<1>4. MissingPeriods(range, cached) = all
  BY <1>1, GapsAreLoop
<1>5. /\ all \in Seq(Proper(n)) /\ InOrder(all)
      /\ \A t \in Nat : InGap(all, t) <=> InGap(gaps, t) \/ (current <= t /\ t <= range.to)
  <2>1. current \in Nat \ {0}
    BY <1>2, <1>3
  <2> QED
    BY <1>2, <1>3, <2>1, GapAppended, Zenon
<1> HIDE DEF all
<1>6. ASSUME NEW t \in Nat
      PROVE  InGap(all, t) <=>
               range.from <= t /\ t <= range.to /\ \A p \in cached : ~ Spans(p, t)
  <2>1. /\ InGap(all, t) <=> InGap(gaps, t) \/ (current <= t /\ t <= range.to)
        /\ InGap(gaps, t) <=>
             range.from <= t /\ t < current /\ \A p \in cached : ~ Spans(p, t)
    BY <1>2, <1>5
  <2>2. current <= t /\ t <= range.to => /\ range.from <= t
                                         /\ \A p \in cached : ~ Spans(p, t)
    BY <1>2, <1>3
  <2>3. t < current => t <= range.to
    BY <1>2, <1>3
  <2>4. t < current \/ current <= t
    BY <1>2
  <2> QED
    BY <2>1, <2>2, <2>3, <2>4
<1>7. TimesOf(all) = (range.from .. range.to) \ UNION {p.from .. p.to : p \in cached}
  <2>1. \A t : t \in TimesOf(all) <=> t \in Nat /\ InGap(all, t)
    <3>1. \A i \in 1 .. Len(all) : all[i].from \in Nat /\ all[i].to \in Nat
      BY <1>3, <1>5, ElementOfSeq, LenProperties
    <3> QED
      BY <3>1 DEF TimesOf, InGap, Spans
  <2>2. \A t : t \in UNION {p.from .. p.to : p \in cached}
                 <=> t \in Nat /\ \E p \in cached : Spans(p, t)
    BY <1>3 DEF Spans
  <2>3. \A t : t \in range.from .. range.to
                 <=> t \in Nat /\ range.from <= t /\ t <= range.to
    BY <1>3
  <2> QED
    BY <1>6, <2>1, <2>2, <2>3
<1> QED
  BY <1>4, <1>5, <1>7 DEF AreTheRest, InOrder

------------------------------------------------------------------------------
(* What a step does with the fields that choose the gaps and feed the answer. *)

\* Neither the range, nor the gaps, nor what is to be answered changes.
OpenKept(r) ==
    /\ req'[r].group = req[r].group /\ req'[r].range = req[r].range
    /\ req'[r].all = req[r].all /\ req'[r].gaps = req[r].gaps
    /\ req'[r].cached = req[r].cached /\ req'[r].fresh = req[r].fresh

SaveStep(r) ==
    \/ LookForGroup(r) \/ SaveGroup(r) \/ LookForPost(r) \/ SavePost(r)
    \/ SavePeriod(r) \/ SaveFail(r)

LEMMA PeriodsProper == ProperPeriods = Proper(Horizon)
BY DEF ProperPeriods, Period, Times, Proper

\* A request is a record of its fields.
LEMMA RequestFields ==
    ASSUME TypeOK, NEW r \in Requests, NEW s, Becomes(r, s)
    PROVE  /\ req[r] \in Request
           /\ req'[r] = s
           /\ \A q \in Requests \ {r} : req'[q] = req[q]
BY DEF TypeOK, Becomes

LEMMA StartFields ==
    ASSUME TypeOK, NEW r \in Requests, Start(r)
    PROVE  /\ req'[r].step = "check" /\ req'[r].range \in ProperPeriods
           /\ req'[r].all \in BOOLEAN /\ req'[r].gaps = <<>>
           /\ req'[r].cached = {} /\ req'[r].fresh = {}
<1>1. PICK g \in Groups, range \in Period, all \in BOOLEAN :
        /\ range.from <= range.to
        /\ Becomes(r, [Idle EXCEPT !.step = "check", !.group = g, !.range = range, !.all = all])
  BY DEF Start
<1>2. req'[r] = [Idle EXCEPT !.step = "check", !.group = g, !.range = range, !.all = all]
  BY <1>1, RequestFields
<1> QED
  BY <1>1, <1>2 DEF Idle, ProperPeriods

\* The gaps are those of the whole range, or those the cached periods leave.
LEMMA CheckFields ==
    ASSUME TypeOK, NEW r \in Requests, Check(r)
    PROVE  /\ req[r].step = "check" /\ req'[r].step = "read"
           /\ req'[r].group = req[r].group /\ req'[r].range = req[r].range
           /\ req'[r].all = FALSE
           /\ req'[r].cached = req[r].cached /\ req'[r].fresh = req[r].fresh
           /\ IF groupRow[req[r].group] = "absent"
                 \/ (req[r].all /\ groupRow[req[r].group] = "old")
              THEN req'[r].gaps = <<req[r].range>>
              ELSE req'[r].gaps =
                     MissingPeriods(req[r].range, Overlapping(req[r].group, req[r].range))
<1> DEFINE gaps == IF groupRow[req[r].group] = "absent"
                        \/ (req[r].all /\ groupRow[req[r].group] = "old")
                   THEN <<req[r].range>>
                   ELSE MissingPeriods(req[r].range, Overlapping(req[r].group, req[r].range))
<1>1. Becomes(r, [req[r] EXCEPT !.step = "read", !.all = FALSE, !.gaps = gaps])
  BY DEF Check
<1>2. gaps = IF groupRow[req[r].group] = "absent"
                  \/ (req[r].all /\ groupRow[req[r].group] = "old")
             THEN <<req[r].range>>
             ELSE MissingPeriods(req[r].range, Overlapping(req[r].group, req[r].range))
  OBVIOUS
<1> HIDE DEF gaps
<1>3. req[r] \in Request
      /\ req'[r] = [req[r] EXCEPT !.step = "read", !.all = FALSE, !.gaps = gaps]
  BY <1>1, RequestFields
<1>4. /\ req[r].step = "check" /\ req'[r].step = "read"
      /\ req'[r].group = req[r].group /\ req'[r].range = req[r].range
      /\ req'[r].all = FALSE
      /\ req'[r].cached = req[r].cached /\ req'[r].fresh = req[r].fresh
      /\ req'[r].gaps = gaps
  BY <1>3 DEF Request, Check
<1> QED
  BY <1>2, <1>4

LEMMA ReadFields ==
    ASSUME TypeOK, NEW r \in Requests, ReadCached(r)
    PROVE  /\ req[r].step = "read" /\ req'[r].step = "fetch"
           /\ req'[r].group = req[r].group /\ req'[r].range = req[r].range
           /\ req'[r].all = req[r].all /\ req'[r].gaps = req[r].gaps
           /\ req'[r].fresh = req[r].fresh /\ req'[r].lost = req[r].lost
           /\ req'[r].cached = IF groupRow[req[r].group] = "absent" THEN {}
                               ELSE RowsOf(req[r].group, req[r].range)
<1> DEFINE cached == IF groupRow[req[r].group] = "absent" THEN {}
                     ELSE RowsOf(req[r].group, req[r].range)
<1>1. Becomes(r, [req[r] EXCEPT !.step = "fetch", !.cached = cached])
  BY DEF ReadCached
<1>2. cached = IF groupRow[req[r].group] = "absent" THEN {}
               ELSE RowsOf(req[r].group, req[r].range)
  OBVIOUS
<1> HIDE DEF cached
<1>3. req[r] \in Request /\ req'[r] = [req[r] EXCEPT !.step = "fetch", !.cached = cached]
  BY <1>1, RequestFields
<1>4. /\ req[r].step = "read" /\ req'[r].step = "fetch"
      /\ req'[r].group = req[r].group /\ req'[r].range = req[r].range
      /\ req'[r].all = req[r].all /\ req'[r].gaps = req[r].gaps
      /\ req'[r].fresh = req[r].fresh /\ req'[r].lost = req[r].lost
      /\ req'[r].cached = cached
  BY <1>3 DEF Request, ReadCached
<1> QED
  BY <1>2, <1>4

LEMMA FetchFields ==
    ASSUME TypeOK, NEW r \in Requests, Fetch(r)
    PROVE  \E got \in SUBSET {t \in Inside(Head(req[r].gaps)) : wall[req[r].group][t] # 0} :
           /\ req[r].step = "fetch" /\ req[r].gaps # <<>> /\ req'[r].step = "group"
           /\ req'[r].group = req[r].group /\ req'[r].range = req[r].range
           /\ req'[r].all = req[r].all /\ req'[r].gaps = req[r].gaps
           /\ req'[r].cached = req[r].cached
           /\ req'[r].fresh = req[r].fresh \cup {<<t, wall[req[r].group][t]>> : t \in got}
           /\ req'[r].lost = req[r].lost
                \cup ({t \in Inside(Head(req[r].gaps)) : wall[req[r].group][t] # 0} \ got)
                \cup {t \in Inside(Head(req[r].gaps)) : t > now}
<1> DEFINE there == {t \in Inside(Head(req[r].gaps)) : wall[req[r].group][t] # 0}
           posts(got) == {<<t, wall[req[r].group][t]>> : t \in got}
           fresh(got) == req[r].fresh \cup posts(got)
           lost(got) == req[r].lost \cup (there \ got) \cup {t \in Inside(Head(req[r].gaps)) : t > now}
<1>1. PICK got \in SUBSET there :
        Becomes(r, [req[r] EXCEPT !.step = "group", !.hand = posts(got), !.fresh = fresh(got),
                      !.lost = lost(got)])
  BY DEF Fetch, FetchMerging, Flattened, Merged
<1>2. /\ fresh(got) = req[r].fresh \cup {<<t, wall[req[r].group][t]>> : t \in got}
      /\ lost(got) = req[r].lost
           \cup ({t \in Inside(Head(req[r].gaps)) : wall[req[r].group][t] # 0} \ got)
           \cup {t \in Inside(Head(req[r].gaps)) : t > now}
  OBVIOUS
<1> HIDE DEF posts, fresh, lost
<1>3. /\ req[r] \in Request
      /\ req'[r] = [req[r] EXCEPT !.step = "group", !.hand = posts(got), !.fresh = fresh(got),
                      !.lost = lost(got)]
  BY <1>1, RequestFields
<1>4. /\ req[r].step = "fetch" /\ req[r].gaps # <<>> /\ req'[r].step = "group"
      /\ req'[r].group = req[r].group /\ req'[r].range = req[r].range
      /\ req'[r].all = req[r].all /\ req'[r].gaps = req[r].gaps
      /\ req'[r].cached = req[r].cached
      /\ req'[r].fresh = fresh(got) /\ req'[r].lost = lost(got)
  BY <1>3 DEF Request, Fetch, FetchMerging
<1> QED
  BY <1>2, <1>4

LEMMA FetchNothingFields ==
    ASSUME TypeOK, NEW r \in Requests, FetchNothing(r)
    PROVE  /\ req[r].step = "fetch" /\ req[r].gaps # <<>> /\ req'[r].step = "fetch"
           /\ req'[r].group = req[r].group /\ req'[r].range = req[r].range
           /\ req'[r].all = req[r].all /\ req'[r].gaps = Tail(req[r].gaps)
           /\ req'[r].cached = req[r].cached /\ req'[r].fresh = req[r].fresh
           /\ req'[r].lost = req[r].lost \cup Inside(Head(req[r].gaps))
<1>1. PICK gaps, lost : /\ gaps = Tail(req[r].gaps)
                        /\ lost = req[r].lost \cup Inside(Head(req[r].gaps))
  OBVIOUS
<1>2. Becomes(r, [req[r] EXCEPT !.gaps = gaps, !.lost = lost])
  <2>1. [req[r] EXCEPT !.gaps = gaps, !.lost = lost] =
          [req[r] EXCEPT !.gaps = Tail(@), !.lost = @ \cup Inside(Head(req[r].gaps))]
    BY <1>1
  <2> QED
    BY <2>1 DEF FetchNothing
<1>3. req[r] \in Request /\ req'[r] = [req[r] EXCEPT !.gaps = gaps, !.lost = lost]
  BY <1>2, RequestFields
<1> QED
  BY <1>1, <1>3 DEF Request, FetchNothing

\* Saving adds to what is lost, at most.
LEMMA SaveStepFields ==
    ASSUME TypeOK, NEW r \in Requests, SaveStep(r)
    PROVE  /\ req[r].step \in Saving /\ req'[r].step \in InWork
           /\ OpenKept(r) /\ req[r].lost \subseteq req'[r].lost
<1>1. req[r] \in Request
  BY DEF TypeOK
<1>2. ASSUME EndSave(r)
      PROVE  req'[r].step = "publish" /\ OpenKept(r) /\ req'[r].lost = req[r].lost
  <2>1. req'[r] = [req[r] EXCEPT !.step = "publish", !.todo = {}, !.post = None, !.found = FALSE]
    BY <1>2, RequestFields DEF EndSave
  <2> QED
    BY <1>1, <2>1 DEF Request, OpenKept
<1>3. CASE LookForGroup(r)
  <2>1. PICK found : Becomes(r, [req[r] EXCEPT !.step = "groupRow", !.found = found])
    BY <1>3 DEF LookForGroup
  <2>2. req'[r] = [req[r] EXCEPT !.step = "groupRow", !.found = found]
    BY <2>1, RequestFields
  <2> QED
    BY <1>1, <1>3, <2>2 DEF Request, OpenKept, LookForGroup, Saving, InWork, Steps
<1>4. CASE SaveGroup(r)
  <2>1. CASE EndSave(r)
    BY <1>2, <1>4, <2>1 DEF SaveGroup, Saving, InWork, Steps
  <2>2. CASE Becomes(r, [req[r] EXCEPT !.step = "posts", !.todo = req[r].hand, !.found = FALSE])
    <3>1. req'[r] = [req[r] EXCEPT !.step = "posts", !.todo = req[r].hand, !.found = FALSE]
      BY <2>2, RequestFields
    <3> QED
      BY <1>1, <1>4, <3>1 DEF Request, OpenKept, SaveGroup, Saving, InWork, Steps
  <2> QED
    BY <1>4, <2>1, <2>2 DEF SaveGroup, Conflict
<1>5. CASE LookForPost(r)
  <2>1. PICK post, found : Becomes(r, [req[r] EXCEPT !.step = "postRow", !.post = post,
                                         !.found = found])
    BY <1>5 DEF LookForPost
  <2>2. req'[r] = [req[r] EXCEPT !.step = "postRow", !.post = post, !.found = found]
    BY <2>1, RequestFields
  <2> QED
    BY <1>1, <1>5, <2>2 DEF Request, OpenKept, LookForPost, Saving, InWork, Steps
<1>6. CASE SavePost(r)
  <2>1. CASE EndSave(r)
    BY <1>2, <1>6, <2>1 DEF SavePost, Saving, InWork, Steps
  <2>2. ASSUME NEW lost, req[r].lost \subseteq lost,
               Becomes(r, [req[r] EXCEPT !.step = "posts", !.todo = @ \ {req[r].post},
                             !.post = None, !.found = FALSE, !.lost = lost])
        PROVE  /\ req[r].step \in Saving /\ req'[r].step \in InWork
               /\ OpenKept(r) /\ req[r].lost \subseteq req'[r].lost
    <3>1. PICK todo : todo = req[r].todo \ {req[r].post}
      OBVIOUS
    <3>2. req'[r] = [req[r] EXCEPT !.step = "posts", !.todo = todo,
                       !.post = None, !.found = FALSE, !.lost = lost]
      BY <2>2, <3>1, RequestFields
    <3> QED
      BY <1>1, <1>6, <2>2, <3>2 DEF Request, OpenKept, SavePost, Saving, InWork, Steps
  <2>3. EndSave(r) \/ \E row : PostDone(r, row)
    BY <1>6 DEF SavePost, Conflict, PostDone
  <2>4. ASSUME NEW row, PostDone(r, row)
        PROVE  \E lost : /\ req[r].lost \subseteq lost
                         /\ Becomes(r, [req[r] EXCEPT !.step = "posts",
                                          !.todo = @ \ {req[r].post},
                                          !.post = None, !.found = FALSE, !.lost = lost])
    <3>1. CASE IsRowOf(row, req[r].group, req[r].post[1])
      BY <2>4, <3>1 DEF PostDone
    <3>2. CASE ~ IsRowOf(row, req[r].group, req[r].post[1])
      BY <2>4, <3>2 DEF PostDone
    <3> QED
      BY <3>1, <3>2
  <2> QED
    BY <2>1, <2>2, <2>3, <2>4
<1>7. CASE SavePeriod(r)
  BY <1>2, <1>7 DEF SavePeriod, Record, Saving, InWork, Steps
<1>8. CASE SaveFail(r)
  BY <1>2, <1>8 DEF SaveFail, Saving, InWork, Steps
<1> QED
  BY <1>3, <1>4, <1>5, <1>6, <1>7, <1>8 DEF SaveStep

LEMMA PublishFields ==
    ASSUME TypeOK, NEW r \in Requests, Publish(r) \/ PublishFail(r)
    PROVE  /\ req[r].step = "publish" /\ req'[r].step = "fetch"
           /\ req'[r].group = req[r].group /\ req'[r].range = req[r].range
           /\ req'[r].all = req[r].all /\ req'[r].gaps = Tail(req[r].gaps)
           /\ req'[r].cached = req[r].cached /\ req'[r].fresh = req[r].fresh
           /\ req'[r].lost = req[r].lost
<1>1. PICK gaps : gaps = Tail(req[r].gaps)
  OBVIOUS
<1>2. Becomes(r, [req[r] EXCEPT !.step = "fetch", !.gaps = gaps, !.hand = {}])
  BY <1>1 DEF Publish, PublishFail, PublishOnly
<1>3. req[r] \in Request /\ req'[r] = [req[r] EXCEPT !.step = "fetch", !.gaps = gaps, !.hand = {}]
  BY <1>2, RequestFields
<1> QED
  BY <1>1, <1>3 DEF Request, Publish, PublishFail

LEMMA AnswerFields ==
    ASSUME TypeOK, NEW r \in Requests, Answer(r)
    PROVE  /\ req[r].step = "fetch" /\ req[r].gaps = <<>> /\ req'[r].step = "done"
           /\ OpenKept(r) /\ req'[r].lost = req[r].lost
<1>1. req[r] \in Request /\ req'[r] = [req[r] EXCEPT !.step = "done"]
  BY RequestFields DEF Answer
<1> QED
  BY <1>1 DEF Request, Answer, OpenKept

LEMMA AbortFields ==
    ASSUME TypeOK, NEW r \in Requests, Abort(r)
    PROVE  req'[r] = Idle
BY RequestFields DEF Abort

LEMMA StepsOfRequest ==
    ASSUME NEW r \in Requests, RequestStep(r)
    PROVE  \/ Start(r) \/ Check(r) \/ ReadCached(r) \/ Fetch(r) \/ FetchNothing(r) \/ SaveStep(r)
           \/ Publish(r) \/ PublishFail(r) \/ Answer(r) \/ Abort(r)
BY DEF RequestStep, SaveStep

------------------------------------------------------------------------------
(* The types in full.                                                       *)

LEMMA FewGaps ==
    /\ <<>> \in Seq(ProperPeriods)
    /\ \A p \in ProperPeriods : <<p>> \in Seq(ProperPeriods)
OBVIOUS

LEMMA InitFull == Init => TypeOK /\ RangeInv /\ GroupInv /\ \A r \in Requests : AnswerInv(r)
<1> SUFFICES ASSUME Init
             PROVE  TypeOK /\ RangeInv /\ GroupInv /\ \A r \in Requests : AnswerInv(r)
  OBVIOUS
<1>1. 1 \in Times /\ Horizon \in Nat
  BY ParseAssumption DEF Times
<1>2. Idle \in Request
  BY <1>1 DEF Idle, Request, Steps, Period
<1>3. \A r \in Requests : /\ req[r] = Idle /\ req[r].step = "idle"
                          /\ req[r].range = [from |-> 1, to |-> 1] /\ req[r].gaps = <<>>
  BY DEF Init, Idle
<1>4. TypeOK
  <2>1. \A r \in Requests : req[r].step \notin InWork /\ req[r].step # "postRow"
    BY <1>3 DEF InWork
  <2>2. req \in [Requests -> Request]
    BY <1>2 DEF Init
  <2> QED
    BY <1>1, <1>3, <2>1, <2>2, ParseAssumption DEF Init, TypeOK
<1>5. RangeInv
  <2>1. [from |-> 1, to |-> 1] \in ProperPeriods
    BY <1>1 DEF ProperPeriods, Period
  <2> QED
    BY <1>3, <2>1, FewGaps DEF Init, RangeInv
<1>6. GroupInv /\ \A r \in Requests : AnswerInv(r)
  BY <1>3 DEF Init, GroupInv, AnswerInv, InWork
<1> QED
  BY <1>4, <1>5, <1>6

\* The gaps of a request are proper periods.
LEMMA CheckedGaps ==
    ASSUME TypeOK, RangeInv, NEW r \in Requests, Check(r),
           NEW g, g = req[r].group
    PROVE  /\ req'[r].gaps \in Seq(ProperPeriods)
           /\ ~ (groupRow[g] = "absent" \/ (req[r].all /\ groupRow[g] = "old"))
                => AreTheRest(req'[r].gaps, req[r].range, Overlapping(g, req[r].range))
<1>1. req[r].range \in Proper(Horizon) /\ Horizon \in Nat
  BY PeriodsProper, ParseAssumption DEF RangeInv
<1>2. g \in Groups
  BY DEF TypeOK, Check
<1>3. Overlapping(g, req[r].range) \in SUBSET Proper(Horizon)
  BY <1>2, PeriodsProper DEF RangeInv, Overlapping
<1>4. CASE groupRow[g] = "absent" \/ (req[r].all /\ groupRow[g] = "old")
  <2>1. req'[r].gaps = <<req[r].range>> /\ req[r].range \in ProperPeriods
    BY <1>1, <1>4, CheckFields, PeriodsProper
  <2> QED
    BY <1>4, <2>1, FewGaps
<1>5. CASE ~ (groupRow[g] = "absent" \/ (req[r].all /\ groupRow[g] = "old"))
  <2>1. req'[r].gaps = MissingPeriods(req[r].range, Overlapping(g, req[r].range))
    BY <1>5, CheckFields
  <2>2. /\ MissingPeriods(req[r].range, Overlapping(g, req[r].range)) \in Seq(Proper(Horizon))
        /\ AreTheRest(MissingPeriods(req[r].range, Overlapping(g, req[r].range)),
                      req[r].range, Overlapping(g, req[r].range))
    BY <1>1, <1>3, MissingPeriodsAreTheRest
  <2> QED
    BY <1>5, <2>1, <2>2, PeriodsProper
<1> QED
  BY <1>4, <1>5

\* What a request reads and fetches are posts as a response shows them.
LEMMA OpenTypes ==
    ASSUME TypeOK, RangeInv, NEW r \in Requests, RequestStep(r)
    PROVE  /\ req'[r].range \in ProperPeriods /\ req'[r].all \in BOOLEAN
           /\ req'[r].gaps \in Seq(ProperPeriods)
           /\ req'[r].cached \subseteq Seen /\ req'[r].fresh \subseteq Seen
           /\ req'[r].step \in InWork => req'[r].gaps # <<>>
<1>1. /\ req[r].range \in ProperPeriods /\ req[r].all \in BOOLEAN
      /\ req[r].gaps \in Seq(ProperPeriods)
      /\ req[r].cached \subseteq Seen /\ req[r].fresh \subseteq Seen
      /\ req[r].step \in InWork => req[r].gaps # <<>>
  BY DEF TypeOK, RangeInv, Request
<1>2. {"idle", "check", "read", "fetch", "done"} \cap InWork = {}
  BY DEF InWork
<1>3. CASE Start(r)
  BY <1>2, <1>3, StartFields, FewGaps
<1>4. CASE Check(r)
  BY <1>1, <1>2, <1>4, CheckFields, CheckedGaps
<1>5. CASE ReadCached(r)
  <2>1. RowsOf(req[r].group, req[r].range) \subseteq Seen
    BY DEF RowsOf, TypeOK, Row, Seen
  <2> QED
    BY <1>1, <1>2, <1>5, <2>1, ReadFields
<1>6. CASE Fetch(r)
  <2>1. req[r].group \in Groups
    BY <1>6, FetchFields DEF TypeOK
  <2>2. \A t \in Inside(Head(req[r].gaps)) : <<t, wall[req[r].group][t]>> \in Seen
    BY <2>1 DEF Inside, TypeOK, Seen
  <2> QED
    BY <1>1, <1>6, <2>2, FetchFields
<1>7. CASE FetchNothing(r)
  <2>1. Tail(req[r].gaps) \in Seq(ProperPeriods)
    BY <1>1, <1>7, FetchNothingFields, HeadTailProperties
  <2> QED
    BY <1>1, <1>2, <1>7, <2>1, FetchNothingFields
<1>8. CASE SaveStep(r)
  BY <1>1, <1>8, SaveStepFields DEF OpenKept, Saving
<1>9. CASE Publish(r) \/ PublishFail(r)
  <2>1. req[r].step \in InWork
    BY <1>9, PublishFields DEF InWork, Steps
  <2>2. Tail(req[r].gaps) \in Seq(ProperPeriods)
    BY <1>1, <2>1, HeadTailProperties
  <2> QED
    BY <1>1, <1>2, <1>9, <2>2, PublishFields
<1>10. CASE Answer(r)
  BY <1>1, <1>2, <1>10, AnswerFields DEF OpenKept
<1>11. CASE Abort(r)
  <2>1. [from |-> 1, to |-> 1] \in ProperPeriods
    BY ParseAssumption DEF ProperPeriods, Period, Times
  <2>2. /\ Idle.step = "idle" /\ Idle.range = [from |-> 1, to |-> 1] /\ Idle.all = FALSE
        /\ Idle.gaps = <<>> /\ Idle.cached = {} /\ Idle.fresh = {}
    BY DEF Idle
  <2>3. req'[r] = Idle
    BY <1>11, AbortFields
  <2> QED
    BY <1>2, <2>1, <2>2, <2>3, FewGaps
<1> QED
  BY <1>3, <1>4, <1>5, <1>6, <1>7, <1>8, <1>9, <1>10, <1>11, StepsOfRequest

\* Rows of groups do not go, and a period is recorded for a group that has one.
LEMMA TablesGrow ==
    ASSUME TypeOK, RangeInv, GroupInv, [Next]_vars
    PROVE  /\ groupRow' \in [Groups -> {"absent", "recent", "old"}]
           /\ \A g \in Groups : groupRow[g] # "absent" => groupRow'[g] # "absent"
           /\ \A g \in Groups : /\ periods[g] \subseteq periods'[g]
                                /\ missed[g] \subseteq missed'[g]
                                /\ periods'[g] \subseteq ProperPeriods
                                /\ periods'[g] = periods[g] \/ groupRow[g] # "absent"
           /\ periods' \in [Groups -> SUBSET Period]
<1>1. /\ groupRow \in [Groups -> {"absent", "recent", "old"}]
      /\ periods \in [Groups -> SUBSET Period] /\ missed \in [Groups -> SUBSET Times]
      /\ \A g \in Groups : periods[g] \subseteq ProperPeriods
  BY DEF TypeOK, RangeInv
<1>2. ASSUME NEW r \in Requests, SavePeriod(r)
      PROVE  /\ groupRow' = groupRow
             /\ \A g \in Groups : /\ periods[g] \subseteq periods'[g]
                                  /\ missed[g] \subseteq missed'[g]
                                  /\ periods'[g] \subseteq ProperPeriods
                                  /\ periods'[g] = periods[g] \/ groupRow[g] # "absent"
             /\ periods' \in [Groups -> SUBSET Period]
  <2> DEFINE h == req[r].group
             gap == Head(req[r].gaps)
  <2>1. h \in Groups /\ groupRow[h] # "absent" /\ req[r].gaps # <<>>
    BY <1>2 DEF SavePeriod, TypeOK, GroupInv, InWork, Steps
  <2>2. gap \in ProperPeriods /\ gap \in Period
    <3>1. req[r].gaps \in Seq(ProperPeriods)
      BY DEF RangeInv
    <3> QED
      BY <2>1, <3>1, HeadTailProperties DEF ProperPeriods
  <2>3. /\ periods' = [periods EXCEPT ![h] = @ \cup {gap}]
        /\ missed' = [missed EXCEPT ![h] = @ \cup (req[r].lost \cap Inside(gap))]
        /\ groupRow' = groupRow
    BY <1>2 DEF SavePeriod, Record
  <2> HIDE DEF h, gap
  <2> QED
    BY <1>1, <2>1, <2>2, <2>3
<1>3. ASSUME NEW r \in Requests, RequestStep(r)
      PROVE  SavePeriod(r) \/ (UNCHANGED <<periods, missed>>
                                /\ (groupRow' = groupRow
                                    \/ \E g \in Groups :
                                          groupRow' = [groupRow EXCEPT ![g] = "recent"]))
  <2>1. CASE SaveGroup(r)
    <3>1. req[r].group \in Groups
      BY <2>1 DEF SaveGroup, TypeOK
    <3> QED
      BY <2>1, <3>1 DEF SaveGroup, Conflict, tables
  <2>2. CASE ~ SaveGroup(r)
    BY <1>3, <2>2 DEF RequestStep, Start, Check, ReadCached, Fetch, FetchMerging, FetchNothing,
       LookForGroup, LookForPost, SavePost, Conflict, SaveFail, Publish, PublishFail, PublishOnly,
       Answer, Abort, tables
  <2> QED
    BY <2>1, <2>2
<1>4. CASE \E r \in Requests : SavePeriod(r)
  BY <1>1, <1>2, <1>4
<1>5. CASE \E r \in Requests : RequestStep(r) /\ ~ SavePeriod(r)
  BY <1>1, <1>3, <1>5
<1>6. CASE Tick \/ UNCHANGED vars
  BY <1>1, <1>6 DEF Tick, vars, tables
<1>7. ASSUME NEW g \in Groups, Age(g) \/ \E t \in Times : Edit(g, t)
      PROVE  /\ UNCHANGED <<periods, missed>>
             /\ groupRow' = groupRow
                  \/ (groupRow[g] = "recent" /\ groupRow' = [groupRow EXCEPT ![g] = "old"])
  BY <1>7 DEF Age, Edit, tables
<1>8. CASE \E g \in Groups : Age(g) \/ \E t \in Times : Edit(g, t)
  BY <1>1, <1>7, <1>8
<1> QED
  BY <1>4, <1>5, <1>6, <1>8 DEF Next

LEMMA NextFull ==
    ASSUME Core, Core', TypeOK, RangeInv, GroupInv, [Next]_vars
    PROVE  TypeOK' /\ RangeInv'
<1>1. PICK G : req' \in [Requests -> Shape(G)]
  BY DEF Core, Types, Shaped
<1>2. started' \in Nat /\ edits' \in Nat
  <2>1. \A r \in Requests : RequestStep(r) =>
          started' \in {started, started + 1} /\ edits' = edits
    BY DEF RequestStep, Start, Check, ReadCached, Fetch, FetchMerging, FetchNothing,
       LookForGroup, SaveGroup, LookForPost, SavePost, SavePeriod, Record, SaveFail, Publish,
       PublishFail, PublishOnly, Answer, Abort, vk
  <2>2. \/ \E r \in Requests : RequestStep(r)
        \/ started' = started /\ edits' \in {edits, edits + 1}
    BY DEF Next, Tick, Age, Edit, vars, vk
  <2>3. started \in Nat /\ edits \in Nat
    BY DEF TypeOK
  <2> QED
    BY <2>1, <2>2, <2>3
<1>3. ASSUME NEW q \in Requests
      PROVE  /\ req'[q].range \in ProperPeriods /\ req'[q].all \in BOOLEAN
             /\ req'[q].gaps \in Seq(ProperPeriods)
             /\ req'[q].cached \subseteq Seen /\ req'[q].fresh \subseteq Seen
             /\ req'[q].step \in InWork => req'[q].gaps # <<>>
             /\ req'[q].step = "postRow" => req'[q].post \in Seen
  <2>1. CASE req'[q] = req[q]
    BY <2>1 DEF TypeOK, RangeInv, Request
  <2>2. ASSUME NEW r \in Requests, RequestStep(r), req'[q] # req[q]
        PROVE  q = r
    BY <2>2, RequestShaped DEF Core, RequestInv
  <2>3. CASE RequestStep(q)
    <3>1. req'[q].step = "postRow" => req'[q].post \in req'[q].hand
      BY DEF Core, RequestInv, HandInv
    <3>2. req'[q].hand \subseteq Seen
      BY <1>1 DEF Shape
    <3> QED
      BY <2>3, <3>1, <3>2, OpenTypes
  <2>4. CASE UNCHANGED req
    BY <2>1, <2>4
  <2> QED
    BY <2>1, <2>2, <2>3, <2>4 DEF Next, Tick, Age, Edit, vars
<1>4. req' \in [Requests -> Request]
  <2>1. ASSUME NEW q \in Requests PROVE req'[q] \in Request
    <3>1. req'[q] \in Shape(G)
      BY <1>1
    <3>2. req'[q].range \in Period /\ req'[q].gaps \in Seq(Period)
      <4>1. ProperPeriods \subseteq Period
        BY DEF ProperPeriods
      <4> QED
        BY <1>3, <4>1, SeqMonotonic
    <3> QED
      BY <1>3, <3>1, <3>2 DEF Shape, Request
  <2> QED
    BY <1>1, <2>1
<1>5. TypeOK'
  BY <1>2, <1>3, <1>4, TablesGrow DEF TypeOK, Core, Types
<1>6. RangeInv'
  BY <1>3, TablesGrow DEF RangeInv
<1> QED
  BY <1>5, <1>6

LEMMA SaveEnds ==
    ASSUME TypeOK, NEW r \in Requests, EndSave(r)
    PROVE  req'[r].step = "publish"
<1>1. /\ req[r] \in Request
      /\ req'[r] = [req[r] EXCEPT !.step = "publish", !.todo = {}, !.post = None, !.found = FALSE]
  BY RequestFields DEF EndSave
<1> QED
  BY <1>1 DEF Request

LEMMA NextGroupInv ==
    ASSUME Core, TypeOK, RangeInv, GroupInv, [Next]_vars
    PROVE  GroupInv'
<1>1. \A g \in Groups : groupRow'[g] = "absent" => periods'[g] = {}
  BY TablesGrow DEF GroupInv
<1>2. ASSUME NEW q \in Requests, req'[q].step \in {"posts", "postRow"}
      PROVE  groupRow'[req'[q].group] # "absent"
  <2>1. CASE req'[q] = req[q]
    <3>1. req[q].group \in Groups /\ groupRow[req[q].group] # "absent"
      BY <1>2, <2>1 DEF GroupInv, TypeOK
    <3> QED
      BY <2>1, <3>1, TablesGrow
  <2>2. ASSUME NEW r \in Requests, RequestStep(r), req'[q] # req[q]
        PROVE  q = r
    BY <2>2, RequestShaped DEF Core, RequestInv
  <2>3. CASE RequestStep(q)
    <3>1. SaveStep(q)
      <4>1. ~ Start(q) /\ ~ Check(q) /\ ~ ReadCached(q) /\ ~ FetchNothing(q)
        BY <1>2, StartFields, CheckFields, ReadFields, FetchNothingFields
      <4>2. ~ Fetch(q) /\ ~ Publish(q) /\ ~ PublishFail(q) /\ ~ Answer(q)
        BY <1>2, FetchFields, PublishFields, AnswerFields
      <4>3. ~ Abort(q)
        BY <1>2, AbortFields DEF Idle
      <4> QED
        BY <2>3, <4>1, <4>2, <4>3, StepsOfRequest
    <3>2. req'[q].group = req[q].group /\ req[q].group \in Groups
      BY <3>1, SaveStepFields DEF OpenKept, TypeOK, Saving, InWork
    <3>3. CASE SaveGroup(q)
      <4>1. \/ req'[q].step = "publish"
            \/ groupRow' = [groupRow EXCEPT ![req[q].group] = "recent"]
        BY <3>3, SaveEnds DEF SaveGroup, Conflict
      <4> QED
        BY <1>2, <3>2, <4>1 DEF TypeOK
    <3>4. CASE ~ SaveGroup(q)
      <4>1. req[q].step \in {"posts", "postRow"}
        <5>1. LookForGroup(q) => req'[q].step = "groupRow"
          <6> SUFFICES ASSUME LookForGroup(q) PROVE req'[q].step = "groupRow"
            OBVIOUS
          <6>1. PICK found : Becomes(q, [req[q] EXCEPT !.step = "groupRow", !.found = found])
            BY DEF LookForGroup
          <6>2. /\ req[q] \in Request
                /\ req'[q] = [req[q] EXCEPT !.step = "groupRow", !.found = found]
            BY <6>1, RequestFields
          <6> QED
            BY <6>2 DEF Request
        <5>2. SaveFail(q) => req'[q].step = "publish"
          BY SaveEnds DEF SaveFail
        <5> QED
          BY <1>2, <3>1, <3>4, <5>1, <5>2 DEF SaveStep, LookForPost, SavePost, SavePeriod
      <4>2. groupRow[req[q].group] # "absent"
        BY <4>1 DEF GroupInv
      <4> QED
        BY <3>2, <4>2, TablesGrow
    <3> QED
      BY <3>3, <3>4
  <2>4. CASE UNCHANGED req
    BY <2>1, <2>4
  <2> QED
    BY <2>1, <2>2, <2>3, <2>4 DEF Next, Tick, Age, Edit, vars
<1> QED
  BY <1>1, <1>2 DEF GroupInv

------------------------------------------------------------------------------
(* The answers.                                                             *)

\* The gap in work and those to come are the gaps there are.
LEMMA HeadAndTail ==
    ASSUME NEW gaps \in Seq(ProperPeriods)
    PROVE  /\ gaps = <<>> => TimesOf(gaps) = {}
           /\ gaps # <<>> => \A t \in Times :
                t \in TimesOf(gaps) => t \in Inside(Head(gaps)) \/ t \in TimesOf(Tail(gaps))
<1>1. gaps = <<>> => TimesOf(gaps) = {}
  <2>1. Len(<<>>) = 0 /\ 1 .. 0 = {}
    OBVIOUS
  <2> QED
    BY <2>1 DEF TimesOf
<1>2. ASSUME gaps # <<>>, NEW t \in Times, t \in TimesOf(gaps)
      PROVE  t \in Inside(Head(gaps)) \/ t \in TimesOf(Tail(gaps))
  <2>1. PICK i \in 1 .. Len(gaps) : t \in gaps[i].from .. gaps[i].to
    BY <1>2 DEF TimesOf
  <2>2. Len(gaps) \in Nat /\ Head(gaps) = gaps[1]
    BY <1>2, LenProperties
  <2>3. CASE i = 1
    BY <2>1, <2>2, <2>3 DEF Inside
  <2>4. CASE i # 1
    <3>1. /\ Len(Tail(gaps)) = Len(gaps) - 1
          /\ \A j \in 1 .. Len(Tail(gaps)) : Tail(gaps)[j] = gaps[j + 1]
      BY <1>2, HeadTailProperties
    <3>2. PICK j \in 1 .. Len(Tail(gaps)) : i = j + 1
      <4>1. i - 1 \in 1 .. Len(Tail(gaps)) /\ i = (i - 1) + 1
        BY <2>1, <2>2, <2>4, <3>1
      <4> QED
        BY <4>1
    <3>3. t \in Tail(gaps)[j].from .. Tail(gaps)[j].to
      BY <2>1, <3>1, <3>2
    <3> QED
      BY <3>3 DEF TimesOf
  <2> QED
    BY <2>3, <2>4
<1> QED
  BY <1>1, <1>2

\* A request that does nothing is not disturbed by what the others do.
LEMMA OtherAnswer ==
    ASSUME Core, Grows, TypeOK, RangeInv, GroupInv, [Next]_vars,
           NEW q \in Requests, AnswerInv(q), req'[q] = req[q]
    PROVE  AnswerInv(q)'
<1>1. req[q].step # "idle" => req[q].group \in Groups
  BY DEF TypeOK
<1>2. req[q].step # "idle" => /\ Covered(req[q].group) \subseteq Covered(req[q].group)'
                              /\ missed[req[q].group] \subseteq missed'[req[q].group]
  <2>1. \A g \in Groups : periods[g] \subseteq periods'[g] /\ missed[g] \subseteq missed'[g]
    BY TablesGrow
  <2> QED
    BY <1>1, <2>1 DEF Covered
<1>3. ASSUME NEW t \in Times, req[q].step # "idle", t <= now, wall[req[q].group][t] = 0
      PROVE  t <= now' /\ wall'[req[q].group][t] = 0
  <2>1. now \in Int /\ now' \in Int /\ t \in Int
    <3>1. Types'
      BY NextTypes
    <3> QED
      BY <3>1, ParseAssumption DEF Types, TypeOK, Times
  <2> QED
    BY <1>1, <1>3, <2>1 DEF Grows
<1>4. Answered(q)' = Answered(q) /\ ToCome(q)' = ToCome(q)
  BY DEF Answered, Merged, ToCome
<1>5. InWork \cup {"fetch", "done"} \subseteq Steps \ {"idle"}
  BY DEF InWork, Steps
<1>6. Inside(req[q].range) \subseteq Times
  BY DEF Inside
<1>7. req[q].step = "read" =>
        Inside(req[q].range) \subseteq TimesOf(req[q].gaps) \cup Covered(req[q].group)'
  BY <1>2 DEF AnswerInv
<1>8. req[q].step \in InWork \cup {"fetch", "done"} =>
        \A t \in Inside(req[q].range) :
            \/ t \in Dates(Answered(q)) \cup req[q].lost \cup missed'[req[q].group]
            \/ t \in TimesOf(ToCome(q))
            \/ t <= now' /\ wall'[req[q].group][t] = 0
  BY <1>2, <1>3, <1>5, <1>6 DEF AnswerInv
<1>9. req[q].step = "done" => req[q].gaps = <<>>
  BY DEF AnswerInv
<1> QED
  BY <1>4, <1>7, <1>8, <1>9 DEF AnswerInv, Covered

\* What is covered when a request reads is read, or known to be lacking.
LEMMA CoveredIsRead ==
    ASSUME Core, TypeOK, GroupInv, NEW g \in Groups, NEW range,
           NEW t \in Inside(range), t \in Covered(g)
    PROVE  \/ t \in missed[g]
           \/ t <= now /\ wall[g][t] = 0
           \/ groupRow[g] # "absent" /\ t \in Dates(RowsOf(g, range))
<1>1. PICK p \in periods[g] : t \in Inside(p)
  BY DEF Covered
<1>2. groupRow[g] # "absent"
  BY <1>1 DEF GroupInv
<1>3. \/ t \in missed[g] \/ (t <= now /\ wall[g][t] = 0) \/ Stored(g, t)
  BY <1>1 DEF Core, PeriodInv
<1>4. ASSUME Stored(g, t) PROVE t \in Dates(RowsOf(g, range))
  <2>1. t \in Times
    BY DEF Inside
  <2>2. PICK id \in Times : id = IdOf(g, t)
    BY <1>4, <2>1, IdOfType DEF Stored
  <2>3. rows[id] # None /\ rows[id].group = g /\ rows[id].at = t
    BY <1>4, <2>2 DEF Stored, IsRowOf
  <2>4. <<t, rows[id].rev>> \in RowsOf(g, range)
    BY <2>3 DEF RowsOf
  <2> QED
    BY <2>4, DateOf
<1> QED
  BY <1>2, <1>3, <1>4

\* A request's own step keeps its answer complete.
LEMMA OwnAnswer ==
    ASSUME Core, TypeOK, RangeInv, GroupInv, [Next]_vars,
           NEW r \in Requests, AnswerInv(r), RequestStep(r)
    PROVE  AnswerInv(r)'
<1>1. /\ req[r].gaps \in Seq(ProperPeriods) /\ req[r].range \in ProperPeriods
      /\ req[r].step # "idle" => req[r].group \in Groups
      /\ Inside(req[r].range) \subseteq Times
  BY DEF RangeInv, TypeOK, Inside
<1>2. UNCHANGED <<now, wall>>
  BY RequestFrame
<1>3. \A g \in Groups : periods[g] \subseteq periods'[g] /\ missed[g] \subseteq missed'[g]
  BY TablesGrow
<1>4. /\ InWork \cap {"idle", "check", "read", "fetch", "done"} = {}
      /\ Saving \subseteq InWork /\ "publish" \in InWork /\ "group" \in InWork
  BY DEF InWork, Saving, Steps
<1> DEFINE Kept(cached, fresh, lost, gaps) ==
             \A t \in Inside(req[r].range) :
                 \/ t \in Dates(cached \cup fresh) \cup lost \cup missed[req[r].group]
                 \/ t \in TimesOf(gaps)
                 \/ t <= now /\ wall[req[r].group][t] = 0
\* What AnswerInv says of the next state, in terms of this one.
<1>5. ASSUME NEW gaps, req'[r].group = req[r].group, req[r].group \in Groups,
             req'[r].range = req[r].range, ToCome(r)' = gaps,
             req'[r].step \notin {"read", "done"},
             Kept(req'[r].cached, req'[r].fresh, req'[r].lost, gaps)
      PROVE  AnswerInv(r)'
  BY <1>2, <1>3, <1>5 DEF AnswerInv, Answered, Merged
<1>6. req[r].step \in InWork \cup {"fetch", "done"} =>
        Kept(req[r].cached, req[r].fresh, req[r].lost, ToCome(r))
  BY DEF AnswerInv, Answered, Merged
<1>7. CASE Start(r)
  BY <1>4, <1>7, StartFields DEF AnswerInv
<1>8. CASE Check(r)
  <2>0. PICK g : g = req[r].group
    OBVIOUS
  <2>1. /\ req[r].step = "check" /\ req'[r].step = "read"
        /\ req'[r].group = g /\ req'[r].range = req[r].range
    BY <1>8, <2>0, CheckFields
  <2>2. g \in Groups
    BY <1>1, <2>0, <2>1
  <2>3. Inside(req[r].range) \subseteq TimesOf(req'[r].gaps) \cup Covered(g)
    <3>1. CASE groupRow[g] = "absent" \/ (req[r].all /\ groupRow[g] = "old")
      <4>1. req'[r].gaps = <<req[r].range>>
        BY <1>8, <2>0, <3>1, CheckFields
      <4>2. /\ Len(<<req[r].range>>) = 1 /\ <<req[r].range>>[1] = req[r].range
            /\ 1 \in 1 .. 1
        OBVIOUS
      <4> QED
        BY <4>1, <4>2 DEF TimesOf, Inside
    <3>2. CASE ~ (groupRow[g] = "absent" \/ (req[r].all /\ groupRow[g] = "old"))
      <4>1. AreTheRest(req'[r].gaps, req[r].range, Overlapping(g, req[r].range))
        BY <1>8, <2>0, <3>2, CheckedGaps
      <4> QED
        BY <4>1 DEF AreTheRest, Overlapping, Covered, Inside
    <3> QED
      BY <3>1, <3>2
  <2>4. Covered(g) \subseteq Covered(g)'
    BY <1>3, <2>2 DEF Covered
  <2>5. Covered(req[r].group)' = Covered(g)'
    BY <2>1 DEF Covered
  <2> QED
    BY <1>4, <2>1, <2>3, <2>4, <2>5 DEF AnswerInv
<1>9. CASE ReadCached(r)
  <2> DEFINE g == req[r].group
  <2>1. /\ req[r].step = "read" /\ req'[r].step = "fetch"
        /\ req'[r].group = g /\ req'[r].range = req[r].range /\ req'[r].gaps = req[r].gaps
        /\ req'[r].cached = IF groupRow[g] = "absent" THEN {} ELSE RowsOf(g, req[r].range)
    BY <1>9, ReadFields
  <2>2. g \in Groups
    BY <1>1, <2>1
  <2>3. ToCome(r)' = req[r].gaps
    BY <1>4, <2>1 DEF ToCome
  <2>4. Kept(req'[r].cached, req'[r].fresh, req'[r].lost, req[r].gaps)
    <3> SUFFICES ASSUME NEW t \in Inside(req[r].range), t \notin TimesOf(req[r].gaps),
                        t \notin missed[g], ~ (t <= now /\ wall[g][t] = 0)
                 PROVE  t \in Dates(req'[r].cached \cup req'[r].fresh)
      OBVIOUS
    <3>1. t \in Covered(g)
      BY <2>1 DEF AnswerInv
    <3>2. groupRow[g] # "absent" /\ t \in Dates(RowsOf(g, req[r].range))
      BY <2>2, <3>1, CoveredIsRead
    <3> QED
      BY <2>1, <3>2 DEF Dates
  <2> QED
    BY <1>5, <2>1, <2>2, <2>3, <2>4
<1>10. CASE Fetch(r)
  <2> DEFINE g == req[r].group
             gap == Inside(Head(req[r].gaps))
  <2>1. PICK got \in SUBSET {t \in gap : wall[g][t] # 0} :
          /\ req[r].step = "fetch" /\ req[r].gaps # <<>> /\ req'[r].step = "group"
          /\ req'[r].group = req[r].group /\ req'[r].range = req[r].range
          /\ req'[r].gaps = req[r].gaps /\ req'[r].cached = req[r].cached
          /\ req'[r].fresh = req[r].fresh \cup {<<t, wall[g][t]>> : t \in got}
          /\ req'[r].lost = req[r].lost \cup ({t \in gap : wall[g][t] # 0} \ got)
                              \cup {t \in gap : t > now}
    BY <1>10, FetchFields
  <2>2. g \in Groups
    BY <1>1, <2>1
  <2>3. ToCome(r)' = Tail(req[r].gaps)
    BY <1>4, <2>1 DEF ToCome
  <2>4. Kept(req[r].cached, req[r].fresh, req[r].lost, req[r].gaps)
    BY <1>4, <1>6, <2>1 DEF ToCome
  <2>5. Kept(req'[r].cached, req'[r].fresh, req'[r].lost, Tail(req[r].gaps))
    <3> SUFFICES ASSUME NEW t \in Inside(req[r].range), t \notin TimesOf(Tail(req[r].gaps)),
                        t \notin missed[g], ~ (t <= now /\ wall[g][t] = 0)
                 PROVE  t \in Dates(req'[r].cached \cup req'[r].fresh) \cup req'[r].lost
      OBVIOUS
    <3>1. CASE t \in TimesOf(req[r].gaps)
      <4>1. t \in gap
        BY <1>1, <2>1, <3>1, HeadAndTail
      <4>2. CASE t \in got
        <5>1. <<t, wall[g][t]>> \in req'[r].cached \cup req'[r].fresh
          BY <2>1, <4>2
        <5> QED
          BY <5>1 DEF Dates
      <4>3. CASE t > now
        BY <2>1, <4>1, <4>3
      <4>4. t > now \/ t <= now
        BY <1>1, ParseAssumption DEF TypeOK, Times
      <4> QED
        BY <2>1, <4>1, <4>2, <4>3, <4>4
    <3>2. CASE t \notin TimesOf(req[r].gaps)
      <4>1. t \in Dates(req[r].cached \cup req[r].fresh) \cup req[r].lost
        BY <2>4, <3>2
      <4>2. Dates(req[r].cached \cup req[r].fresh) \subseteq Dates(req'[r].cached \cup req'[r].fresh)
        BY <2>1 DEF Dates
      <4> QED
        BY <2>1, <4>1, <4>2
    <3> QED
      BY <3>1, <3>2
  <2> QED
    BY <1>5, <2>1, <2>2, <2>3, <2>5
<1>11. CASE FetchNothing(r)
  <2>1. /\ req[r].step = "fetch" /\ req[r].gaps # <<>> /\ req'[r].step = "fetch"
        /\ req'[r].group = req[r].group /\ req'[r].range = req[r].range
        /\ req'[r].gaps = Tail(req[r].gaps)
        /\ req'[r].cached = req[r].cached /\ req'[r].fresh = req[r].fresh
        /\ req'[r].lost = req[r].lost \cup Inside(Head(req[r].gaps))
    BY <1>11, FetchNothingFields
  <2>2. ToCome(r)' = Tail(req[r].gaps) /\ req[r].group \in Groups
    BY <1>1, <1>4, <2>1 DEF ToCome
  <2>3. Kept(req[r].cached, req[r].fresh, req[r].lost, req[r].gaps)
    BY <1>4, <1>6, <2>1 DEF ToCome
  <2>4. Kept(req'[r].cached, req'[r].fresh, req'[r].lost, Tail(req[r].gaps))
    BY <1>1, <2>1, <2>3, HeadAndTail
  <2> QED
    BY <1>5, <2>1, <2>2, <2>4
<1>12. CASE SaveStep(r)
  <2>1. /\ req[r].step \in Saving /\ req'[r].step \in InWork
        /\ OpenKept(r) /\ req[r].lost \subseteq req'[r].lost
    BY <1>12, SaveStepFields
  <2>2. ToCome(r)' = ToCome(r) /\ req[r].group \in Groups
    BY <1>1, <1>4, <2>1 DEF ToCome, OpenKept
  <2>3. Kept(req[r].cached, req[r].fresh, req[r].lost, ToCome(r))
    BY <1>4, <1>6, <2>1
  <2>4. Kept(req'[r].cached, req'[r].fresh, req'[r].lost, ToCome(r))
    BY <2>1, <2>3 DEF OpenKept
  <2> QED
    BY <1>4, <1>5, <2>1, <2>2, <2>4 DEF OpenKept
<1>13. CASE Publish(r) \/ PublishFail(r)
  <2>1. /\ req[r].step = "publish" /\ req'[r].step = "fetch"
        /\ req'[r].group = req[r].group /\ req'[r].range = req[r].range
        /\ req'[r].gaps = Tail(req[r].gaps)
        /\ req'[r].cached = req[r].cached /\ req'[r].fresh = req[r].fresh
        /\ req'[r].lost = req[r].lost
    BY <1>13, PublishFields
  <2>2. ToCome(r)' = ToCome(r) /\ req[r].group \in Groups
    BY <1>1, <1>4, <2>1 DEF ToCome
  <2>3. Kept(req'[r].cached, req'[r].fresh, req'[r].lost, ToCome(r))
    BY <1>4, <1>6, <2>1
  <2> QED
    BY <1>5, <2>1, <2>2, <2>3
<1>14. CASE Answer(r)
  <2>1. /\ req[r].step = "fetch" /\ req[r].gaps = <<>> /\ req'[r].step = "done"
        /\ OpenKept(r) /\ req'[r].lost = req[r].lost
    BY <1>14, AnswerFields
  <2>2. /\ ToCome(r)' = <<>> /\ ToCome(r) = <<>> /\ req[r].group \in Groups
        /\ Answered(r)' = Answered(r)
    BY <1>1, <1>4, <2>1 DEF ToCome, OpenKept, Answered, Merged
  <2>3. Kept(req[r].cached, req[r].fresh, req[r].lost, <<>>)
    BY <1>6, <2>1, <2>2
  <2> QED
    BY <1>2, <1>3, <2>1, <2>2, <2>3 DEF AnswerInv, OpenKept, Answered, Merged
<1>15. CASE Abort(r)
  <2>1. req'[r].step = "idle"
    BY <1>15, AbortFields DEF Idle
  <2> QED
    BY <1>4, <2>1 DEF AnswerInv
<1> QED
  BY <1>7, <1>8, <1>9, <1>10, <1>11, <1>12, <1>13, <1>14, <1>15, StepsOfRequest

------------------------------------------------------------------------------
(* What the parser guarantees.                                             *)

\* The inductive invariant of the table: whatever requests are doing side by side and
\* wherever they fail, each moment of a gap being saved is known to be without a post,
\* in hand, stored or lost.
THEOREM Accounting == Spec => []Core
BY InitCore, NextCore, PTL DEF Spec

\* cached_periods never claims a post that the table lacks for another reason than
\* the known ones: CacheCheckTask may skip what it covers.
THEOREM CachedPeriodsAccounted == Spec => []PeriodsAccounted
<1>1. Core => PeriodsAccounted
  BY DEF Core, PeriodInv, PeriodsAccounted, Covered
<1> QED
  BY Accounting, <1>1, PTL

\* As long as nothing fails, every post saved is published.
THEOREM NothingSavedUnpublished == Spec => []SavedArePublished
<1>1. Core => SavedArePublished
  BY DEF Core
<1> QED
  BY Accounting, <1>1, PTL

\* The types, the gaps and the answers, on top of it.
Whole == /\ Core /\ TypeOK /\ RangeInv /\ GroupInv
         /\ \A r \in Requests : AnswerInv(r)

LEMMA NextWhole == ASSUME Whole, [Next]_vars PROVE Whole'
<1>1. Core /\ Core' /\ Grows /\ TypeOK /\ RangeInv /\ GroupInv
  BY NextCore, NextGrows DEF Whole
<1>2. TypeOK' /\ RangeInv' /\ GroupInv'
  BY <1>1, NextFull, NextGroupInv
<1>3. ASSUME NEW q \in Requests PROVE AnswerInv(q)'
  <2>0. AnswerInv(q)
    BY DEF Whole
  <2>1. ASSUME NEW r \in Requests, RequestStep(r) PROVE AnswerInv(q)'
    <3>1. q = r \/ req'[q] = req[q]
      BY <1>1, <2>1, RequestShaped DEF Core, RequestInv
    <3> QED
      BY <1>1, <2>0, <2>1, <3>1, OwnAnswer, OtherAnswer
  <2>2. CASE UNCHANGED req
    BY <1>1, <2>0, <2>2, OtherAnswer
  <2> QED
    BY <2>1, <2>2 DEF Next, Tick, Age, Edit, vars
<1> QED
  BY <1>1, <1>2, <1>3 DEF Whole

LEMMA AlwaysWhole == Spec => []Whole
<1>1. Init => Whole
  BY InitCore, InitFull DEF Whole
<1> QED
  BY <1>1, NextWhole, PTL DEF Spec

\* The inductive invariant of the cache and of the answers: in addition, the gaps and
\* the recorded periods together are the range a request has set out for, and each of
\* its moments is on its way to the answer, or in it, or known to be lacking
\* (CacheCheckTask, ParseVkDataAction).
THEOREM CacheInvariant == Spec => []IInv
<1>1. Whole => IInv
  BY DEF Whole, IInv, Core
<1> QED
  BY AlwaysWhole, <1>1, PTL

\* Every variable, and every field of a request, has its type.
THEOREM TypeCorrect == Spec => []TypeOK
<1>1. Whole => TypeOK
  BY DEF Whole
<1> QED
  BY AlwaysWhole, <1>1, PTL

\* An answer lacks no post of its range but those known to be lost or missed.
THEOREM AnswersLackNothing == Spec => []AnswersComplete
<1>1. Whole => AnswersComplete
  <2> SUFFICES ASSUME Whole, NEW r \in Requests, req[r].step = "done",
                      NEW t \in Inside(req[r].range), wall[req[r].group][t] # 0
               PROVE  t \in Dates(Answered(r)) \cup req[r].lost \cup missed[req[r].group]
    BY DEF AnswersComplete
  <2>1. req[r].gaps = <<>> /\ ToCome(r) = <<>>
    BY DEF Whole, AnswerInv, ToCome, InWork
  <2>2. TimesOf(ToCome(r)) = {}
    BY <2>1, HeadAndTail, FewGaps
  <2> QED
    BY <2>2 DEF Whole, AnswerInv
<1> QED
  BY AlwaysWhole, <1>1, PTL

\* calculate_missing_periods finds just the moments of a range that no cached period
\* covers, each in one gap, in order, for every range and every set of periods.
THEOREM GapsExact == Spec => []GapsAreTheRest
<1>1. GapsAreTheRest
  <2>1. Horizon + 1 \in Nat
    BY ParseAssumption
  <2> QED
    BY <2>1, MissingPeriodsAreTheRest DEF GapsAreTheRest, Proper
<1> QED
  BY <1>1, PTL

\* A request that is not told to parse everything sets out for just the part of its
\* range that no recorded period covers.
THEOREM OnlyGaps == Spec => OnlyGapsFetched
<1> DEFINE Exact == \A r \in Requests :
             req[r].step = "check" /\ req'[r].step = "read" /\ ~ req[r].all =>
                 AreTheRest(req'[r].gaps, req[r].range, periods[req[r].group])
<1>1. Whole /\ [Next]_vars => [Exact]_req
  <2> SUFFICES ASSUME Whole, [Next]_vars, NEW q \in Requests,
                      req[q].step = "check", req'[q].step = "read", ~ req[q].all
               PROVE  AreTheRest(req'[q].gaps, req[q].range, periods[req[q].group])
    OBVIOUS
  <2>1. TypeOK /\ RangeInv /\ GroupInv /\ Core
    BY DEF Whole
  <2>2. req[q].group \in Groups /\ req[q].range \in ProperPeriods
    BY <2>1 DEF TypeOK, RangeInv
  <2>3. RequestStep(q)
    <3>1. ASSUME NEW r \in Requests, RequestStep(r) PROVE q = r
      BY <2>1, <3>1, RequestShaped DEF Core, RequestInv
    <3> QED
      BY <3>1 DEF Next, Tick, Age, Edit, vars
  <2>4. Check(q)
    <3>1. ~ Start(q) /\ ~ ReadCached(q) /\ ~ Fetch(q) /\ ~ FetchNothing(q) /\ ~ Answer(q)
      BY <2>1, StartFields, ReadFields, FetchFields, FetchNothingFields, AnswerFields
    <3>2. ~ SaveStep(q) /\ ~ Publish(q) /\ ~ PublishFail(q)
      BY <2>1, SaveStepFields, PublishFields DEF Saving, InWork
    <3>3. ~ Abort(q)
      BY <2>1, AbortFields DEF Idle
    <3> QED
      BY <2>3, <3>1, <3>2, <3>3, StepsOfRequest
  <2>5. PICK g, range : g = req[q].group /\ range = req[q].range
    OBVIOUS
  <2>6. range.from \in Nat /\ range.to \in Nat /\ range.from <= range.to
    BY <2>2, <2>5, ParseAssumption DEF ProperPeriods, Period, Times
  <2>7. CASE groupRow[g] = "absent"
    <3>1. periods[g] = {} /\ req'[q].gaps = <<range>>
      BY <2>1, <2>2, <2>4, <2>5, <2>7, CheckFields DEF GroupInv
    <3>2. Len(<<range>>) = 1 /\ <<range>>[1] = range /\ 1 .. 1 = {1}
      OBVIOUS
    <3>3. TimesOf(<<range>>) = range.from .. range.to
      BY <3>2 DEF TimesOf
    <3>4. \A i, j \in 1 .. Len(<<range>>) : ~ (i < j)
      BY <3>2
    <3> QED
      BY <2>5, <3>1, <3>3, <3>4 DEF AreTheRest
  <2>8. CASE groupRow[g] # "absent"
    <3>1. AreTheRest(req'[q].gaps, range, Overlapping(g, range))
      BY <2>1, <2>4, <2>5, <2>8, CheckedGaps
    <3>2. (range.from .. range.to) \ UNION {p.from .. p.to : p \in Overlapping(g, range)}
            = (range.from .. range.to) \ UNION {p.from .. p.to : p \in periods[g]}
      <4>1. \A p \in periods[g] : p.from \in Nat /\ p.to \in Nat
        BY <2>1, <2>2, <2>5, ParseAssumption DEF TypeOK, Period, Times
      <4>2. \A p \in periods[g], t \in range.from .. range.to :
              t \in p.from .. p.to => p \in Overlapping(g, range)
        BY <2>6, <4>1 DEF Overlapping
      <4>3. Overlapping(g, range) \subseteq periods[g]
        BY DEF Overlapping
      <4> QED
        BY <4>2, <4>3
    <3> QED
      BY <2>5, <3>1, <3>2 DEF AreTheRest
  <2> QED
    BY <2>7, <2>8
<1>2. OnlyGapsFetched <=> [][Exact]_req
  BY DEF OnlyGapsFetched
<1> QED
  BY AlwaysWhole, <1>1, <1>2, PTL DEF Spec
==============================================================================
