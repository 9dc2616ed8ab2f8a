----------------------------- MODULE SearchSession -----------------------------
(***************************************************************************)
(* The search of the VK parser as one types: WS /search/vk/ws of           *)
(* services/vk-parser (VkSearchWsController.py).  A connection first shows *)
(* its JWT and gets a VK token for its user: from AuthService, or, when    *)
(* AuthService gives none, from the old table of tokens or the settings.   *)
(* Then a handler receives its messages one by one; for a query it starts  *)
(* a task, and a task of an earlier query that is still at work is         *)
(* cancelled and awaited first.                                            *)
(*                                                                         *)
(* A task looks for the query in Redis, where all connections share their  *)
(* answers under the normalized query (trimmed, in lower case, its first   *)
(* 64 characters).  If it is not there it asks VK, asks the groups table   *)
(* which of the groups found are in it, stores the answer and sends it.    *)
(*                                                                         *)
(* The groups a query finds are taken as one, named like its form.         *)
(***************************************************************************)
EXTENDS Naturals, Functions

CONSTANTS
    Connections,
    Forms,          \* the normalized queries
    Spellings,      \* what tells queries of one form apart
    None,           \* no payload
    MaxQueries,     \* bound: the queries that are accepted
    MaxFaults       \* bound: the failures of VK, Redis and the database

VARIABLES
    phase,      \* where a connection's handler is
    closed,     \* the connections that can be sent to no more
    refused,    \* history: the connections whose user AuthService had no token for
    accepted,   \* how many queries have been accepted
    tasks,      \* the tasks of a connection
    answered,   \* the query whose task was the last to send a message
    cache,      \* Redis: the payload of a form
    groups,     \* the groups table
    faults      \* failures so far

session == <<phase, closed, refused>>
store == <<cache, groups>>
search == <<accepted, tasks, answered>>
vars == <<session, search, store, faults>>

Query == [form : Forms, spelling : Spellings]

\* What is sent and stored: the query VK was asked, whether it found anything, and
\* the flag in_db of what it found.
Payload == [asked : Query, found : BOOLEAN, inDb : BOOLEAN]

ASSUME SearchAssumption ==
    /\ None \notin Payload
    /\ MaxQueries \in Nat /\ MaxFaults \in Nat

Kinds == {"items", "vk_auth", "upstream"}
Answer == [nr : Nat, q : Query, kind : Kinds, payload : Payload \cup {None},
           cached : BOOLEAN, known : BOOLEAN]

\* A task is the answer it will send, in the making; known tells, for the properties,
\* whether the group was in the table when the query came.
Steps == {"lookup", "search", "exist", "store", "send", "close"}
Task == [step : Steps, reply : Answer]

Phases == {"handshake", "legacy", "receive", "ended"}

TypeOK ==
    /\ phase \in [Connections -> Phases]
    /\ closed \subseteq Connections
    /\ refused \subseteq Connections
    /\ accepted \in [Connections -> Nat]
    /\ tasks \in [Connections -> SUBSET Task]
    /\ \A c \in Connections : \A t \in tasks[c] :
        t.step \in {"exist", "store", "send"} =>
            (t.reply.kind = "items" <=> t.reply.payload # None)
    /\ answered \in [Connections -> Nat]
    /\ cache \in [Forms -> Payload \cup {None}]
    /\ groups \subseteq Forms
    /\ faults \in Nat

Init ==
    /\ phase = [c \in Connections |-> "handshake"]
    /\ closed = {}
    /\ refused = {}
    /\ accepted = [c \in Connections |-> 0]
    /\ tasks = [c \in Connections |-> {}]
    /\ answered = [c \in Connections |-> 0]
    /\ cache = [f \in Forms |-> None]
    /\ groups = {}
    /\ faults = 0

Fault == faults < MaxFaults /\ faults' = faults + 1

------------------------------------------------------------------------------
(* The handshake.                                                          *)

\* An error is sent and the connection closed with 4401.
Refuse(c) ==
    /\ phase' = [phase EXCEPT ![c] = "ended"]
    /\ closed' = closed \cup {c}

Go(c, p) == phase' = [phase EXCEPT ![c] = p] /\ UNCHANGED closed

\* The JWT is missing, expired, forged, of another issuer, or names no user; or the
\* keys to verify it cannot be had.
Unverified(c) == Refuse(c)

\* The replies of AuthService for which its client raises an error of their own: it
\* rejects the JWT or the secret, the user has no VK account, or the VK token has
\* expired and cannot be refreshed, or not now.
Explained == {"unauthorized", "forbidden", "not_linked", "token_expired",
              "refresh_unavailable", "refresh_failed"}

\* No reply; one the client does not know; a payload without a token.
Unexplained == {"none", "unknown", "no_token"}

\* The payload holds a token: one that can be used, or an expired one, for which the
\* client raises the error of token_expired.
Tokens == {"token", "stale_token"}

Replies == Explained \cup Unexplained \cup Tokens

\* vk_access_token is set in the settings, or not.
Fallback(c) == Go(c, "receive") \/ Refuse(c)

\* AuthServiceClientError itself: the old table is asked if
\* auth_enable_legacy_db_fallback is set.
Unavailable(c) == Go(c, "legacy") \/ Fallback(c)

\* Mutant of Refused: every error of AuthServiceClient is one of them, and the
\* fallbacks are tried after each.
RefusedFallsBack(c) == Unavailable(c)

\* The other errors of AuthServiceClient.
Refused(c) == Refuse(c)

AskAuthService(c) ==
    \E reply \in Replies :
        /\ refused' = IF reply \in Explained \cup {"stale_token"} THEN refused \cup {c} ELSE refused
        /\ CASE reply \in Unexplained -> Unavailable(c)
             [] reply = "token" -> Go(c, "receive")
             [] OTHER -> Refused(c)

Connect(c) ==
    /\ phase[c] = "handshake"
    /\ (Unverified(c) /\ UNCHANGED refused) \/ AskAuthService(c)
    /\ UNCHANGED <<search, store, faults>>

\* The table may have a token of the user; it has none when the query fails.
Stored(c) == Go(c, "receive")

\* A user whose id is no UUID is not in the old table.
LookUpLegacy(c) ==
    /\ phase[c] = "legacy"
    /\ Stored(c) \/ Fallback(c)
    /\ UNCHANGED <<refused, search, store, faults>>

------------------------------------------------------------------------------
(* The handler.                                                            *)

NewTask(c, q) ==
    [step |-> "lookup",
     reply |-> [nr |-> accepted[c] + 1, q |-> q, kind |-> "items", payload |-> None,
                cached |-> FALSE, known |-> q.form \in groups]]

AcceptBeside(c, q, others) ==
    /\ phase[c] = "receive"
    /\ FoldFunction(+, 0, accepted) < MaxQueries
    /\ accepted' = [accepted EXCEPT ![c] = @ + 1]
    /\ tasks' = [tasks EXCEPT ![c] = others \cup {NewTask(c, q)}]
    /\ UNCHANGED <<session, answered, store, faults>>

\* Mutant: the task of the earlier query goes on beside the new one.
AcceptUncancelled(c, q) == AcceptBeside(c, q, tasks[c])

\* A message that had been sent before the connection was closed is received still.
Accept(c, q) == AcceptBeside(c, q, {})

End(c, left) ==
    /\ phase[c] = "receive"
    /\ c \in closed
    /\ phase' = [phase EXCEPT ![c] = "ended"]
    /\ tasks' = [tasks EXCEPT ![c] = left]
    /\ UNCHANGED <<closed, refused, accepted, answered, store, faults>>

\* A message that is no query, or comes too soon, is answered by an error, and the
\* task of the last query goes on; but where nothing can be sent any more, the send
\* raises, out of the handler.
Reject(c) == End(c, {})

\* The client goes away: the handler does not know yet.
Leave(c) ==
    /\ phase[c] = "receive"
    /\ c \notin closed
    /\ closed' = closed \cup {c}
    /\ UNCHANGED <<phase, refused, search, store, faults>>

\* Mutant: the task is not cancelled when the handler ends.
DisconnectLeaving(c) == End(c, tasks[c])

\* WebSocketDisconnect; finally the task is cancelled.
Disconnect(c) == End(c, {})

------------------------------------------------------------------------------
(* The task of a query; it can be cancelled at every await, which is       *)
(* between two of these steps.                                             *)

Goto(c, t, step, reply) ==
    tasks' = [tasks EXCEPT ![c] = (@ \ {t}) \cup {[step |-> step, reply |-> reply]}]

At(c, t, step) ==
    /\ t \in tasks[c] /\ t.step = step
    /\ UNCHANGED <<session, accepted>>

\* Mutant of CacheKey: a longer form of a query is stored under a shorter one.
OneKey(q) == CHOOSE f \in Forms : TRUE

\* vk:search:hints: and the normalized query.
CacheKey(q) == q.form

Cached(t) == cache[CacheKey(t.reply.q)]

LookUp(c, t) ==
    /\ At(c, t, "lookup")
    /\ IF Cached(t) = None
       THEN Goto(c, t, "search", t.reply)
       ELSE Goto(c, t, "send", [t.reply EXCEPT !.payload = Cached(t), !.cached = TRUE])
    /\ UNCHANGED <<answered, store, faults>>

\* A payload: the items VK found for q, of which those with the id of a group that
\* is in the table are flagged.
Annotated(q, found, presence) == [asked |-> q, found |-> found, inDb |-> presence]

\* VK is asked the query as it was typed; when nothing is found, the table is not.
Search(c, t) ==
    /\ At(c, t, "search")
    /\ \E found \in BOOLEAN :
        Goto(c, t, IF found THEN "exist" ELSE "store",
             [t.reply EXCEPT !.payload = Annotated(t.reply.q, found, FALSE)])
    /\ UNCHANGED <<answered, store, faults>>

\* VK refuses the token or the right to search.
SearchRefused(c, t) ==
    /\ At(c, t, "search")
    /\ Fault
    /\ Goto(c, t, "send", [t.reply EXCEPT !.kind = "vk_auth"])
    /\ UNCHANGED <<answered, store>>

Exist(c, t) ==
    /\ At(c, t, "exist")
    /\ LET q == t.reply.q
       IN  Goto(c, t, "store", [t.reply EXCEPT !.payload = Annotated(q, TRUE, q.form \in groups)])
    /\ UNCHANGED <<answered, store, faults>>

\* Stored for 120 seconds, over what another task may have stored; an error is
\* logged.
Store(c, t) ==
    /\ At(c, t, "store")
    /\ \/ /\ cache' = [cache EXCEPT ![CacheKey(t.reply.q)] = t.reply.payload]
          /\ UNCHANGED faults
       \/ Fault /\ UNCHANGED cache
    /\ Goto(c, t, "send", t.reply)
    /\ UNCHANGED <<answered, groups>>

\* Mutant of Broken: only the exceptions of the parser are answered.
BrokenSilently(c, t) == tasks' = [tasks EXCEPT ![c] = @ \ {t}]

\* Mutant of Broken: an error of the cache or of VK leads on to the answer.
BrokenGoesOn(c, t) == Goto(c, t, "send", t.reply)

\* Any other error of VK, of Redis at the lookup or of the database.
Broken(c, t) == Goto(c, t, "send", [t.reply EXCEPT !.kind = "upstream", !.payload = None])

Fail(c, t) ==
    /\ t.step \in {"lookup", "search", "exist"}
    /\ At(c, t, t.step)
    /\ Fault
    /\ Broken(c, t)
    /\ UNCHANGED <<answered, store>>

\* To a closed connection nothing can be sent: the task ends with an exception.
Send(c, t) ==
    /\ At(c, t, "send")
    /\ IF c \in closed
       THEN /\ tasks' = [tasks EXCEPT ![c] = @ \ {t}]
            /\ UNCHANGED answered
       ELSE /\ answered' = [answered EXCEPT ![c] = t.reply.nr]
            /\ IF t.reply.kind = "vk_auth" THEN Goto(c, t, "close", t.reply)
               ELSE tasks' = [tasks EXCEPT ![c] = @ \ {t}]
    /\ UNCHANGED <<store, faults>>

\* After vk_auth the task closes the connection; the handler does not know yet.
Close(c, t) ==
    /\ t \in tasks[c] /\ t.step = "close"
    /\ closed' = closed \cup {c}
    /\ tasks' = [tasks EXCEPT ![c] = @ \ {t}]
    /\ UNCHANGED <<phase, refused, accepted, answered, store, faults>>

------------------------------------------------------------------------------
(* The surroundings.                                                       *)

\* 120 seconds have passed since the payload was stored.
Expire(f) ==
    /\ cache[f] # None
    /\ cache' = [cache EXCEPT ![f] = None]
    /\ UNCHANGED <<session, search, groups, faults>>

\* POST /parse/vk saves the group.
SaveGroup(f) ==
    /\ f \notin groups
    /\ groups' = groups \cup {f}
    /\ UNCHANGED <<session, search, cache, faults>>

TaskStep(c) ==
    \E t \in tasks[c] :
        \/ LookUp(c, t) \/ Search(c, t) \/ SearchRefused(c, t) \/ Exist(c, t)
        \/ Store(c, t) \/ Fail(c, t) \/ Send(c, t) \/ Close(c, t)

Next ==
    \/ \E c \in Connections :
        \/ Connect(c) \/ LookUpLegacy(c)
        \/ \E q \in Query : Accept(c, q)
        \/ Reject(c) \/ Leave(c) \/ Disconnect(c)
        \/ TaskStep(c)
    \/ \E f \in Forms : Expire(f) \/ SaveGroup(f)

Spec == Init /\ [][Next]_vars

\* The event loop lets a task take its next step; Redis, VK and the database answer
\* or fail in the end.
Fairness == \A c \in Connections : WF_vars(TaskStep(c))

FairSpec == Spec /\ Fairness

------------------------------------------------------------------------------
\* No search is at work for a connection whose handler has ended, however it ended.
NoOrphanTask == \A c \in Connections : phase[c] # "receive" => tasks[c] = {}

\* An answer never comes after the acceptance of a newer query, nor twice, nor after
\* the connection was closed: what the user sees last belongs to what was typed last.
NewestAnswered ==
    [][\A c \in Connections : answered'[c] # answered[c] =>
        /\ c \notin closed
        /\ answered'[c] = accepted[c]
        /\ answered[c] < answered'[c]]_answered

\* The items sent for a query are those VK found for a query of the same normal
\* form, in_db is not invented, and an answer that is not from the cache knows all
\* groups that were saved when the query came.
AnswersFit ==
    \A c \in Connections : \A t \in tasks[c] :
        t.step = "send" /\ t.reply.kind = "items" =>
            LET a == t.reply IN
            /\ a.payload.asked.form = a.q.form
            /\ a.payload.inDb => a.q.form \in groups
            /\ ~ a.cached => /\ a.payload.asked = a.q
                             /\ a.payload.found /\ a.known => a.payload.inDb

\* A user for whom AuthService had no usable VK token never searches with that of the
\* old table or of the settings.
NoBorrowedToken == \A c \in refused : phase[c] = "ended"

\* When the user stops typing, the last query that was accepted is answered, with
\* items or an error, unless the connection goes.
LastQueryAnswered ==
    \A c \in Connections :
        (answered[c] # accepted[c]) ~> (answered[c] = accepted[c] \/ c \in closed)
------------------------------------------------------------------------------
(* The inductive invariant behind the safety properties.                   *)

\* What a task has in the making at each of its steps: a payload from the search on
\* if it is to send items, and none if it is to send an error.
Making(t) ==
    /\ t.step \in {"lookup", "search"} => t.reply.payload = None
    /\ t.step \in {"lookup", "search", "exist", "store"} => t.reply.kind = "items"
    /\ t.step \in {"exist", "store", "send"} =>
        (t.reply.kind = "items" <=> t.reply.payload # None)

\* The payload belongs to the query.
Fits(t) ==
    LET a == t.reply IN
    /\ a.known => a.q.form \in groups
    /\ a.payload # None =>
        /\ a.payload.asked.form = a.q.form
        /\ a.payload.inDb => a.q.form \in groups
        /\ ~ a.cached => a.payload.asked = a.q
        /\ ~ a.cached /\ t.step \in {"store", "send"} /\ a.payload.found /\ a.known =>
            a.payload.inDb

\* A task answers the query accepted last, and no answer to it was sent.
Current(c, t) ==
    /\ t.reply.nr = accepted[c]
    /\ t.step # "close" => answered[c] < accepted[c]

\* A connection has one task at most, and that only while its handler receives.
OneTask(c) ==
    /\ \A t, u \in tasks[c] : t = u
    /\ phase[c] # "receive" => tasks[c] = {}

CacheInv ==
    \A f \in Forms : cache[f] # None =>
        cache[f].asked.form = f /\ (cache[f].inDb => f \in groups)

\* What holds of the searches between any two steps: each connection has one task at
\* most, of its last query, whose payload is what the query deserves.
IInv ==
    /\ TypeOK
    /\ \A c \in Connections :
        /\ answered[c] <= accepted[c]
        /\ OneTask(c)
        /\ \A t \in tasks[c] : Making(t) /\ Fits(t) /\ Current(c, t)
    /\ CacheInv
    /\ NoBorrowedToken
==============================================================================
