----------------------------- MODULE MatchRanking -----------------------------
(***************************************************************************)
(* matching-svc: pair scores and recommendation sets (workers/tasks.py,    *)
(* routers/match.py, routers/events.py).  The nightly chunk and the rerank *)
(* on demand upsert the scores of one viewer row by row, each in a         *)
(* transaction of its own, in the order the vector index returned; a row   *)
(* is locked from its upsert to the commit.  A score is known by the       *)
(* version of the viewer it was computed from; its value and the order of  *)
(* candidates are left open.  The tables of discovery-svc that a job here  *)
(* reads are declared here.                                                *)
(***************************************************************************)
EXTENDS RequestSlots, FiniteSets, TLC

CONSTANTS Viewers, Shown,   \* profiles that look, profiles that are looked at
          PickSize,         \* profiles in a recommendation set at most (10)
          HideDays,         \* days a hide lasts (90)
          MaxTaste,         \* bound: edits of a viewer's profile
          MaxDay            \* bound: days

VARIABLES
    taste,      \* version of a viewer's embedding, vocations and health
    embedded,   \* viewers with a row in profile_embeddings
    granted,    \* shown profiles with a badge, recently active, not deleted
    scores,     \* matching.match_scores: [Viewers -> [Shown -> ScoreRow]]
    tasks,     \* Celery tasks waiting: [Tasks -> Nat]
    picks,      \* matching.recommendation_sets: [Viewers -> None or a set]
    recs,       \* Redis recs:<user>: [Viewers -> None or a set]
    hides,      \* discovery.hide_3mo: [Viewers -> [Shown -> None or hidden_until]]
    saves,      \* discovery.saved_profiles: set of <<viewer, shown>>
    today

profileVars == <<taste, embedded, granted>>
hideVars    == <<hides, saves, today>>
rankingVars == <<profileVars, scores, tasks, picks, recs, hideVars>>

\* ver counts upserts, 0 is "no row"; of is the taste it was computed from.
ScoreRow == [ver : Nat, of : 0..MaxTaste]
PickRow  == {ids \in SUBSET Shown : Cardinality(ids) <= PickSize}
HideRow  == 0..(MaxDay + HideDays)
SavedRow == Viewers \X Shown
\* A viewer stands for the rerank of that viewer.
Tasks     == {"chunk", "sets"} \cup Viewers
Rerank(v) == v

RankingInit ==
    /\ taste = [v \in Viewers |-> 0] /\ embedded \in SUBSET Viewers /\ granted = Shown
    /\ scores = [v \in Viewers |-> [x \in Shown |-> [ver |-> 0, of |-> 0]]]
    /\ tasks = [t \in Tasks |-> 0]
    /\ picks = [v \in Viewers |-> None] /\ recs = [v \in Viewers |-> None]
    /\ hides = [v \in Viewers |-> [x \in Shown |-> None]] /\ saves = {} /\ today = 0

Queue(t) == tasks' = [tasks EXCEPT ![t] = @ + 1]
Deliver(c, t, r) == /\ tasks[t] > 0 /\ Take(c, r)
                    /\ tasks' = [tasks EXCEPT ![t] = @ - 1]
Hidden(v, x) == hides[v][x] # None /\ hides[v][x] > today

-----------------------------------------------------------------------------
(* The profiles, and the tasks that are enqueued                           *)

\* An edit of a profile, and the event that asks for a rerank of it.
EditProfile(v, vector) ==
    /\ AtOnce /\ taste[v] < MaxTaste
    /\ taste' = [taste EXCEPT ![v] = @ + 1]
    /\ embedded' = IF vector THEN embedded \cup {v} ELSE embedded
    /\ Queue(Rerank(v)) /\ UNCHANGED <<granted, scores, picks, recs, hideVars>>
BadgeMoves(x) ==
    /\ AtOnce
    /\ granted' = IF x \in granted THEN granted \ {x} ELSE granted \cup {x}
    /\ UNCHANGED <<taste, embedded, scores, tasks, picks, recs, hideVars>>
DayPasses == today < MaxDay /\ today' = today + 1

\* nightly_rerank, by beat or POST /match/reindex.  The chunks are enqueued
\* before it waits for their results, which Celery refuses inside a task;
\* when profile-svc does not answer it enqueues nothing.  One chunk holds
\* every viewer.
NightlyRerank ==
    AtOnce /\ Queue("chunk") /\ UNCHANGED <<profileVars, scores, picks, recs, hideVars>>
NightlySets ==
    AtOnce /\ Queue("sets") /\ UNCHANGED <<profileVars, scores, picks, recs, hideVars>>

-----------------------------------------------------------------------------
(* Scores of one viewer, in a transaction                                  *)

\* The query compares vectors; without one it sends a vector of the wrong
\* length, which Postgres rejects as soon as there is a row to compare.
QueryFails(v) == v \notin embedded /\ granted # {}
Upserts(v)    == [v |-> v, of |-> taste[v], rest |-> granted, wrote |-> {},
                  want |-> None, seen |-> 0]

InRows(c)     == work[c] # None /\ work[c].op \in {"chunk.rows", "rerank.rows"}
Holds(d, v, x) == InRows(d) /\ work[d].v = v /\ x \in work[d].wrote
Locked(c, x)  == \E d \in Slots \ {c} : Holds(d, work[c].v, x)

\* A row's statement starts: the VALUES are computed, the version among them.
StartRow(c, x) ==
    /\ InRows(c) /\ work[c].want = None /\ x \in work[c].rest
    /\ Step(c, [work[c] EXCEPT !.want = x, !.seen = scores[work[c].v][x].ver])
    /\ UNCHANGED rankingVars
\* It gets the row's lock.
WriteRow(c) ==
    /\ InRows(c) /\ work[c].want # None /\ ~Locked(c, work[c].want)
    /\ Step(c, [work[c] EXCEPT !.wrote = @ \cup {work[c].want},
                               !.rest = @ \ {work[c].want}, !.want = None])
    /\ UNCHANGED rankingVars

\* Faulty variant: the update takes the version from the VALUES.
NewRowOfValues(row, l) == [ver |-> l.seen + 1, of |-> l.of]
\* ON CONFLICT DO UPDATE: the version is one more than the row's own.
NewRow(row, l) == [ver |-> row.ver + 1, of |-> l.of]

CommitRows(c) ==
    /\ InRows(c) /\ work[c].rest = {} /\ work[c].want = None
    /\ LET l == work[c] IN
       /\ scores' = [scores EXCEPT ![l.v] = [x \in Shown |->
                        IF x \in l.wrote THEN NewRow(scores[l.v][x], l) ELSE scores[l.v][x]]]
       /\ IF l.op = "chunk.rows"
          THEN Step(c, [op |-> "chunk", todo |-> l.todo \ {l.v}, ok |-> TRUE])
          ELSE End(c)
    /\ UNCHANGED <<profileVars, tasks, picks, recs, hideVars>>

\* Two transactions that wait for each other's row: Postgres ends one.  The
\* chunk catches the error but rolls nothing back, so that its connection
\* refuses the queries of the profiles that are left.
Waits(c, d) == InRows(c) /\ work[c].want # None /\ Holds(d, work[c].v, work[c].want)
Deadlock(c) ==
    /\ \E d \in Slots \ {c} : Waits(c, d) /\ Waits(d, c)
    /\ IF work[c].op = "chunk.rows"
       THEN Step(c, [op |-> "chunk", todo |-> work[c].todo \ {work[c].v}, ok |-> FALSE])
       ELSE End(c)
    /\ UNCHANGED rankingVars

-----------------------------------------------------------------------------
(* rerank_chunk and rerank_profile                                         *)

StartChunk(c) == /\ Deliver(c, "chunk", [op |-> "chunk", todo |-> Viewers, ok |-> TRUE])
                 /\ UNCHANGED <<profileVars, scores, picks, recs, hideVars>>
ChunkProfile(c, v) ==
    /\ Doing(c, "chunk") /\ v \in work[c].todo
    /\ LET l == work[c]  fails == ~l.ok \/ QueryFails(v) IN
       IF fails \/ granted = {}
       THEN Step(c, [l EXCEPT !.todo = @ \ {v}, !.ok = ~fails])
       ELSE Step(c, [op |-> "chunk.rows", todo |-> l.todo] @@ Upserts(v))
    /\ UNCHANGED rankingVars
EndChunk(c) == Doing(c, "chunk") /\ work[c].todo = {} /\ End(c) /\ UNCHANGED rankingVars

\* On demand, for one viewer; a failure ends the task and nothing retries it.
StartRerank(c, v) ==
    /\ Deliver(c, Rerank(v), IF QueryFails(v) \/ granted = {} THEN None
                             ELSE [op |-> "rerank.rows"] @@ Upserts(v))
    /\ UNCHANGED <<profileVars, scores, picks, recs, hideVars>>

-----------------------------------------------------------------------------
(* recommendation_set_gen and cleanup_expired_hides                        *)

StartSets(c) == /\ Deliver(c, "sets", [op |-> "sets", todo |-> Viewers])
                /\ UNCHANGED <<profileVars, scores, picks, recs, hideVars>>
Pool(v)    == {x \in granted : scores[v][x].ver > 0 /\ ~Hidden(v, x) /\ <<v, x>> \notin saves}
Selections(s) == {t \in SUBSET s : Cardinality(t) = IF Cardinality(s) < PickSize
                                                 THEN Cardinality(s) ELSE PickSize}
\* A viewer whose pool is empty keeps the set of the night before.
PickFor(c, v) ==
    /\ Doing(c, "sets") /\ v \in work[c].todo
    /\ IF Pool(v) = {} THEN Step(c, [work[c] EXCEPT !.todo = @ \ {v}])
       ELSE \E ids \in Selections(Pool(v)) :
               Step(c, [op |-> "sets.row", todo |-> work[c].todo, v |-> v, ids |-> ids])
    /\ UNCHANGED rankingVars
WriteSet(c) ==
    /\ Doing(c, "sets.row")
    /\ picks' = [picks EXCEPT ![work[c].v] = work[c].ids]
    /\ Step(c, [work[c] EXCEPT !.op = "sets.redis"])
    /\ UNCHANGED <<profileVars, scores, tasks, recs, hideVars>>
CacheSet(c) ==
    /\ Doing(c, "sets.redis")
    /\ recs' = [recs EXCEPT ![work[c].v] = work[c].ids]
    /\ Step(c, [op |-> "sets", todo |-> work[c].todo \ {work[c].v}])
    /\ UNCHANGED <<profileVars, scores, tasks, picks, hideVars>>
EndSets(c) == Doing(c, "sets") /\ work[c].todo = {} /\ End(c) /\ UNCHANGED rankingVars

CleanHides ==
    /\ AtOnce
    /\ hides' = [v \in Viewers |-> [x \in Shown |->
                    IF Hidden(v, x) THEN hides[v][x] ELSE None]]
    /\ UNCHANGED <<profileVars, scores, tasks, picks, recs, saves, today>>

\* A worker is lost: its transaction goes, its task is delivered again
\* (acks_late).
TaskOf(l) == IF l.op = "rerank.rows" THEN Rerank(l.v)
             ELSE IF l.op \in {"chunk", "chunk.rows"} THEN "chunk" ELSE "sets"
WorkerLost(c) ==
    /\ used < MaxRequests
    /\ work[c] # None
    /\ work[c].op \in {"chunk", "chunk.rows", "rerank.rows", "sets", "sets.row", "sets.redis"}
    /\ work' = [work EXCEPT ![c] = None] /\ used' = used + 1
    /\ Queue(TaskOf(work[c])) /\ UNCHANGED <<profileVars, scores, picks, recs, hideVars>>

-----------------------------------------------------------------------------
(* What discovery-svc asks of it                                           *)

\* GET /internal/candidates: every scored profile that has the badge, hidden
\* by the viewer or not.  Filters and the offset are left out.
Candidates(v) == {x \in granted : scores[v][x].ver > 0}

RankingNext ==
    \/ \E v \in Viewers, vector \in BOOLEAN : EditProfile(v, vector)
    \/ \E x \in Shown : BadgeMoves(x)
    \/ NightlyRerank \/ NightlySets \/ CleanHides
    \/ /\ DayPasses
       /\ UNCHANGED <<slotVars, profileVars, scores, tasks, picks, recs, hides, saves>>
    \/ \E c \in Slots :
          \/ StartChunk(c) \/ EndChunk(c) \/ StartSets(c) \/ EndSets(c)
          \/ \E v \in Viewers : ChunkProfile(c, v) \/ StartRerank(c, v) \/ PickFor(c, v)
          \/ \E x \in Shown : StartRow(c, x)
          \/ WriteRow(c) \/ CommitRows(c) \/ Deadlock(c)
          \/ WriteSet(c) \/ CacheSet(c) \/ WorkerLost(c)
===============================================================================
