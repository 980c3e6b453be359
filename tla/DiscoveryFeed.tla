---------------------------- MODULE DiscoveryFeed -----------------------------
(***************************************************************************)
(* discovery-svc: the feed with its daily cap and its cached pages, hides, *)
(* saves and the feed mode (services/feed.py, services/cache.py, routers). *)
(* A Redis pipeline is one step, two commands in a row are two.  A page    *)
(* stands for a user's sorted set of one mode and filter; offsets, cursors *)
(* and the profile cards are left out.                                     *)
(***************************************************************************)
EXTENDS MatchRanking, Integers

CONSTANTS Pages,       \* the mode and filter combinations
          PageSizes,   \* page_size of a request
          Cap          \* profiles a free user is served in a day (30)

Days  == 0..MaxDay
Modes == {"scroll", "swipe"}

VARIABLES
    count,      \* Redis feed_cap:<user>:<day>, 0 without a key
    served,     \* history: profiles granted since the counter was last new
    pages,      \* Redis feed:<user>:<mode>:<filter>: None or a set of profiles
    tracker,    \* Redis feed_keys:<user>: the pages it knows of
    modeCache,  \* Redis feed_pref
    modeRow     \* discovery.feed_preferences

feedVars == <<count, served, pages, tracker, modeCache, modeRow>>

FeedInit ==
    /\ count  = [v \in Viewers |-> [d \in Days |-> 0]]
    /\ served = [v \in Viewers |-> [d \in Days |-> 0]]
    /\ pages  = [v \in Viewers |-> [k \in Pages |-> None]]
    /\ tracker = [v \in Viewers |-> {}]
    /\ modeCache = [v \in Viewers |-> None] /\ modeRow = [v \in Viewers |-> None]

-----------------------------------------------------------------------------
(* The daily cap                                                           *)

\* What a request that went past the cap takes back: all that the counter is
\* past it by, what other refused requests have yet to take back included.
Overage(counted) == counted - Cap

\* INCRBY; within the cap the page is served, past it DECRBY is yet to come.
AskFree(c, v, k, n) ==
    LET counted == count[v][today] + n IN
    /\ count' = [count EXCEPT ![v][today] = counted]
    /\ IF counted > Cap
       THEN /\ Begin(c, [op |-> "feed.refund", v |-> v, day |-> today,
                         over |-> Overage(counted)])
            /\ UNCHANGED served
       ELSE /\ Begin(c, [op |-> "feed.look", v |-> v, k |-> k])
            /\ served' = [served EXCEPT ![v][today] = @ + n]
    /\ UNCHANGED <<rankingVars, pages, tracker, modeCache, modeRow>>
\* An entitlement above free is not counted.
AskPaid(c, v, k) == /\ Begin(c, [op |-> "feed.look", v |-> v, k |-> k])
                    /\ UNCHANGED <<rankingVars, feedVars>>
Refund(c) ==
    /\ Doing(c, "feed.refund")
    /\ count' = [count EXCEPT ![work[c].v][work[c].day] = @ - work[c].over]
    /\ End(c) /\ UNCHANGED <<rankingVars, served, pages, tracker, modeCache, modeRow>>

\* billing.entitlement_changed deletes the user's counters.
CapReset(v) ==
    /\ AtOnce
    /\ count'  = [count  EXCEPT ![v] = [d \in Days |-> 0]]
    /\ served' = [served EXCEPT ![v] = [d \in Days |-> 0]]
    /\ UNCHANGED <<rankingVars, pages, tracker, modeCache, modeRow>>

-----------------------------------------------------------------------------
(* Pages                                                                   *)

\* EXISTS; a page that is there is served from Redis.
Look(c) ==
    /\ Doing(c, "feed.look")
    /\ IF pages[work[c].v][work[c].k] # None THEN End(c)
       ELSE Step(c, [work[c] EXCEPT !.op = "feed.rank"])
    /\ UNCHANGED <<rankingVars, feedVars>>
\* matching-svc is asked; it may fail or have nothing, and then nothing is cached.
Rank(c, answered) ==
    /\ Doing(c, "feed.rank")
    /\ LET ids == IF answered THEN Candidates(work[c].v) ELSE {} IN
       IF ids = {} THEN End(c)
       ELSE Step(c, [op |-> "feed.fill", v |-> work[c].v, k |-> work[c].k, ids |-> ids])
    /\ UNCHANGED <<rankingVars, feedVars>>
\* ZADD NX keeps the members another request has put there since.
Fill(c) ==
    /\ Doing(c, "feed.fill")
    /\ LET v == work[c].v  k == work[c].k  old == pages[v][k] IN
       /\ pages' = [pages EXCEPT ![v][k] = work[c].ids \cup (IF old = None THEN {} ELSE old)]
       /\ tracker' = [tracker EXCEPT ![v] = @ \cup {k}]
    /\ End(c) /\ UNCHANGED <<rankingVars, count, served, modeCache, modeRow>>
\* FEED_TTL; the tracker has none.
PageExpires(v, k) ==
    /\ pages[v][k] # None
    /\ pages' = [pages EXCEPT ![v][k] = None]
    /\ UNCHANGED <<slotVars, rankingVars, count, served, tracker, modeCache, modeRow>>

\* invalidate_user_feed for each user of "of": SMEMBERS, then the keys read
\* and the tracker are deleted; then, for a new embedding, the recommendations.
Purge(of, andRecs) == [op |-> "purge", of |-> of, recs |-> andRecs]
PurgeRead(c, v) ==
    /\ Doing(c, "purge") /\ v \in work[c].of
    /\ IF tracker[v] = {} THEN Step(c, [work[c] EXCEPT !.of = @ \ {v}])
       ELSE Step(c, [op |-> "purge.keys", of |-> work[c].of, recs |-> work[c].recs,
                     v |-> v, keys |-> tracker[v]])
    /\ UNCHANGED <<rankingVars, feedVars>>
PurgeDrop(c) ==
    /\ Doing(c, "purge.keys")
    /\ LET v == work[c].v IN
       /\ pages' = [pages EXCEPT ![v] = [k \in Pages |->
                       IF k \in work[c].keys THEN None ELSE pages[v][k]]]
       /\ tracker' = [tracker EXCEPT ![v] = {}]
       /\ Step(c, Purge(work[c].of \ {v}, work[c].recs))
    /\ UNCHANGED <<rankingVars, count, served, modeCache, modeRow>>
PurgeEnd(c) ==
    /\ Doing(c, "purge") /\ work[c].of = {} /\ End(c)
    /\ recs' = [v \in Viewers |-> IF v \in work[c].recs THEN None ELSE recs[v]]
    /\ UNCHANGED <<profileVars, scores, tasks, picks, hideVars, feedVars>>

\* profile.updated, profile.blocked, hide_3mo.created, match.score_recomputed.
Told(c, of, andRecs) == Begin(c, Purge(of, andRecs)) /\ UNCHANGED <<rankingVars, feedVars>>

-----------------------------------------------------------------------------
(* Hides, saves, the mode                                                  *)

\* The row is committed, then the pages go.
SetHide(c, v, x, until) ==
    /\ hides' = [hides EXCEPT ![v][x] = until]
    /\ Begin(c, Purge({v}, {}))
    /\ UNCHANGED <<profileVars, scores, tasks, picks, recs, saves, today, feedVars>>
Hide(c, v, x)   == SetHide(c, v, x, today + HideDays)
Unhide(c, v, x) == SetHide(c, v, x, None)
SetSaved(rows) == /\ AtOnce /\ saves' = rows
                  /\ UNCHANGED <<profileVars, scores, tasks, picks, recs, hides, today, feedVars>>
Save(v, x)   == SetSaved(saves \cup {<<v, x>>})
Unsave(v, x) == SetSaved(saves \ {<<v, x>>})

\* Redis first, then the row.
SetMode(c, v, m) ==
    /\ Begin(c, [op |-> "mode.row", v |-> v, m |-> m])
    /\ modeCache' = [modeCache EXCEPT ![v] = m]
    /\ UNCHANGED <<rankingVars, count, served, pages, tracker, modeRow>>
WriteMode(c) ==
    /\ Doing(c, "mode.row") /\ End(c)
    /\ modeRow' = [modeRow EXCEPT ![work[c].v] = work[c].m]
    /\ UNCHANGED <<rankingVars, count, served, pages, tracker, modeCache>>

FeedNext ==
    \/ \E v \in Viewers :
          \/ CapReset(v)
          \/ \E k \in Pages : PageExpires(v, k)
          \/ \E x \in Shown : Save(v, x) \/ Unsave(v, x)
    \/ \E c \in Slots :
          \/ Refund(c) \/ Look(c) \/ (\E answered \in BOOLEAN : Rank(c, answered)) \/ Fill(c)
          \/ PurgeDrop(c) \/ PurgeEnd(c) \/ WriteMode(c)
          \/ \E of \in SUBSET Viewers \ {{}} : Told(c, of, {})
          \/ \E v \in Viewers :
                \/ \E k \in Pages, n \in PageSizes : AskFree(c, v, k, n)
                \/ \E k \in Pages : AskPaid(c, v, k)
                \/ PurgeRead(c, v) \/ Told(c, {v}, {v})
                \/ \E x \in Shown : Hide(c, v, x) \/ Unhide(c, v, x)
                \/ \E m \in Modes : SetMode(c, v, m)
===============================================================================
