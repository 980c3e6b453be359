----------------------------- MODULE ProfileBadge -----------------------------
(***************************************************************************)
(* profile-svc: the trust badge (routers/events.py, routers/badge.py,      *)
(* routers/profile.py, workers/ai_review_tasks.py, services/ai_review.py)  *)
(* on top of identity-svc, whose outbox its consumer reads.  Events arrive *)
(* at least once and in any order, or never; no handler locks the row.     *)
(* The exchange and the envelope, on which publisher and consumer differ,  *)
(* are taken as the consumer expects them.  A relay that drains the outbox *)
(* is named in comments and not in the repository; it is external here,    *)
(* and publishes any row any number of times.  The reason a badge is held, *)
(* the timestamps and the report to the moderators are left out.           *)
(***************************************************************************)
EXTENDS IdentityCheck

CONSTANTS MaxNews,             \* bound: moderation events and inquiry_started events
          MaxReviews           \* bound: review tasks that are queued

VARIABLES
    profiles,   \* profiles: [Users -> None or [badge]]
    recheckKey, \* Redis badge:recheck:{profile}: users who asked within a day
    queued,     \* the queue of review tasks: how many per user
    fired,      \* review tasks queued so far
    news        \* events of the other services that arrived

badgeRowVars == <<profiles, recheckKey, queued, fired, news>>

BadgeRowInit ==
    /\ profiles = [u \in Users |-> None] /\ recheckKey = {} /\ queued = [u \in Users |-> 0] /\ fired = 0 /\ news = 0

ProfileRow == [badge : {"unverified", "email_verified", "identity_pending",
    "identity_approved", "ai_review_pending", "badge_granted", "badge_held", "badge_revoked"}]
ASSUME NoneIsNoProfile == None \notin ProfileRow

\* _TRANSITIONS: what an event makes of a state; None: no transition, and the
\* handler changes nothing.  user.deleted keeps every state and is left out.
Transition(badge, event) ==
    CASE event = "user.email_verified" /\ badge = "unverified"              -> "email_verified"
      [] event = "identity.inquiry_started" /\ badge = "email_verified"     -> "identity_pending"
      [] event = "identity.verified" /\ badge = "identity_pending"          -> "identity_approved"
      [] event = "identity.declined" /\ badge = "identity_pending"          -> "email_verified"
      [] event = "identity.needs_review" /\ badge = "identity_pending"      -> "identity_pending"
      [] event = "ai.review.started" /\ badge = "identity_approved"         -> "ai_review_pending"
      [] event = "review.pass" /\ badge = "ai_review_pending"               -> "badge_granted"
      [] event \in {"review.soft_warn", "review.hide", "review.severe"}
            /\ badge = "ai_review_pending"                                  -> "badge_held"
      [] event \in {"profile.updated.material", "badge.recheck.requested"}
            /\ badge = "badge_granted"                                      -> "ai_review_pending"
      [] event = "moderation.upheld" /\ badge \in {"badge_granted", "badge_held"}
                                                                            -> "badge_revoked"
      [] event = "moderation.cleared" /\ badge = "badge_held"               -> "badge_granted"
      [] event = "moderation.appeal_upheld" /\ badge = "badge_revoked"      -> "badge_granted"
      [] OTHER                                                              -> None

\* The commit of a handler that loaded one badge and wants another.
SaveBadge(u, loaded, badge) ==
    profiles' = [profiles EXCEPT ![u] = Flush(@, [badge |-> loaded], [badge |-> badge])]

\* orchestrate_profile_review.delay: the broker may refuse it.
Fire(u) == /\ fired < MaxReviews /\ fired' = fired + 1
           /\ queued' = [queued EXCEPT ![u] = @ + 1]
NotFired == UNCHANGED <<queued, fired>>

-----------------------------------------------------------------------------
(* Events *)

OtherEvents == {"identity.inquiry_started", "moderation.cleared", "moderation.upheld",
                "moderation.appeal_upheld"}

CreateProfile(u) == /\ profiles[u] = None
                    /\ profiles' = [profiles EXCEPT ![u] = [badge |-> "unverified"]]
                    /\ UNCHANGED <<slotVars, recheckKey, queued, fired, news>>

LoadEvent(c, u, event) ==
    /\ profiles[u] # None /\ Transition(profiles[u].badge, event) # None
    /\ Take(c, [op |-> "event", u |-> u, event |-> event, loaded |-> profiles[u].badge])
EmailVerified(c, u) == LoadEvent(c, u, "user.email_verified") /\ UNCHANGED badgeRowVars
IdentityEvent(c, o) == LoadEvent(c, o[3], o[1]) /\ UNCHANGED badgeRowVars
OtherEvent(c, u, event) ==
    /\ news < MaxNews /\ news' = news + 1 /\ LoadEvent(c, u, event)
    /\ UNCHANGED <<profiles, recheckKey, queued, fired>>

\* The message is acknowledged whatever happens after the commit.
CommitEvent(c) ==
    LET q == work[c]
    IN
    /\ Doing(c, "event")
    /\ SaveBadge(q.u, q.loaded, Transition(q.loaded, q.event))
    /\ \/ q.event = "identity.verified" /\ Fire(q.u)
       \/ NotFired
    /\ End(c) /\ UNCHANGED <<recheckKey, news>>

-----------------------------------------------------------------------------
(* The user *)

LoadRecheck(c, u) ==
    /\ profiles[u] # None /\ u \notin recheckKey
    /\ Transition(profiles[u].badge, "badge.recheck.requested") # None
    /\ Begin(c, [op |-> "recheck", u |-> u, loaded |-> profiles[u].badge])
    /\ UNCHANGED badgeRowVars
\* The commit, the key, the task: each may be the last thing that happens.
CommitRecheck(c) ==
    LET q == work[c]
    IN
    /\ Doing(c, "recheck")
    /\ SaveBadge(q.u, q.loaded, "ai_review_pending")
    /\ \/ recheckKey' = recheckKey \cup {q.u} /\ (Fire(q.u) \/ NotFired)
       \/ UNCHANGED recheckKey /\ NotFired
    /\ End(c) /\ UNCHANGED news
ADayPasses == /\ recheckKey # {} /\ recheckKey' = {}
              /\ UNCHANGED <<slotVars, profiles, queued, fired, news>>

\* PATCH /me with a new name or text: the text is committed, then the badge
\* that was loaded before; a profile that was not granted is not reviewed.
LoadPatch(c, u) ==
    /\ profiles[u] # None /\ profiles[u].badge = "badge_granted"
    /\ Begin(c, [op |-> "patch", u |-> u, loaded |-> profiles[u].badge])
    /\ UNCHANGED badgeRowVars
CommitPatch(c) ==
    LET q == work[c]
    IN
    /\ Doing(c, "patch")
    /\ SaveBadge(q.u, q.loaded, Transition(q.loaded, "profile.updated.material"))
    /\ Fire(q.u) \/ NotFired
    /\ End(c) /\ UNCHANGED <<recheckKey, news>>

\* An item of the portfolio was uploaded.
ItemAdded(u) == /\ profiles[u] # None /\ AtOnce /\ Fire(u)
                /\ UNCHANGED <<profiles, recheckKey, news>>

-----------------------------------------------------------------------------
(* The review *)

\* aggregate_risk in hundredths of a percent: text and image from 0 to 100,
\* the duplicate signal 0 or 1; nobody computes the fourth signal.
AggregateRisk(text, image, dup) == 35 * text + 35 * image + 2000 * dup
\* score_to_event; the sum of all three, 0.8999999999999999 in doubles, is
\* below the last threshold.
ScoreToEvent(score) == CASE score < 4000  -> "review.pass"
                         [] score < 7000  -> "review.soft_warn"
                         [] score <= 9000 -> "review.hide"
                         [] OTHER         -> "review.severe"

LoadReview(c, u) ==
    /\ queued[u] > 0 /\ queued' = [queued EXCEPT ![u] = @ - 1]
    /\ Take(c, [op |-> IF profiles[u].badge = "identity_approved" THEN "start" ELSE "review",
                u |-> u, loaded |-> profiles[u].badge])
    /\ UNCHANGED <<profiles, recheckKey, fired, news>>
StartReview(c) ==
    LET q == work[c]
    IN
    /\ Doing(c, "start")
    /\ SaveBadge(q.u, q.loaded, Transition(q.loaded, "ai.review.started"))
    /\ Step(c, [op |-> "review", u |-> q.u, loaded |-> "ai_review_pending"])
    /\ UNCHANGED <<recheckKey, queued, fired, news>>
\* Faulty variant: any badge takes the verdict.
FinishReviewAny(c, text, image, dup) ==
    LET q == work[c]
    IN
    /\ Doing(c, "review")
    /\ SaveBadge(q.u, q.loaded, Transition("ai_review_pending",
                                          ScoreToEvent(AggregateRisk(text, image, dup))))
    /\ End(c) /\ UNCHANGED <<recheckKey, queued, fired, news>>
\* A scan that fails scores 0; only a pending badge takes the verdict.
FinishReview(c, text, image, dup) ==
    LET q == work[c]
        verdict == Transition(q.loaded, ScoreToEvent(AggregateRisk(text, image, dup)))
    IN
    /\ Doing(c, "review")
    /\ SaveBadge(q.u, q.loaded, IF verdict = None THEN q.loaded ELSE verdict)
    /\ End(c) /\ UNCHANGED <<recheckKey, queued, fired, news>>
\* The worker dies or the task raises: it is delivered, or retried, again.
ReviewFails(c) ==
    LET q == work[c]
    IN
    /\ Doing(c, "start") \/ Doing(c, "review")
    /\ queued' = [queued EXCEPT ![q.u] = @ + 1]
    /\ End(c) /\ UNCHANGED <<profiles, recheckKey, fired, news>>

\* A request dies before its commit; an event's message is left in the queue.
BadgeFails(c) == /\ Doing(c, "event") \/ Doing(c, "recheck") \/ Doing(c, "patch")
                 /\ End(c) /\ UNCHANGED badgeRowVars

BadgeRowNext ==
    \/ ADayPasses
    \/ \E u \in Users : CreateProfile(u) \/ ItemAdded(u)
    \/ \E c \in Slots :
          \/ \E u \in Users :
                \/ EmailVerified(c, u) \/ LoadRecheck(c, u) \/ LoadPatch(c, u) \/ LoadReview(c, u)
                \/ \E event \in OtherEvents : OtherEvent(c, u, event)
          \/ \E o \in outbox : IdentityEvent(c, o)
          \/ CommitEvent(c) \/ CommitRecheck(c) \/ CommitPatch(c)
          \/ StartReview(c) \/ ReviewFails(c) \/ BadgeFails(c)
          \/ \E text, image \in {0, 100}, dup \in {0, 1} : FinishReview(c, text, image, dup)
===============================================================================
