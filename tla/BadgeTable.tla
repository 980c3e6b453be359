------------------------------ MODULE BadgeTable ------------------------------
(***************************************************************************)
(* What the trust badge promises (profile-svc services/badge_fsm.py, lines *)
(* 4 and 69-192): a badge starts unverified and every change of it is a    *)
(* transition of the table from the state it is in.  The event             *)
(* user.deleted keeps every state.                                         *)
(***************************************************************************)
EXTENDS Naturals

CONSTANT Users

BadgeStates == {"unverified", "email_verified", "identity_pending", "identity_approved",
                "ai_review_pending", "badge_granted", "badge_held", "badge_revoked"}

Table ==
    {<<"unverified",        "user.email_verified",       "email_verified">>,
     <<"email_verified",    "identity.inquiry_started",  "identity_pending">>,
     <<"identity_pending",  "identity.verified",         "identity_approved">>,
     <<"identity_pending",  "identity.declined",         "email_verified">>,
     <<"identity_pending",  "identity.needs_review",     "identity_pending">>,
     <<"identity_approved", "ai.review.started",         "ai_review_pending">>,
     <<"ai_review_pending", "review.pass",               "badge_granted">>,
     <<"ai_review_pending", "review.soft_warn",          "badge_held">>,
     <<"ai_review_pending", "review.hide",               "badge_held">>,
     <<"ai_review_pending", "review.severe",             "badge_held">>,
     <<"badge_granted",     "moderation.upheld",         "badge_revoked">>,
     <<"badge_granted",     "profile.updated.material",  "ai_review_pending">>,
     <<"badge_granted",     "badge.recheck.requested",   "ai_review_pending">>,
     <<"badge_held",        "moderation.cleared",        "badge_granted">>,
     <<"badge_held",        "moderation.upheld",         "badge_revoked">>,
     <<"badge_revoked",     "moderation.appeal_upheld",  "badge_granted">>}

VARIABLE badge      \* [Users -> BadgeStates]: profile.badge_state

BadgeInit == badge = [u \in Users |-> "unverified"]

\* The table leads from one state to another.
Leads(from, to) == \E t \in Table : t[1] = from /\ t[3] = to

Follow(u) == \E to \in BadgeStates : /\ Leads(badge[u], to)
                                     /\ badge' = [badge EXCEPT ![u] = to]

BadgeNext == \E u \in Users : Follow(u)
BadgeSpec == BadgeInit /\ [][BadgeNext]_badge
===============================================================================
