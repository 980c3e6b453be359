----------------------------- MODULE PeopleSystem -----------------------------
(***************************************************************************)
(* Who a user is and who is shown to them: the trust badge with the        *)
(* identity check behind it, the sessions, the accounts, the portfolio,    *)
(* and discovery.  A badge's review is told of portfolio items only by a   *)
(* queued task, and the ranking reads nothing of a profile but whether it  *)
(* has the badge, so the five share no state, and a behaviour is one of    *)
(* them, named by "area".                                                  *)
(***************************************************************************)
EXTENDS ProfileBadge, AuthAccounts, ProfilePortfolio, DiscoveryFeed, FiniteSetsExt

CONSTANT Areas

VARIABLE area

discoveryVars == <<rankingVars, feedVars>>
vars == <<area, slotVars, identityVars, badgeRowVars, sessionVars, accountVars, portfolioVars,
          discoveryVars>>

Init == /\ area \in Areas /\ SlotsInit /\ IdentityInit /\ BadgeRowInit
        /\ SessionInit /\ AccountInit /\ PortfolioInit /\ RankingInit /\ FeedInit
        /\ area # "discovery" => embedded = {}      \* nobody else looks at it

BadgeArea == /\ \/ IdentityNext /\ UNCHANGED badgeRowVars
                \/ BadgeRowNext /\ UNCHANGED identityVars
             /\ UNCHANGED <<sessionVars, accountVars, portfolioVars, discoveryVars>>
DiscoveryArea == /\ (RankingNext /\ UNCHANGED feedVars) \/ FeedNext
                 /\ UNCHANGED <<identityVars, badgeRowVars, sessionVars, accountVars, portfolioVars>>
Next == /\ UNCHANGED area
        /\ \/ area = "badge" /\ BadgeArea
           \/ /\ area = "sessions" /\ SessionNext
              /\ UNCHANGED <<identityVars, badgeRowVars, accountVars, portfolioVars, discoveryVars>>
           \/ /\ area = "accounts" /\ AccountNext
              /\ UNCHANGED <<identityVars, badgeRowVars, sessionVars, portfolioVars, discoveryVars>>
           \/ /\ area = "portfolio" /\ PortfolioNext
              /\ UNCHANGED <<identityVars, badgeRowVars, sessionVars, accountVars, discoveryVars>>
           \/ area = "discovery" /\ DiscoveryArea

Spec == Init /\ [][Next]_vars

-----------------------------------------------------------------------------
(* Properties *)

\* Every row has its type and refers to rows that are there.
PeopleTypeOK ==
    /\ verif \in [Users -> {None} \cup VerifRow] /\ hooks \in Seq(HookRow)
    /\ \A h \in DOMAIN hooks : hooks[h].inq \in DOMAIN inquiries
    /\ profiles \in [Users -> {None} \cup ProfileRow]
    /\ sessions \in Seq(SessionRow) /\ \A t \in DOMAIN mint : mint[t] \in DOMAIN sessions
    /\ accounts \in Seq(AccountRow) /\ mails \in Seq(MailRow) /\ identities \subseteq IdentityRow
    /\ \A i \in identities : i[3] \in DOMAIN accounts
    /\ \A m \in DOMAIN mails : mails[m].account \in DOMAIN accounts
    /\ links \in [Providers -> {None} \cup LinkRow]
    /\ scores \in [Viewers -> [Shown -> ScoreRow]]
    /\ picks \in [Viewers -> {None} \cup PickRow] /\ recs \in [Viewers -> {None} \cup PickRow]
    /\ hides \in [Viewers -> [Shown -> {None} \cup HideRow]] /\ saves \subseteq SavedRow
    /\ modeRow \in [Viewers -> {None} \cup Modes]

BadgeOf(u) == IF profiles[u] = None THEN "unverified" ELSE profiles[u].badge
Promise == INSTANCE BadgeTable WITH badge <- [u \in Users |-> BadgeOf(u)]

\* "All transitions are table-driven" (badge_fsm.py:4), from the state the badge is
\* in: not met, a review that read it before a revocation writes over that.
BadgeStrictlyFollowsTable == Promise!BadgeSpec

\* Every change of a badge is a transition of the table from the badge as it is,
\* or it is made by a handler that was overtaken, another one having changed the
\* badge since this one read it, and is the table's from what this one read
\* (_handle_event, recheck_badge, patch_own_profile, orchestrate_profile_review).
Overtaken(c, u) == /\ work[c] # None /\ work'[c] # work[c]
                   /\ work[c].op \in {"event", "recheck", "patch", "start", "review"}
                   /\ work[c].u = u /\ work[c].loaded # BadgeOf(u)
TableStep ==
    \A u \in Users : BadgeOf(u)' # BadgeOf(u) =>
        \/ Promise!Leads(BadgeOf(u), BadgeOf(u)')
        \/ \E c \in Slots : Overtaken(c, u) /\ Promise!Leads(work[c].loaded, BadgeOf(u)')
BadgeFollowsTable == [][TableStep]_<<profiles, work>>

\* A badge past the identity check belongs to a user Persona approved as an
\* adult, whatever webhooks and events came late, twice or out of order
\* (persona_webhook, _handle_event).
ApprovedByPersona ==
    \A u \in Users : BadgeOf(u) \notin {"unverified", "email_verified", "identity_pending"} =>
        \E h \in handled : /\ inquiries[hooks[h].inq] = u
                           /\ hooks[h].status = "approved" /\ ~hooks[h].minor

\* A session that a sign-out found stays revoked, and the gateway knows of it: a
\* refresh under way, which read the row before, does not bring it back, and no
\* row says revoked before its mark is in Redis (token.py, sessions.py).
RevokedForGood ==
    /\ out \subseteq marks
    /\ \A s \in out : sessions[s].revoked
    /\ \A s \in DOMAIN sessions : sessions[s].revoked => s \in marks
\* And a token shown to a logout that found nothing never comes back: no refresh
\* that overlaps puts it into a row that is not revoked.
ToldIsDead == \A t \in told : sessions[mint[t]].token # t \/ sessions[mint[t]].revoked

\* What a sign-out that was answered with 200 has ended is ended for good: the
\* session, or, when a refresh had rotated the token before, that token alone.
LoggedOutStaysOut == RevokedForGood /\ ToldIsDead

\* "Revoke the provided refresh token's session." (token.py:103): not met, a
\* logout whose token was just rotated ends no session.
LogoutEndsSession == \A t \in told : sessions[mint[t]].revoked

\* An address that counts as verified is one that a mail was sent to for that
\* account and answered, with its link or its digits, or that the provider had
\* verified, with links of several purposes and addresses open at once and
\* changes under way (email_verify.py, account.py, signup.py).  That the mail's
\* reader answered it is more than the code ensures: see the README.
VerifiedWasAnswered ==
    \A a \in DOMAIN accounts :
        accounts[a].emailOk /\ accounts[a].email # None => <<a, accounts[a].email>> \in answered

\* Two uploads that counted the same items never take the portfolio past its
\* limit, nor two items to one place (request_upload_url, reorder_portfolio).
PortfolioFits ==
    /\ Count <= Limit
    /\ \A i, j \in Held(places) : places[i] = places[j] => i = j

\* The data key next to a token is the one that opens it, after a provider is
\* connected again while the daily refresh runs (oauth_callback).
KeyOpensAccess == \A p \in Providers : links[p] # None => links[p].access = links[p].dataKey

\* A score that changed has a new version, so that whoever compares versions
\* sees the change: the nightly chunk and the rerank on demand may write the
\* same pair, each from values it read before (rerank_chunk, rerank_profile).
VersionNamesOneScore ==
    [][\A v \in Viewers, x \in Shown :
          scores'[v][x].of # scores[v][x].of => scores'[v][x].ver > scores[v][x].ver]_scores

\* Once the refused requests have taken back what they counted, a counter is
\* within the cap again, however many of them overlapped and whatever day or
\* tier change came between (check_and_increment_cap).
Owed(v, d) == MapThenSumSet(LAMBDA c : work[c].over,
                  {c \in Slots : Doing(c, "feed.refund") /\ work[c].v = v /\ work[c].day = d})
CounterComesBack == \A v \in Viewers, d \in Days : count[v][d] - Owed(v, d) <= Cap

\* As a test has it ("Free user hitting the 31st profile returns not
\* allowed"): no free user is granted more profiles in a day than the cap.
\* Two refusals that overlap break it: see the README.
ServedWithinCap == \A v \in Viewers, d \in Days : served[v][d] <= Cap

\* As a comment in request_upload_url has it ("Find next available position"):
\* while there is room, the position it takes is free.  A delete or a reorder
\* breaks it: see the README.
NextPositionIsFree == Count < Limit => FreeFor(places, 0, Count)
===============================================================================
