# Colab: a verification project

TLA+ models of the parts of Colab whose correctness depends on the order in
which requests, webhooks, tasks and events run. TLC checks each model on a small
instance; TLAPS proves most of the safety properties, those of eight components
or systems, for every instance (section 4).

`PROJECT.json` lists the components, the runs with their properties, the
faulty variants each property has been shown to catch (mutants), the source
lines behind every definition (map), the hazards, and the theorems.

    tlc -workers 2 -config MCCreditWallet.cfg MCCreditWallet
    tlapm ChatRoomProofs.tla

1. [The system](#1-the-system) · 2. [The modules](#2-the-modules) ·
3. [The runs](#3-the-runs) · 4. [What is proved](#4-what-is-proved) ·
5. [Properties without a run](#5-properties-without-a-run) ·
6. [What is abstracted, what is not modelled](#6-what-is-abstracted-and-what-is-not-modelled) ·
7. [Known divergences](#7-known-divergences) · 8. [The plan](#8-the-plan)

## 1. The system

Colab is some twenty Python services (FastAPI, SQLAlchemy on PostgreSQL,
Celery, Redis, RabbitMQ), a mobile and an admin web client, and Helm charts.
Services call each other over HTTP and publish events on RabbitMQ topic
exchanges. State that matters is in PostgreSQL; Redis holds caches, quotas,
presence and pub/sub.

auth-svc, billing-svc, identity-svc and notification-svc take their sessions from
`colab_common/db.py`, the other services from a module of their own, the workers
partly from engines they create. None of them sets an isolation level, so every
transaction is READ COMMITTED; `credits.py:8` and `internal.py:53` of billing-svc
speak of SERIALIZABLE, which nobody sets, and what protects the wallet are its row
locks. Nothing is serialised that a row lock, a unique key or a conditional UPDATE
does not serialise. A handler loads a row, awaits something, and writes back the
columns it changed. Most hazards below come from this.

### Inventory

| Component | State | Operations | What makes it hard | What makes it correct | Modelled in |
|---|---|---|---|---|---|
| billing-svc: credit wallet | `credit_wallets`, `credit_transactions` | reserve, commit, release, purchase, grant, adjust | concurrent sessions, row locks, repeated calls | no lost update, no overspending, settled once | CreditLedger, CreditWallet |
| billing-svc: subscription sync | `subscriptions`, entitlements, dunning cases, event ledger | Stripe and RevenueCat webhooks, `/billing/cancel/web`, dunning tick | duplicated and reordered webhooks, racing requests | effects once per event, grants paid for (met); events accepted in the end, canceled means free (not met) | SubscriptionSync |
| billing-svc: purchases, alias merge | the same tables | one-off purchases, RevenueCat aliases | | | no |
| ai-orchestrator-svc: commands | `ai_interaction`, `mockup_asset`, Celery queue, `replicate:` keys | slash commands, tasks, Replicate's webhook | a saga over three services with lost answers and crashes | the verdict agrees with the money | AiCredits |
| ai-orchestrator-svc: mockups by consent | `mockup_consent`, `mockup_asset` | ask, approve, generate, hourly expiry | approval against expiry and against itself | only what two agreed to is made | MockupConsents |
| invite-svc | `collab_invite`, `block`, Redis quota and idempotency cache | send, accept, reject, cancel, expire, block | two sides at once, cache races, rolling window | quota, mutual matches, one answer per invite | InviteFlow |
| collab-svc: lifecycle | `collaboration`, status events, feedback | status changes, archiving, nudges, activity | requests racing with Celery tasks | the history explains the row | CollabLifecycle |
| collab-svc: tools | tasks, comments, whiteboard operations and snapshots, exports, a Redis lock, S3 | edit, reorder, draw, join, export | stale rows, hydration while others draw, lock loss and redelivery | joiners miss nothing, "ready" has its file | TaskBoard, Whiteboard, ExportJobs |
| meeting-svc | meetings, consents, artifacts | schedule, consent, revoke, start the bot, Recall's webhooks | two consents at once, a task queued before its commit, stray webhooks | a bot only while two consents stand | MeetingBot |
| chat-svc | rooms, messages, revisions, receipts, Redis pub/sub | send, replay, edit, read, freeze | many connections and pods, reconnection | no fan-out or replay of what was held back, no gap after resuming | ChatRoom |
| moderation-svc | cases, actions, reports, notices, throttle rows | report, claim, decide, escalate, reopen, scan, take down, propagate | beat tasks and moderators on one row, a task that dies half way | the throttle is backed, overlapping takedowns hide once each | ModerationDesk, DmcaNotices, ContentScan |
| notification-svc | notifications, preferences, devices | consume, queue, push, retry | events, tasks and pushes each at least once | a nudge once per device, an acknowledged event reaches its users | Notifications |
| support-svc | tickets, deadlines, chatbot turns and counters in Redis | open, reply, SLA scan, chat turn | overlapping scans, session named by the client | a context holds only its user's turns | SupportService |
| identity-svc | verifications, outbox | inquiry, Persona's webhooks | late, repeated, reordered webhooks | see profile-svc | IdentityCheck |
| profile-svc | badge, portfolio items, external links | events, recheck, edit, review, upload, reorder, connect | a review that ends after a revocation | the badge follows its table, the portfolio fits | ProfileBadge, BadgeTable, ProfilePortfolio |
| auth-svc | users, identities, sessions, links, Redis sets | sign up, verify, change address, refresh, log out | refresh against logout, several links open | logged out stays out, a verified address was answered for | AuthAccounts |
| matching-svc | scores, recommendation sets | nightly chunk, rerank, events | two jobs upsert one viewer's scores | a version names one score | MatchRanking |
| discovery-svc | feed cache, cap counter, hides, saves, mode | feed, hide, save, switch | Redis and PostgreSQL change apart | (see section 7) | DiscoveryFeed |
| media-svc | uploads | confirm, scan | | | ContentScan (the scan) |
| colab_common | | sessions, Celery, tokens, middlewares | | | Celery's delivery, in ExportJobs |
| admin, geo, analytics, gateway, hello, apps, charts | | proxies, lookups, sinks, user interface | little protocol of their own | | no |

### How the parts interact

- ai-orchestrator reserves, commits and releases credits at billing-svc over
  HTTP: AiCredits composes the command saga with the abstract CreditLedger,
  which CreditWallet is shown to implement. So the saga is checked against a
  ledger the wallet's transactions really provide. At this commit the calls do not
  get through: billing-svc's `/internal` routes ask for a role (`require_role`,
  internal.py), ai-orchestrator sends no token and invite-svc only
  `X-Internal-Service`. Commands then fail with billing-svc's 401, and invite-svc
  falls back to the free quota (quota.py:98). The models say what the services do
  once a token is sent.
- identity-svc writes events to an outbox; profile-svc's consumer turns them
  into badges. ProfileBadge extends IdentityCheck with that outbox between them.
  No process in the repository drains the outbox: its relay is external.
- chat-svc, media-svc and invite-svc ask moderation-svc inline before they store
  something, ai-orchestrator before it shows something; ContentScan holds both
  ends. In ChatRoom, InviteFlow and AiCredits the scan is a choice of its outcome.
- discovery-svc's tables are read by matching-svc's jobs, so DiscoveryFeed extends
  MatchRanking. Takedowns and scans open cases on the moderators' desk, so both
  extend ModerationDesk.
- invite-svc publishes `match.created`, `block.created` and `block.removed`;
  collab-svc and chat-svc consume them. Each consumer is modelled from its
  handler, given well-formed events. At this commit the two ends do not agree:
  invite-svc sends `profile_a_id`/`profile_b_id` and `blocker_id`/`blocked_id`
  where the consumers read `profile_id_a`/`profile_id_b` and
  `blocker_profile_id`/`blocked_profile_id`; chat-svc binds exchanges `invite`
  and `profile` while invite-svc publishes on `colab.events`; chat-svc publishes
  `chat.message.sent` on `chat` without the `collaboration_id` collab-svc
  expects on `colab.events`. collab-svc puts such an event back into its queue,
  again and again; chat-svc logs and drops it. The models say what the services
  do once these contracts are aligned. notification-svc is modelled the same way.

## 2. The modules

One module per component. Components that share no table, key or message meet
in a system module only so that one run can check them: its variable `area`
picks the component a behaviour is about. An MC module holds TLC's definitions.
Bounds are constants with `Max` names, used only in guards. A definition
introduced by "Faulty variant" is a plausible bug in the definition that follows
it. No action uses it; it shows that a property catches that bug.

    RequestSlots <- MeetingBot, TaskBoard, Whiteboard, ExportJobs,
                              MockupConsents              <- WorkspaceSystem
                           <- Notifications
                              SupportService
                              ModerationDesk <- DmcaNotices, ContentScan
                                             <- ModerationSystem   <- CareSystem
                           <- IdentityCheck <- ProfileBadge (implements BadgeTable)
                              ProfilePortfolio, AuthAccounts
                              MatchRanking <- DiscoveryFeed        <- PeopleSystem
    CreditLedger <- AiCredits;  CreditWallet implements CreditLedger
    SubscriptionSync, InviteFlow, CollabLifecycle, ChatRoom stand alone

### RequestSlots

What the services have in common. `Flush(current, loaded, wanted)` is
SQLAlchemy's write-back: only columns whose value changed since the load are in
the UPDATE, so concurrent edits of different columns both survive and edits of
the same one overwrite. A slot is a request or a Celery task under way: `Begin`,
`Step` at each await, `End`. `MaxRequests` bounds how many begin.

### CreditLedger (abstract)

What the wallet promises: six atomic operations on balances and a ledger keyed
by idempotency keys. `LedgerSpec` is the specification; `LedgerBacksBalance`,
`NoOverspend` and `ReleaseCompensated` are its invariants.

### CreditWallet implements CreditLedger

`services/credits.py` at the grain of SQL statements. A session takes the wallet
row with `SELECT ... FOR UPDATE` (`LockWallet`), inserts it when missing
(`CreateWallet`; a concurrent insert raises, `CreateWalletConflict`), sums the
open reservations (`CheckAvailable`), inserts a ledger row or finds its key
taken (`InsertReservation`, `WritePosting`, `DuplicateKey`), or locks a
reservation and settles it (`LockReservation`, `WriteCommit`, `WriteRelease`).
`seen` is the ORM object's copy of the balance, written back as a value.
`Abort` rolls back at any point. The refinement mapping is the identity on
`balance` and `ledger`: each write step is one abstract operation and every
other step a stutter; run `wallet` checks `LedgerSpec` as a property, and
`WalletImplementsLedger` proves it.

### AiCredits (composed with CreditLedger)

One `run_command` request, one Celery task and any number of webhook requests
per interaction. `Submit`, `ReserveCredits`, `RecordReservation`, the moderation
and generation outcomes, `Conclude`, then `RequestCommits`/`RequestReleases`
follow the order of the awaits. A mockup goes on through `CreateAsset`,
`Enqueue`, `CreatePrediction`, `WritePrediction` and the webhook's `Lookup` and
`LookupAsset`, `Processed`, `HandlerCommits`, `HandleFailure`, `HandlerReleases` and
`Mark`. The look-up is two SELECTs by the prediction's id: between them another
attempt may write its own prediction to both rows, and the request goes on without
an asset. A palette is a text command whose generator may raise, which leaves the
request with its reservation open (`raised`).
`Faults` selects what may go wrong: a 5xx, an answer lost after the call was
applied, an unreachable billing-svc, a crash.

### SubscriptionSync

A store (Stripe or RevenueCat) changes a subscription and sends events; each is
delivered in any order and any number of times until a request answers 200. A
request is `Deliver` (insert into the event ledger, take its key), `Load`,
`Flush`, `ReadCases`, `Commit`, or a rollback at any point. What a session
writes is what its ORM objects saw change, so two sessions can overwrite each
other as READ COMMITTED lets them. `SessionOpens` says whether a request gets that
far. FALSE is the route as it is: `async_session_factory()` returns the sessionmaker
(db.py:124-126), entering it raises before the `try` begins, and the answer is a 500
(run `sync_route`). TRUE is what the handlers do once their session opens (run
`sync_race`); `/cancel/web` and the tick have sessions that do. `CancelWebCall`/`CancelWebCommit` is
`POST /billing/cancel/web`. `DunningTick` says whether `advance_dunning_cases`
runs; no module calls it at this commit, `sync_race` turns it on.

### InviteFlow

A send goes through the block check, the idempotency cache, the Redis script
of the quota, moderation and the insert, with awaits in between; two sides accept,
reject, cancel; `Expire` is the hourly job with `SKIP LOCKED`. An accept locks
its invite, reads the mirror and publishes the match after it has committed.

### CollabLifecycle

One collaboration: created from a match, moved between statuses by requests
that load, validate and write in separate steps, touched by chat events and
blocks, nudged and archived by Celery workers.

### ChatRoom

One room, its connections spread over pods, REST requests, editors, block
events and the mobile client's pointer. Message ids are handed out in order but
committed in any order. A connection acts on the room state it read after its
previous frame. A message may reply to any id; what is published carries a preview
of that parent, whatever its status (`quoted`). The answer of the REST endpoint
returns the message to its sender, held back or not. A receipt may name any id, and
is published as it is.

### WorkspaceSystem: MeetingBot, TaskBoard, Whiteboard, ExportJobs, MockupConsents

MeetingBot: a meeting and its calendar event, the consents of its participants
(`LoadConsent`, `GiveConsent`, `CommitConsent`, `RevokeConsent`), the dispatch task
that is queued before the consent commits and delivered at least once
(`RunDispatch`, `CreateBot`, `CommitDispatch`), and Recall's webhooks in any order
(`RecallWebhook`, `RunHook`, `CommitHook`). A revocation loads and writes in two steps;
the history `crossed` has the meetings where one was under way together with a
request that counts consents.

TaskBoard: `PatchTask`, `DeleteTask`, `MoveTask`, `Rebalance`, `LoadComment` and
`CommitComment` over rows two participants write through `Flush`.

Whiteboard: a tab registers (`Connect`), loads the snapshot and the operations
after it (`LoadSnapshot`, `LoadDelta`), draws (`Draw`, `Persist`, `Broadcast` to one
tab at a time) and leaves (`Disconnect`), which shortens the list a broadcast is
walking over. `Restart` empties the room's memory.

ExportJobs: `RequestExport`, the chat export's task with its lock, fetch, uploads
and retries, the whiteboard's task, `Redeliver`.

MockupConsents: one party asks (`Ask`), the other's request approves
(`FlushApproval` keeps the row locked while billing-svc is asked, `Bill`,
`MakeMockup`), the generation in three steps, and the two hourly jobs, of which
the assets' reads first and writes later (`ReadExpired`, `SwitchOff`).

### CareSystem: Notifications, SupportService, ModerationSystem

Notifications: an event becomes one Celery task per recipient, a task one
transaction with pushes inside. The event goes back when a call fails. A `Dispatch`
commits, dies after it committed (`unacked`), raises or dies before: a task that
raised is retried up to its limit, one whose worker died is delivered again
(`RunsAgain`). The choices and the endpoints, one per phone, change meanwhile.

SupportService: tickets open with the tier lookup and its cache, replies, the SLA
scan; a chatbot turn counts itself, reads the session's turns, answers, appends.

ModerationDesk: every endpoint reads first and writes in one transaction at
its end, so each is two steps; a decision starts a task that calls each service
in turn. DmcaNotices adds notices and the takedown task; ContentScan adds the
scan API with the services that call it. Moderation is two areas: in
`moderation` everything meets, for `MaxMixed` requests; in `reports` only
reports are filed (`ReportNext`), as many as it takes to reach the limit and to
pass it.

### PeopleSystem: ProfileBadge, AuthAccounts, ProfilePortfolio, DiscoveryFeed

IdentityCheck: inquiries and Persona's webhooks. ProfileBadge: the outbox, the
event consumer, recheck, edits and the AI review, each loading a badge and
writing it later. BadgeTable is the abstract specification: every change is a
transition of `badge_fsm.py`'s table from the state the badge is in. The refinement
mapping takes a user without a profile to `unverified`. The code does not implement
it (`BadgeStrictlyFollowsTable`, section 7): no lock orders the handlers. Run
`people` checks what does hold, `BadgeFollowsTable`: a change is the table's from the
badge's state or, made by a handler that was overtaken, the table's from the state
that one read.

ProfilePortfolio: uploads that count before they insert, reorders, deletions,
links with their encrypted tokens. AuthAccounts: rotation of refresh tokens in
PostgreSQL with the spent ones in Redis; a logout that finds its session
(`Logout`) and one whose token no row has any more, which answers 200 too
(`LogoutMissed`; `held` are the tokens clients have, `told` those such a logout
named); sign-up by mail, phone and provider, verification, change of address and
number, password reset. A six-digit code is looked up without its account, so an
answer may take up any open link of its purpose; `answered` has the addresses whose
link or code was.

MatchRanking: two jobs upsert one viewer's scores row by row. DiscoveryFeed: the
daily cap, cached pages and their invalidation, hides, saves, the mode.

## 3. The runs

Ten runs are expected to pass and two to be violated; each ends well within five minutes on two
cores. Distinct states are those of a complete search.

| Run | Checks | States | Bounds and why they are enough |
|---|---|---|---|
| wallet | all wallet invariants, refinement of CreditLedger, settlement, progress | 77 k | one user, two sessions, two reservations and one key of each posting kind: two is what a race needs, and sessions meet only on a wallet or a row |
| ai_saga | verdict and money agree, text commands settle, without faults | 216 k | two interactions, one prediction each, four commands (a palette may raise), credits for two mockups |
| ai_faults | no charge without a stored artifact, text never misbilled | 2.7 M | one interaction, two predictions (so that one attempt replaces the other's between two SELECTs), two handlers, two deliveries, all four faults |
| sync_race | effects once, grants paid for | 1.4 M | `SessionOpens`; two requests, a web cancellation, the dunning tick, one fault; four events of a Stripe subscription, or three of RevenueCat's, whose one event does what Stripe's two do. A behaviour uses one subscription (`OneSource`): requests for two share nothing |
| sync_route | **violation** | – | the routes as they are: one request, three events |
| invite | quota, matches, answered once | 2.3 M | two profiles (free and unlimited), two sends, four ticks (quota week and expiry pass), crashes and failing publishes |
| invite_mutual | **violation** | – | two mirrored invites, no faults |
| collab | history, archiving | 575 k | two requests, two workers, four days (idle after two), one message |
| chat | visibility, late messages, gaps | 1.2 M | two profiles on two pods, a REST request, two editors, two messages, two of the rarer happenings |
| workspace | agreements, joining tabs, exports | 549 k | two participants, two requests at a time, one meeting with two bots, three tabs and two operations, two exports with one retry, two proposals over three days |
| care | nudges, events that reach their users, contexts, throttle, hides | 1.2 M | two users who share a phone, two slots, one event (guarded, not guarded, or without a task) delivered twice, one retry and one worker that dies, two chatbot turns, two cases and two services to tell, two requests and two beat workers where all of moderation meets; seven reports in two slots under a limit of three, which lets six through |
| people | badge, approval, logout, addresses, portfolio, scores | 348 k | two slots; one inquiry, two webhooks, two reviews; two sessions and four tokens; two mail addresses and three mails; three places in the portfolio; one viewer and two candidates |

Two of everything is where these races live: each needs two writers, or one
writer and one repetition. Three is used where two cannot show the case: a third
tab for a broadcast that skips one, a third link of another purpose.

`CHECK_DEADLOCK FALSE` where the system may stop: when nobody sends anything
more, or a bound is reached. The wallet never stops, so its run checks deadlock.

Symmetry is used only for sets the specification treats alike, and only in runs
without liveness properties. The refinements and action properties of `people`
are safety.

### Fairness

- wallet: strong fairness of a session's steps. A request that began runs on. A
  step that takes a lock is enabled again and again while others hold and release
  it; PostgreSQL queues the sessions that wait, so that one of them gets the lock in
  the end, which weak fairness would not say. Locks are taken reservation first,
  wallet second, so no cycle of waiting sessions exists; `RequestsFinish` shows it.
- ai_saga: requests, tasks and handlers keep running and Replicate finishes
  what it accepted. Nobody has to issue a command.
- sync_route: a request keeps running, and the stores redeliver what was not
  answered with 200 (`SF` on the delivery of each event, as Stripe and RevenueCat
  retry). So the counterexample is no store that gave up.
- collab: requests that began run on and workers drain their queue. Nothing is
  assumed of the inactivity check: no module imports collab-svc's
  `workers/beat_schedule.py`, and the chart starts Beat on
  `app.workers.celery_app`, so its schedule is empty.
- The other runs check safety under no fairness.

### The violations

`EventsEventuallyAccepted` (sync_route): both webhook routes enter
`async_session_factory()` (`routers/webhooks.py:76` and `:136`), which returns the
sessionmaker, no session (`colab_common/db.py:124-126`). That is a TypeError before
the `try` begins, and a 500 for every verified delivery for ever, against "Return 500
so Stripe retries (we'll dedup on retry)" (`routers/webhooks.py:100`).

`MutualAcceptMatches` (invite_mutual): each of two accepts locks its own row
and reads the other's before it commits, so neither announces the match,
against "Wrapped in a SELECT FOR UPDATE transaction to prevent race conditions"
(`routers/invites.py:266`).

## 4. What is proved

Each theorem is about the whole specification its run checks, for every value of
the constants: any number of users, rows, requests, workers, redeliveries and
days. The form is the same throughout. The property is not inductive as it
stands, because requests act on what they read steps earlier; the inductive
invariant adds what every request under way holds, and how that relates to the
tables now. One lemma per action (or per group that writes the same thing) shows
that it is kept, one lemma joins them, and the last step is temporal. TLC has
checked every one of these invariants on the instance of its run.

### The assumptions

They are declared in the modules, and TLC evaluates them on every run.

| Module | Assumption | Why the code meets it |
|---|---|---|
| CreditLedger, CreditWallet | amounts are positive, the key spaces are disjoint, `NoUser`, `NoSession`, `NoKey` are no members | the keys of a release and of each caller have a prefix of their own; the three name an absent value |
| AiCredits | costs, attempts and deliveries are positive; prediction ids are not the words for "no prediction" | the price list, `max_retries`; Replicate's ids |
| InviteFlow | quotas and windows are numbers | settings |
| CollabLifecycle | `NudgeDays < ArchiveDays`; the worker processes are finitely many | `nudge_days` is 14, `archive_days` 30 |
| ChatRoom | a connection has one owner and one pod; connections and REST requests are different things | |
| MeetingBot, MockupConsents | the participants are finitely many; days are numbers | a collab has two |
| Whiteboard, ProfileBadge | `None` is no row; bounds are numbers | it stands for SQL NULL |
| ProfilePortfolio | the limit is a number | `PORTFOLIO_ITEM_LIMIT` |
| Notifications, SupportService | `None` is none of the two kinds of guard; the retries, the turns shown to the model and the bound on events are numbers | `max_retries` of the tasks |
| ModerationDesk | the daily limit is positive, the chat's and the audit's task are among the services, `None` is nobody, no number and no decision, and the requests that may overlap are finitely many; bounds are numbers | `reports_per_user_per_day` is 20; `dispatch_action` queues both; a process serves so many connections |

One theorem has a hypothesis of its own, the setting of the run that checks its
property: `VerdictIsWhatIsBilled` assumes `NoFaults` (run `ai_saga`). The other theorems
about AiCredits hold under every fault.

### The wallet and its ledger: `BillingProofs`

| Theorem | Statement |
|---|---|
| `TypeCorrect` | `Spec => []TypeOK` |
| `NoLostUpdate` | `Spec => []SeenIsCurrent`: the copy of a balance that will be written back is the balance |
| `RefundsMatchReleases` | `Spec => []ReleaseCompensated`: a refund row exists exactly for released reservations |
| `SettledOnce` | `Spec => SettledForever` |
| `DoubleEntry` | `Spec => BalanceMovesWithLedger`: a balance moves by the delta of the one row that becomes committed |
| `LedgerInvariance` | `LedgerSpec => []LedgerInv` |
| `WalletImplementsLedger` | `Spec => LedgerSpec`: the refinement |
| `NobodyOverspends` | `Spec => []NoOverspend` |
| `BooksBalance` | `Spec => []LedgerBacksBalance` |

That a session's copy stays current depends on nobody else writing the wallet,
hence on the session holding its row lock whenever it is at a step that will use
the copy (`HoldsWallet`). A commit reaches the wallet through a reservation it
locked first, and the user it locks is the user in its copy of that row, which
must still be the row (`HoldsReservation`). Which operation a session at a
location can be serving is `RequestShape`; which rows can have which status is
`RowShape`; and the wallet that is about to be created with 0 must have nothing
behind it (`MissingWalletIsEmpty`). The two action properties follow from `IInv` and
the fact that only four steps write (`WritesOnly`, `WriteTargets`).

The sums. `TotalOf` adds up the rows of a finite set of keys by the community
modules' fold, a function defined by recursion on subsets. What such a function
comes to is proved without an induction theorem, whose operator parameter no
installed prover can instantiate: of the subsets that a statement fails for, one is
minimal, as inclusion is well-founded on the subsets of a finite set
(`MinimalSubset`, from `WFMin`), and that one leads to a contradiction. So
`RunsAgree`, `RunExists` and `TotalPicked` say that the fold is well defined, and
from them come the three facts the ledger needs: a sum ignores rows that are not in
the set, moves by the change of one row (`TotalChanged`), and is no more than zero
when no row is positive. `LedgerInv` is the ledger's inductive invariant: the two
sums, the shape of rows, and that an open reservation holds back a positive amount.
Without the last, releasing one could lower what is available.

The refinement. Each of the four steps that write maps to one abstract operation
(`WriteCommitCommits`, `WriteReleaseReleases`, `WritePostingPosts`, and the
insertion of a reservation), every other step to a stutter. The insertion is the
one that needs an invariant: the abstract `Reserve` checks what is available and
inserts at once, the code inserts a step after the check. `StillSufficient` says
that the check is still good then: the row lock keeps everything out that could
lower what is available to that user, except a release, which only raises it. The
properties of the ledger are then properties of the wallet.

### The mirror of the subscriptions: `BillingProofs`

| Theorem | Statement |
|---|---|
| `SyncInvariance` | `SyncSpec => []SyncInv` |
| `SyncTypeCorrect` | `SyncSpec => []SyncTypeOK` |
| `CreditsNeedPayments` | `SyncSpec => []GrantsArePaidFor` |
| `OneEffectPerEvent` | `SyncSpec => EffectsOncePerEvent` |

They hold for any number of requests, with rollbacks, `/cancel/web` and the tick, and
say something of requests whose session opens (`SessionOpens`); as the routes are,
no request touches a row. A request works for an event that is not in the ledger,
and no two work for the same one (`WebhooksSound`): the second insert waits for the
first one's transaction. So a commit enters an event that was not there, and the
one grant it may make goes with the one payment it enters (`GrantsCounted`). That a
subscription has one row and one open case, and that a canceled one is free, is not
proved: with two requests it is not so (section 7).

### The command saga: `AiCreditsProofs`

| Theorem | Statement |
|---|---|
| `AiInvariant` | `AiSpec => []AiInv` |
| `TextIsBilledByVerdict` | `AiSpec => []TextNeverMisbilled` |
| `ChargesAreForResults` | `AiSpec => []ChargedHasResult` |
| `VerdictIsWhatIsBilled` | `NoFaults /\ AiSpec => []VerdictMatchesLedger` |

`AiInv` says, for each place an interaction can be at, which status of its
reservation, row and asset is possible, and for each webhook request what its
stored prediction still names (`RowGood`, `HandlerGood`). It holds under lost
answers, crashes and repeated callbacks. A webhook that found no asset charges for
an artifact that is in the bucket and in no row; that happens only when another
attempt has replaced the prediction in the interaction (`Replaced`), which
`ChargesAreForResults` names as its exception. It rests on a prediction being in the
hands of its own task first and in its own row then, never in both (`CallsGood`,
`Written`), so that a replaced one does not come back. What the saga without
faults adds (`SagaInv`): a prediction calls back once, a handler that is half way is
the only one on its interaction, and a reservation that is still open has somebody
who will settle it (`Followed`). Without "calls back once" a second delivery could
settle between the first one's write and its commit: `VerdictMatchesLedger` is
refuted in the instance of run `ai_faults`.

### Invites: `InviteFlowProofs`

| Theorem | Statement |
|---|---|
| `MatchNeedsBoth` | `Spec => []MatchIsMutual` |
| `QuotaHolds` | `Spec => []WithinQuota` |
| `AnswerIsFinal` | `Spec => AnsweredOnce`: an answer, a cancellation or the expiry is never overwritten |

A match is announced by a request that read the mirror row before its own commit:
`MirrorsStand` says that what it read is still accepted, which rests on
`AnsweredOnce` and on the row lock (`LockHolds`). The quota is about rows, the
counter about Redis entries: `AdmittedIsCounted` joins them by the time of
admission, not the time of the insert, and the count is then a cardinality of a
subset.

### The lifecycle: `CollabLifecycleProofs`

| Theorem | Statement |
|---|---|
| `CollabTypeCorrect` | `Spec => []CollabTypeOK` |
| `StatusHasHistory` | `Spec => []HistoryExplainsStatus` |
| `ArchiveHasReason` | `Spec => []ArchivedForReason` |
| `NudgesAreBounded` | `Spec => []NudgedOncePerWorker` (no run lists it) |

A task in the queue has lost the reason it was enqueued for, so the invariant
keeps it (`TasksAreJustified`): a queued `finalize` means the collaboration ended,
a queued `archive` that it was idle long enough at some time. For the nudges the
workers that have read the row are counted together with the nudges already
sent (`NudgesAreCounted`); their sum stays within the number of workers.

### The room: `ChatRoomProofs`

| Theorem | Statement |
|---|---|
| `ChatInvariant` | `Spec => []ChatInv` |
| `HiddenStaysHidden` | `Spec => []HiddenNeverShown` |
| `FreezeIsOneFrameLate` | `Spec => []OneLateMessageEach` |
| `ResumeLeavesNoGap` | `Spec => []NoGapAfterResume` |

Ids are drawn before the row is committed, so no two handlers hold one id
(`OneHolderEach`) and a held id is not stored: otherwise a commit could replace a
message. `HiddenNeverShown` has three parts: what a connection is subscribed to is
visible; what a profile was shown is visible or its own, as the REST answer goes
back to the sender; what it was quoted is the parent of a visible reply it was shown,
as the preview has no filter. That nobody else ever has a held body is not so
(`HeldBackStaysUnseen`, section 7). `ConnGood` carries the seam between replay and
subscription through every step in between, and that a handler which has stored a
message in a frozen room reads the state again before it stores another.

### People: `PeopleSystemProofs`

| Theorem | Statement |
|---|---|
| `LogoutIsFinal` | `Spec => []LoggedOutStaysOut` |
| `VerifiedAddressWasAnswered` | `Spec => []VerifiedWasAnswered` |
| `PortfolioIsBounded` | `Spec => []PortfolioFits` |
| `TokensCanBeOpened` | `Spec => []KeyOpensAccess` (no run lists it) |
| `BadgeNeedsPersona` | `Spec => []ApprovedByPersona` |
| `HandlersFollowTable` | `Spec => BadgeFollowsTable`: a step of the table from the badge's state, or from the one an overtaken handler read |
| `NewScoreHasNewVersion` | `Spec => VersionNamesOneScore` |

`PeopleInv` is a conjunction of one invariant per area. Each speaks of the
requests only while its area is the one a behaviour is about, since the areas
use the same slots.

- Sessions: a refresh may write back a row it read before the logout; it names
  only the columns it changed, and every session that is out is marked in Redis
  before its row says so. A logout that found no row for its token revokes nothing;
  what holds is that this token opens no session again. A token that was minted and
  not yet written is in nobody's hands and in no other refresh (`TokensApart`), so one
  that a logout was told of is dead and is not written (`TokensInv`).
- Accounts: an address a request is about to write as verified either stands no
  longer, and what took its place was answered for, or is answered for with this very
  step (`Settled`). Nothing is assumed of who answered, or whose link the code found.
- Portfolio: the count a handler made is not needed. Distinct positions below the
  limit suffice, which is a bijection from items to positions (`DistinctFits`).
- Badges: a handler that is about to write carries a badge that could be read from
  that user's row (`Readable`: past the identity check only with the approval), and
  one its event leads on from (`CarriesBadge`); every transition of a handler is in the
  table (`TransitionIsInTable`). When it writes, the badge is either what it read,
  and the step is the table's, or not, and then the handler was overtaken
  (`Overtaken`). There is no third case: that is `HandlersFollowTable`.

### The workspace: `WorkspaceSystemProofs`

| Theorem | Statement |
|---|---|
| `WorkspaceKeeps` | `Spec => []WorkspaceInv` |
| `NothingByOneAlone` | `Spec => []AgreedByTwo` |
| `JoinersMissNothing` | `Spec => []JoinerHasNoGap` |
| `ReadyExportsHaveFiles` | `Spec => []ReadyHasPdf` |

- Meetings: a bot is sent when the row says `requested`, and a row is written from
  a copy that may be old. So two consents must stand (`TwoStand`) behind the row and
  behind every wish for a bot that is on its way (`Safe`, `SlotSafe`); a write that
  follows from a request's own consent may count that one before it is visible. A
  revocation takes a consent away and writes `none` over the wish in one
  transaction. What could come between is a request that counted before and
  writes after; those meetings are in `crossed`, and `Apart` says that none is left out.
- Mockups: an approval is written by id, whatever the row says by then. What stays
  true of the row is who asked, and the one who approves is another.
- Whiteboard: the property is about tabs that are live; whether it will hold is
  decided while they join. `Reached` says of every operation after a tab's
  registration that it arrived, is the tab's own, was disturbed, or is being sent by a
  loop that has not passed the tab's place in the list; `Hydrated` covers the ones before.
  `RemoveOne` is what `list.remove` does to those places, and `LatestIsOne` that the
  latest snapshot has a number.
- Exports: a delivery marks a row from what it uploaded steps ago; the objects
  stay in the bucket and a row keeps its kind, whoever overtakes whom.

### Support, notifications and moderation: `CareSystemProofs`

| Theorem | Statement |
|---|---|
| `CareInvariance` | `Spec => []CareInv` |
| `ContextsAreOwn` | `Spec => []ContextIsOwn` |
| `NoEventIsLost` | `Spec => []EventReachesUser`: an acknowledged event of an unguarded kind has its row for each user, a task that may still write it, or one that used up its retries |
| `NudgedOnce` | `Spec => []NudgedOncePerDevice` |
| `CounterStaysBacked` | `Spec => []CounterIsBacked`, the first half of `ThrottleIsBacked` |
| `DecisionsLeaveATrail` | `Spec => []EndedHasAction` (no run lists it) |
| `ThrottleHolds` | `Spec => []ThrottleIsBacked`: the counter and the reports that get past it |

- The chatbot: a session's stored turns are all by the user it belongs to, and
  a request under way has a session of its own user's; the turns it read steps
  ago are that user's too (`Owns`), so overlapping turns may overwrite each
  other but never mix two users.
- Events: two invariants meet. An acknowledgement is the last thing a handler does,
  so an event that is acknowledged has all its tasks, though a handler that fails half
  way starts again (`HandedOn`). And a task is over only when its row was committed
  or its retries are used up (`Informed`), whatever raised, died or was delivered
  again before. A kind with a Redis key is left out: its retry finds the key of the
  first attempt and returns, with no row (section 7).
- Nudges: every copy of a nudge's task sets the same key before it pushes, so at
  most one task has it in hand (`TakenHasKey`), and where a phone was pushed to, the
  key is set and no task that could push again is under way (`PushedUnderKey`). A
  worker that dies leaves the key behind, and so does a retry. That is what makes the
  pushes unrepeatable, and also what loses the notification (section 7).
- Reports: what a request loaded leaves room for one more and was backed when it
  was loaded; reports only grow (`LoadedIsBacked`).
- The limit: how many reports lost updates let past it is a question about every
  order in which the requests of a user load and commit. The inductive invariant
  (`FiledInRoom`) is a budget. A slot's room is what the limit leaves it: over the
  count its request loaded, or over the row as it is now. A request that commits with
  room for `r` goes down to `r - 1`, and every slot without a count of its own goes
  there with it, up or down. With `Below(rooms)[l]` the number of slots that have
  room for less than `l`, the reports so far are at most `Levels`: 1, and for each
  `l` up to the limit less one what `Below(rooms)[l]` requests add there (`Share`). A
  commit may lower what is below `r`, by no more than `Through` says for as many
  requests, and adds one slot at `r`, which is worth one more than that
  (`LevelsRise`): Pascal's rule is the step of the proof. `Levels` never exceeds
  `Through` at the number of slots (`LevelsBound`), which is the property. `Through`
  is defined by recursion on pairs; that the definition has a solution
  (`ThroughExists`, row after row by `RecursionOnNat`) and what it satisfies
  (`ThroughGrows`, `ShareFacts`) is proved by counting up (`Upward`), which is again
  an argument by the least number that a statement fails for.
- Cases: a moderator's request flushes the columns it changed since its SELECT, so
  one that brings no action row either writes a status that ends nothing or finds the
  ending status itself and does not write it; one that decides found the case
  undecided and writes its own status with its action row (`Honest`). The SLA scan
  writes `escalated` only, and the takedown task one action row per case it ends
  (`Ranked`: its enumeration of the notices leaves none out). They do overwrite each
  other: an older action row may contradict the status, some row agrees with it.

### Only model-checked, and why

Every safety property of a passing run but one is a theorem. What remains with TLC:

- Everything under fairness (`RequestsFinish`, `TextCommandsSettle`,
  `EndedIsArchived`), as liveness and ENABLED are outside what the prover does.
- `HideOncePerWorker`, which counts the hide actions of a notice over the workers
  that may have read it as due; its proof is in the plan.

## 5. Properties without a run

Definitions that stay beside their component and that no configuration lists.
The type invariants among them say, with the row types of each module, what the
tables of that service admit and which references between rows hold.

Those the code meets, on the same instances: `AiTypeOK`, `RefundedNotShown`;
`SyncTypeOK`; `InviteTypeOK`; `CollabTypeOK`, `NudgedOncePerWorker`; `ChatTypeOK`,
`TrailIsComplete`, `ReceiptNeverMovesBack`; `WorkspaceTypeOK`, `EndedByItsBot`,
`DoneIsClosed`; `CareTypeOK`, `ChoiceSticks`, `LateIsNoticed`; `ModerationTypeOK`,
`EndedHasAction`, `CallerNotMilder`; `PeopleTypeOK`, `KeyOpensAccess`,
`CounterComesBack`; `LedgerBacksBalance`; `PendingEnds` (one send, without
symmetry, under time passing and `SF` of the hourly job, which skips rows that are
locked at the moment; its schedule is imported by `workers/_runner.py`). Of these,
`NudgedOncePerWorker`, `KeyOpensAccess`, `LedgerBacksBalance` and `SyncTypeOK` are
proved, and so are `EndedHasAction` and `CounterIsBacked`, which `ThrottleIsBacked`
contains and its proof uses.

Those it does not meet; each is explained in section 7, and adding it to a
configuration of its component shows the trace: `FailedNotCharged`,
`NoStrandedReservation`, `RedeliveryHarmless`, `FailedEventuallyRefunded`,
`FailedPredictionEndsInteraction`, `PaletteRetryCounts`, `ChargedHasAsset`;
`NewestEventWins`, `OneRowPerSubscription`, `OneOpenCase`, `CanceledMeansFree`,
`PaidPeriodsGranted`, `RecoveredStaysClosed`; `DoubleTapIsOneInvite`,
`ReplayOnlyInWindow`, `UnlimitedNeverRefused`, `NoInviteAcrossBlock`; `NudgedOnce`,
`QuietIsArchived`, `TerminalIsFinal`; `ZeroMessageLoss`, `OneMessagePerNonce`,
`RoomFollowsBlock`, `HeldBackStaysUnseen`; `BotNeedsTwo`, `OneMockupPerApproval`,
`ExpiredStaysExpired`; `BadgeStrictlyFollowsTable`, `LogoutEndsSession`,
`ServedWithinCap`, `NextPositionIsFree`.

## 6. What is abstracted, and what is not modelled

Prompts, message bodies, titles, prices, dates below a day or a tick, logging,
metrics and rate limits. Entitlements are a tier. Moderation is a choice among
its bands, except in ContentScan, which is about the bands. A request is the
sequence of its awaits: the code between two awaits is one step. Two SQL
statements are one step where a comment says why no other session can tell.

Within modelled components, not modelled:

- billing-svc: refunds (`services/refunds.py`, `handle_charge_refunded`), trials,
  seats, one-off purchases and RevenueCat aliases.
- ai-orchestrator-svc: the list of mockups and the screenshot audit.
- invite-svc: its five-minute cache of entitlements.
- collab-svc: redelivery of a lifecycle task whose worker died (the archive tasks
  are idempotent; a nudge that dies between its UPDATE and its event is never
  sent); the task.* consumers, which nothing calls.
- chat-svc: creation of a room (two `match.created` deliveries can make two rooms,
  as there is no unique key), typing, presence, attachments, the client's offline
  queue.
- meeting-svc: `send_consent_nudge`, which nothing calls; the transcript message,
  posted to a route chat-svc does not have.
- support-svc: satisfaction scores and paused clocks, which no reachable ticket
  state permits; the embedding job.
- profile-svc: plain field edits, quiz, health score. auth-svc: failed-login
  counters. matching-svc: the ranking formula. discovery-svc: cursors, filters.
- media-svc: URLs and the upload session; what follows a confirmation (section 7).

Not modelled at all: admin-svc (proxies with an audit log), geo-svc (lookups and
distance), analytics-svc (a sink), gateway-svc (routing and token checks),
hello-svc, the web and mobile apps (but for the chat client's pointer in ChatRoom)
and the charts: none has a protocol of its own. colab_common's idempotency
middleware (billing-svc, auth-svc and the gateway use it) looks a key up, executes
and stores the answer, so a repetition that overlaps is executed too: the models of
those services let any request be repeated. Its rate limiter is not modelled.

## 7. Known divergences

Where the code does other than a comment, a test or a reader expects. A name in
`code` is a definition its module has and the code does not meet.

AiCredits (configuration of `ai_faults`, or two `mockup` interactions):

- `FailedNotCharged`: commit applied, answer lost; `_handle_failure` marks the
  interaction failed and the release finds nothing to release (webhooks.py:222).
- `NoStrandedReservation`: every new asset has `replicate_prediction_id`
  `"pending"` in a UNIQUE column; a second concurrent mockup fails after its
  credits were reserved, and nothing releases them (commands.py:415).
- `RedeliveryHarmless`: two handlers of one prediction see different outcomes
  (webhooks.py:57).
- `FailedEventuallyRefunded`: a release that fails is logged and not retried
  (billing_client.py:109).
- `FailedPredictionEndsInteraction`: a callback that comes before the task wrote
  the prediction id is answered and forgotten (webhooks.py:77).
- `ChargedHasAsset`: the webhook reads the interaction and the asset in two SELECTs
  (webhooks.py:65-73). Another attempt of the task that writes its own prediction in
  between leaves `asset` None; the request goes on, uploads and charges, and no row
  has the artifact.
- An OpenAI error of a palette is not caught where the other commands catch it
  (commands.py:361-369): the answer is an error and the reservation stays reserved
  for good, which `TextCommandsSettle` excepts.
- The internal API of billing-svc is called without a token (section 1).
- `PaletteRetryCounts`: a palette whose second attempt succeeded is still judged
  by the first one's exception (commands.py:371).

MockupConsents (area "mockups"):

- `OneMockupPerApproval`: party B's request repeated while the first waits for
  billing-svc makes a second mockup and reserves twice (consent.py:106).
- `ExpiredStaysExpired`: an approval loaded before the hourly job writes
  "approved" over "expired" (consent.py:108).
- An approval is never ended: `generated` and `rejected` are set by nobody, so the
  unique index allows one mockup proposal per collab. models.py declares that
  index without `unique`; the migration makes it unique.
- Too few credits commit the approval without a mockup (consent.py:139). An asset
  whose task was never queued stays "pending" and blocks every later mockup.
- collab-svc has no route for the participants, so the check passes (consent.py:73).

SubscriptionSync (configuration of `sync_race`):

- Neither webhook route opens its session, so none of the following is reached
  before that is mended (section 3, `EventsEventuallyAccepted`).
- `NewestEventWins`: `upsert_subscription_from_stripe` applies an event when
  `event_timestamp <= sub.updated_at`, the opposite of its comment "Only apply if
  event is newer" (subscriptions.py:112); RevenueCat has no guard.
- `OneRowPerSubscription`, `OneOpenCase` with two overlapping requests
  (subscriptions.py:84, dunning.py:40, "Idempotent"). A second row or case makes
  every later `scalar_one_or_none` raise (subscriptions.py:91), so the events of
  that subscription are not accepted either.
- `CanceledMeansFree`: `/billing/cancel/web` writes a status over a row whose
  entitlements a webhook has yet to take away (routers/billing.py:272).
- `PaidPeriodsGranted`: `invoice.paid` handled before the row has its new period
  grants nothing for that period (stripe_handlers.py:248).
- `RecoveredStaysClosed`: the tick writes a case a payment closed since
  (dunning.py:104; nothing calls the tick yet).

InviteFlow (configuration of `invite`):

- `DoubleTapIsOneInvite`: the cache is checked before and filled after the insert,
  and the key derived for a request without a header is no column (invites.py:157),
  so two taps are two invites. With a header the UNIQUE column keeps the second out.
- `ReplayOnlyInWindow`: a cached answer lives for a day (quota.py:179).
- `UnlimitedNeverRefused`: -1 from billing-svc is taken as a limit (quota.py:91).
- `NoInviteAcrossBlock`: the block check is stale at the insert (invites.py:149).

CollabLifecycle (configuration of `collab`):

- `TerminalIsFinal`: `transition_status` checks the status it loaded and writes
  without a lock or a condition, so a request validated earlier moves a completed
  collaboration on (collab_service.py:238), against "terminal — no further
  transitions" (state_machine.py:7).
- `NudgedOnce`: with two workers both tasks read `nudge_sent_at IS NULL` and both
  send (inactivity_tasks.py:97). `NudgedOncePerWorker` is the bound that holds.
- `QuietIsArchived`: needs fairness of `InactivityCheck`, which no schedule gives.

ChatRoom (configuration of `chat`):

- `ZeroMessageLoss`: a message whose id was handed out before the client's last
  one and committed after its replay is skipped by `id > since`.
- `OneMessagePerNonce`: the nonce is looked up before the scan and stored
  after it; REST never looks it up. A nonce found twice makes the handler consume
  one result twice, which raises and closes the connection (handler.py:204).
- `HeldBackStaysUnseen`: a reply carries a preview of the message it names, of any
  status and any room (handler.py:128-162). The list endpoints do filter. An edit is
  not scanned again, and a receipt takes any id (handler.py:403, rooms.py:439). The
  POST answers a held message to its sender as if it were sent (rooms.py:328-336).
- `RoomFollowsBlock`: the two block events come from two queues and an exception
  acknowledges the event (event_consumers.py:200).

MeetingBot, TaskBoard, Whiteboard, ExportJobs (run `workspace`):

- `BotNeedsTwo`: a revocation that overlaps a consent, a manual start or a dispatch is
  not seen by the count, or its write is overwritten, and the bot is created with one
  consent standing, against meetings.py:506 and test_bot_consent.py:53-64, 88-97.
- The bot's task is queued before the consent commits (meetings.py:442), so it may
  find one consent and send nothing; two consents that do not see each other both
  queue nothing. A redelivered dispatch makes a second bot.
- The webhook's key is set before the task is queued, so a failing queue loses it.
- Whiteboard: `broadcast` iterates over a list that `disconnect` shortens, so one
  tab misses the operation (`disturbed` in JoinerHasNoGap). Pods do not hear of
  each other, unlike whiteboard_ws.py:126 expects; the Lamport counter restarts
  with the pod; the snapshot's bytes are a placeholder.
- Tasks: the comments' cursor skips rows (task_service.py:222); order keys repeat
  from the 27th task on.
- Exports: the lock is deleted by a delivery that never got it
  (export_tasks.py:162); a worker that dies leaves "generating", which no retry
  takes up.

CareSystem:

- notification-svc: the idempotency key of a dispatch never matches a second one;
  types without a guard push twice; guarded ones (nudge, new_match) lose the
  notification when the first attempt raised after it set the key, so
  `EventReachesUser` leaves them out. Nothing sets the presence keys or fills
  `recipient_email`. Malformed events come back for ever.
- support-svc: two SLA scans insert two breach events; a failed tier lookup is
  cached as "free" for five minutes; the chatbot's counter, when its EXPIRE is
  lost, locks the user out; overlapping turns overwrite each other's history.
- moderation-svc: `scan_counter_window` filters on a column that does not exist and
  always raises (dmca_tasks.py:126); the watcher of propagation_tasks.py:10 does
  not exist; taking an action does not ask who claimed the case, releasing does not
  look at the status (cases.py:139); two open report cases make the next report a
  500 (reports.py:90); counts of
  the throttle are lost between concurrent reports, so that with `k` requests at a
  time up to `Through[<<k, limit - 1>>]` reports get in: 6 under a limit of 3 with two at
  a time, 10 (more than two times the limit) under a limit of 4; the SLA
  scan and the takedown task can overwrite a moderator's decision.
- The scan's callers disagree with it: chat and media scans insert NULL into a NOT
  NULL column (internal.py:76) and ai-orchestrator sends no `ctx` (422), all of which
  count as "no score"; invite-svc compares a dict with 0.3 (moderation.py:88).
- media-svc: confirming an allowed upload imports two names its schemas module does
  not have, so the media is stored, answered with 500 and announced to nobody.

PeopleSystem:

- `NextPositionIsFree`: an upload takes the number of items as its position, which
  an item may have after a deletion (portfolio.py:94).
- `ServedWithinCap`: overlapping refusals take back more than they counted, and the
  next feed goes over the cap (cache.py:88), against test_discovery.py:163.
- Badge: nothing relays the outbox and envelope and exchange differ; the consumer
  swallows exceptions; `identity.verified` that arrives before its predecessors is
  dropped; material edits during a review start no new one; the severe threshold
  cannot be reached by the weights' sum (0.8999999999999999).
- `BadgeStrictlyFollowsTable`: a review that ends late writes `badge_granted` over a
  revocation (ai_review_tasks.py:158), against "All transitions are table-driven"
  (badge_fsm.py:4).
- `LogoutEndsSession`: a logout whose token a refresh has just rotated away finds no
  row, answers 200 and revokes nothing (token.py:110-119); the session lives on.
- identity-svc: the second webhook of one status breaks a UNIQUE key and is a 500
  for ever; a status outside the enum is a 500; an older inquiry overwrites a newer.
- auth-svc: the revocation on a replayed token is rolled back with the 401 it
  raises (token.py:36); a commit that fails after the token was marked loses the
  session; overlapping finishes of one "Single-use" link (models/user.py:163) both
  apply; a six-digit code is looked up by its hash and purpose only and without a
  limit of attempts (email_verify.py:110-120; account.py:111-119 does compare the
  account), so a verified address was answered for, by somebody; changing the number
  leaves the old identity.
- profile-svc: refresh tokens are encrypted under a key that is not stored
  (oauth.py:178); the PKCE verifier is not deleted; a reorder that swaps two places
  breaks the UNIQUE key; one deleted link fails the daily refresh.
- matching and discovery: a failed profile leaves the chunk's session broken
  (tasks.py:218); `nightly_rerank` waits for results inside a task, which Celery
  refuses; a stale nightly overwrites a newer rerank; a hidden profile stays in the
  cached recommendations for a day; invalidation reads the set of pages and deletes
  it in two commands; the mode in Redis and in its row can disagree.

## 8. The plan

1. Model more. billing-svc's refunds and one-off purchases. chat-svc's room
   creation. colab_common's idempotency middleware. A pipeline that composes
   InviteFlow's events with the consumers of CollabLifecycle and ChatRoom under
   at-least-once delivery. Abstract specifications worth stating: an invite as a
   four-state object that InviteFlow implements; a room's log that ChatRoom's
   clients read.
2. Prove more. CareSystem: `HideOncePerWorker`, `ChoiceSticks`. ChatRoom:
   `ReceiptNeverMovesBack`, `TrailIsComplete`.
