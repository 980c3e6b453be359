--------------------------- MODULE SubscriptionSync ---------------------------
(***************************************************************************)
(* billing-svc mirroring subscriptions from Stripe and RevenueCat: the     *)
(* webhook routes (routers/webhooks.py, services/webhooks.py), the event   *)
(* handlers (workers/stripe_handlers.py, workers/rc_handlers.py), the      *)
(* upserts they share (services/subscriptions.py), the monthly credit      *)
(* grant, the dunning cases (services/dunning.py) and /cancel/web.         *)
(*                                                                         *)
(* A store delivers every event until it is answered with a 200, in any    *)
(* order and perhaps again.  A webhook request is one READ COMMITTED       *)
(* transaction: it loads its rows, writes the attributes it changed and    *)
(* commits, or is rolled back as a whole.                                  *)
(*                                                                         *)
(* As committed, the two routes never get that far: they enter what        *)
(* async_session_factory() returns (colab_common/db.py:124-126), and that  *)
(* is a sessionmaker, no session.  SessionOpens = FALSE is the route as it *)
(* is; TRUE is what its handlers do once the session can be opened.        *)
(***************************************************************************)
EXTENDS Integers, Sequences, FiniteSets

CONSTANTS Subs,           \* the stores' subscription ids
          Source,         \* "stripe" or "revenuecat" for each
          Linked,         \* the Stripe ones whose customer billing-svc knows
          Cancellers,     \* the Stripe ones canceled through /cancel/web
          PaidTiers,      \* tiers on sale
          Handlers,       \* concurrent webhook requests
          NoHandler,
          DunningTick,    \* is advance_dunning_cases scheduled?
          SessionOpens,   \* can the routes open their database session?
          MaxEvents, MaxClock, MaxFaults      \* bounds

ASSUME SyncAssumption ==
    /\ Source \in [Subs -> {"stripe", "revenuecat"}]
    /\ Linked \subseteq Subs /\ Cancellers \subseteq Subs
    /\ PaidTiers \subseteq {"premium", "pro"} /\ PaidTiers # {}
    /\ NoHandler \notin Handlers
    /\ DunningTick \in BOOLEAN /\ SessionOpens \in BOOLEAN
    /\ MaxEvents \in Nat /\ MaxClock \in Nat /\ MaxFaults \in Nat

VARIABLES
    clock,      \* wall clock, in Stripe's seconds
    store,      \* what the store knows of each subscription
    events,     \* events the stores have sent, in the order they happened
    accepted,   \* events answered with a 200
    recorded,   \* webhook_event_ledger
    rows,       \* subscriptions: the rows of each store subscription id
    grants,     \* grant:<row id>:<period start> credit transactions
    cases,      \* dunning_cases of each subscription
    lock,       \* the transaction that holds the row's lock
    handler,    \* webhook requests being served
    cancel,     \* the /cancel/web request of a subscription
    beat,       \* the dunning tick: cases it has loaded
    faults      \* transactions that were lost so far

storeVars == <<store, events>>
dataVars  == <<rows, grants, cases>>
syncVars == <<clock, store, events, accepted, recorded, rows, grants, cases, lock,
              handler, cancel, beat, faults>>

EventIds  == 1..Len(events)
Stripe(s) == Source[s] = "stripe"

ACTIVE_STATUSES == {"trialing", "active", "past_due", "grace"}
TERMINAL_STATES == {"day30_grace_expired", "recovered"}

IdleHandler == [at |-> "idle", ev |-> 0, row |-> <<>>, open |-> {}, began |-> 0]
NoCancel    == [at |-> "idle", status |-> "none", began |-> 0]

SyncInit ==
    /\ clock = 0
    /\ store = [s \in Subs |-> [status |-> "none", tier |-> "free", period |-> 0]]
    /\ events = <<>> /\ accepted = {} /\ recorded = {}
    /\ rows = [s \in Subs |-> <<>>]
    /\ grants = {}
    /\ cases = [s \in Subs |-> <<>>]
    /\ lock = [s \in Subs |-> NoHandler]
    /\ handler = [h \in Handlers |-> IdleHandler]
    /\ cancel = [s \in Subs |-> NoCancel]
    /\ beat = {}
    /\ faults = 0

-----------------------------------------------------------------------------
(* The stores *)

Tick ==
    /\ clock < MaxClock
    /\ clock' = clock + 1
    /\ UNCHANGED <<storeVars, accepted, recorded, dataVars, lock, handler, cancel, beat, faults>>

\* Subscription s changes at the store, which sends one event per kind.
Emit(s, st, t, p, kinds) ==
    /\ Len(events) + Len(kinds) <= MaxEvents
    /\ store' = [store EXCEPT ![s] = [status |-> st, tier |-> t, period |-> p]]
    /\ events' = events \o [k \in 1..Len(kinds) |->
            [sub |-> s, kind |-> kinds[k], ts |-> clock,
             status |-> st, tier |-> t, period |-> p]]

Happens(s, st, t, p, kinds) ==
    /\ Emit(s, st, t, p, kinds)
    /\ UNCHANGED <<clock, accepted, recorded, dataVars, lock, handler, cancel, beat, faults>>

Subscribe(s) == \E t \in PaidTiers :
    /\ store[s].status = "none"
    /\ Happens(s, "active", t, 1,
               IF Stripe(s) THEN <<"created", "paid">> ELSE <<"INITIAL_PURCHASE">>)

Renew(s) ==
    /\ store[s].status = "active"
    /\ Happens(s, "active", store[s].tier, store[s].period + 1,
               IF Stripe(s) THEN <<"updated", "paid">> ELSE <<"RENEWAL">>)

PaymentFails(s) ==
    /\ store[s].status \in {"active", "past_due"}
    /\ Happens(s, "past_due", store[s].tier, store[s].period,
               IF Stripe(s) THEN <<"failed">> ELSE <<"BILLING_ISSUE">>)

\* The retried charge goes through; at RevenueCat that starts the next period.
PaymentRecovers(s) ==
    /\ store[s].status = "past_due"
    /\ IF Stripe(s)
       THEN Happens(s, "active", store[s].tier, store[s].period, <<"paid">>)
       ELSE Happens(s, "active", store[s].tier, store[s].period + 1, <<"RENEWAL">>)

ChangeProduct(s) == \E t \in PaidTiers \ {store[s].tier} :
    /\ store[s].status = "active"
    /\ Happens(s, "active", t, store[s].period,
               IF Stripe(s) THEN <<"updated">> ELSE <<"PRODUCT_CHANGE">>)

CancelAtStore(s) ==
    /\ store[s].status \in {"active", "past_due"}
    /\ Happens(s, "canceled", store[s].tier, store[s].period,
               IF Stripe(s) THEN <<"deleted">> ELSE <<"CANCELLATION">>)

ExpireAtStore(s) ==
    /\ ~Stripe(s) /\ store[s].status \in {"canceled", "past_due"}
    /\ Happens(s, "expired", store[s].tier, store[s].period, <<"EXPIRATION">>)

-----------------------------------------------------------------------------
(* What each handler does *)

RcKinds      == {"INITIAL_PURCHASE", "RENEWAL", "CANCELLATION", "EXPIRATION",
                 "BILLING_ISSUE", "PRODUCT_CHANGE"}
UpsertKinds  == {"created", "updated", "deleted"} \cup RcKinds
ApplyKinds   == UpsertKinds \ {"BILLING_ISSUE"}     \* apply_entitlements_for_user
GrantKinds   == {"paid", "INITIAL_PURCHASE", "RENEWAL"}
OpenKinds    == {"failed", "BILLING_ISSUE"}         \* open_dunning_case
RecoverKinds == {"paid", "RENEWAL"}                 \* mark_recovered

RC_STATUS_MAP == [k \in RcKinds |->
    CASE k = "CANCELLATION" -> "canceled" [] k = "EXPIRATION" -> "expired"
      [] k = "BILLING_ISSUE" -> "past_due" [] OTHER -> "active"]

\* The values an upsert takes from its event.
Incoming(e) ==
    [status |-> IF e.kind \in RcKinds THEN RC_STATUS_MAP[e.kind] ELSE e.status,
     tier   |-> IF e.kind = "deleted" THEN "free" ELSE e.tier,
     period |-> e.period]

\* upsert_subscription_from_stripe's condition for touching an existing row;
\* upsert_subscription_from_rc has none.
Applies(e, row) == e.kind \in RcKinds \/ e.ts <= row.updated

Values(row) == [status |-> row.status, tier |-> row.tier, period |-> row.period]

\* The row as the handler's session has it, given the one it loaded (if any).
InSession(e, loaded) ==
    IF loaded = <<>>
    THEN Incoming(e)
    ELSE IF e.kind \in UpsertKinds
         THEN IF Applies(e, loaded[1]) THEN Incoming(e) ELSE Values(loaded[1])
         ELSE IF e.kind = "failed"
         THEN [Values(loaded[1]) EXCEPT !.status = "past_due"]
         ELSE Values(loaded[1])

\* Does the handler have a subscription to work on?
HasRow(e, loaded) == loaded # <<>> \/ e.kind \in UpsertKinds

Dirty(e, loaded) == loaded # <<>> /\ InSession(e, loaded) # Values(loaded[1])

EntitledTier(v) == IF v.status \in ACTIVE_STATUSES THEN v.tier ELSE "free"

\* The row after the transaction: an UPDATE sets the attributes that differ
\* from what was loaded, and updated_at to the time the transaction began.
Flushed(e, loaded, cur, began) ==
    LET v == InSession(e, loaded)
        old == Values(loaded[1])
    IN [status  |-> IF v.status = old.status THEN cur.status ELSE v.status,
        tier    |-> IF v.tier = old.tier THEN cur.tier ELSE v.tier,
        period  |-> IF v.period = old.period THEN cur.period ELSE v.period,
        updated |-> IF v = old THEN cur.updated ELSE began,
        ent     |-> IF e.kind \in ApplyKinds THEN EntitledTier(v) ELSE cur.ent]

Inserted(e, began) ==
    LET v == Incoming(e) IN
    [status |-> v.status, tier |-> v.tier, period |-> v.period, updated |-> began,
     ent |-> IF e.kind \in ApplyKinds THEN EntitledTier(v) ELSE "none"]

\* grant_subscription_credits' idempotency key, for a tier with credits.
PeriodGrants(e, loaded) ==
    LET v == InSession(e, loaded) IN
    IF e.kind \in GrantKinds /\ HasRow(e, loaded) /\ v.tier # "free"
    THEN {<<e.sub, IF loaded = <<>> THEN Len(rows[e.sub]) + 1 ELSE 1, v.period>>}
    ELSE {}

-----------------------------------------------------------------------------
(* The webhook routes *)

Event(h) == events[handler[h].ev]
Sub(h)   == Event(h).sub

RollBack(h) ==
    /\ handler' = [handler EXCEPT ![h] = IdleHandler]
    /\ lock' = [s \in Subs |-> IF lock[s] = h THEN NoHandler ELSE lock[s]]

\* Faulty variant: the ledger is not consulted.
DeliverUnchecked(h) == \E i \in EventIds :
    /\ SessionOpens
    /\ handler[h].at = "idle"
    /\ \A g \in Handlers : handler[g].ev # i
    /\ handler' = [handler EXCEPT ![h] =
            [IdleHandler EXCEPT !.at = "load", !.ev = i, !.began = clock]]
    /\ UNCHANGED <<clock, storeVars, accepted, recorded, dataVars, lock, cancel, beat, faults>>

\* insert_ledger_event: a second delivery waits for the first one's transaction.
\* Duplicates, and Stripe events of customers without a row, are answered 200
\* with nothing committed.  "async with async_session_factory() as db" comes
\* first, outside the try: a delivery for which it raises is no step, it leaves
\* the event unanswered and nothing else.
Deliver(h) == \E i \in EventIds :
    /\ SessionOpens
    /\ handler[h].at = "idle"
    /\ \A g \in Handlers : handler[g].ev # i
    /\ IF i \in recorded \/ (Stripe(events[i].sub) /\ events[i].sub \notin Linked)
       THEN accepted' = accepted \cup {i} /\ UNCHANGED handler
       ELSE /\ handler' = [handler EXCEPT ![h] =
                    [IdleHandler EXCEPT !.at = "load", !.ev = i, !.began = clock]]
            /\ UNCHANGED accepted
    /\ UNCHANGED <<clock, storeVars, recorded, dataVars, lock, cancel, beat, faults>>

\* scalar_one_or_none: two rows raise MultipleResultsFound and the answer is 500.
Load(h) ==
    /\ handler[h].at = "load"
    /\ IF Len(rows[Sub(h)]) > 1
       THEN RollBack(h)
       ELSE /\ handler' = [handler EXCEPT ![h].at = "flush", ![h].row = rows[Sub(h)]]
            /\ UNCHANGED lock
    /\ UNCHANGED <<clock, storeVars, accepted, recorded, dataVars, cancel, beat, faults>>

\* Faulty variant: the grant is committed on its own, ahead of the event's entry.
FlushGrantsFirst(h) ==
    /\ handler[h].at = "flush"
    /\ Dirty(Event(h), handler[h].row) => lock[Sub(h)] = NoHandler
    /\ grants' = grants \cup PeriodGrants(Event(h), handler[h].row)
    /\ handler' = [handler EXCEPT ![h].at = "commit"]
    /\ UNCHANGED <<clock, storeVars, accepted, recorded, rows, cases, lock, cancel, beat, faults>>

\* An UPDATE waits for the row's lock and keeps it until the transaction ends.
Flush(h) ==
    /\ handler[h].at = "flush"
    /\ IF Dirty(Event(h), handler[h].row)
       THEN lock[Sub(h)] = NoHandler /\ lock' = [lock EXCEPT ![Sub(h)] = h]
       ELSE UNCHANGED lock
    /\ handler' = [handler EXCEPT ![h].at =
            IF Event(h).kind \in OpenKinds \cup RecoverKinds /\ handler[h].row # <<>>
            THEN "cases" ELSE "commit"]
    /\ UNCHANGED <<clock, storeVars, accepted, recorded, dataVars, cancel, beat, faults>>

OpenCases(s, r) == {c \in 1..Len(cases[s]) :
    cases[s][c].row = r /\ cases[s][c].state \notin TERMINAL_STATES}

\* open_dunning_case and mark_recovered look for an open case first.
ReadCases(h) ==
    /\ handler[h].at = "cases"
    /\ IF Cardinality(OpenCases(Sub(h), 1)) > 1
       THEN RollBack(h)
       ELSE /\ handler' = [handler EXCEPT ![h].at = "commit", ![h].open = OpenCases(Sub(h), 1)]
            /\ UNCHANGED lock
    /\ UNCHANGED <<clock, storeVars, accepted, recorded, dataVars, cancel, beat, faults>>

\* The rows of a subscription, q, after a handler that had loaded one (or none).
RowsAfter(e, loaded, q, began) ==
    IF ~HasRow(e, loaded) THEN q
    ELSE IF loaded = <<>> THEN Append(q, Inserted(e, began))
    ELSE [q EXCEPT ![1] = Flushed(e, loaded, @, began)]

CasesAfter(e, loaded, open) ==
    IF e.kind \in OpenKinds /\ open = {} /\ HasRow(e, loaded)
    THEN Append(cases[e.sub],
                [row |-> IF loaded = <<>> THEN Len(rows[e.sub]) + 1 ELSE 1, state |-> "day0"])
    ELSE IF e.kind \in RecoverKinds
    THEN [c \in 1..Len(cases[e.sub]) |->
            IF c \in open THEN [cases[e.sub][c] EXCEPT !.state = "recovered"] ELSE cases[e.sub][c]]
    ELSE cases[e.sub]

\* A grant whose key exists rolls the transaction back, ledger row included.
\* handle_invoice_paid then goes on in a new one; a RevenueCat handler reads an
\* expired attribute and ends in a 500.
AlreadyGranted(h) == PeriodGrants(Event(h), handler[h].row) \cap grants # {}

Commit(h) ==
    LET e == Event(h) s == Sub(h) loaded == handler[h].row IN
    /\ handler[h].at = "commit" /\ ~AlreadyGranted(h)
    /\ rows' = [rows EXCEPT ![s] = RowsAfter(e, loaded, @, handler[h].began)]
    /\ grants' = grants \cup PeriodGrants(e, loaded)
    /\ cases' = [cases EXCEPT ![s] = CasesAfter(e, loaded, handler[h].open)]
    /\ recorded' = recorded \cup {handler[h].ev}
    /\ accepted' = accepted \cup {handler[h].ev}
    /\ RollBack(h)      \* the locks are given back either way
    /\ UNCHANGED <<clock, storeVars, cancel, beat, faults>>

CommitGrantExists(h) ==
    LET e == Event(h) IN
    /\ handler[h].at = "commit" /\ AlreadyGranted(h)
    /\ IF e.kind = "paid"
       THEN /\ cases' = [cases EXCEPT ![e.sub] = CasesAfter(e, handler[h].row, handler[h].open)]
            /\ accepted' = accepted \cup {handler[h].ev}
       ELSE UNCHANGED <<cases, accepted>>
    /\ RollBack(h)
    /\ UNCHANGED <<clock, storeVars, recorded, rows, grants, cancel, beat, faults>>

\* Publishing to RabbitMQ raises, the connection is lost or the pod dies.
AbortWebhook(h) ==
    /\ handler[h].at # "idle" /\ faults < MaxFaults
    /\ faults' = faults + 1
    /\ RollBack(h)
    /\ UNCHANGED <<clock, storeVars, accepted, recorded, dataVars, cancel, beat>>

-----------------------------------------------------------------------------
(* routers/billing.py: cancel_web, immediate *)

\* The row is loaded and Stripe cancels, which sends its event.
CancelWebCall(s) ==
    /\ s \in Cancellers /\ cancel[s].at = "idle"
    /\ rows[s] # <<>> /\ store[s].status \in {"active", "past_due"}
    /\ Emit(s, "canceled", store[s].tier, store[s].period, <<"deleted">>)
    /\ cancel' = [cancel EXCEPT ![s] =
            [at |-> "called", status |-> rows[s][1].status, began |-> clock]]
    /\ UNCHANGED <<clock, accepted, recorded, dataVars, lock, handler, beat, faults>>

CancelWebCommit(s) ==
    /\ cancel[s].at = "called" /\ lock[s] = NoHandler
    /\ rows' = IF cancel[s].status = "canceled" THEN rows
               ELSE [rows EXCEPT ![s][1].status = "canceled", ![s][1].updated = cancel[s].began]
    /\ cancel' = [cancel EXCEPT ![s] = NoCancel]
    /\ UNCHANGED <<clock, storeVars, accepted, recorded, grants, cases, lock, handler, beat, faults>>

-----------------------------------------------------------------------------
(* services/dunning.py: advance_dunning_cases, by the tick's schedule *)

NextState == [day0 |-> "day3", day3 |-> "day7", day7 |-> "day10_canceled",
              day10_canceled |-> "day30_grace_expired"]

AllCases == {sc \in Subs \X (1..MaxEvents) : sc[2] <= Len(cases[sc[1]])}

BeatLoad ==
    /\ DunningTick /\ beat = {}
    /\ beat' = {[at |-> sc, state |-> cases[sc[1]][sc[2]].state] : sc \in
                  {sc \in AllCases : cases[sc[1]][sc[2]].state \notin TERMINAL_STATES}}
    /\ beat' # {}
    /\ UNCHANGED <<clock, storeVars, accepted, recorded, dataVars, lock, handler, cancel, faults>>

\* Some of the loaded cases are due; their new state is written over whatever
\* the row holds by now.
BeatWrite == \E due \in SUBSET beat :
    /\ beat # {}
    /\ cases' = [s \in Subs |-> [c \in 1..Len(cases[s]) |->
            IF \E b \in due : b.at = <<s, c>>
            THEN [cases[s][c] EXCEPT !.state =
                    NextState[(CHOOSE b \in due : b.at = <<s, c>>).state]]
            ELSE cases[s][c]]]
    /\ beat' = {}
    /\ UNCHANGED <<clock, storeVars, accepted, recorded, rows, grants, lock, handler, cancel, faults>>

-----------------------------------------------------------------------------
StoreNext(s) ==
    \/ Subscribe(s) \/ Renew(s) \/ PaymentFails(s) \/ PaymentRecovers(s)
    \/ ChangeProduct(s) \/ CancelAtStore(s) \/ ExpireAtStore(s)

Serve(h) ==
    \/ Load(h) \/ Flush(h) \/ ReadCases(h) \/ Commit(h) \/ CommitGrantExists(h)

SyncNext ==
    \/ Tick
    \/ \E s \in Subs : StoreNext(s) \/ CancelWebCall(s) \/ CancelWebCommit(s)
    \/ \E h \in Handlers : Deliver(h) \/ Serve(h) \/ AbortWebhook(h)
    \/ BeatLoad \/ BeatWrite

SyncSpec == SyncInit /\ [][SyncNext]_syncVars

\* Event i is delivered to handler h.
Redelivery(h, i) == Deliver(h) /\ (handler'[h].ev = i \/ i \in accepted' \ accepted)

\* The stores keep delivering what was not answered with a 200, and a request
\* that was accepted keeps running.
FairSyncSpec ==
    /\ SyncSpec
    /\ \A h \in Handlers : WF_syncVars(Serve(h))
    /\ \A h \in Handlers, i \in 1..MaxEvents : SF_syncVars(Redelivery(h, i))
    /\ \A s \in Subs : WF_syncVars(CancelWebCommit(s))

-----------------------------------------------------------------------------
(* Properties.  OneRowPerSubscription, OneOpenCase, CanceledMeansFree,       *)
(* NewestEventWins, PaidPeriodsGranted and RecoveredStaysClosed say what the *)
(* docs and comments claim; the code does not meet them (README, section 5). *)

AtRest ==
    /\ accepted = EventIds
    /\ \A h \in Handlers : handler[h].at = "idle"
    /\ \A s \in Subs : cancel[s].at = "idle"
    /\ beat = {}

\* The CHECK constraints of the two tables; ent is the user's snapshot.
SubscriptionRow ==
    [status : {"trialing", "active", "past_due", "grace", "paused", "canceled", "expired"},
     tier : {"free"} \cup PaidTiers, period : Nat, updated : Nat,
     ent : {"none", "free"} \cup PaidTiers]
DunningCase == [row : Nat \ {0}, state : DOMAIN NextState \cup TERMINAL_STATES]

\* Every row is one its table admits, and no transaction is without its event.
SyncTypeOK ==
    /\ \A s \in Subs : /\ rows[s] \in Seq(SubscriptionRow)
                       /\ cases[s] \in Seq(DunningCase)
                       /\ \A r \in 1..Len(rows[s]) : rows[s][r].updated <= clock
                       /\ \A c \in 1..Len(cases[s]) : cases[s][c].row \in 1..Len(rows[s])
    /\ \A h \in Handlers : handler[h].at = "idle" \/ handler[h].ev \in EventIds \ recorded

\* "Each handler is idempotent" (stripe_handlers.py): however often an event is
\* delivered, and whatever runs beside it, its effect on the plan of a
\* subscription and on the credits is committed together with its entry in the
\* webhook ledger, once.
EffectsOncePerEvent ==
    [][ (grants' # grants \/ \E s \in Subs : Len(rows'[s]) # Len(rows[s])
          \/ \E r \in 1..Len(rows[s]) : rows'[s][r].tier # rows[s][r].tier
                                     \/ rows'[s][r].period # rows[s][r].period)
        => \E i \in EventIds \ recorded : recorded' = recorded \cup {i} ]_syncVars

\* No credits without a payment: redeliveries and races never grant more often
\* than the store reported a payment.
GrantsArePaidFor ==
    \A s \in Subs : Cardinality({g \in grants : g[1] = s})
        <= Cardinality({i \in recorded : events[i].sub = s /\ events[i].kind \in GrantKinds})

\* "One row per platform per user." (models/billing.py, Subscription)
OneRowPerSubscription == \A s \in Subs : Len(rows[s]) <= 1

\* "Open a new dunning case when a payment fails.  Idempotent (check existing
\* open case)." (dunning.py)  Two failed invoices at once open two.
OneOpenCase == \A s \in Subs : Cardinality(OpenCases(s, 1)) <= 1

\* "canceled - user canceled or dunning gave up. ... Entitlements at Free."
\* (specs/013-billing/plan.md): once every event is accepted, a subscription
\* without an active status gives no paid entitlements.  A /cancel/web that
\* commits after the webhook of its own cancellation, or an older event applied
\* over a newer one, refutes it.
CanceledMeansFree ==
    AtRest => \A s \in Subs : \A r \in 1..Len(rows[s]) :
        rows[s][r].status \notin ACTIVE_STATUSES => rows[s][r].ent \in {"none", "free"}

\* "Only apply if event is newer" (subscriptions.py): once every event is
\* accepted, the row has the plan of the event that is newer than all others.
NewestEventWins ==
    AtRest => \A i \in EventIds :
        LET e == events[i]
            Upserts == {j \in EventIds : events[j].sub = e.sub /\ events[j].kind \in UpsertKinds}
        IN (i \in Upserts /\ \A j \in Upserts \ {i} : events[j].ts < e.ts) =>
               /\ rows[e.sub][1].period = e.period
               /\ rows[e.sub][1].tier = Incoming(e).tier

\* "Grant subscription credits on renewal" (stripe_handlers.py): once every
\* event is accepted, each period paid for was granted.
PaidPeriodsGranted ==
    AtRest => \A i \in EventIds : events[i].kind = "paid" =>
        \E g \in grants : g[1] = events[i].sub /\ g[3] = events[i].period

\* "recovered ... Close DunningCase. ... terminal" (specs/013-billing/plan.md).
RecoveredStaysClosed ==
    [][\A s \in Subs : \A c \in 1..Len(cases[s]) :
         cases[s][c].state = "recovered" => cases'[s][c].state = "recovered"]_syncVars

\* "Return 500 so Stripe retries" (routers/webhooks.py): retried often enough,
\* every event is accepted.  No retry helps while the session cannot be opened.
EventsEventuallyAccepted ==
    \A i \in 1..MaxEvents : i \in EventIds ~> i \in accepted
=============================================================================
