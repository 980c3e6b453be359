----------------------------- MODULE IdentityCheck -----------------------------
(***************************************************************************)
(* identity-svc: the Persona inquiry of a user and the webhooks that       *)
(* decide it (routers/identity.py, routers/webhook.py, services/persona.py,*)
(* models/identity_verification.py).  Persona may decide an inquiry more   *)
(* than once, delivers each webhook at least once and in any order.  The   *)
(* signature, the age estimate's value and the payload are left out.       *)
(***************************************************************************)
EXTENDS RequestSlots, Sequences, FiniteSets

CONSTANTS Users, MaxInquiries, MaxHooks

VARIABLES
    verif,      \* identity_verifications: [Users -> None or the row]
    inquiries,  \* Persona: the inquiries created, the user of each
    hooks,      \* Persona: the webhooks it sends, and goes on sending
    handled,    \* persona_webhook_events: webhooks that were committed
    outbox      \* event_outbox: <<event, inquiry, user>>, dedupe_key the first two

identityVars == <<verif, inquiries, hooks, handled, outbox>>

Statuses == {"pending", "approved", "declined", "needs_review"}
VerifRow == [inq : Nat, status : Statuses]
HookRow  == [inq : Nat, status : Statuses, minor : BOOLEAN]

IdentityInit == /\ verif = [u \in Users |-> None]
                /\ inquiries = <<>> /\ hooks = <<>> /\ handled = {} /\ outbox = {}

\* A row that another transaction may have changed, or inserted, since it was
\* read; user_id is unique.
SaveVerif(u, loaded, row) ==
    /\ loaded = None => verif[u] = None
    /\ verif' = [verif EXCEPT ![u] = IF loaded = None THEN row ELSE Flush(@, loaded, row)]

CreateInquiry(u) == inquiries' = Append(inquiries, u)
\* POST /identity/inquiry/start: a decided row is shown as it is (a request
\* that changes nothing), else a new inquiry is created at Persona, which may
\* fail, and the row is pointed at it.
StartInquiry(c, u) ==
    /\ verif[u] # None => verif[u].status \in {"pending", "needs_review"}
    /\ Len(inquiries) < MaxInquiries
    /\ CreateInquiry(u)
    /\ Begin(c, [op |-> "inquiry", u |-> u, loaded |-> verif[u], inq |-> Len(inquiries) + 1])
    /\ UNCHANGED <<verif, hooks, handled, outbox>>
SaveInquiry(c) ==
    LET q == work[c]
    IN
    /\ Doing(c, "inquiry")
    /\ SaveVerif(q.u, q.loaded, [inq |-> q.inq, status |-> "pending"])
    /\ End(c) /\ UNCHANGED <<inquiries, hooks, handled, outbox>>

\* Persona reaches a verdict on an inquiry, not always its first one.
PersonaDecides(i, status, minor) ==
    /\ Len(hooks) < MaxHooks /\ (minor => status = "approved")
    /\ hooks' = Append(hooks, [inq |-> i, status |-> status, minor |-> minor])
    /\ UNCHANGED <<slotVars, verif, inquiries, handled, outbox>>

\* Faulty variant: what Persona says is taken as it is.
PersonaStatus(h) == h.status
\* An approved user under 18 goes to a human.
HookStatus(h) == IF h.status = "approved" /\ h.minor THEN "needs_review" ELSE h.status

EventFor(status) == CASE status = "approved"     -> "identity.verified"
                      [] status = "declined"     -> "identity.declined"
                      [] status = "needs_review" -> "identity.needs_review"
                      [] OTHER                   -> None

\* The insert into the log, keyed by the event's id: a delivery that is in it
\* ends here, and one that another slot is handling waits for that one's end.
LogInsert(h) == h \notin handled /\ ~\E d \in Slots : Doing(d, "hook") /\ work[d].h = h
\* enqueue_outbox: dedupe_key is unique, a second entry fails the transaction.
EnqueueOutbox(entry) == entry \notin outbox /\ outbox' = outbox \cup {entry}
\* persona_webhook, up to the row it will write.
LoadHook(c, h) ==
    /\ LogInsert(h)
    /\ Take(c, [op |-> "hook", h |-> h, loaded |-> verif[inquiries[hooks[h].inq]]])
    /\ UNCHANGED identityVars
CommitHook(c) ==
    LET q == work[c]
        h == hooks[q.h]
        u == inquiries[h.inq]
        status == HookStatus(h)
        event == EventFor(status)
    IN
    /\ Doing(c, "hook")
    /\ SaveVerif(u, q.loaded, [inq |-> h.inq, status |-> status])
    /\ handled' = handled \cup {q.h}
    /\ IF event = None THEN UNCHANGED outbox ELSE EnqueueOutbox(<<event, h.inq, u>>)
    /\ End(c) /\ UNCHANGED <<inquiries, hooks>>

\* A unique key is taken, the database or Persona fails: the transaction is
\* lost as a whole, and the webhook, whose log row goes with it, comes again.
IdentityFails(c) == /\ Doing(c, "inquiry") \/ Doing(c, "hook")
                    /\ End(c) /\ UNCHANGED identityVars

IdentityNext ==
    \/ \E c \in Slots :
          \/ \E u \in Users : StartInquiry(c, u)
          \/ \E h \in DOMAIN hooks : LoadHook(c, h)
          \/ SaveInquiry(c) \/ CommitHook(c) \/ IdentityFails(c)
    \/ \E i \in DOMAIN inquiries, status \in Statuses, minor \in BOOLEAN :
          PersonaDecides(i, status, minor)
===============================================================================
