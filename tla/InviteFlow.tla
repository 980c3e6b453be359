----------------------------- MODULE InviteFlow -----------------------------
(***************************************************************************)
(* invite-svc: sending a Vibe Check (routers/invites.py, services/quota.py)*)
(* with its block check, idempotency cache and rolling quota; accepting,   *)
(* rejecting and cancelling it; the hourly expiry (workers/ttl_tasks.py);  *)
(* blocks (routers/blocks.py).                                             *)
(*                                                                         *)
(* A send request makes up the id of its invite, so requests are named by  *)
(* invite ids.  Every step of a request ends at an await.                  *)
(***************************************************************************)
EXTENDS Integers, FiniteSets

CONSTANTS Profiles,
          InviteIds,
          ClientKeys,     \* X-Idempotency-Key values
          Synopses,
          Axis,           \* billing-svc's invites_per_week; -1 is unlimited
          FreeQuota,      \* free_invite_quota_per_week
          DedupWindow,    \* send_dedup_window_seconds
          IdemTtl,        \* idempotency_ttl_seconds
          Week,           \* the quota's window
          InviteTtl,      \* invite_ttl_days
          MaxClock,       \* bound
          Faults          \* subset of {"crash", "publish", "billing"}

ASSUME InviteAssumption ==
    /\ Axis \in [Profiles -> Int]
    /\ \A p \in Profiles : Axis[p] >= -1
    /\ FreeQuota \in Nat
    /\ DedupWindow \in Nat /\ IdemTtl \in Nat /\ Week \in Nat /\ InviteTtl \in Nat
    /\ MaxClock \in Nat
    /\ Faults \subseteq {"crash", "publish", "billing"}
    /\ "none" \notin ClientKeys \cup Profiles

VARIABLES
    clock,
    invite,      \* collab_invite
    block,       \* block: <<blocker, blocked>>
    quota,       \* invite:quota:<profile>: invite ids with their send time
    cached,      \* idem:invite:<key>: the invite the response names, and when
    send,        \* POST /invites requests; now is the script's clock
    answer,      \* POST /invites/{id}/accept transactions
    matches      \* match.created events, as sets of two profiles

vars == <<clock, invite, block, quota, cached, send, answer, matches>>

NoInvite == [from |-> "none", to |-> "none", status |-> "none", key |-> "none", created |-> 0]
NoSend   == [at |-> "idle", from |-> "none", to |-> "none", key |-> "none", now |-> 0]
NoAnswer == [at |-> "idle", mirror |-> {}]

Terminal == {"accepted", "rejected", "expired", "cancelled"}

\* The tables and their CHECK constraints: nobody invites or blocks themselves.
CollabInvite ==
    {r \in [from : Profiles, to : Profiles, status : {"pending"} \cup Terminal,
            key : ClientKeys \cup {"none"}, created : 0..MaxClock] : r.from # r.to}
Block == {b \in Profiles \X Profiles : b[1] # b[2]}

\* make_dedup_key, for a request without a header.
DedupKeys == {<<p, q, s>> : p \in Profiles, q \in Profiles, s \in Synopses}
Keys      == ClientKeys \cup DedupKeys

Init ==
    /\ clock = 0
    /\ invite = [i \in InviteIds |-> NoInvite]
    /\ block = {}
    /\ quota = [p \in Profiles |-> {}]
    /\ cached = [k \in Keys |-> {}]
    /\ send = [i \in InviteIds |-> NoSend]
    /\ answer = [i \in InviteIds |-> NoAnswer]
    /\ matches = {}

Tick ==
    /\ clock < MaxClock
    /\ clock' = clock + 1
    /\ cached' = [k \in Keys |-> {c \in cached[k] : clock' < c.at + IdemTtl}]
    /\ UNCHANGED <<invite, block, quota, send, answer, matches>>

-----------------------------------------------------------------------------
(* send_invite *)

Blocked(p, q) == <<p, q>> \in block \/ <<q, p>> \in block

SendTo(i, loc) == send' = [send EXCEPT ![i].at = loc]

\* The self-invite guard and the block check.
SendStart(i) == \E p \in Profiles, q \in Profiles, s \in Synopses :
    \E k \in ClientKeys \cup {<<p, q, s>>} :
      /\ send[i].at = "idle"
      /\ p # q
      /\ ~Blocked(p, q)
      /\ send' = [send EXCEPT ![i] =
            [at |-> "dedup", from |-> p, to |-> q, key |-> k, now |-> clock]]
      /\ UNCHANGED <<clock, invite, block, quota, cached, answer, matches>>

\* check_idempotency: a cached response is returned as it is.
Dedup(i) ==
    /\ send[i].at = "dedup"
    /\ SendTo(i, IF cached[send[i].key] = {} THEN "quota" ELSE "replayed")
    /\ UNCHANGED <<clock, invite, block, quota, cached, answer, matches>>

\* _get_invite_limit: the axis as billing-svc gives it, or the free quota when
\* the call fails.
Limits(p) == {Axis[p]} \cup (IF "billing" \in Faults THEN {FreeQuota} ELSE {})

InWindow(p) == {e \in quota[p] : e.at > clock - Week}

\* Faulty variant: the script counts after it has added, and lets one too many in.
CheckQuotaLate(i) == LET p == send[i].from IN
    /\ send[i].at = "quota"
    /\ \E limit \in Limits(p) : Cardinality(InWindow(p)) <= limit
    /\ quota' = [quota EXCEPT ![p] = InWindow(p) \cup {[id |-> i, at |-> clock]}]
    /\ send' = [send EXCEPT ![i].at = "moderate", ![i].now = clock]
    /\ UNCHANGED <<clock, invite, block, cached, answer, matches>>

\* The Lua script: evict, count, compare, add; one atomic step.
CheckQuota(i) == LET p == send[i].from IN
    /\ send[i].at = "quota"
    /\ \E limit \in Limits(p) : Cardinality(InWindow(p)) < limit
    /\ quota' = [quota EXCEPT ![p] = InWindow(p) \cup {[id |-> i, at |-> clock]}]
    /\ send' = [send EXCEPT ![i].at = "moderate", ![i].now = clock]
    /\ UNCHANGED <<clock, invite, block, cached, answer, matches>>

QuotaExceeded(i) == LET p == send[i].from IN
    /\ send[i].at = "quota"
    /\ \E limit \in Limits(p) : Cardinality(InWindow(p)) >= limit
    /\ quota' = [quota EXCEPT ![p] = InWindow(p)]
    /\ SendTo(i, "refused")
    /\ UNCHANGED <<clock, invite, block, cached, answer, matches>>

\* scan_synopsis raises SynopsisFlagged; the send stays counted.
Flagged(i) ==
    /\ send[i].at = "moderate"
    /\ SendTo(i, "done")
    /\ UNCHANGED <<clock, invite, block, quota, cached, answer, matches>>

\* Clean, or moderation-svc did not answer in time.
Scanned(i) ==
    /\ send[i].at = "moderate"
    /\ SendTo(i, "insert")
    /\ UNCHANGED <<clock, invite, block, quota, cached, answer, matches>>

\* idempotency_key is UNIQUE, and only a client's key is stored.
StoredKey(i) == IF send[i].key \in ClientKeys THEN send[i].key ELSE "none"

KeyTaken(i) == StoredKey(i) # "none" /\ \E j \in InviteIds : invite[j].key = StoredKey(i)

Insert(i) ==
    /\ send[i].at = "insert" /\ ~KeyTaken(i)
    /\ invite' = [invite EXCEPT ![i] =
            [from |-> send[i].from, to |-> send[i].to, status |-> "pending",
             key |-> StoredKey(i), created |-> clock]]
    /\ SendTo(i, "cache")
    /\ UNCHANGED <<clock, block, quota, cached, answer, matches>>

InsertConflict(i) ==
    /\ send[i].at = "insert" /\ KeyTaken(i)
    /\ SendTo(i, "done")
    /\ UNCHANGED <<clock, invite, block, quota, cached, answer, matches>>

\* set_idempotency, after invite.sent was published (or failed to be).
CacheResponse(i) ==
    /\ send[i].at = "cache"
    /\ cached' = [cached EXCEPT ![send[i].key] = {[id |-> i, at |-> clock]}]
    /\ SendTo(i, "done")
    /\ UNCHANGED <<clock, invite, block, quota, answer, matches>>

\* The cached response goes out.
Replay(i) ==
    /\ send[i].at = "replayed"
    /\ SendTo(i, "done")
    /\ UNCHANGED <<clock, invite, block, quota, cached, answer, matches>>

SendCrashes(i) ==
    /\ "crash" \in Faults /\ send[i].at \notin {"idle", "refused", "done"}
    /\ SendTo(i, "done")
    /\ UNCHANGED <<clock, invite, block, quota, cached, answer, matches>>

-----------------------------------------------------------------------------
(* accept_invite, reject_invite, cancel_invite *)

\* SELECT ... FOR UPDATE of an invite's row: nobody else holds it.
Unlocked(i) == answer[i].at \in {"idle", "publish"}

AcceptLock(i) ==
    /\ answer[i].at = "idle" /\ invite[i].status = "pending"
    /\ answer' = [answer EXCEPT ![i].at = "mirror"]
    /\ UNCHANGED <<clock, invite, block, quota, cached, send, matches>>

\* The accepted invites the other way round, as committed now.
Mirrors(i) == {j \in InviteIds :
    invite[j].from = invite[i].to /\ invite[j].to = invite[i].from
        /\ invite[j].status = "accepted"}

\* scalar_one_or_none: more than one accepted mirror raises, which rolls back.
ReadMirror(i) ==
    /\ answer[i].at = "mirror"
    /\ answer' = [answer EXCEPT ![i] =
            IF Cardinality(Mirrors(i)) > 1 THEN NoAnswer
            ELSE [at |-> "commit", mirror |-> Mirrors(i)]]
    /\ UNCHANGED <<clock, invite, block, quota, cached, send, matches>>

AcceptCommit(i) ==
    /\ answer[i].at = "commit"
    /\ invite' = [invite EXCEPT ![i].status = "accepted"]
    /\ answer' = [answer EXCEPT ![i].at = "publish"]
    /\ UNCHANGED <<clock, block, quota, cached, send, matches>>

\* Faulty variant: every accepted invite is announced as a match.
PublishAnyMatch(i) ==
    /\ answer[i].at = "publish"
    /\ matches' = matches \cup {{invite[i].from, invite[i].to}}
    /\ answer' = [answer EXCEPT ![i] = NoAnswer]
    /\ UNCHANGED <<clock, invite, block, quota, cached, send>>

\* invite.accepted, then match.created when there was a mirror.
PublishMatch(i) ==
    /\ answer[i].at = "publish"
    /\ matches' = matches \cup (IF answer[i].mirror = {} THEN {}
                                ELSE {{invite[i].from, invite[i].to}})
    /\ answer' = [answer EXCEPT ![i] = NoAnswer]
    /\ UNCHANGED <<clock, invite, block, quota, cached, send>>

\* A failed publish is only logged.
PublishFails(i) ==
    /\ "publish" \in Faults /\ answer[i].at = "publish"
    /\ answer' = [answer EXCEPT ![i] = NoAnswer]
    /\ UNCHANGED <<clock, invite, block, quota, cached, send, matches>>

\* The transaction is rolled back, or the event is lost.
AcceptCrashes(i) ==
    /\ "crash" \in Faults /\ answer[i].at # "idle"
    /\ answer' = [answer EXCEPT ![i] = NoAnswer]
    /\ UNCHANGED <<clock, invite, block, quota, cached, send, matches>>

Close(i, st) ==
    /\ invite' = [invite EXCEPT ![i].status = st]
    /\ UNCHANGED <<clock, block, quota, cached, send, answer, matches>>

\* Faulty variant: a plain SELECT, so the row may be under an accept.
RejectUnlocked(i) ==
    /\ invite[i].status = "pending"
    /\ Close(i, "rejected")

Reject(i) ==
    /\ Unlocked(i) /\ invite[i].status = "pending"
    /\ Close(i, "rejected")

Cancel(i) ==
    /\ Unlocked(i) /\ invite[i].status = "pending"
    /\ Close(i, "cancelled")

-----------------------------------------------------------------------------
(* expire_stale_invites: one batch, FOR UPDATE SKIP LOCKED *)

Stale == {i \in InviteIds :
    invite[i].status = "pending" /\ Unlocked(i) /\ invite[i].created + InviteTtl <= clock}

Expire ==
    /\ Stale # {}
    /\ invite' = [i \in InviteIds |->
            IF i \in Stale THEN [invite[i] EXCEPT !.status = "expired"] ELSE invite[i]]
    /\ UNCHANGED <<clock, block, quota, cached, send, answer, matches>>

-----------------------------------------------------------------------------
(* create_block, remove_block *)

CreateBlock == \E p, q \in Profiles :
    /\ p # q /\ <<p, q>> \notin block
    /\ block' = block \cup {<<p, q>>}
    /\ UNCHANGED <<clock, invite, quota, cached, send, answer, matches>>

RemoveBlock == \E b \in block :
    /\ block' = block \ {b}
    /\ UNCHANGED <<clock, invite, quota, cached, send, answer, matches>>

-----------------------------------------------------------------------------
SendStep(i) ==
    \/ Dedup(i) \/ CheckQuota(i) \/ QuotaExceeded(i) \/ Flagged(i) \/ Scanned(i)
    \/ Insert(i) \/ InsertConflict(i) \/ CacheResponse(i) \/ Replay(i)

AcceptStep(i) == ReadMirror(i) \/ AcceptCommit(i) \/ PublishMatch(i) \/ PublishFails(i)

Next ==
    \/ Tick
    \/ \E i \in InviteIds :
         \/ SendStart(i) \/ SendStep(i) \/ SendCrashes(i)
         \/ AcceptLock(i) \/ AcceptStep(i) \/ AcceptCrashes(i)
         \/ Reject(i) \/ Cancel(i)
    \/ Expire \/ CreateBlock \/ RemoveBlock

Spec == Init /\ [][Next]_vars

\* Time passes, Celery Beat runs every hour, and requests keep running; nobody
\* has to answer an invite.
FairSpec ==
    /\ Spec
    /\ WF_vars(Tick) /\ SF_vars(Expire)
    /\ \A i \in InviteIds : WF_vars(SendStep(i)) /\ WF_vars(AcceptStep(i))

-----------------------------------------------------------------------------
(* Properties *)

InviteTypeOK ==
    /\ \A i \in InviteIds : invite[i] = NoInvite \/ invite[i] \in CollabInvite
    /\ block \subseteq Block
    /\ \A p \in Profiles : \A e \in quota[p] : e.at <= clock
    /\ \A m \in matches : Cardinality(m) = 2

\* "pending -> accepted | rejected | expired | cancelled ... Rows are NEVER
\* deleted" (models/invite.py): an invite is answered once, however the two
\* sides and the expiry job race.
AnsweredOnce ==
    [][\A i \in InviteIds : invite[i].status \in Terminal => invite'[i] = invite[i]]_vars

\* The rolling quota: of the invites admitted within one week (now_ms of
\* check_and_increment_quota) no sender has more than the larger of the limits
\* that could apply, however many requests run at once.
WithinQuota ==
    \A p \in Profiles :
        Cardinality({i \in InviteIds : invite[i].from = p /\ send[i].now > clock - Week})
            <= IF Axis[p] > FreeQuota THEN Axis[p] ELSE FreeQuota

\* match.created only goes out for two profiles that accepted each other.
MatchIsMutual ==
    \A m \in matches : \A p \in m : \E i \in InviteIds :
        invite[i].from = p /\ {invite[i].from, invite[i].to} = m
            /\ invite[i].status = "accepted"

\* "Hourly job: flip pending invites past archive_at to expired": no invite
\* stays pending for ever, although the job skips rows that are locked.
PendingEnds ==
    \A i \in InviteIds : invite[i].status = "pending" /\ invite[i].created + InviteTtl <= MaxClock
        ~> invite[i].status # "pending"

\* "Wrapped in a SELECT FOR UPDATE transaction to prevent race conditions."
\* (accept_invite): two profiles that accepted each other are a match.
MutualAcceptMatches ==
    \A i, j \in InviteIds :
        (/\ answer[i].at = "idle" /\ invite[i].status = "accepted"
         /\ answer[j].at = "idle" /\ invite[j].status = "accepted"
         /\ invite[i].from = invite[j].to /\ invite[i].to = invite[j].from)
        => {invite[i].from, invite[i].to} \in matches

\* "60-second dedup window to prevent accidental double-tap" (specs/006): two
\* requests for one (sender, recipient, synopsis) within the window leave one
\* invite.
DoubleTapIsOneInvite ==
    \A i, j \in InviteIds :
        i # j /\ invite[i].status # "none" /\ invite[j].status # "none" /\ send[i].key = send[j].key
            => \/ invite[i].created >= invite[j].created + DedupWindow
               \/ invite[j].created >= invite[i].created + DedupWindow

\* "Deterministic 60-second dedup key" (make_dedup_key): a request that comes
\* later than that is not answered from the cache.
ReplayOnlyInWindow ==
    \A i \in InviteIds : send[i].at = "replayed" /\ send[i].key \in DedupKeys =>
        \A c \in cached[send[i].key] : clock < c.at + DedupWindow

\* "Premium users receive limit=9_999_999 (effectively unlimited)." (quota.py)
UnlimitedNeverRefused ==
    \A i \in InviteIds : send[i].at = "refused" => Axis[send[i].from] # -1

\* "Invite send | 403 if block(A,B) OR block(B,A) exists." (specs/006): no
\* invite is created between profiles while a block stands.
NoInviteAcrossBlock ==
    [][\A i \in InviteIds : invite[i].status = "none" /\ invite'[i].status = "pending"
         => ~Blocked(invite'[i].from, invite'[i].to)]_vars
=============================================================================
