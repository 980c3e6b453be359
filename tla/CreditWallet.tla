---------------------------- MODULE CreditWallet ----------------------------
(***************************************************************************)
(* billing-svc app/services/credits.py at the grain at which concurrent    *)
(* requests interleave: one database session per request, one step per     *)
(* statement another session can come between.                             *)
(*                                                                         *)
(* The engine runs at PostgreSQL's default READ COMMITTED (db.py sets no   *)
(* isolation level), so what keeps requests apart is SELECT ... FOR UPDATE *)
(* on the wallet row and on the transaction row.  A session's writes       *)
(* become visible when it commits; "seen" is the ORM object's copy of the  *)
(* balance, read when the wallet row was locked and written back (value,   *)
(* not increment) at commit.  The insert of a ledger row and the commit    *)
(* are one step: the UNIQUE key makes a second inserter wait for the first *)
(* one's commit, so nothing is observable between them.                    *)
(***************************************************************************)
EXTENDS CreditLedger

CONSTANTS Sessions,     \* database sessions, one request each at a time
          NoSession,    \* holder of a free lock
          NoKey         \* key of a session that serves nothing

ASSUME SessionAssumption == NoSession \notin Sessions
ASSUME NoKeyAssumption   == NoKey \notin LedgerKeys

VARIABLES wallets,      \* users that have a committed wallet row
          pc,           \* where each session is; "idle" = no request
          req,          \* the request a session serves
          seen,         \* the session's ORM copy of wallet.balance
          walletLock,   \* user -> session holding the row (or key) lock
          txLock        \* reservation key -> session holding the row lock

sessionVars == <<pc, req, seen, walletLock, txLock>>
vars == <<balance, ledger, wallets, pc, req, seen, walletLock, txLock>>

Posting    == {"purchase", "grant", "adjust"}
Operations == Posting \cup {"none", "reserve", "commit", "release"}
Locations  == {"idle", "wallet", "create", "sum", "tx", "write"}

Requests  == [op : Operations, user : Users \cup {NoUser},
              key : LedgerKeys \cup {NoKey}, delta : Int]
NoRequest == [op |-> "none", user |-> NoUser, key |-> NoKey, delta |-> 0]

Init ==
    /\ LedgerInit
    /\ wallets    = {}
    /\ pc         = [s \in Sessions |-> "idle"]
    /\ req        = [s \in Sessions |-> NoRequest]
    /\ seen       = [s \in Sessions |-> 0]
    /\ walletLock = [u \in Users |-> NoSession]
    /\ txLock     = [k \in ReserveKeys |-> NoSession]

-----------------------------------------------------------------------------
(* Session plumbing *)

\* A request arrives on an idle session.
Begin(s, op, u, k, d, loc) ==
    /\ pc[s] = "idle"
    /\ pc'  = [pc EXCEPT ![s] = loc]
    /\ req' = [req EXCEPT ![s] = [op |-> op, user |-> u, key |-> k, delta |-> d]]
    /\ UNCHANGED <<balance, ledger, wallets, seen, walletLock, txLock>>

\* Faulty variant: a transaction that ends without giving its wallet lock back.
EndTransactionKeepsLock(s) ==
    /\ pc'   = [pc EXCEPT ![s] = "idle"]
    /\ req'  = [req EXCEPT ![s] = NoRequest]
    /\ seen' = [seen EXCEPT ![s] = 0]
    /\ txLock' = [k \in ReserveKeys |->
                        IF txLock[k] = s THEN NoSession ELSE txLock[k]]
    /\ UNCHANGED walletLock

\* The transaction ends, committed or rolled back: its locks are gone.
EndTransaction(s) ==
    /\ pc'   = [pc EXCEPT ![s] = "idle"]
    /\ req'  = [req EXCEPT ![s] = NoRequest]
    /\ seen' = [seen EXCEPT ![s] = 0]
    /\ walletLock' = [u \in Users |->
                        IF walletLock[u] = s THEN NoSession ELSE walletLock[u]]
    /\ txLock' = [k \in ReserveKeys |->
                        IF txLock[k] = s THEN NoSession ELSE txLock[k]]

Rollback(s) ==
    /\ EndTransaction(s)
    /\ UNCHANGED <<balance, ledger, wallets>>

-----------------------------------------------------------------------------
(* Requests *)

BeginReserve(s)  == \E u \in Users, k \in ReserveKeys, a \in Amounts :
                        Begin(s, "reserve", u, k, -a, "wallet")
BeginCommit(s)   == \E k \in ReserveKeys : Begin(s, "commit", NoUser, k, 0, "tx")
BeginRelease(s)  == \E k \in ReserveKeys : Begin(s, "release", NoUser, k, 0, "tx")
BeginPurchase(s) == \E u \in Users, k \in PurchaseKeys, a \in Amounts :
                        Begin(s, "purchase", u, k, a, "wallet")
BeginGrant(s)    == \E u \in Users, k \in GrantKeys, a \in Amounts :
                        Begin(s, "grant", u, k, a, "wallet")
BeginAdjust(s)   == \E u \in Users, k \in AdminKeys, d \in Adjustments :
                        Begin(s, "adjust", u, k, d, "wallet")

-----------------------------------------------------------------------------
(* _get_or_create_wallet *)

\* The session holds u's wallet row and has bal as its copy of the balance.
HoldWallet(s, u, bal) ==
    /\ walletLock' = [walletLock EXCEPT ![u] = s]
    /\ seen' = [seen EXCEPT ![s] = bal]
    /\ pc'   = [pc EXCEPT ![s] = IF req[s].op = "reserve" THEN "sum" ELSE "write"]
    /\ UNCHANGED <<balance, ledger, wallets, req, txLock>>

\* Faulty variant: SELECT without FOR UPDATE.
LockWalletPlainSelect(s) ==
    LET u == req[s].user IN
    /\ pc[s] = "wallet"
    /\ u \in wallets
    /\ HoldWallet(s, u, balance[u])

\* Faulty variant: the row is locked, but the copy is an older one.
LockWalletStaleCopy(s) ==
    LET u == req[s].user IN
    /\ pc[s] = "wallet"
    /\ u \in wallets
    /\ walletLock[u] = NoSession
    /\ HoldWallet(s, u, seen[s])

\* SELECT ... FOR UPDATE on a row nobody holds.
LockWallet(s) ==
    LET u == req[s].user IN
    /\ pc[s] = "wallet"
    /\ u \in wallets
    /\ walletLock[u] = NoSession
    /\ HoldWallet(s, u, balance[u])

\* No (committed) row: FOR UPDATE locks nothing.
WalletMissing(s) ==
    /\ pc[s] = "wallet"
    /\ req[s].user \notin wallets
    /\ pc' = [pc EXCEPT ![s] = "create"]
    /\ UNCHANGED <<balance, ledger, wallets, req, seen, walletLock, txLock>>

\* Faulty variant: the new row has no balance yet (balance=0 left out).
CreateWalletNoDefault(s) ==
    LET u == req[s].user IN
    /\ pc[s] = "create"
    /\ u \notin wallets
    /\ walletLock[u] = NoSession
    /\ HoldWallet(s, u, NoKey)

\* INSERT of the new row, which waits for an uncommitted insert of the same
\* primary key.
CreateWallet(s) ==
    LET u == req[s].user IN
    /\ pc[s] = "create"
    /\ u \notin wallets
    /\ walletLock[u] = NoSession
    /\ HoldWallet(s, u, 0)

\* The other inserter committed first: IntegrityError, which nobody catches.
CreateWalletConflict(s) ==
    /\ pc[s] = "create"
    /\ req[s].user \in wallets
    /\ Rollback(s)

-----------------------------------------------------------------------------
(* reserve_credits *)

\* Faulty variant: open reservations are not deducted.
SufficientBalance(s) == seen[s] >= -req[s].delta

\* available = wallet.balance + reserved_total, compared with the amount
\* before the idempotency key is looked at.
SufficientCredits(s) ==
    seen[s] + SumReserved(req[s].user) >= -req[s].delta

CheckAvailable(s) ==
    /\ pc[s] = "sum"
    /\ SufficientCredits(s)
    /\ pc' = [pc EXCEPT ![s] = "write"]
    /\ UNCHANGED <<balance, ledger, wallets, req, seen, walletLock, txLock>>

\* InsufficientCreditsError: 402, and a wallet created on the way is undone.
InsufficientCredits(s) ==
    /\ pc[s] = "sum"
    /\ ~SufficientCredits(s)
    /\ Rollback(s)

InsertReservation(s) ==
    LET r == req[s] IN
    /\ pc[s] = "write" /\ r.op = "reserve"
    /\ ledger[r.key] = NoTx
    /\ ledger'  = [ledger EXCEPT ![r.key] = Tx(r.user, r.delta, "reserved")]
    /\ wallets' = wallets \cup {r.user}
    /\ EndTransaction(s)
    /\ UNCHANGED balance

-----------------------------------------------------------------------------
(* commit_reservation and release_reservation *)

\* The session holds reservation k and has a copy of it.  A commit goes on to
\* the wallet, a release does not touch it.
HoldReservation(s, k) ==
    /\ txLock' = [txLock EXCEPT ![k] = s]
    /\ req'    = [req EXCEPT ![s] = [op |-> req[s].op, user |-> ledger[k].user,
                                     key |-> k, delta |-> ledger[k].delta]]
    /\ pc'     = [pc EXCEPT ![s] =
                    IF req[s].op = "commit" THEN "wallet" ELSE "write"]
    /\ UNCHANGED <<balance, ledger, wallets, seen, walletLock>>

\* Faulty variant: SELECT without FOR UPDATE.
LockReservationPlainSelect(s) ==
    LET k == req[s].key IN
    /\ pc[s] = "tx"
    /\ ledger[k].status = "reserved"
    /\ HoldReservation(s, k)

\* Faulty variant: a settled reservation may be settled again.
LockReservationAnyStatus(s) ==
    LET k == req[s].key IN
    /\ pc[s] = "tx"
    /\ txLock[k] = NoSession
    /\ ledger[k] # NoTx
    /\ HoldReservation(s, k)

\* SELECT ... FOR UPDATE on the reservation.
LockReservation(s) ==
    LET k == req[s].key IN
    /\ pc[s] = "tx"
    /\ txLock[k] = NoSession
    /\ ledger[k].status = "reserved"
    /\ HoldReservation(s, k)

\* Not found or already settled: a logged no-op.
NotReserved(s) ==
    LET k == req[s].key IN
    /\ pc[s] = "tx"
    /\ txLock[k] = NoSession
    /\ ledger[k].status # "reserved"
    /\ Rollback(s)

WriteCommit(s) ==
    LET r == req[s] IN
    /\ pc[s] = "write" /\ r.op = "commit"
    /\ ledger'  = [ledger EXCEPT ![r.key] = Tx(r.user, r.delta, "committed")]
    /\ balance' = [balance EXCEPT ![r.user] = seen[s] + r.delta]
    /\ wallets' = wallets \cup {r.user}
    /\ EndTransaction(s)

WriteRelease(s) ==
    LET r == req[s] IN
    /\ pc[s] = "write" /\ r.op = "release"
    /\ ledger' = [ledger EXCEPT
                    ![r.key] = Tx(r.user, r.delta, "released"),
                    ![ReleaseKey(r.key)] = Tx(r.user, -r.delta, "committed")]
    /\ EndTransaction(s)
    /\ UNCHANGED <<balance, wallets>>

-----------------------------------------------------------------------------
(* credit_purchase, grant_subscription_credits, admin_adjust_credits *)

\* Faulty variant: a posting that overwrites an earlier row of the same key.
WritePostingTwice(s) ==
    LET r == req[s] IN
    /\ pc[s] = "write" /\ r.op \in Posting
    /\ ledger'  = [ledger EXCEPT ![r.key] = Tx(r.user, r.delta, "committed")]
    /\ balance' = [balance EXCEPT ![r.user] = seen[s] + r.delta]
    /\ wallets' = wallets \cup {r.user}
    /\ EndTransaction(s)

WritePosting(s) ==
    LET r == req[s] IN
    /\ pc[s] = "write" /\ r.op \in Posting
    /\ ledger[r.key] = NoTx
    /\ ledger'  = [ledger EXCEPT ![r.key] = Tx(r.user, r.delta, "committed")]
    /\ balance' = [balance EXCEPT ![r.user] = seen[s] + r.delta]
    /\ wallets' = wallets \cup {r.user}
    /\ EndTransaction(s)

\* The key is taken: IntegrityError at the flush.  The caller gets the existing
\* row, None or the error; the transaction is rolled back in every case.
DuplicateKey(s) ==
    LET r == req[s] IN
    /\ pc[s] = "write" /\ r.op \in Posting \cup {"reserve"}
    /\ ledger[r.key] # NoTx
    /\ Rollback(s)

-----------------------------------------------------------------------------
\* The worker dies, the connection drops or the client disconnects: PostgreSQL
\* rolls the transaction back.
Abort(s) ==
    /\ pc[s] # "idle"
    /\ Rollback(s)

Arrive(s) ==
    \/ BeginReserve(s) \/ BeginCommit(s) \/ BeginRelease(s)
    \/ BeginPurchase(s) \/ BeginGrant(s) \/ BeginAdjust(s)

Step(s) ==
    \/ LockWallet(s) \/ WalletMissing(s)
    \/ CreateWallet(s) \/ CreateWalletConflict(s)
    \/ CheckAvailable(s) \/ InsufficientCredits(s) \/ InsertReservation(s)
    \/ LockReservation(s) \/ NotReserved(s)
    \/ WriteCommit(s) \/ WriteRelease(s)
    \/ WritePosting(s) \/ DuplicateKey(s)

Next == \E s \in Sessions : Arrive(s) \/ Step(s) \/ Abort(s)

Spec == Init /\ [][Next]_vars

\* A request that has begun keeps executing; PostgreSQL queues lock waiters, so
\* a lock that is released again and again reaches everyone who waits for it.
Fairness == \A s \in Sessions : SF_vars(Step(s))

FairSpec == Spec /\ Fairness

-----------------------------------------------------------------------------
(* Properties *)

TypeOK ==
    /\ balance \in [Users -> Int]
    /\ ledger \in [LedgerKeys -> Transactions]
    /\ wallets \subseteq Users
    /\ pc \in [Sessions -> Locations]
    /\ req \in [Sessions -> Requests]
    /\ seen \in [Sessions -> Int]
    /\ walletLock \in [Users -> Sessions \cup {NoSession}]
    /\ txLock \in [ReserveKeys -> Sessions \cup {NoSession}]

\* The wallet copy a session is about to write back is the committed balance:
\* no other session's update can be lost under it.
SeenIsCurrent ==
    \A s \in Sessions :
        pc[s] = "sum" \/ (pc[s] = "write" /\ req[s].op # "release")
            => seen[s] = balance[req[s].user]

\* Credits move only together with the ledger: a step that changes a balance
\* makes exactly one row of that user committed, and by that row's delta.
BalanceMovesWithLedger ==
    [][\A u \in Users : balance'[u] # balance[u] =>
         \E k \in LedgerKeys :
            /\ ledger[k].status # "committed"
            /\ ledger'[k].status = "committed" /\ ledger'[k].user = u
            /\ balance'[u] = balance[u] + ledger'[k].delta
            /\ \A j \in LedgerKeys \ {k} : ledger'[j] = ledger[j]]_vars

\* A reservation is settled at most once: a settled row never changes again,
\* whichever commits, releases, retries and aborts follow.
SettledForever ==
    [][\A k \in LedgerKeys : ledger[k].status \in {"committed", "released"}
            => ledger'[k] = ledger[k]]_vars

\* The commit path locks reservation then wallet, the reserve path only the
\* wallet: no request waits for ever.
RequestsFinish == \A s \in Sessions : pc[s] # "idle" ~> pc[s] = "idle"
=============================================================================
