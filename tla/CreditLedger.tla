---------------------------- MODULE CreditLedger ----------------------------
(***************************************************************************)
(* What billing-svc promises about AI credits: every operation of          *)
(* app/services/credits.py as ONE atomic step over the two tables it       *)
(* writes.  CreditWallet is the same service with its database sessions,   *)
(* row locks and aborts, and is shown to implement this specification;     *)
(* AiCredits composes it with the service that spends the credits.         *)
(*                                                                         *)
(*   balance[u]  credit_wallets.balance (0 while u has no wallet row)      *)
(*   ledger[k]   the credit_transactions row with idempotency key k; the   *)
(*               column is UNIQUE, so a key names at most one row          *)
(***************************************************************************)
EXTENDS Integers, FiniteSetsExt

CONSTANTS Users,          \* wallet owners
          ReserveKeys,    \* keys of reservations ("ai-reserve:<interaction>")
          PurchaseKeys,   \* keys of one-off purchases
          GrantKeys,      \* "grant:<subscription>:<period start>"
          AdminKeys,      \* "admin:<action id>"
          Amounts,        \* positive amounts of a reservation or a credit
          Adjustments,    \* deltas an admin may post, of either sign
          NoUser          \* owner of a row that does not exist

\* The request schemas: amounts are positive (Field(gt=0)), an admin's delta
\* is any integer; the prefixes keep the key spaces apart.
ASSUME AmountAssumption ==
    /\ Amounts \subseteq Nat \ {0}
    /\ Adjustments \subseteq Int

ReleaseKey(k) == <<"release", k>>
ReleaseKeys   == {ReleaseKey(k) : k \in ReserveKeys}

ASSUME KeyAssumption ==
    /\ ReserveKeys \cap (PurchaseKeys \cup GrantKeys \cup AdminKeys) = {}
    /\ PurchaseKeys \cap (GrantKeys \cup AdminKeys) = {}
    /\ GrantKeys \cap AdminKeys = {}
    /\ ReleaseKeys \cap
         (ReserveKeys \cup PurchaseKeys \cup GrantKeys \cup AdminKeys) = {}

LedgerKeys == ReserveKeys \cup PurchaseKeys \cup GrantKeys \cup AdminKeys
                \cup ReleaseKeys

ASSUME NoUserAssumption == NoUser \notin Users

Statuses == {"none", "reserved", "committed", "released"}

Transactions == [user : Users \cup {NoUser}, delta : Int, status : Statuses]
NoTx         == [user |-> NoUser, delta |-> 0, status |-> "none"]

VARIABLES balance, ledger
ledgerVars == <<balance, ledger>>

Tx(u, d, st) == [user |-> u, delta |-> d, status |-> st]

-----------------------------------------------------------------------------
(* Derived amounts *)

RowsOf(u, sts) == {k \in LedgerKeys : ledger[k].user = u /\ ledger[k].status \in sts}
TotalOf(table, keys) == MapThenSumSet(LAMBDA k : table[k].delta, keys)
SumOf(keys)    == TotalOf(ledger, keys)

\* _sum_reserved: the pending (negative) deductions of u.
SumReserved(u) == SumOf(RowsOf(u, {"reserved"}))
Available(u)   == balance[u] + SumReserved(u)

-----------------------------------------------------------------------------
(* Operations *)

LedgerInit ==
    /\ balance = [u \in Users |-> 0]
    /\ ledger  = [k \in LedgerKeys |-> NoTx]

Reserve(u, k, a) ==
    /\ ledger[k] = NoTx
    /\ Available(u) >= a
    /\ ledger' = [ledger EXCEPT ![k] = Tx(u, -a, "reserved")]
    /\ UNCHANGED balance

CommitReservation(k) ==
    /\ ledger[k].status = "reserved"
    /\ ledger'  = [ledger EXCEPT ![k].status = "committed"]
    /\ balance' = [balance EXCEPT ![ledger[k].user] = @ + ledger[k].delta]

ReleaseReservation(k) ==
    /\ ledger[k].status = "reserved"
    /\ ledger' = [ledger EXCEPT
                    ![k].status = "released",
                    ![ReleaseKey(k)] =
                        Tx(ledger[k].user, -ledger[k].delta, "committed")]
    /\ UNCHANGED balance

\* credit_purchase, grant_subscription_credits and admin_adjust_credits post a
\* committed row and move the balance by the same amount.
Post(u, k, d) ==
    /\ ledger[k] = NoTx
    /\ ledger'  = [ledger EXCEPT ![k] = Tx(u, d, "committed")]
    /\ balance' = [balance EXCEPT ![u] = @ + d]

LedgerNext ==
    \/ \E u \in Users, k \in ReserveKeys, a \in Amounts : Reserve(u, k, a)
    \/ \E k \in ReserveKeys : CommitReservation(k) \/ ReleaseReservation(k)
    \/ \E u \in Users, k \in PurchaseKeys \cup GrantKeys, a \in Amounts : Post(u, k, a)
    \/ \E u \in Users, k \in AdminKeys, d \in Adjustments : Post(u, k, d)

LedgerSpec == LedgerInit /\ [][LedgerNext]_ledgerVars

-----------------------------------------------------------------------------
(* Properties *)

\* "Denormalized balance per user. Source of truth is CreditTransaction sum."
\* (models/billing.py, CreditWallet): the balance is the sum of the settled
\* rows.  A released reservation stays in the ledger and is cancelled by its
\* compensating row, so both must be counted and neither may touch the wallet.
LedgerBacksBalance ==
    \A u \in Users : balance[u] = SumOf(RowsOf(u, {"committed", "released"}))

\* Nobody spends credits they do not have: what is left after the open
\* reservations is negative only by what admins took away (an admin's delta
\* has no lower bound in AdminCreditAdjustment).
NoOverspend ==
    \A u \in Users :
        Available(u) >= SumOf({k \in RowsOf(u, {"committed"}) \cap AdminKeys :
                                 ledger[k].delta < 0})

\* A reservation has a compensating row exactly when it was released, and the
\* row undoes it: never one for a committed (charged) reservation.
ReleaseCompensated ==
    \A k \in ReserveKeys :
        ledger[ReleaseKey(k)] =
            IF ledger[k].status = "released"
            THEN Tx(ledger[k].user, -ledger[k].delta, "committed")
            ELSE NoTx
=============================================================================
