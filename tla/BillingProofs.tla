---------------------------- MODULE BillingProofs ----------------------------
(***************************************************************************)
(* TLAPS proofs about billing-svc: the credit wallet and the atomic ledger *)
(* it implements (CreditWallet, CreditLedger), for any users, keys,        *)
(* amounts and any number of concurrent sessions, and the mirror of the    *)
(* stores' subscriptions (SubscriptionSync), for any subscriptions and any *)
(* number of concurrent webhook requests.                                  *)
(***************************************************************************)
EXTENDS CreditWallet, SubscriptionSync, FiniteSetTheorems, SequenceTheorems, TLAPS

-----------------------------------------------------------------------------
(* Sums over finite sets of ledger rows *)

Pick(s) == CHOOSE x \in s : TRUE
Runs(table, S, g) ==
    g = [s \in SUBSET S |-> IF s = {} THEN 0 ELSE table[Pick(s)].delta + g[s \ {Pick(s)}]]

\* The sum of MapThenSumSet is the last value of a run over the subsets of S.
LEMMA TotalIsRun ==
    ASSUME NEW table, NEW S
    PROVE  TotalOf(table, S) = (CHOOSE g : Runs(table, S, g))[S]
  BY DEF TotalOf, MapThenSumSet, MapThenFoldSet, Runs, Pick

\* Induction over the subsets of a finite set, without an operator parameter:
\* of the ones a statement fails for, one is minimal.
LEMMA MinimalSubset ==
    ASSUME NEW S, IsFiniteSet(S), NEW Bad \in SUBSET (SUBSET S), Bad # {}
    PROVE  \E T \in Bad : \A U \in SUBSET T : U # T => U \notin Bad
  <1>1. Bad \subseteq FiniteSubsetsOf(S)
    BY FS_FiniteSubsetsOfFinite
  <1>2. PICK T \in Bad : \A U \in Bad : <<U, T>> \notin StrictSubsetOrdering(S)
    BY <1>1, FS_StrictSubsetOrderingWellFounded, WFMin
  <1>3. ASSUME NEW U \in SUBSET T, U # T PROVE U \notin Bad
    BY <1>2, <1>3 DEF StrictSubsetOrdering
  <1> QED
    BY <1>2, <1>3

\* The element that a run takes next is one of the set.
LEMMA PickIsIn == ASSUME NEW s, s # {} PROVE Pick(s) \in s
  BY DEF Pick

\* Two runs agree on the finite sets that both are defined on.
LEMMA RunsAgree ==
    ASSUME NEW table, NEW S, NEW g, Runs(table, S, g), NEW T, NEW h, Runs(table, T, h),
           NEW U, IsFiniteSet(U), U \subseteq S, U \subseteq T
    PROVE  g[U] = h[U]
  <1> DEFINE Fails == {V \in SUBSET U : g[V] # h[V]}
  <1>0. PICK Bad : Bad = Fails
    OBVIOUS
  <1>1. SUFFICES ASSUME Bad # {} PROVE FALSE
    BY <1>0
  <1>a. Bad \in SUBSET (SUBSET U)
    BY <1>0
  <1>b. PICK V \in Bad : \A W \in SUBSET V : W # V => W \notin Bad
    BY <1>1, <1>a, MinimalSubset
  <1>c. V \in SUBSET U /\ g[V] # h[V]
    BY <1>0
  <1>2. ASSUME NEW W \in SUBSET V, W # V PROVE g[W] = h[W]
    BY <1>0, <1>b, <1>c, <1>2
  <1>3. V \in SUBSET S /\ V \in SUBSET T
    BY <1>c
  <1>4. CASE V = {}
    <2>1. g[V] = 0 /\ h[V] = 0
      BY <1>3, <1>4 DEF Runs
    <2> QED
      BY <1>c, <2>1
  <1>5. CASE V # {}
    <2>1. PICK x : x = Pick(V)
      OBVIOUS
    <2>2. V \ {x} \in SUBSET V /\ V \ {x} # V
      BY <1>5, <2>1, PickIsIn
    <2>3. g[V \ {x}] = h[V \ {x}]
      BY <1>2, <2>2
    <2>4. g[V] = table[x].delta + g[V \ {x}]
      BY <1>3, <1>5, <2>1 DEF Runs
    <2>5. h[V] = table[x].delta + h[V \ {x}]
      BY <1>3, <1>5, <2>1 DEF Runs
    <2> QED
      BY <1>c, <2>3, <2>4, <2>5
  <1> QED
    BY <1>4, <1>5

\* There is a run over the subsets of every finite set.
LEMMA RunExists ==
    ASSUME NEW table, NEW S, IsFiniteSet(S)
    PROVE  \E g : Runs(table, S, g)
  <1> DEFINE Fails == {V \in SUBSET S : ~ \E g : Runs(table, V, g)}
  <1>0. PICK Bad : Bad = Fails
    OBVIOUS
  <1>1. SUFFICES ASSUME Bad # {} PROVE FALSE
    BY <1>0
  <1>a. Bad \in SUBSET (SUBSET S)
    BY <1>0
  <1>b. PICK V \in Bad : \A W \in SUBSET V : W # V => W \notin Bad
    BY <1>1, <1>a, MinimalSubset
  <1>c. V \in SUBSET S /\ ~ \E g : Runs(table, V, g)
    BY <1>0
  <1>2. ASSUME NEW W \in SUBSET V, W # V PROVE \E g : Runs(table, W, g)
    BY <1>0, <1>b, <1>c, <1>2
  <1>3. PICK part : part = [W \in SUBSET V |-> CHOOSE g : Runs(table, W, g)]
    OBVIOUS
  <1>4. ASSUME NEW W \in SUBSET V, W # V PROVE Runs(table, W, part[W])
    <2>1. \E g : Runs(table, W, g)
      BY <1>2, <1>4
    <2> QED
      BY <1>3, <2>1
  <1>5. PICK g : g = [s \in SUBSET V |-> IF s = {} THEN 0
                         ELSE table[Pick(s)].delta + part[s \ {Pick(s)}][s \ {Pick(s)}]]
    OBVIOUS
  <1>6. ASSUME NEW s \in SUBSET V, s # {}
        PROVE  g[s \ {Pick(s)}] = part[s \ {Pick(s)}][s \ {Pick(s)}]
    <2>1. PICK t : t = s \ {Pick(s)}
      OBVIOUS
    <2>2. t \in SUBSET V /\ t # V
      BY <1>6, <2>1, PickIsIn
    <2>3. Runs(table, t, part[t])
      BY <1>4, <2>2
    <2>4. CASE t = {}
      <3>1. part[t][t] = 0
        BY <2>3, <2>4 DEF Runs
      <3>2. g[t] = 0
        BY <1>5, <2>2, <2>4
      <3> QED
        BY <2>1, <3>1, <3>2
    <2>5. CASE t # {}
      <3>1. PICK u : u = t \ {Pick(t)}
        OBVIOUS
      <3>2. u \in SUBSET t /\ u \in SUBSET V /\ u # V
        BY <2>2, <2>5, <3>1, PickIsIn
      <3>3. Runs(table, u, part[u])
        BY <1>4, <3>2
      <3>4. IsFiniteSet(u)
        BY <1>c, <3>2, FS_Subset
      <3>5. part[u][u] = part[t][u]
        BY <2>3, <3>2, <3>3, <3>4, RunsAgree
      <3>6. g[t] = table[Pick(t)].delta + part[u][u]
        BY <1>5, <2>2, <2>5, <3>1
      <3>7. part[t][t] = table[Pick(t)].delta + part[t][u]
        BY <2>3, <2>5, <3>1 DEF Runs
      <3> QED
        BY <2>1, <3>5, <3>6, <3>7
    <2> QED
      BY <2>4, <2>5
  <1>7. Runs(table, V, g)
    BY <1>5, <1>6 DEF Runs
  <1> QED
    BY <1>c, <1>7

\* The sum over no rows.
LEMMA TotalEmpty == ASSUME NEW table PROVE TotalOf(table, {}) = 0
  <1>1. IsFiniteSet({})
    BY FS_EmptySet
  <1>2. Runs(table, {}, CHOOSE g : Runs(table, {}, g))
    BY <1>1, RunExists
  <1> QED
    BY <1>2, TotalIsRun DEF Runs

\* The sum over a set of rows, one of them taken out.
LEMMA TotalPicked ==
    ASSUME NEW table, NEW S, IsFiniteSet(S), S # {}
    PROVE  TotalOf(table, S) = table[Pick(S)].delta + TotalOf(table, S \ {Pick(S)})
  <1>1. PICK T : T = S \ {Pick(S)}
    OBVIOUS
  <1>2. PICK g : g = CHOOSE f : Runs(table, S, f)
    OBVIOUS
  <1>3. PICK h : h = CHOOSE f : Runs(table, T, f)
    OBVIOUS
  <1>4. IsFiniteSet(T) /\ T \in SUBSET S
    BY <1>1, FS_Subset
  <1>5. Runs(table, S, g)
    BY <1>2, RunExists
  <1>6. Runs(table, T, h)
    BY <1>3, <1>4, RunExists
  <1>7. g[T] = h[T]
    BY <1>4, <1>5, <1>6, RunsAgree
  <1>8. g[S] = table[Pick(S)].delta + g[T]
    BY <1>1, <1>5 DEF Runs
  <1> QED
    BY <1>1, <1>2, <1>3, <1>7, <1>8, TotalIsRun

Ints(table, S) == \A k \in S : table[k].delta \in Int

\* The sum of integer amounts is an integer.
LEMMA TotalType ==
    ASSUME NEW table, NEW S, IsFiniteSet(S), Ints(table, S)
    PROVE  TotalOf(table, S) \in Int
  <1> DEFINE Fails == {V \in SUBSET S : TotalOf(table, V) \notin Int}
  <1>0. PICK Bad : Bad = Fails
    OBVIOUS
  <1>1. SUFFICES ASSUME Bad # {} PROVE FALSE
    BY <1>0
  <1>a. Bad \in SUBSET (SUBSET S)
    BY <1>0
  <1>b. PICK V \in Bad : \A W \in SUBSET V : W # V => W \notin Bad
    BY <1>1, <1>a, MinimalSubset
  <1>c. V \in SUBSET S /\ TotalOf(table, V) \notin Int
    BY <1>0
  <1>2. ASSUME NEW W \in SUBSET V, W # V PROVE TotalOf(table, W) \in Int
    BY <1>0, <1>b, <1>c, <1>2
  <1>3. V # {}
    BY <1>c, TotalEmpty
  <1>4. Pick(V) \in V /\ V \ {Pick(V)} \in SUBSET V /\ V \ {Pick(V)} # V
    BY <1>3, PickIsIn
  <1>5. TotalOf(table, V \ {Pick(V)}) \in Int
    BY <1>2, <1>4
  <1>6. TotalOf(table, V) = table[Pick(V)].delta + TotalOf(table, V \ {Pick(V)})
    BY <1>3, <1>c, FS_Subset, TotalPicked
  <1>7. table[Pick(V)].delta \in Int
    BY <1>4, <1>c DEF Ints
  <1> QED
    BY <1>5, <1>6, <1>7, <1>c

\* In whatever order the keys are picked, any one of them may come first.
LEMMA TotalSplit ==
    ASSUME NEW table, NEW S, IsFiniteSet(S), Ints(table, S), NEW k \in S
    PROVE  TotalOf(table, S) = table[k].delta + TotalOf(table, S \ {k})
  <1> DEFINE Splits(V) == \A x \in V : TotalOf(table, V) = table[x].delta + TotalOf(table, V \ {x})
  <1> DEFINE Fails == {V \in SUBSET S : ~Splits(V)}
  <1>0. PICK Bad : Bad = Fails
    OBVIOUS
  <1>1. SUFFICES ASSUME Bad # {} PROVE FALSE
    BY <1>0
  <1>a. Bad \in SUBSET (SUBSET S)
    BY <1>0
  <1>b. PICK V \in Bad : \A W \in SUBSET V : W # V => W \notin Bad
    BY <1>1, <1>a, MinimalSubset
  <1>c. V \in SUBSET S /\ ~Splits(V)
    BY <1>0
  <1>2. ASSUME NEW W \in SUBSET V, W # V PROVE Splits(W)
    BY <1>0, <1>b, <1>c, <1>2
  <1>3. PICK x \in V : TotalOf(table, V) # table[x].delta + TotalOf(table, V \ {x})
    BY <1>c
  <1>4. PICK y : y = Pick(V)
    OBVIOUS
  <1>5. y \in V /\ IsFiniteSet(V)
    BY <1>3, <1>4, <1>c, PickIsIn, FS_Subset
  <1>6. TotalOf(table, V) = table[y].delta + TotalOf(table, V \ {y})
    BY <1>4, <1>5, TotalPicked
  <1>7. x # y
    BY <1>3, <1>6
  <1>8. PICK A : A = V \ {y}
    OBVIOUS
  <1>9. PICK B : B = V \ {x}
    OBVIOUS
  <1>10. PICK C : C = (V \ {y}) \ {x}
    OBVIOUS
  <1>11. /\ A \in SUBSET V /\ A # V /\ A \in SUBSET S /\ x \in A /\ A \ {x} = C
         /\ B \in SUBSET V /\ B # V /\ B \in SUBSET S /\ y \in B /\ B \ {y} = C
         /\ C \in SUBSET S
    BY <1>5, <1>7, <1>8, <1>9, <1>10, <1>c
  <1>12. Splits(A) /\ Splits(B)
    BY <1>2, <1>11
  <1>13. TotalOf(table, A) = table[x].delta + TotalOf(table, C)
    BY <1>11, <1>12
  <1>14. TotalOf(table, B) = table[y].delta + TotalOf(table, C)
    BY <1>11, <1>12
  <1>15. table[x].delta \in Int /\ table[y].delta \in Int /\ TotalOf(table, C) \in Int
    <2>1. IsFiniteSet(C) /\ Ints(table, C)
      BY <1>11, FS_Subset DEF Ints
    <2> QED
      BY <1>5, <1>c, <2>1, TotalType DEF Ints
  <1> QED
    BY <1>3, <1>6, <1>8, <1>9, <1>13, <1>14, <1>15

\* The total depends on the amounts of the keys it ranges over, and no more.
LEMMA TotalSame ==
    ASSUME NEW table, NEW new, NEW S, IsFiniteSet(S), \A k \in S : new[k].delta = table[k].delta
    PROVE  TotalOf(new, S) = TotalOf(table, S)
  <1> DEFINE Fails == {V \in SUBSET S : TotalOf(new, V) # TotalOf(table, V)}
  <1>0. PICK Bad : Bad = Fails
    OBVIOUS
  <1>1. SUFFICES ASSUME Bad # {} PROVE FALSE
    BY <1>0
  <1>a. Bad \in SUBSET (SUBSET S)
    BY <1>0
  <1>b. PICK V \in Bad : \A W \in SUBSET V : W # V => W \notin Bad
    BY <1>1, <1>a, MinimalSubset
  <1>c. V \in SUBSET S /\ TotalOf(new, V) # TotalOf(table, V)
    BY <1>0
  <1>2. ASSUME NEW W \in SUBSET V, W # V PROVE TotalOf(new, W) = TotalOf(table, W)
    BY <1>0, <1>b, <1>c, <1>2
  <1>3. V # {}
    BY <1>c, TotalEmpty
  <1>4. PICK x : x = Pick(V)
    OBVIOUS
  <1>5. x \in V /\ IsFiniteSet(V) /\ V \ {x} \in SUBSET V /\ V \ {x} # V
    BY <1>3, <1>4, <1>c, PickIsIn, FS_Subset
  <1>6. TotalOf(new, V \ {x}) = TotalOf(table, V \ {x})
    BY <1>2, <1>5
  <1>7. TotalOf(new, V) = new[x].delta + TotalOf(new, V \ {x})
    BY <1>3, <1>4, <1>5, TotalPicked
  <1>8. TotalOf(table, V) = table[x].delta + TotalOf(table, V \ {x})
    BY <1>3, <1>4, <1>5, TotalPicked
  <1>9. new[x].delta = table[x].delta
    BY <1>5, <1>c
  <1> QED
    BY <1>6, <1>7, <1>8, <1>9, <1>c

\* What one key adds to the total over a set.
Weight(table, k, S) == IF k \in S THEN table[k].delta ELSE 0

\* A total changes with one row exactly by what that row counts before and after.
LEMMA TotalChanged ==
    ASSUME NEW old, NEW new, NEW S, NEW T, NEW k, IsFiniteSet(S), S \ {k} = T \ {k},
           Ints(old, S), Ints(new, T), \A j \in S \ {k} : new[j].delta = old[j].delta
    PROVE  /\ TotalOf(old, S) \in Int /\ TotalOf(new, T) \in Int
           /\ TotalOf(new, T) - Weight(new, k, T) = TotalOf(old, S) - Weight(old, k, S)
  <1>1. PICK R : R = S \ {k}
    OBVIOUS
  <1>2. IsFiniteSet(R) /\ IsFiniteSet(T)
    <2>1. T \subseteq S \cup {k}
      OBVIOUS
    <2> QED
      BY <1>1, <2>1, FS_Subset, FS_AddElement
  <1>3. TotalOf(new, R) = TotalOf(old, R)
    BY <1>1, <1>2, TotalSame
  <1>4. TotalOf(old, S) \in Int /\ TotalOf(new, T) \in Int
    BY <1>2, TotalType
  <1>5. Ints(old, R)
    BY <1>1 DEF Ints
  <1>6. TotalOf(old, R) \in Int
    BY <1>2, <1>5, TotalType
  <1>7. TotalOf(old, S) = Weight(old, k, S) + TotalOf(old, R)
    <2>1. CASE k \in S
      BY <1>1, <2>1, TotalSplit DEF Weight
    <2>2. CASE k \notin S
      <3>1. R = S
        BY <1>1, <2>2
      <3> QED
        BY <1>4, <2>2, <3>1 DEF Weight
    <2> QED
      BY <2>1, <2>2
  <1>8. TotalOf(new, T) = Weight(new, k, T) + TotalOf(new, R)
    <2>1. CASE k \in T
      BY <1>1, <1>2, <2>1, TotalSplit DEF Weight
    <2>2. CASE k \notin T
      <3>1. R = T
        BY <1>1, <2>2
      <3> QED
        BY <1>4, <2>2, <3>1 DEF Weight
    <2> QED
      BY <2>1, <2>2
  <1>9. Weight(old, k, S) \in Int /\ Weight(new, k, T) \in Int
    BY DEF Ints, Weight
  <1> QED
    BY <1>3, <1>4, <1>6, <1>7, <1>8, <1>9

\* Rows that only take credits away add up to no credits.
LEMMA TotalNotPositive ==
    ASSUME NEW table, NEW S, IsFiniteSet(S), Ints(table, S), \A k \in S : table[k].delta <= 0
    PROVE  TotalOf(table, S) <= 0
  <1> DEFINE Fails == {V \in SUBSET S : ~ (TotalOf(table, V) <= 0)}
  <1>0. PICK Bad : Bad = Fails
    OBVIOUS
  <1>1. SUFFICES ASSUME Bad # {} PROVE FALSE
    BY <1>0
  <1>a. Bad \in SUBSET (SUBSET S)
    BY <1>0
  <1>b. PICK V \in Bad : \A W \in SUBSET V : W # V => W \notin Bad
    BY <1>1, <1>a, MinimalSubset
  <1>c. V \in SUBSET S /\ ~ (TotalOf(table, V) <= 0)
    BY <1>0
  <1>2. V # {}
    BY <1>c, TotalEmpty
  <1>3. PICK x : x = Pick(V)
    OBVIOUS
  <1>4. PICK W : W = V \ {x}
    OBVIOUS
  <1>5. x \in V /\ W \in SUBSET V /\ W # V /\ W \in SUBSET S /\ IsFiniteSet(W) /\ IsFiniteSet(V)
    BY <1>2, <1>3, <1>4, <1>c, PickIsIn, FS_Subset
  <1>6. TotalOf(table, W) <= 0
    BY <1>0, <1>b, <1>5
  <1>7. TotalOf(table, V) = table[x].delta + TotalOf(table, W)
    BY <1>2, <1>3, <1>4, <1>5, TotalPicked
  <1>8. table[x].delta \in Int /\ table[x].delta <= 0
    BY <1>5, <1>c DEF Ints
  <1>9. Ints(table, W)
    BY <1>5 DEF Ints
  <1>10. TotalOf(table, W) \in Int
    BY <1>5, <1>9, TotalType
  <1> QED
    BY <1>6, <1>7, <1>8, <1>10, <1>c

-----------------------------------------------------------------------------
(* The wallet: what the inductive invariant says *)

PostingKeys == PurchaseKeys \cup GrantKeys \cup AdminKeys

\* What a session at each location is serving.
RequestShape ==
    \A s \in Sessions :
        /\ pc[s] # "idle" => req[s].op # "none"
        /\ pc[s] \in {"wallet", "create", "sum", "write"} => req[s].user \in Users
        /\ pc[s] = "tx" => req[s].op \in {"commit", "release"}
        /\ pc[s] = "sum" => req[s].op = "reserve"
        /\ pc[s] \in {"wallet", "create", "sum"} => req[s].op # "release"
        /\ req[s].op \in {"reserve", "commit", "release"} => req[s].key \in ReserveKeys
        /\ req[s].op \in Posting => req[s].key \in PostingKeys

\* A session that will write a wallet back, or judge it, holds its row lock.
HoldsWallet ==
    \A s \in Sessions :
        pc[s] = "sum" \/ (pc[s] = "write" /\ req[s].op # "release")
            => walletLock[req[s].user] = s

\* A session past its SELECT of a reservation holds the row lock, and its copy
\* of the row is the row.
HoldsReservation ==
    \A s \in Sessions :
        pc[s] \in {"wallet", "create", "sum", "write"} /\ req[s].op \in {"commit", "release"}
            => /\ txLock[req[s].key] = s
               /\ ledger[req[s].key] = Tx(req[s].user, req[s].delta, "reserved")

\* Rows have owners, and only reservations are ever open.
RowShape ==
    \A k \in LedgerKeys :
        /\ ledger[k].status = "none" <=> ledger[k] = NoTx
        /\ ledger[k] # NoTx => ledger[k].user \in Users
        /\ ledger[k].status \in {"reserved", "released"} => k \in ReserveKeys

\* A wallet row that does not exist yet would be created with the balance the
\* ledger already backs: none.
MissingWalletIsEmpty == \A u \in Users \ wallets : balance[u] = 0

IInv ==
    /\ TypeOK
    /\ RequestShape
    /\ HoldsWallet
    /\ HoldsReservation
    /\ RowShape
    /\ MissingWalletIsEmpty
    /\ SeenIsCurrent
    /\ ReleaseCompensated

USE SessionAssumption, NoUserAssumption, NoKeyAssumption

-----------------------------------------------------------------------------
(* The key spaces *)

\* The compensating key of a reservation ("release:<id>") is a ledger key of
\* its own, different for different reservations and from every caller's key.
LEMMA KeyFacts ==
    /\ ReserveKeys \subseteq LedgerKeys
    /\ PostingKeys \subseteq LedgerKeys
    /\ ReserveKeys \cap PostingKeys = {}
    /\ \A k \in ReserveKeys : /\ ReleaseKey(k) \in LedgerKeys
                              /\ ReleaseKey(k) \notin ReserveKeys
                              /\ ReleaseKey(k) \notin PostingKeys
    /\ \A j, k \in ReserveKeys : ReleaseKey(j) = ReleaseKey(k) => j = k
  <1>1. \A k \in ReserveKeys : ReleaseKey(k) \in ReleaseKeys
    BY DEF ReleaseKeys
  <1>2. \A j, k \in ReserveKeys : ReleaseKey(j) = ReleaseKey(k) => j = k
    BY DEF ReleaseKey
  <1> QED
    BY <1>1, <1>2, KeyAssumption DEF LedgerKeys, PostingKeys

\* A free row is not a row, and the row constructors stay in Transactions.
LEMMA TxFacts ==
    /\ NoTx \in Transactions
    /\ NoTx.status = "none"
    /\ \A u \in Users, d \in Int, st \in Statuses :
         /\ Tx(u, d, st) \in Transactions
         /\ Tx(u, d, st).status = st
         /\ Tx(u, d, st).user = u
         /\ Tx(u, d, st).delta = d
         /\ Tx(u, d, st) # NoTx
  BY DEF NoTx, Tx, Transactions, Statuses

-----------------------------------------------------------------------------
(* What one row counts for *)

MadeIn(table) == {k \in LedgerKeys : table[k] # NoTx}

Owned(table, v, sts) == {k \in LedgerKeys : table[k].user = v /\ table[k].status \in sts}
Takes(k, row, v)     == /\ row.user = v /\ row.status = "committed"
                        /\ k \in AdminKeys /\ row.delta < 0
Taken(table, v)      == {k \in LedgerKeys : Takes(k, table[k], v)}

Counts(row, v, sts)    == IF row.user = v /\ row.status \in sts THEN row.delta ELSE 0
CountsTaken(k, row, v) == IF Takes(k, row, v) THEN row.delta ELSE 0

\* Rows of a user are rows that were made, and their amounts are numbers.
LEMMA OwnedFacts ==
    ASSUME NEW table \in [LedgerKeys -> Transactions], IsFiniteSet(MadeIn(table)),
           NEW v \in Users
    PROVE  /\ \A sts : /\ IsFiniteSet(Owned(table, v, sts)) /\ Ints(table, Owned(table, v, sts))
           /\ IsFiniteSet(Taken(table, v)) /\ Ints(table, Taken(table, v))
  <1>1. \A k \in LedgerKeys : table[k].user = v => table[k] # NoTx /\ table[k].delta \in Int
    BY TxFacts DEF NoTx, Transactions
  <1>2. ASSUME NEW sts PROVE Owned(table, v, sts) \subseteq MadeIn(table) /\ Ints(table, Owned(table, v, sts))
    BY <1>1 DEF Owned, MadeIn, Ints
  <1>3. Taken(table, v) \subseteq MadeIn(table) /\ Ints(table, Taken(table, v))
    BY <1>1 DEF Taken, Takes, MadeIn, Ints
  <1> QED
    BY <1>2, <1>3, FS_Subset

\* Writing one row moves every sum by what the row counts for.
LEMMA OneRow ==
    ASSUME NEW old \in [LedgerKeys -> Transactions], NEW new \in [LedgerKeys -> Transactions],
           NEW k \in LedgerKeys, \A j \in LedgerKeys \ {k} : new[j] = old[j],
           IsFiniteSet(MadeIn(old))
    PROVE  /\ IsFiniteSet(MadeIn(new))
           /\ \A v \in Users : \A sts :
                /\ TotalOf(old, Owned(old, v, sts)) \in Int /\ TotalOf(new, Owned(new, v, sts)) \in Int
                /\ TotalOf(new, Owned(new, v, sts)) - Counts(new[k], v, sts)
                     = TotalOf(old, Owned(old, v, sts)) - Counts(old[k], v, sts)
           /\ \A v \in Users :
                /\ TotalOf(old, Taken(old, v)) \in Int /\ TotalOf(new, Taken(new, v)) \in Int
                /\ TotalOf(new, Taken(new, v)) - CountsTaken(k, new[k], v)
                     = TotalOf(old, Taken(old, v)) - CountsTaken(k, old[k], v)
  <1>1. IsFiniteSet(MadeIn(new))
    <2>1. MadeIn(new) \subseteq MadeIn(old) \cup {k}
      BY DEF MadeIn
    <2> QED
      BY <2>1, FS_Subset, FS_AddElement
  <1>2. ASSUME NEW v \in Users, NEW sts
        PROVE  /\ TotalOf(old, Owned(old, v, sts)) \in Int /\ TotalOf(new, Owned(new, v, sts)) \in Int
               /\ TotalOf(new, Owned(new, v, sts)) - Counts(new[k], v, sts)
                    = TotalOf(old, Owned(old, v, sts)) - Counts(old[k], v, sts)
    <2>1. PICK S : S = Owned(old, v, sts)
      OBVIOUS
    <2>2. PICK T : T = Owned(new, v, sts)
      OBVIOUS
    <2>3. IsFiniteSet(S) /\ Ints(old, S) /\ Ints(new, T)
      BY <1>1, <2>1, <2>2, OwnedFacts
    <2>4. /\ S \ {k} = T \ {k} /\ \A j \in S \ {k} : new[j].delta = old[j].delta
      BY <2>1, <2>2 DEF Owned
    <2>5. /\ Counts(new[k], v, sts) = Weight(new, k, T)
          /\ Counts(old[k], v, sts) = Weight(old, k, S)
      BY <2>1, <2>2 DEF Owned, Counts, Weight
    <2>6. TotalOf(old, S) \in Int /\ TotalOf(new, T) \in Int
      BY <2>3, <2>4, TotalChanged
    <2>7. TotalOf(new, T) - Weight(new, k, T) = TotalOf(old, S) - Weight(old, k, S)
      BY <2>3, <2>4, TotalChanged
    <2> QED
      BY <2>1, <2>2, <2>5, <2>6, <2>7
  <1>3. ASSUME NEW v \in Users
        PROVE  /\ TotalOf(old, Taken(old, v)) \in Int /\ TotalOf(new, Taken(new, v)) \in Int
               /\ TotalOf(new, Taken(new, v)) - CountsTaken(k, new[k], v)
                    = TotalOf(old, Taken(old, v)) - CountsTaken(k, old[k], v)
    <2>1. PICK S : S = Taken(old, v)
      OBVIOUS
    <2>2. PICK T : T = Taken(new, v)
      OBVIOUS
    <2>3. IsFiniteSet(S) /\ Ints(old, S) /\ Ints(new, T)
      BY <1>1, <2>1, <2>2, OwnedFacts
    <2>4. /\ S \ {k} = T \ {k} /\ \A j \in S \ {k} : new[j].delta = old[j].delta
      BY <2>1, <2>2 DEF Taken
    <2>5. /\ CountsTaken(k, new[k], v) = Weight(new, k, T)
          /\ CountsTaken(k, old[k], v) = Weight(old, k, S)
      BY <2>1, <2>2 DEF Taken, CountsTaken, Weight
    <2>6. TotalOf(old, S) \in Int /\ TotalOf(new, T) \in Int
      BY <2>3, <2>4, TotalChanged
    <2>7. TotalOf(new, T) - Weight(new, k, T) = TotalOf(old, S) - Weight(old, k, S)
      BY <2>3, <2>4, TotalChanged
    <2> QED
      BY <2>1, <2>2, <2>5, <2>6, <2>7
  <1> QED
    BY <1>1, <1>2, <1>3

SettledSum(table, v) == TotalOf(table, Owned(table, v, {"committed", "released"}))
OpenSum(table, v)    == TotalOf(table, Owned(table, v, {"reserved"}))
TakenSum(table, v)   == TotalOf(table, Taken(table, v))

SettledPart(row, v)  == Counts(row, v, {"committed", "released"})
OpenPart(row, v)     == Counts(row, v, {"reserved"})

\* The properties of the ledger in terms of those sums, before and after a step.
LEMMA SumsOfLedger ==
    /\ \A v \in Users : Available(v) = balance[v] + OpenSum(ledger, v)
    /\ \A v \in Users : Available(v)' = balance'[v] + OpenSum(ledger', v)
    /\ LedgerBacksBalance = \A v \in Users : balance[v] = SettledSum(ledger, v)
    /\ LedgerBacksBalance' = \A v \in Users : balance'[v] = SettledSum(ledger', v)
    /\ NoOverspend = \A v \in Users : Available(v) >= TakenSum(ledger, v)
    /\ NoOverspend' = \A v \in Users : Available(v)' >= TakenSum(ledger', v)
  <1>1. \A v, sts : /\ RowsOf(v, sts) = Owned(ledger, v, sts)
                    /\ RowsOf(v, sts)' = Owned(ledger', v, sts)
    BY DEF RowsOf, Owned
  <1>2. \A v : /\ {k \in RowsOf(v, {"committed"}) \cap AdminKeys : ledger[k].delta < 0}
                    = Taken(ledger, v)
               /\ {k \in RowsOf(v, {"committed"}) \cap AdminKeys : ledger[k].delta < 0}'
                    = Taken(ledger', v)
    BY DEF RowsOf, Taken, Takes
  <1> QED
    BY <1>1, <1>2 DEF SumOf, SumReserved, Available, LedgerBacksBalance, NoOverspend,
                      SettledSum, OpenSum, TakenSum

\* A sum that counted one row as "out" counts it as "in".
Moves(before, after, out, in) == after - in = before - out

\* Writing one row moves every sum of the ledger by what the row counts for.
LEMMA LedgerSums ==
    ASSUME NEW old \in [LedgerKeys -> Transactions], NEW new \in [LedgerKeys -> Transactions],
           NEW k \in LedgerKeys, \A j \in LedgerKeys \ {k} : new[j] = old[j],
           IsFiniteSet(MadeIn(old)), NEW v \in Users
    PROVE  /\ IsFiniteSet(MadeIn(new))
           /\ SettledSum(old, v) \in Int /\ SettledSum(new, v) \in Int
           /\ OpenSum(old, v) \in Int /\ OpenSum(new, v) \in Int
           /\ TakenSum(old, v) \in Int /\ TakenSum(new, v) \in Int
           /\ Moves(SettledSum(old, v), SettledSum(new, v), SettledPart(old[k], v), SettledPart(new[k], v))
           /\ Moves(OpenSum(old, v), OpenSum(new, v), OpenPart(old[k], v), OpenPart(new[k], v))
           /\ Moves(TakenSum(old, v), TakenSum(new, v), CountsTaken(k, old[k], v), CountsTaken(k, new[k], v))
  BY OneRow DEF Moves, SettledSum, OpenSum, TakenSum, SettledPart, OpenPart

\* What a row counts for, by its status.
LEMMA PartFacts ==
    ASSUME NEW k \in LedgerKeys, NEW v \in Users
    PROVE  /\ SettledPart(NoTx, v) = 0 /\ OpenPart(NoTx, v) = 0 /\ CountsTaken(k, NoTx, v) = 0
           /\ \A u \in Users, d \in Int :
                /\ SettledPart(Tx(u, d, "reserved"), v) = 0
                /\ OpenPart(Tx(u, d, "reserved"), v) = IF u = v THEN d ELSE 0
                /\ CountsTaken(k, Tx(u, d, "reserved"), v) = 0
                /\ SettledPart(Tx(u, d, "released"), v) = IF u = v THEN d ELSE 0
                /\ OpenPart(Tx(u, d, "released"), v) = 0
                /\ CountsTaken(k, Tx(u, d, "released"), v) = 0
                /\ SettledPart(Tx(u, d, "committed"), v) = IF u = v THEN d ELSE 0
                /\ OpenPart(Tx(u, d, "committed"), v) = 0
                /\ CountsTaken(k, Tx(u, d, "committed"), v)
                     = IF u = v /\ k \in AdminKeys /\ d < 0 THEN d ELSE 0
  BY DEF SettledPart, OpenPart, CountsTaken, Counts, Takes, NoTx, Tx

-----------------------------------------------------------------------------
(* The atomic ledger *)

LedgerTypeOK == /\ balance \in [Users -> Int]
                /\ ledger \in [LedgerKeys -> Transactions]

\* An open reservation holds back a positive amount.
OpenAreDeductions == \A k \in LedgerKeys : ledger[k].status = "reserved" => ledger[k].delta < 0

RowsAreFinite == IsFiniteSet(MadeIn(ledger))

LedgerInv ==
    /\ LedgerTypeOK
    /\ RowShape
    /\ ReleaseCompensated
    /\ OpenAreDeductions
    /\ RowsAreFinite
    /\ LedgerBacksBalance
    /\ NoOverspend

\* The empty ledger.
LEMMA LedgerInitInv == LedgerInit => LedgerInv
  <1> SUFFICES ASSUME LedgerInit PROVE LedgerInv
    OBVIOUS
  <1> USE DEF LedgerInit
  <1>1. LedgerTypeOK /\ RowShape
    BY TxFacts DEF LedgerTypeOK, RowShape
  <1>2. ReleaseCompensated
    BY KeyFacts, TxFacts DEF ReleaseCompensated
  <1>3. OpenAreDeductions
    BY TxFacts DEF OpenAreDeductions
  <1>4. MadeIn(ledger) = {}
    BY DEF MadeIn
  <1>5. RowsAreFinite
    BY <1>4, FS_EmptySet DEF RowsAreFinite
  <1>6. ASSUME NEW v \in Users
        PROVE  SettledSum(ledger, v) = 0 /\ OpenSum(ledger, v) = 0 /\ TakenSum(ledger, v) = 0
    <2>1. \A k \in LedgerKeys : ledger[k] = NoTx
      OBVIOUS
    <2>2. \A sts : Owned(ledger, v, sts) = {}
      BY <2>1 DEF Owned, NoTx
    <2>3. Taken(ledger, v) = {}
      BY <2>1 DEF Taken, Takes, NoTx
    <2> QED
      BY <2>2, <2>3, TotalEmpty DEF SettledSum, OpenSum, TakenSum
  <1>7. LedgerBacksBalance
    BY <1>6, SumsOfLedger
  <1>8. NoOverspend
    <2>1. \A v \in Users : Available(v) = 0 /\ TakenSum(ledger, v) = 0
      BY <1>6, SumsOfLedger
    <2> QED
      BY <2>1, SumsOfLedger
  <1> QED
    BY <1>1, <1>2, <1>3, <1>5, <1>7, <1>8 DEF LedgerInv

\* What admins took away is not positive.
LEMMA TakenNotPositive ==
    ASSUME NEW table \in [LedgerKeys -> Transactions], IsFiniteSet(MadeIn(table)),
           NEW v \in Users
    PROVE  TakenSum(table, v) \in Int /\ TakenSum(table, v) <= 0
  <1>1. PICK S : S = Taken(table, v)
    OBVIOUS
  <1>2. IsFiniteSet(S) /\ Ints(table, S)
    BY <1>1, OwnedFacts
  <1>3. \A k \in S : table[k].delta <= 0
    <2> SUFFICES ASSUME NEW k \in S PROVE table[k].delta <= 0
      OBVIOUS
    <2>1. table[k].delta \in Int /\ table[k].delta < 0
      BY <1>1, <1>2 DEF Taken, Takes, Ints
    <2> QED
      BY <2>1
  <1> QED
    BY <1>1, <1>2, <1>3, TotalNotPositive, TotalType DEF TakenSum

\* reserve_credits: the new row holds back no more than was available.
LEMMA ReserveLedgerInv ==
    ASSUME LedgerInv, NEW u \in Users, NEW k \in ReserveKeys, NEW a \in Amounts, Reserve(u, k, a)
    PROVE  LedgerInv'
  <1> USE DEF LedgerInv
  <1>1. PICK row : row = Tx(u, -a, "reserved")
    OBVIOUS
  <1>2. PICK old : old = ledger
    OBVIOUS
  <1>3. PICK new : new = ledger'
    OBVIOUS
  <1>4. k \in LedgerKeys /\ k \notin AdminKeys /\ a \in Int /\ a > 0 /\ -a \in Int
    BY KeyFacts, AmountAssumption DEF PostingKeys
  <1>5. /\ old \in [LedgerKeys -> Transactions] /\ old[k] = NoTx
        /\ new = [old EXCEPT ![k] = row] /\ row \in Transactions
        /\ balance' = balance /\ balance \in [Users -> Int]
        /\ IsFiniteSet(MadeIn(old))
        /\ Available(u) >= a
    BY <1>1, <1>2, <1>3, <1>4, TxFacts DEF Reserve, LedgerTypeOK, RowsAreFinite, Statuses
  <1>6. /\ new \in [LedgerKeys -> Transactions] /\ new[k] = row
        /\ \A j \in LedgerKeys \ {k} : new[j] = old[j]
    BY <1>4, <1>5
  <1>7. LedgerTypeOK' /\ RowShape' /\ ReleaseCompensated'
    <2>1. LedgerTypeOK'
      BY <1>3, <1>5, <1>6 DEF LedgerTypeOK
    <2>2. RowShape'
      BY <1>1, <1>2, <1>3, <1>4, <1>6, TxFacts DEF RowShape, Statuses
    <2>3. ReleaseCompensated'
      BY <1>1, <1>2, <1>3, <1>4, <1>5, <1>6, KeyFacts, TxFacts DEF ReleaseCompensated, Statuses
    <2> QED
      BY <2>1, <2>2, <2>3
  <1>8. OpenAreDeductions'
    BY <1>1, <1>2, <1>3, <1>4, <1>6, TxFacts DEF OpenAreDeductions, Statuses
  <1>9. IsFiniteSet(MadeIn(new))
    BY <1>4, <1>5, <1>6, OneRow
  <1>10. ASSUME NEW v \in Users
         PROVE  /\ balance'[v] = SettledSum(ledger', v)
                /\ Available(v)' >= TakenSum(ledger', v)
    <2>1. /\ SettledSum(old, v) \in Int /\ SettledSum(new, v) \in Int
          /\ OpenSum(old, v) \in Int /\ OpenSum(new, v) \in Int
          /\ TakenSum(old, v) \in Int /\ TakenSum(new, v) \in Int
      BY <1>4, <1>5, <1>6, LedgerSums
    <2>2. /\ SettledPart(row, v) = 0 /\ SettledPart(NoTx, v) = 0
          /\ OpenPart(row, v) = (IF u = v THEN -a ELSE 0) /\ OpenPart(NoTx, v) = 0
          /\ CountsTaken(k, row, v) = 0 /\ CountsTaken(k, NoTx, v) = 0
      BY <1>1, <1>4, PartFacts
    <2>3. SettledSum(new, v) = SettledSum(old, v)
      <3>1. Moves(SettledSum(old, v), SettledSum(new, v), SettledPart(old[k], v), SettledPart(new[k], v))
        BY <1>4, <1>5, <1>6, LedgerSums
      <3> QED
        BY <2>1, <2>2, <3>1, <1>5, <1>6 DEF Moves
    <2>4. TakenSum(new, v) = TakenSum(old, v)
      <3>1. Moves(TakenSum(old, v), TakenSum(new, v), CountsTaken(k, old[k], v), CountsTaken(k, new[k], v))
        BY <1>4, <1>5, <1>6, LedgerSums
      <3> QED
        BY <2>1, <2>2, <3>1, <1>5, <1>6 DEF Moves
    <2>5. OpenSum(new, v) = OpenSum(old, v) + (IF u = v THEN -a ELSE 0)
      <3>1. Moves(OpenSum(old, v), OpenSum(new, v), OpenPart(old[k], v), OpenPart(new[k], v))
        BY <1>4, <1>5, <1>6, LedgerSums
      <3>2. OpenSum(new, v) - (IF u = v THEN -a ELSE 0) = OpenSum(old, v) - 0
        BY <2>2, <3>1, <1>5, <1>6 DEF Moves
      <3>3. CASE u = v
        BY <2>1, <3>2, <3>3, <1>4
      <3>4. CASE u # v
        BY <2>1, <3>2, <3>4
      <3> QED
        BY <3>3, <3>4
    <2>6. /\ balance[v] = SettledSum(old, v) /\ balance[v] \in Int /\ balance'[v] = balance[v]
          /\ Available(v) = balance[v] + OpenSum(old, v)
          /\ Available(v)' = balance'[v] + OpenSum(new, v)
          /\ Available(v) >= TakenSum(old, v)
      BY <1>2, <1>3, <1>5, SumsOfLedger
    <2>7. TakenSum(old, v) <= 0
      BY <1>5, TakenNotPositive
    <2>8. balance'[v] = SettledSum(ledger', v)
      BY <1>3, <2>3, <2>6
    <2>9. Available(v)' >= TakenSum(new, v)
      <3>1. CASE u = v
        <4>1. balance[v] + OpenSum(old, v) >= a
          BY <1>5, <2>6, <3>1
        <4> QED
          BY <1>4, <2>1, <2>4, <2>5, <2>6, <2>7, <3>1, <4>1
      <3>2. CASE u # v
        BY <2>1, <2>4, <2>5, <2>6, <3>2
      <3> QED
        BY <3>1, <3>2
    <2> QED
      BY <1>3, <2>8, <2>9
  <1>11. LedgerBacksBalance' /\ NoOverspend'
    BY <1>10, SumsOfLedger
  <1> QED
    BY <1>3, <1>7, <1>8, <1>9, <1>11 DEF RowsAreFinite

\* The row of an open reservation, spelled out.
LEMMA OpenRow ==
    ASSUME LedgerInv, NEW k \in LedgerKeys, ledger[k].status = "reserved"
    PROVE  /\ k \in ReserveKeys /\ k \notin PostingKeys
           /\ ledger[k].user \in Users /\ ledger[k].delta \in Int /\ ledger[k].delta < 0
           /\ ledger[k] = Tx(ledger[k].user, ledger[k].delta, "reserved")
  <1> USE DEF LedgerInv
  <1>1. k \in ReserveKeys /\ k \notin PostingKeys
    BY KeyFacts DEF RowShape
  <1>2. ledger[k] # NoTx
    BY TxFacts
  <1>3. ledger[k] \in Transactions
    BY DEF LedgerTypeOK
  <1>4. ledger[k] = Tx(ledger[k].user, ledger[k].delta, "reserved") /\ ledger[k].delta \in Int
    BY <1>3 DEF Transactions, Tx
  <1> QED
    BY <1>1, <1>2, <1>4 DEF RowShape, OpenAreDeductions

\* A row becomes committed and the balance moves by it: a posting, or the
\* commit of a reservation.
LEMMA CommittedRowInv ==
    ASSUME LedgerInv, NEW u \in Users, NEW k \in LedgerKeys, NEW d \in Int,
           \/ k \in PostingKeys /\ ledger[k] = NoTx /\ (k \in AdminKeys \/ d > 0)
           \/ k \in ReserveKeys /\ ledger[k] = Tx(u, d, "reserved"),
           ledger'  = [ledger EXCEPT ![k] = Tx(u, d, "committed")],
           balance' = [balance EXCEPT ![u] = @ + d]
    PROVE  LedgerInv'
  <1> USE DEF LedgerInv
  <1>1. PICK row : row = Tx(u, d, "committed")
    OBVIOUS
  <1>2. PICK old : old = ledger
    OBVIOUS
  <1>3. PICK new : new = ledger'
    OBVIOUS
  <1>4. /\ old \in [LedgerKeys -> Transactions]
        /\ new = [old EXCEPT ![k] = row] /\ row \in Transactions
        /\ balance \in [Users -> Int] /\ IsFiniteSet(MadeIn(old))
    BY <1>1, <1>2, <1>3, TxFacts DEF LedgerTypeOK, RowsAreFinite, Statuses
  <1>5. /\ new \in [LedgerKeys -> Transactions] /\ new[k] = row
        /\ \A j \in LedgerKeys \ {k} : new[j] = old[j]
    BY <1>4
  <1>6. /\ balance' \in [Users -> Int]
        /\ \A v \in Users : balance'[v] = IF u = v THEN balance[v] + d ELSE balance[v]
    BY <1>4
  <1>7. \/ k \in PostingKeys /\ old[k] = NoTx /\ (k \in AdminKeys \/ d > 0)
        \/ k \in ReserveKeys /\ k \notin AdminKeys /\ old[k] = Tx(u, d, "reserved")
    BY <1>2, KeyFacts DEF PostingKeys
  <1>8. LedgerTypeOK' /\ RowShape' /\ ReleaseCompensated'
    <2>1. LedgerTypeOK'
      BY <1>3, <1>5, <1>6 DEF LedgerTypeOK
    <2>2. RowShape'
      BY <1>1, <1>2, <1>3, <1>5, TxFacts DEF RowShape, Statuses
    <2>3. ReleaseCompensated'
      <3>1. k \notin ReleaseKeys
        BY KeyAssumption, KeyFacts DEF PostingKeys, LedgerKeys
      <3>2. \A j \in ReserveKeys : ReleaseKey(j) \in LedgerKeys /\ ReleaseKey(j) # k
        BY <3>1, KeyFacts DEF ReleaseKeys
      <3>3. \A j \in ReserveKeys : new[ReleaseKey(j)] = old[ReleaseKey(j)]
        BY <1>5, <3>2
      <3>4. \A j \in ReserveKeys : j # k => new[j] = old[j]
        BY <1>5, KeyFacts
      <3>5. k \in ReserveKeys => old[k].status # "released" /\ new[k].status # "released"
        BY <1>1, <1>5, <1>7, KeyFacts, TxFacts DEF Statuses
      <3>6. \A j \in ReserveKeys : old[ReleaseKey(j)] =
               IF old[j].status = "released" THEN Tx(old[j].user, -old[j].delta, "committed")
               ELSE NoTx
        BY <1>2 DEF ReleaseCompensated
      <3>7. \A j \in ReserveKeys : new[ReleaseKey(j)] =
               IF new[j].status = "released" THEN Tx(new[j].user, -new[j].delta, "committed")
               ELSE NoTx
        BY <3>3, <3>4, <3>5, <3>6
      <3> QED
        BY <1>3, <3>7 DEF ReleaseCompensated
    <2> QED
      BY <2>1, <2>2, <2>3
  <1>9. OpenAreDeductions'
    BY <1>1, <1>2, <1>3, <1>5, TxFacts DEF OpenAreDeductions, Statuses
  <1>10. IsFiniteSet(MadeIn(new))
    BY <1>4, <1>5, OneRow
  <1>11. ASSUME NEW v \in Users
         PROVE  /\ balance'[v] = SettledSum(ledger', v)
                /\ Available(v)' >= TakenSum(ledger', v)
    <2>1. /\ SettledSum(old, v) \in Int /\ SettledSum(new, v) \in Int
          /\ OpenSum(old, v) \in Int /\ OpenSum(new, v) \in Int
          /\ TakenSum(old, v) \in Int /\ TakenSum(new, v) \in Int
      BY <1>4, <1>5, LedgerSums
    <2>2. /\ Moves(SettledSum(old, v), SettledSum(new, v), SettledPart(old[k], v), SettledPart(row, v))
          /\ Moves(OpenSum(old, v), OpenSum(new, v), OpenPart(old[k], v), OpenPart(row, v))
          /\ Moves(TakenSum(old, v), TakenSum(new, v), CountsTaken(k, old[k], v), CountsTaken(k, row, v))
      BY <1>4, <1>5, LedgerSums
    <2>3. /\ SettledPart(row, v) = (IF u = v THEN d ELSE 0) /\ OpenPart(row, v) = 0
          /\ CountsTaken(k, row, v) = (IF u = v /\ k \in AdminKeys /\ d < 0 THEN d ELSE 0)
      BY <1>1, PartFacts
    <2>4. /\ balance[v] = SettledSum(old, v) /\ balance[v] \in Int
          /\ balance'[v] = IF u = v THEN balance[v] + d ELSE balance[v]
          /\ Available(v) = balance[v] + OpenSum(old, v)
          /\ Available(v)' = balance'[v] + OpenSum(new, v)
          /\ Available(v) >= TakenSum(old, v)
      BY <1>2, <1>3, <1>4, <1>6, SumsOfLedger
    <2>5. SettledPart(old[k], v) = 0 /\ CountsTaken(k, old[k], v) = 0
      BY <1>7, PartFacts
    <2>6. SettledSum(new, v) = SettledSum(old, v) + (IF u = v THEN d ELSE 0)
      <3>1. CASE u = v
        BY <2>1, <2>2, <2>3, <2>5, <3>1 DEF Moves
      <3>2. CASE u # v
        BY <2>1, <2>2, <2>3, <2>5, <3>2 DEF Moves
      <3> QED
        BY <3>1, <3>2
    <2>7. balance'[v] = SettledSum(new, v)
      <3>1. CASE u = v
        BY <2>1, <2>4, <2>6, <3>1
      <3>2. CASE u # v
        BY <2>1, <2>4, <2>6, <3>2
      <3> QED
        BY <3>1, <3>2
    <2>8. Available(v)' >= TakenSum(new, v)
      <3>1. CASE u # v
        <4>1. OpenPart(old[k], v) = 0 /\ OpenPart(row, v) = 0 /\ CountsTaken(k, row, v) = 0
          BY <1>7, <2>3, <3>1, PartFacts
        <4>2. OpenSum(new, v) = OpenSum(old, v) /\ TakenSum(new, v) = TakenSum(old, v)
          BY <2>1, <2>2, <2>5, <4>1 DEF Moves
        <4> QED
          BY <2>1, <2>4, <3>1, <4>2
      <3>2. CASE u = v /\ k \in ReserveKeys /\ k \notin AdminKeys /\ old[k] = Tx(u, d, "reserved")
        <4>1. OpenPart(old[k], v) = d /\ OpenPart(row, v) = 0 /\ CountsTaken(k, row, v) = 0
          BY <2>3, <3>2, PartFacts
        <4>2. OpenSum(new, v) = OpenSum(old, v) - d /\ TakenSum(new, v) = TakenSum(old, v)
          BY <2>1, <2>2, <2>5, <4>1 DEF Moves
        <4>3. balance'[v] = balance[v] + d
          BY <2>4, <3>2
        <4> QED
          BY <2>1, <2>4, <4>2, <4>3
      <3>3. CASE u = v /\ old[k] = NoTx /\ (k \in AdminKeys \/ d > 0)
        <4>1. OpenPart(old[k], v) = 0 /\ OpenPart(row, v) = 0
          BY <2>3, <3>3, PartFacts
        <4>2. OpenSum(new, v) = OpenSum(old, v)
          BY <2>1, <2>2, <4>1 DEF Moves
        <4>3. balance'[v] = balance[v] + d
          BY <2>4, <3>3
        <4>4. CASE k \in AdminKeys /\ d < 0
          <5>1. CountsTaken(k, row, v) = d
            BY <2>3, <3>3, <4>4
          <5>2. TakenSum(new, v) = TakenSum(old, v) + d
            BY <2>1, <2>2, <2>5, <5>1 DEF Moves
          <5> QED
            BY <2>1, <2>4, <4>2, <4>3, <5>2
        <4>5. CASE ~(k \in AdminKeys /\ d < 0)
          <5>1. CountsTaken(k, row, v) = 0 /\ d >= 0
            BY <2>3, <3>3, <4>5
          <5>2. TakenSum(new, v) = TakenSum(old, v)
            BY <2>1, <2>2, <2>5, <5>1 DEF Moves
          <5> QED
            BY <2>1, <2>4, <4>2, <4>3, <5>1, <5>2
        <4> QED
          BY <4>4, <4>5
      <3> QED
        BY <1>7, <3>1, <3>2, <3>3
    <2> QED
      BY <1>3, <2>7, <2>8
  <1>12. LedgerBacksBalance' /\ NoOverspend'
    BY <1>11, SumsOfLedger
  <1> QED
    BY <1>3, <1>8, <1>9, <1>10, <1>12 DEF RowsAreFinite

\* release_reservation: the refund row cancels the released one, and what the
\* reservation held back is available again.
LEMMA ReleaseLedgerInv ==
    ASSUME LedgerInv, NEW k \in ReserveKeys, ReleaseReservation(k)
    PROVE  LedgerInv' /\ \A v \in Users : Available(v)' >= Available(v)
  <1> USE DEF LedgerInv
  <1>1. PICK u : u = ledger[k].user
    OBVIOUS
  <1>2. PICK d : d = ledger[k].delta
    OBVIOUS
  <1>3. PICK c : c = ReleaseKey(k)
    OBVIOUS
  <1>4. PICK old : old = ledger
    OBVIOUS
  <1>5. PICK new : new = ledger'
    OBVIOUS
  <1>6. /\ k \in LedgerKeys /\ c \in LedgerKeys /\ c # k /\ c \notin ReserveKeys
        /\ c \notin AdminKeys /\ c \notin PostingKeys
    BY <1>3, KeyFacts DEF PostingKeys
  <1>7. /\ old[k] = Tx(u, d, "reserved") /\ u \in Users /\ d \in Int /\ d < 0 /\ -d \in Int
    <2>1. ledger[k].status = "reserved"
      BY DEF ReleaseReservation
    <2> QED
      BY <1>1, <1>2, <1>4, <1>6, <2>1, OpenRow
  <1>8. old[c] = NoTx
    BY <1>3, <1>4, <1>7, TxFacts DEF ReleaseCompensated, Statuses
  <1>9. /\ old \in [LedgerKeys -> Transactions] /\ IsFiniteSet(MadeIn(old))
        /\ balance' = balance /\ balance \in [Users -> Int]
        /\ new = [old EXCEPT ![k].status = "released", ![c] = Tx(u, -d, "committed")]
    BY <1>1, <1>2, <1>3, <1>4, <1>5 DEF LedgerTypeOK, RowsAreFinite, ReleaseReservation
  <1>10. PICK gone : gone = Tx(u, d, "released")
    OBVIOUS
  <1>11. PICK back : back = Tx(u, -d, "committed")
    OBVIOUS
  <1>12. gone \in Transactions /\ back \in Transactions
    BY <1>7, <1>10, <1>11, TxFacts DEF Statuses
  <1>13. [old[k] EXCEPT !.status = "released"] = gone
    BY <1>7, <1>10 DEF Tx
  <1>14. PICK mid : mid = [old EXCEPT ![k] = gone]
    OBVIOUS
  <1>15. new = [mid EXCEPT ![c] = back]
    BY <1>6, <1>9, <1>11, <1>13, <1>14
  <1>16. /\ mid \in [LedgerKeys -> Transactions] /\ mid[k] = gone /\ mid[c] = NoTx
         /\ \A j \in LedgerKeys \ {k} : mid[j] = old[j]
    BY <1>6, <1>8, <1>9, <1>12, <1>14
  <1>17. /\ new \in [LedgerKeys -> Transactions] /\ new[c] = back /\ new[k] = gone
         /\ \A j \in LedgerKeys \ {c} : new[j] = mid[j]
    BY <1>6, <1>12, <1>15, <1>16
  <1>18. IsFiniteSet(MadeIn(mid)) /\ IsFiniteSet(MadeIn(new))
    <2>1. IsFiniteSet(MadeIn(mid))
      BY <1>6, <1>9, <1>16, OneRow
    <2> QED
      BY <1>6, <1>16, <1>17, <2>1, OneRow
  <1>19. LedgerTypeOK' /\ RowShape' /\ OpenAreDeductions'
    <2>1. LedgerTypeOK'
      BY <1>5, <1>9, <1>17 DEF LedgerTypeOK
    <2>2. \A j \in LedgerKeys \ {k, c} : new[j] = old[j]
      BY <1>16, <1>17
    <2>3. RowShape'
      BY <1>4, <1>5, <1>7, <1>10, <1>11, <1>17, <2>2, TxFacts DEF RowShape, Statuses
    <2>4. OpenAreDeductions'
      BY <1>4, <1>5, <1>7, <1>10, <1>11, <1>17, <2>2, TxFacts DEF OpenAreDeductions, Statuses
    <2> QED
      BY <2>1, <2>3, <2>4
  <1>20. ReleaseCompensated'
    <2> SUFFICES ASSUME NEW j \in ReserveKeys
                 PROVE  new[ReleaseKey(j)] =
                            IF new[j].status = "released"
                            THEN Tx(new[j].user, -new[j].delta, "committed")
                            ELSE NoTx
      BY <1>5 DEF ReleaseCompensated
    <2>1. CASE j = k
      BY <2>1, <1>3, <1>7, <1>10, <1>11, <1>17, TxFacts DEF Statuses
    <2>2. CASE j # k
      <3>1. /\ ReleaseKey(j) # c /\ ReleaseKey(j) # k /\ ReleaseKey(j) \in LedgerKeys
            /\ j # c /\ j \in LedgerKeys
        BY <2>2, <1>3, <1>6, KeyFacts
      <3>2. new[ReleaseKey(j)] = old[ReleaseKey(j)] /\ new[j] = old[j]
        BY <2>2, <3>1, <1>16, <1>17
      <3>3. old[ReleaseKey(j)] = IF old[j].status = "released"
                                 THEN Tx(old[j].user, -old[j].delta, "committed") ELSE NoTx
        BY <1>4 DEF ReleaseCompensated
      <3> QED
        BY <3>2, <3>3
    <2> QED
      BY <2>1, <2>2
  <1>21. ASSUME NEW v \in Users
         PROVE  /\ balance'[v] = SettledSum(ledger', v)
                /\ Available(v)' >= TakenSum(ledger', v)
                /\ Available(v)' >= Available(v)
    <2>1. /\ SettledSum(old, v) \in Int /\ SettledSum(mid, v) \in Int /\ SettledSum(new, v) \in Int
          /\ OpenSum(old, v) \in Int /\ OpenSum(mid, v) \in Int /\ OpenSum(new, v) \in Int
          /\ TakenSum(old, v) \in Int /\ TakenSum(mid, v) \in Int /\ TakenSum(new, v) \in Int
      <3>1. SettledSum(old, v) \in Int /\ SettledSum(mid, v) \in Int /\ OpenSum(old, v) \in Int
              /\ OpenSum(mid, v) \in Int /\ TakenSum(old, v) \in Int /\ TakenSum(mid, v) \in Int
        BY <1>6, <1>9, <1>16, LedgerSums
      <3>2. SettledSum(new, v) \in Int /\ OpenSum(new, v) \in Int /\ TakenSum(new, v) \in Int
        BY <1>6, <1>16, <1>17, <1>18, LedgerSums
      <3> QED
        BY <3>1, <3>2
    <2>2. /\ Moves(SettledSum(old, v), SettledSum(mid, v), SettledPart(old[k], v), SettledPart(gone, v))
          /\ Moves(OpenSum(old, v), OpenSum(mid, v), OpenPart(old[k], v), OpenPart(gone, v))
          /\ Moves(TakenSum(old, v), TakenSum(mid, v), CountsTaken(k, old[k], v), CountsTaken(k, gone, v))
      BY <1>6, <1>9, <1>16, LedgerSums
    <2>3. /\ Moves(SettledSum(mid, v), SettledSum(new, v), SettledPart(mid[c], v), SettledPart(back, v))
          /\ Moves(OpenSum(mid, v), OpenSum(new, v), OpenPart(mid[c], v), OpenPart(back, v))
          /\ Moves(TakenSum(mid, v), TakenSum(new, v), CountsTaken(c, mid[c], v), CountsTaken(c, back, v))
      BY <1>6, <1>16, <1>17, <1>18, LedgerSums
    <2>4. /\ SettledPart(old[k], v) = 0 /\ CountsTaken(k, old[k], v) = 0
          /\ OpenPart(old[k], v) = IF u = v THEN d ELSE 0
      BY <1>6, <1>7, PartFacts
    <2>5. /\ SettledPart(gone, v) = IF u = v THEN d ELSE 0
          /\ OpenPart(gone, v) = 0 /\ CountsTaken(k, gone, v) = 0
      BY <1>6, <1>7, <1>10, PartFacts
    <2>6. /\ SettledPart(mid[c], v) = 0 /\ OpenPart(mid[c], v) = 0 /\ CountsTaken(c, mid[c], v) = 0
      BY <1>6, <1>16, PartFacts
    <2>7. /\ SettledPart(back, v) = IF u = v THEN -d ELSE 0
          /\ OpenPart(back, v) = 0 /\ CountsTaken(c, back, v) = 0
      BY <1>6, <1>7, <1>11, PartFacts
    <2>8. SettledSum(new, v) = SettledSum(old, v)
      <3>1. CASE u = v
        BY <1>7, <2>1, <2>2, <2>3, <2>4, <2>5, <2>6, <2>7, <3>1 DEF Moves
      <3>2. CASE u # v
        BY <2>1, <2>2, <2>3, <2>4, <2>5, <2>6, <2>7, <3>2 DEF Moves
      <3> QED
        BY <3>1, <3>2
    <2>9. TakenSum(new, v) = TakenSum(old, v)
      BY <2>1, <2>2, <2>3, <2>4, <2>5, <2>6, <2>7 DEF Moves
    <2>10. OpenSum(new, v) >= OpenSum(old, v)
      <3>1. CASE u = v
        BY <1>7, <2>1, <2>2, <2>3, <2>4, <2>5, <2>6, <2>7, <3>1 DEF Moves
      <3>2. CASE u # v
        BY <2>1, <2>2, <2>3, <2>4, <2>5, <2>6, <2>7, <3>2 DEF Moves
      <3> QED
        BY <3>1, <3>2
    <2>11. /\ balance[v] = SettledSum(old, v) /\ balance[v] \in Int /\ balance'[v] = balance[v]
           /\ Available(v) = balance[v] + OpenSum(old, v)
           /\ Available(v)' = balance'[v] + OpenSum(new, v)
           /\ Available(v) >= TakenSum(old, v)
      BY <1>4, <1>5, <1>9, SumsOfLedger
    <2>12. balance'[v] = SettledSum(new, v)
      BY <2>8, <2>11
    <2>13. Available(v)' >= Available(v)
      BY <2>1, <2>10, <2>11
    <2>14. Available(v)' >= TakenSum(new, v)
      BY <2>1, <2>9, <2>10, <2>11
    <2> QED
      BY <1>5, <2>12, <2>13, <2>14
  <1>22. LedgerBacksBalance' /\ NoOverspend'
    BY <1>21, SumsOfLedger
  <1> QED
    BY <1>5, <1>18, <1>19, <1>20, <1>21, <1>22 DEF RowsAreFinite

\* Every step of the atomic ledger keeps its invariant.
LEMMA LedgerNextInv == LedgerInv /\ [LedgerNext]_ledgerVars => LedgerInv'
  <1> SUFFICES ASSUME LedgerInv, [LedgerNext]_ledgerVars PROVE LedgerInv'
    OBVIOUS
  <1>1. CASE UNCHANGED ledgerVars
    <2>1. (LedgerTypeOK /\ RowShape /\ ReleaseCompensated /\ OpenAreDeductions /\ RowsAreFinite)'
      BY <1>1 DEF ledgerVars, LedgerInv, LedgerTypeOK, RowShape, ReleaseCompensated,
                  OpenAreDeductions, RowsAreFinite, MadeIn
    <2>2. balance' = balance /\ ledger' = ledger
      BY <1>1 DEF ledgerVars
    <2>3. LedgerBacksBalance' /\ NoOverspend'
      <3>1. \A v \in Users : balance'[v] = SettledSum(ledger', v)
        BY <2>2, SumsOfLedger DEF LedgerInv
      <3>2. \A v \in Users : Available(v)' >= TakenSum(ledger', v)
        BY <2>2, SumsOfLedger DEF LedgerInv
      <3> QED
        BY <3>1, <3>2, SumsOfLedger
    <2> QED
      BY <2>1, <2>3 DEF LedgerInv
  <1>2. ASSUME NEW u \in Users, NEW k \in ReserveKeys, NEW a \in Amounts, Reserve(u, k, a)
        PROVE  LedgerInv'
    BY <1>2, ReserveLedgerInv
  <1>3. ASSUME NEW k \in ReserveKeys, CommitReservation(k) PROVE LedgerInv'
    <2>1. PICK u : u = ledger[k].user
      OBVIOUS
    <2>2. PICK d : d = ledger[k].delta
      OBVIOUS
    <2>3. k \in LedgerKeys /\ ledger[k].status = "reserved"
      BY <1>3, KeyFacts DEF CommitReservation
    <2>4. u \in Users /\ d \in Int /\ ledger[k] = Tx(u, d, "reserved")
      BY <2>1, <2>2, <2>3, OpenRow
    <2>5. [ledger[k] EXCEPT !.status = "committed"] = Tx(u, d, "committed")
      BY <2>4 DEF Tx
    <2>6. ledger' = [ledger EXCEPT ![k] = Tx(u, d, "committed")]
      BY <1>3, <2>3, <2>5 DEF CommitReservation, LedgerInv, LedgerTypeOK
    <2>7. balance' = [balance EXCEPT ![u] = @ + d]
      BY <1>3, <2>1, <2>2 DEF CommitReservation
    <2> QED
      BY <2>3, <2>4, <2>6, <2>7, CommittedRowInv
  <1>4. ASSUME NEW k \in ReserveKeys, ReleaseReservation(k) PROVE LedgerInv'
    BY <1>4, ReleaseLedgerInv
  <1>5. ASSUME NEW u \in Users, NEW k \in PurchaseKeys \cup GrantKeys, NEW a \in Amounts,
               Post(u, k, a)
        PROVE  LedgerInv'
    <2>1. k \in LedgerKeys /\ k \in PostingKeys /\ a \in Int /\ a > 0
      BY KeyFacts, AmountAssumption DEF PostingKeys
    <2> QED
      BY <1>5, <2>1, CommittedRowInv DEF Post
  <1>6. ASSUME NEW u \in Users, NEW k \in AdminKeys, NEW d \in Adjustments, Post(u, k, d)
        PROVE  LedgerInv'
    <2>1. k \in LedgerKeys /\ k \in PostingKeys /\ d \in Int
      BY KeyFacts, AmountAssumption DEF PostingKeys
    <2> QED
      BY <1>6, <2>1, CommittedRowInv DEF Post
  <1> QED
    BY <1>1, <1>2, <1>3, <1>4, <1>5, <1>6 DEF LedgerNext

\* The atomic ledger keeps its books: the balance is the sum of the settled
\* rows and nobody overspends, for any users, keys and amounts.
THEOREM LedgerInvariance == LedgerSpec => []LedgerInv
  BY LedgerInitInv, LedgerNextInv, PTL DEF LedgerSpec

-----------------------------------------------------------------------------
(* The inductive invariant holds initially *)

\* No session has begun.
LEMMA InitIInv == Init => IInv
  <1> SUFFICES ASSUME Init PROVE IInv
    OBVIOUS
  <1> USE DEF Init, LedgerInit
  <1>1. NoRequest \in Requests /\ NoRequest.op = "none"
    BY DEF NoRequest, Requests, Operations, Posting
  <1>2. TypeOK
    BY <1>1, TxFacts DEF TypeOK, Locations
  <1>3. RequestShape
    BY <1>1 DEF RequestShape, Posting
  <1>4. HoldsWallet /\ HoldsReservation /\ SeenIsCurrent
    BY DEF HoldsWallet, HoldsReservation, SeenIsCurrent
  <1>5. RowShape
    BY TxFacts DEF RowShape
  <1>6. MissingWalletIsEmpty
    BY DEF MissingWalletIsEmpty
  <1>7. ReleaseCompensated
    BY KeyFacts, TxFacts DEF ReleaseCompensated
  <1> QED
    BY <1>2, <1>3, <1>4, <1>5, <1>6, <1>7 DEF IInv

-----------------------------------------------------------------------------
(* Steps that leave the tables alone *)

\* A request that arrives holds nothing yet.
LEMMA ArriveIInv ==
    ASSUME IInv, NEW s \in Sessions, Arrive(s)
    PROVE  IInv'
  <1>1. PICK op \in Operations \ {"none"}, u \in Users \cup {NoUser},
             k \in LedgerKeys, d \in Int, loc \in {"wallet", "tx"} :
            /\ Begin(s, op, u, k, d, loc)
            /\ loc = "wallet" => u \in Users /\ op \notin {"commit", "release"}
            /\ loc = "tx" => op \in {"commit", "release"}
            /\ op \in {"reserve", "commit", "release"} => k \in ReserveKeys
            /\ op \in Posting => k \in PostingKeys
    <2>1. CASE BeginReserve(s)
      <3>1. PICK u \in Users, k \in ReserveKeys, a \in Amounts :
                Begin(s, "reserve", u, k, -a, "wallet")
        BY <2>1 DEF BeginReserve
      <3>2. -a \in Int
        BY AmountAssumption
      <3> QED
        BY <3>1, <3>2, KeyFacts DEF Operations, Posting
    <2>2. CASE BeginCommit(s)
      BY <2>2, KeyFacts DEF BeginCommit, Operations, Posting
    <2>3. CASE BeginRelease(s)
      BY <2>3, KeyFacts DEF BeginRelease, Operations, Posting
    <2>4. CASE BeginPurchase(s)
      BY <2>4, KeyFacts, AmountAssumption DEF BeginPurchase, Operations, Posting, PostingKeys
    <2>5. CASE BeginGrant(s)
      BY <2>5, KeyFacts, AmountAssumption DEF BeginGrant, Operations, Posting, PostingKeys
    <2>6. CASE BeginAdjust(s)
      BY <2>6, KeyFacts, AmountAssumption DEF BeginAdjust, Operations, Posting, PostingKeys
    <2> QED
      BY <2>1, <2>2, <2>3, <2>4, <2>5, <2>6 DEF Arrive
  <1> DEFINE r == [op |-> op, user |-> u, key |-> k, delta |-> d]
  <1>2. r \in Requests /\ r.op = op /\ r.user = u /\ r.key = k
    BY DEF Requests
  <1>3. /\ pc'  = [pc EXCEPT ![s] = loc]
        /\ req' = [req EXCEPT ![s] = r]
        /\ UNCHANGED <<balance, ledger, wallets, seen, walletLock, txLock>>
    BY <1>1 DEF Begin
  <1> HIDE DEF r
  <1> USE DEF IInv
  <1>4. TypeOK'
    BY <1>2, <1>3 DEF TypeOK, Locations
  <1>5. RequestShape'
    BY <1>1, <1>2, <1>3 DEF RequestShape, TypeOK
  <1>6. (HoldsWallet /\ SeenIsCurrent)'
    BY <1>1, <1>2, <1>3 DEF HoldsWallet, SeenIsCurrent, TypeOK
  <1>7. HoldsReservation'
    BY <1>1, <1>2, <1>3 DEF HoldsReservation, TypeOK
  <1>8. (RowShape /\ MissingWalletIsEmpty /\ ReleaseCompensated)'
    BY <1>3 DEF RowShape, MissingWalletIsEmpty, ReleaseCompensated
  <1> QED
    BY <1>4, <1>5, <1>6, <1>7, <1>8

\* What the end of a transaction does to the locks: the session's own are gone,
\* the others' stay.
LEMMA EndFacts ==
    ASSUME TypeOK, NEW s \in Sessions, EndTransaction(s)
    PROVE  /\ pc' \in [Sessions -> Locations] /\ pc'[s] = "idle"
           /\ req' \in [Sessions -> Requests] /\ req'[s] = NoRequest
           /\ seen' \in [Sessions -> Int]
           /\ walletLock' \in [Users -> Sessions \cup {NoSession}]
           /\ txLock' \in [ReserveKeys -> Sessions \cup {NoSession}]
           /\ \A t \in Sessions \ {s} :
                /\ pc'[t] = pc[t] /\ req'[t] = req[t] /\ seen'[t] = seen[t]
                /\ \A u \in Users : walletLock[u] = t => walletLock'[u] = t
                /\ \A k \in ReserveKeys : txLock[k] = t => txLock'[k] = t
  <1>1. NoRequest \in Requests
    BY DEF NoRequest, Requests, Operations, Posting
  <1> QED
    BY <1>1 DEF EndTransaction, TypeOK, Locations

\* Ending a transaction keeps everything that speaks of sessions only.
LEMMA EndSessions ==
    ASSUME IInv, NEW s \in Sessions, EndTransaction(s)
    PROVE  RequestShape' /\ HoldsWallet'
  <1> USE DEF IInv
  <1>1. NoRequest.op = "none"
    BY DEF NoRequest
  <1>2. RequestShape'
    BY <1>1, EndFacts DEF RequestShape, Posting
  <1>3. HoldsWallet'
    BY EndFacts DEF HoldsWallet, RequestShape
  <1> QED
    BY <1>2, <1>3

\* A session that rolls back gives its locks back and changes nothing else.
LEMMA RollbackIInv ==
    ASSUME IInv, NEW s \in Sessions, Rollback(s)
    PROVE  IInv'
  <1> USE DEF IInv, Rollback
  <1>1. TypeOK'
    BY EndFacts DEF TypeOK
  <1>2. RequestShape' /\ HoldsWallet'
    BY EndSessions
  <1>3. HoldsReservation'
    BY EndFacts DEF HoldsReservation, RequestShape
  <1>4. SeenIsCurrent'
    BY EndFacts DEF SeenIsCurrent
  <1>5. (RowShape /\ MissingWalletIsEmpty /\ ReleaseCompensated)'
    BY DEF RowShape, MissingWalletIsEmpty, ReleaseCompensated
  <1> QED
    BY <1>1, <1>2, <1>3, <1>4, <1>5

\* Taking a wallet row that nobody holds, with a copy that is the balance.
LEMMA HoldWalletIInv ==
    ASSUME IInv, NEW s \in Sessions, NEW u \in Users, u = req[s].user,
           pc[s] \in {"wallet", "create"},
           walletLock[u] = NoSession, HoldWallet(s, u, balance[u])
    PROVE  IInv'
  <1> USE DEF IInv, HoldWallet
  <1>1. TypeOK'
    BY DEF TypeOK, Locations
  <1>2. RequestShape'
    BY DEF RequestShape, TypeOK
  <1>3. HoldsWallet'
    BY DEF HoldsWallet, RequestShape, TypeOK
  <1>4. HoldsReservation'
    BY DEF HoldsReservation, TypeOK
  <1>5. SeenIsCurrent'
    BY DEF SeenIsCurrent, TypeOK
  <1>6. (RowShape /\ MissingWalletIsEmpty /\ ReleaseCompensated)'
    BY DEF RowShape, MissingWalletIsEmpty, ReleaseCompensated
  <1> QED
    BY <1>1, <1>2, <1>3, <1>4, <1>5, <1>6

\* Moving on inside _get_or_create_wallet or past the availability check
\* changes nothing but the location.
LEMMA MoveIInv ==
    ASSUME IInv, NEW s \in Sessions, WalletMissing(s) \/ CheckAvailable(s)
    PROVE  IInv'
  <1> USE DEF IInv, WalletMissing, CheckAvailable
  <1>1. TypeOK'
    BY DEF TypeOK, Locations
  <1>2. RequestShape'
    BY DEF RequestShape, TypeOK
  <1>3. HoldsWallet' /\ SeenIsCurrent'
    BY DEF HoldsWallet, SeenIsCurrent, RequestShape, TypeOK
  <1>4. HoldsReservation'
    BY DEF HoldsReservation, RequestShape, TypeOK
  <1>5. (RowShape /\ MissingWalletIsEmpty /\ ReleaseCompensated)'
    BY DEF RowShape, MissingWalletIsEmpty, ReleaseCompensated
  <1> QED
    BY <1>1, <1>2, <1>3, <1>4, <1>5

\* A commit or a release locks the pending row that it found.
LEMMA LockReservationIInv ==
    ASSUME IInv, NEW s \in Sessions, LockReservation(s)
    PROVE  IInv'
  <1> USE DEF IInv, LockReservation, HoldReservation
  <1> DEFINE k == req[s].key
             r == [op |-> req[s].op, user |-> ledger[k].user, key |-> k,
                   delta |-> ledger[k].delta]
  <1>1. k \in ReserveKeys /\ k \in LedgerKeys /\ req[s].op \in {"commit", "release"}
    BY KeyFacts DEF RequestShape
  <1>2. ledger[k].user \in Users /\ ledger[k].delta \in Int
    BY <1>1, TxFacts DEF RowShape, TypeOK, Transactions
  <1>3. r \in Requests /\ r.op = req[s].op /\ r.user = ledger[k].user
          /\ r.key = k /\ r.delta = ledger[k].delta
    BY <1>1, <1>2 DEF Requests, Operations
  <1>4. ledger[k] = Tx(r.user, r.delta, "reserved")
    BY <1>1, <1>3 DEF TypeOK, Transactions, Tx
  <1>5. /\ txLock' = [txLock EXCEPT ![k] = s]
        /\ req' = [req EXCEPT ![s] = r]
        /\ pc' = [pc EXCEPT ![s] = IF req[s].op = "commit" THEN "wallet" ELSE "write"]
        /\ UNCHANGED <<balance, ledger, wallets, seen, walletLock>>
        /\ txLock[k] = NoSession
    OBVIOUS
  <1> HIDE DEF k, r, LockReservation, HoldReservation
  <1>6. TypeOK'
    BY <1>1, <1>3, <1>5 DEF TypeOK, Locations
  <1>7. RequestShape'
    BY <1>1, <1>2, <1>3, <1>5 DEF RequestShape, TypeOK, Posting
  <1>8. HoldsWallet' /\ SeenIsCurrent'
    BY <1>1, <1>3, <1>5 DEF HoldsWallet, SeenIsCurrent, TypeOK
  <1>9. HoldsReservation'
    <2> SUFFICES ASSUME NEW t \in Sessions,
                        pc'[t] \in {"wallet", "create", "sum", "write"},
                        req'[t].op \in {"commit", "release"}
                 PROVE  /\ txLock'[req'[t].key] = t
                        /\ ledger'[req'[t].key] = Tx(req'[t].user, req'[t].delta, "reserved")
      BY DEF HoldsReservation
    <2>1. CASE t = s
      BY <2>1, <1>1, <1>3, <1>4, <1>5 DEF TypeOK
    <2>2. CASE t # s
      <3>1. pc'[t] = pc[t] /\ req'[t] = req[t]
        BY <2>2, <1>5 DEF TypeOK
      <3>2. txLock[req[t].key] = t /\ req[t].key \in ReserveKeys
        BY <3>1 DEF HoldsReservation, RequestShape
      <3>3. req[t].key # k
        BY <3>2, <1>5
      <3>4. txLock'[req[t].key] = t
        BY <3>2, <3>3, <1>5 DEF TypeOK
      <3> QED
        BY <3>1, <3>4, <1>5 DEF HoldsReservation
    <2> QED
      BY <2>1, <2>2
  <1>10. (RowShape /\ MissingWalletIsEmpty /\ ReleaseCompensated)'
    BY <1>5 DEF RowShape, MissingWalletIsEmpty, ReleaseCompensated
  <1> QED
    BY <1>6, <1>7, <1>8, <1>9, <1>10

-----------------------------------------------------------------------------
(* Steps that write the tables *)

\* While a session holds the lock of a reservation, nobody else's copy is of
\* that row; while it holds a wallet, nobody else's copy is of that wallet.
LEMMA Exclusive ==
    ASSUME IInv, NEW s \in Sessions, NEW t \in Sessions \ {s}
    PROVE  /\ ( /\ pc[s] = "write" /\ req[s].op # "release"
                /\ pc[t] = "sum" \/ (pc[t] = "write" /\ req[t].op # "release") )
                => req[s].user # req[t].user
           /\ ( /\ pc[s] = "write" /\ req[s].op \in {"commit", "release"}
                /\ pc[t] \in {"wallet", "create", "sum", "write"}
                /\ req[t].op \in {"commit", "release"} )
                => req[s].key # req[t].key
  BY DEF IInv, HoldsWallet, HoldsReservation

\* A reservation inserts its pending row, with the wallet's lock still held.
LEMMA InsertReservationIInv ==
    ASSUME IInv, NEW s \in Sessions, InsertReservation(s)
    PROVE  IInv'
  <1> DEFINE r == req[s]
  <1> USE DEF IInv
  <1>1. /\ pc[s] = "write" /\ r.op = "reserve"
        /\ ledger[r.key] = NoTx
        /\ ledger'  = [ledger EXCEPT ![r.key] = Tx(r.user, r.delta, "reserved")]
        /\ wallets' = wallets \cup {r.user}
        /\ EndTransaction(s)
        /\ balance' = balance
    BY DEF InsertReservation
  <1>2. r.key \in ReserveKeys /\ r.user \in Users /\ r.delta \in Int
    BY <1>1 DEF RequestShape, TypeOK, Requests
  <1> HIDE DEF r
  <1>3. /\ ledger'[r.key] = Tx(r.user, r.delta, "reserved")
        /\ Tx(r.user, r.delta, "reserved") \in Transactions
        /\ \A j \in LedgerKeys \ {r.key} : ledger'[j] = ledger[j]
        /\ ledger' \in [LedgerKeys -> Transactions]
    BY <1>1, <1>2, TxFacts, KeyFacts DEF TypeOK, Statuses
  <1>4. TypeOK'
    BY <1>1, <1>2, <1>3, EndFacts DEF TypeOK
  <1>5. RequestShape' /\ HoldsWallet'
    BY <1>1, EndSessions
  <1>6. HoldsReservation'
    <2>1. \A t \in Sessions \ {s} :
            pc[t] \in {"wallet", "create", "sum", "write"} /\ req[t].op \in {"commit", "release"}
              => req[t].key # r.key /\ req[t].key \in LedgerKeys
      <3> SUFFICES ASSUME NEW t \in Sessions \ {s},
                     pc[t] \in {"wallet", "create", "sum", "write"},
                     req[t].op \in {"commit", "release"}
            PROVE req[t].key # r.key /\ req[t].key \in LedgerKeys
        OBVIOUS
      <3>1. req[t].key \in ReserveKeys /\ req[t].user \in Users /\ req[t].delta \in Int
        BY DEF RequestShape, TypeOK, Requests
      <3>2. ledger[req[t].key] = Tx(req[t].user, req[t].delta, "reserved")
        BY DEF HoldsReservation
      <3> QED
        BY <1>1, <3>1, <3>2, TxFacts, KeyFacts DEF Statuses
    <2> QED
      BY <1>1, <1>3, <2>1, EndFacts DEF HoldsReservation, RequestShape
  <1>7. SeenIsCurrent'
    BY <1>1, EndFacts DEF SeenIsCurrent
  <1>8. RowShape'
    BY <1>2, <1>3, TxFacts DEF RowShape, Statuses
  <1>9. MissingWalletIsEmpty'
    BY <1>1 DEF MissingWalletIsEmpty
  <1>10. ReleaseCompensated'
    BY <1>1, <1>2, <1>3, KeyFacts, TxFacts DEF ReleaseCompensated, Statuses
  <1> QED
    BY <1>4, <1>5, <1>6, <1>7, <1>8, <1>9, <1>10

\* A commit settles the pending row that it locked.
LEMMA WriteCommitIInv ==
    ASSUME IInv, NEW s \in Sessions, WriteCommit(s)
    PROVE  IInv'
  <1> DEFINE r == req[s]
  <1> USE DEF IInv
  <1>1. /\ pc[s] = "write" /\ r.op = "commit"
        /\ ledger'  = [ledger EXCEPT ![r.key] = Tx(r.user, r.delta, "committed")]
        /\ balance' = [balance EXCEPT ![r.user] = seen[s] + r.delta]
        /\ wallets' = wallets \cup {r.user}
        /\ EndTransaction(s)
    BY DEF WriteCommit
  <1>2. r.key \in ReserveKeys /\ r.user \in Users /\ r.delta \in Int
    BY <1>1 DEF RequestShape, TypeOK, Requests
  <1>3. ledger[r.key] = Tx(r.user, r.delta, "reserved")
    BY <1>1 DEF HoldsReservation
  <1>4. /\ \A t \in Sessions \ {s} :
             pc[t] = "sum" \/ (pc[t] = "write" /\ req[t].op # "release")
               => req[t].user # r.user
        /\ \A t \in Sessions \ {s} :
             pc[t] \in {"wallet", "create", "sum", "write"} /\ req[t].op \in {"commit", "release"}
               => req[t].key # r.key
    BY <1>1, Exclusive
  <1> HIDE DEF r
  <1>5. /\ ledger'[r.key] = Tx(r.user, r.delta, "committed")
        /\ \A j \in LedgerKeys \ {r.key} : ledger'[j] = ledger[j]
        /\ ledger' \in [LedgerKeys -> Transactions]
    BY <1>1, <1>2, TxFacts, KeyFacts DEF TypeOK, Statuses
  <1>6. TypeOK'
    BY <1>1, <1>2, <1>5, EndFacts DEF TypeOK
  <1>7. RequestShape' /\ HoldsWallet'
    BY <1>1, EndSessions
  <1>8. HoldsReservation'
    BY <1>4, <1>1, <1>5, EndFacts, KeyFacts DEF HoldsReservation, RequestShape
  <1>9. SeenIsCurrent'
    BY <1>1, <1>4, EndFacts DEF SeenIsCurrent, RequestShape, TypeOK
  <1>10. RowShape'
    BY <1>2, <1>5, TxFacts DEF RowShape, Statuses
  <1>11. MissingWalletIsEmpty'
    BY <1>1, <1>2 DEF MissingWalletIsEmpty, TypeOK
  <1>12. ReleaseCompensated'
    BY <1>2, <1>3, <1>5, KeyFacts, TxFacts DEF ReleaseCompensated, Statuses
  <1> QED
    BY <1>6, <1>7, <1>8, <1>9, <1>10, <1>11, <1>12

\* A release marks the row released and posts the row that compensates it.
LEMMA WriteReleaseIInv ==
    ASSUME IInv, NEW s \in Sessions, WriteRelease(s)
    PROVE  IInv'
  <1> DEFINE r == req[s]
             c == ReleaseKey(r.key)
  <1> USE DEF IInv
  <1>1. /\ pc[s] = "write" /\ r.op = "release"
        /\ ledger' = [ledger EXCEPT ![r.key] = Tx(r.user, r.delta, "released"),
                                    ![c] = Tx(r.user, -r.delta, "committed")]
        /\ EndTransaction(s)
        /\ balance' = balance /\ wallets' = wallets
    BY DEF WriteRelease
  <1>2. r.key \in ReserveKeys /\ r.user \in Users /\ r.delta \in Int /\ -r.delta \in Int
    BY <1>1 DEF RequestShape, TypeOK, Requests
  <1>3. ledger[r.key] = Tx(r.user, r.delta, "reserved")
    BY <1>1 DEF HoldsReservation
  <1>4. \A t \in Sessions \ {s} :
          pc[t] \in {"wallet", "create", "sum", "write"} /\ req[t].op \in {"commit", "release"}
            => req[t].key # r.key
    BY <1>1, Exclusive
  <1>5. /\ c \in LedgerKeys /\ c \notin ReserveKeys /\ c # r.key
        /\ \A k \in ReserveKeys : ReleaseKey(k) = c => k = r.key
    BY <1>2, KeyFacts
  <1> HIDE DEF r, c
  <1>6. /\ ledger'[r.key] = Tx(r.user, r.delta, "released")
        /\ ledger'[c] = Tx(r.user, -r.delta, "committed")
        /\ \A j \in LedgerKeys \ {r.key, c} : ledger'[j] = ledger[j]
        /\ ledger' \in [LedgerKeys -> Transactions]
    <2>1. /\ Tx(r.user, r.delta, "released") \in Transactions
          /\ Tx(r.user, -r.delta, "committed") \in Transactions
      BY <1>2, TxFacts DEF Statuses
    <2>2. r.key \in LedgerKeys /\ ledger \in [LedgerKeys -> Transactions]
      BY <1>2, KeyFacts DEF TypeOK
    <2> QED
      BY <1>1, <1>5, <2>1, <2>2
  <1>7. TypeOK'
    BY <1>1, <1>6, EndFacts DEF TypeOK
  <1>8. RequestShape' /\ HoldsWallet'
    BY <1>1, EndSessions
  <1>9. HoldsReservation'
    BY <1>4, <1>1, <1>5, <1>6, EndFacts, KeyFacts DEF HoldsReservation, RequestShape
  <1>10. SeenIsCurrent'
    BY <1>1, EndFacts DEF SeenIsCurrent
  <1>11. RowShape'
    BY <1>2, <1>6, TxFacts DEF RowShape, Statuses
  <1>12. MissingWalletIsEmpty'
    BY <1>1 DEF MissingWalletIsEmpty
  <1>13. ReleaseCompensated'
    <2> SUFFICES ASSUME NEW k \in ReserveKeys
                 PROVE  ledger'[ReleaseKey(k)] =
                            IF ledger'[k].status = "released"
                            THEN Tx(ledger'[k].user, -ledger'[k].delta, "committed")
                            ELSE NoTx
      BY DEF ReleaseCompensated
    <2>1. CASE k = r.key
      BY <2>1, <1>2, <1>6, TxFacts DEF c, Statuses
    <2>2. CASE k # r.key
      <3>1. ReleaseKey(k) # c /\ ReleaseKey(k) # r.key /\ ReleaseKey(k) \in LedgerKeys
              /\ k # c /\ k \in LedgerKeys
        BY <2>2, <1>2, <1>5, KeyFacts
      <3> QED
        BY <2>2, <3>1, <1>6 DEF ReleaseCompensated
    <2> QED
      BY <2>1, <2>2
  <1> QED
    BY <1>7, <1>8, <1>9, <1>10, <1>11, <1>12, <1>13

\* A purchase, a grant or an adjustment is posted with its balance.
LEMMA WritePostingIInv ==
    ASSUME IInv, NEW s \in Sessions, WritePosting(s)
    PROVE  IInv'
  <1> DEFINE r == req[s]
  <1> USE DEF IInv
  <1>1. /\ pc[s] = "write" /\ r.op \in Posting
        /\ ledger'  = [ledger EXCEPT ![r.key] = Tx(r.user, r.delta, "committed")]
        /\ balance' = [balance EXCEPT ![r.user] = seen[s] + r.delta]
        /\ wallets' = wallets \cup {r.user}
        /\ EndTransaction(s)
    BY DEF WritePosting
  <1>2. /\ r.key \in PostingKeys /\ r.user \in Users /\ r.delta \in Int
        /\ r.op # "release" /\ r.key \notin ReserveKeys
    BY <1>1, KeyFacts DEF RequestShape, TypeOK, Requests, Posting
  <1>3. \A t \in Sessions \ {s} :
          pc[t] = "sum" \/ (pc[t] = "write" /\ req[t].op # "release")
            => req[t].user # r.user
    BY <1>1, <1>2, Exclusive
  <1> HIDE DEF r
  <1>4. /\ ledger'[r.key] = Tx(r.user, r.delta, "committed")
        /\ \A j \in LedgerKeys \ {r.key} : ledger'[j] = ledger[j]
        /\ ledger' \in [LedgerKeys -> Transactions]
    BY <1>1, <1>2, TxFacts, KeyFacts DEF TypeOK, Statuses
  <1>5. TypeOK'
    BY <1>1, <1>2, <1>4, EndFacts DEF TypeOK
  <1>6. RequestShape' /\ HoldsWallet'
    BY <1>1, EndSessions
  <1>7. HoldsReservation'
    BY <1>1, <1>2, <1>4, EndFacts, KeyFacts DEF HoldsReservation, RequestShape
  <1>8. SeenIsCurrent'
    BY <1>1, <1>3, EndFacts DEF SeenIsCurrent, RequestShape, TypeOK
  <1>9. RowShape'
    BY <1>2, <1>4, TxFacts DEF RowShape, Statuses
  <1>10. MissingWalletIsEmpty'
    BY <1>1, <1>2 DEF MissingWalletIsEmpty, TypeOK
  <1>11. ReleaseCompensated'
    BY <1>2, <1>4, KeyFacts DEF ReleaseCompensated
  <1> QED
    BY <1>5, <1>6, <1>7, <1>8, <1>9, <1>10, <1>11

-----------------------------------------------------------------------------
(* The theorems *)

\* Every step, of whichever session, preserves the inductive invariant.
LEMMA NextIInv == IInv /\ [Next]_vars => IInv'
  <1> SUFFICES ASSUME IInv, [Next]_vars PROVE IInv'
    OBVIOUS
  <1>1. CASE UNCHANGED vars
    BY <1>1 DEF IInv, vars, TypeOK, RequestShape, HoldsWallet, HoldsReservation,
                RowShape, MissingWalletIsEmpty, SeenIsCurrent, ReleaseCompensated
  <1>2. ASSUME NEW s \in Sessions, Arrive(s) \/ Step(s) \/ Abort(s)
        PROVE  IInv'
    <2>1. CASE Arrive(s)
      BY <2>1, ArriveIInv
    <2>2. CASE LockWallet(s)
      <3>1. req[s].user \in Users
        BY <2>2 DEF LockWallet, IInv, TypeOK
      <3> QED
        BY <2>2, <3>1, HoldWalletIInv DEF LockWallet
    <2>3. CASE CreateWallet(s)
      <3>1. req[s].user \in Users
        BY <2>3 DEF CreateWallet, IInv, RequestShape
      <3>2. balance[req[s].user] = 0
        BY <2>3, <3>1 DEF CreateWallet, IInv, MissingWalletIsEmpty
      <3> QED
        BY <2>3, <3>1, <3>2, HoldWalletIInv DEF CreateWallet
    <2>4. CASE WalletMissing(s) \/ CheckAvailable(s)
      BY <2>4, MoveIInv
    <2>5. CASE Rollback(s)
      BY <2>5, RollbackIInv
    <2>6. CASE LockReservation(s)
      BY <2>6, LockReservationIInv
    <2>7. CASE InsertReservation(s)
      BY <2>7, InsertReservationIInv
    <2>8. CASE WriteCommit(s)
      BY <2>8, WriteCommitIInv
    <2>9. CASE WriteRelease(s)
      BY <2>9, WriteReleaseIInv
    <2>10. CASE WritePosting(s)
      BY <2>10, WritePostingIInv
    <2> QED
      BY <1>2, <2>1, <2>2, <2>3, <2>4, <2>5, <2>6, <2>7, <2>8, <2>9, <2>10
         DEF Step, Abort, CreateWalletConflict, InsufficientCredits, NotReserved,
             DuplicateKey
  <1> QED
    BY <1>1, <1>2 DEF Next

\* The inductive invariant holds of every behaviour of the credit service.
THEOREM Invariance == Spec => []IInv
  BY InitIInv, NextIInv, PTL DEF Spec

\* Type correctness: every column and every session variable keeps its type.
THEOREM TypeCorrect == Spec => []TypeOK
  <1>1. IInv => TypeOK
    BY DEF IInv
  <1> QED
    BY <1>1, Invariance, PTL

\* No lost update: whatever a session is about to write back to a wallet was
\* computed from the balance that is there, for any number of sessions.
THEOREM NoLostUpdate == Spec => []SeenIsCurrent
  <1>1. IInv => SeenIsCurrent
    BY DEF IInv
  <1> QED
    BY <1>1, Invariance, PTL

\* Refunds match releases: a reservation has its compensating row exactly when
\* it was released, never when it was charged.
THEOREM RefundsMatchReleases == Spec => []ReleaseCompensated
  <1>1. IInv => ReleaseCompensated
    BY DEF IInv
  <1> QED
    BY <1>1, Invariance, PTL

-----------------------------------------------------------------------------
(* Action properties *)

\* A step either leaves both tables alone or is one of the four writes.
LEMMA WritesOnly ==
    ASSUME IInv, NEW s \in Sessions, Arrive(s) \/ Step(s) \/ Abort(s)
    PROVE  \/ balance' = balance /\ ledger' = ledger
           \/ InsertReservation(s) \/ WriteCommit(s)
           \/ WriteRelease(s) \/ WritePosting(s)
  BY DEF Arrive, BeginReserve, BeginCommit, BeginRelease, BeginPurchase, BeginGrant,
         BeginAdjust, Begin, Step, LockWallet, WalletMissing, CreateWallet, HoldWallet,
         CreateWalletConflict, CheckAvailable, InsufficientCredits, LockReservation,
         HoldReservation, NotReserved, DuplicateKey, Abort, Rollback

\* A write touches a free row or an open reservation, and the compensating row
\* of a reservation that is still open is free.
LEMMA WriteTargets ==
    ASSUME IInv, NEW s \in Sessions, pc[s] = "write"
    PROVE  LET r == req[s] IN
           /\ r.user \in Users /\ r.delta \in Int /\ r.key \in LedgerKeys
           /\ r.op \in {"commit", "release"}
                => /\ r.key \in ReserveKeys
                   /\ ledger[r.key] = Tx(r.user, r.delta, "reserved")
                   /\ ledger[ReleaseKey(r.key)] = NoTx
                   /\ ReleaseKey(r.key) \in LedgerKeys /\ ReleaseKey(r.key) # r.key
           /\ r.op # "release" => seen[s] = balance[r.user]
  <1> DEFINE r == req[s]
  <1> USE DEF IInv
  <1>1. r.user \in Users /\ r.delta \in Int /\ r.op \in Operations \ {"none"}
    BY DEF RequestShape, TypeOK, Requests
  <1>2. r.key \in LedgerKeys
    BY <1>1, KeyFacts DEF RequestShape, Operations
  <1>3. ASSUME r.op \in {"commit", "release"}
        PROVE  /\ r.key \in ReserveKeys
               /\ ledger[r.key] = Tx(r.user, r.delta, "reserved")
    BY <1>3 DEF RequestShape, HoldsReservation
  <1>4. ASSUME r.op \in {"commit", "release"}
        PROVE  /\ ledger[ReleaseKey(r.key)] = NoTx
               /\ ReleaseKey(r.key) \in LedgerKeys /\ ReleaseKey(r.key) # r.key
    BY <1>1, <1>3, <1>4, TxFacts, KeyFacts DEF ReleaseCompensated, Statuses
  <1>5. r.op # "release" => seen[s] = balance[r.user]
    BY DEF SeenIsCurrent
  <1> QED
    BY <1>1, <1>2, <1>3, <1>4, <1>5

\* A settled row never changes again, so a reservation is charged or refunded
\* once, however often commit and release are called for it.
THEOREM SettledOnce == Spec => SettledForever
  <1> DEFINE A == \A k \in LedgerKeys : ledger[k].status \in {"committed", "released"}
                      => ledger'[k] = ledger[k]
  <1>1. IInv /\ [Next]_vars => [A]_vars
    <2> SUFFICES ASSUME IInv, NEW s \in Sessions, Arrive(s) \/ Step(s) \/ Abort(s),
                        NEW k \in LedgerKeys,
                        ledger[k].status \in {"committed", "released"}
                 PROVE  ledger'[k] = ledger[k]
      BY DEF Next
    <2>1. CASE InsertReservation(s)
      BY <2>1, WriteTargets, TxFacts DEF InsertReservation, IInv, TypeOK
    <2>2. CASE WritePosting(s)
      BY <2>2, WriteTargets, TxFacts DEF WritePosting, IInv, TypeOK
    <2>3. CASE WriteCommit(s)
      BY <2>3, WriteTargets, TxFacts DEF WriteCommit, IInv, TypeOK, Statuses
    <2>4. CASE WriteRelease(s)
      BY <2>4, WriteTargets, TxFacts DEF WriteRelease, IInv, TypeOK, Statuses
    <2> QED
      BY <2>1, <2>2, <2>3, <2>4, WritesOnly
  <1> HIDE DEF A
  <1>2. Spec => [][A]_vars
    BY <1>1, Invariance, PTL DEF Spec
  <1> QED
    BY <1>2 DEF A, SettledForever

\* The balance and the ledger move together: a step that changes a wallet makes
\* exactly one row of that user committed and changes it by that row's delta.
\* The ledger's sums are BooksBalance, below.
THEOREM DoubleEntry == Spec => BalanceMovesWithLedger
  <1> DEFINE A == \A u \in Users : balance'[u] # balance[u] =>
                    \E k \in LedgerKeys :
                      /\ ledger[k].status # "committed"
                      /\ ledger'[k].status = "committed" /\ ledger'[k].user = u
                      /\ balance'[u] = balance[u] + ledger'[k].delta
                      /\ \A j \in LedgerKeys \ {k} : ledger'[j] = ledger[j]
  <1>1. IInv /\ [Next]_vars => [A]_vars
    <2> SUFFICES ASSUME IInv, NEW s \in Sessions, Arrive(s) \/ Step(s) \/ Abort(s),
                        NEW u \in Users, balance'[u] # balance[u]
                 PROVE  \E k \in LedgerKeys :
                          /\ ledger[k].status # "committed"
                          /\ ledger'[k].status = "committed" /\ ledger'[k].user = u
                          /\ balance'[u] = balance[u] + ledger'[k].delta
                          /\ \A j \in LedgerKeys \ {k} : ledger'[j] = ledger[j]
      BY DEF Next
    <2> DEFINE r == req[s]
    <2>1. /\ WriteCommit(s) \/ WritePosting(s)
          /\ pc[s] = "write" /\ r.op # "release"
          /\ ledger'  = [ledger EXCEPT ![r.key] = Tx(r.user, r.delta, "committed")]
          /\ balance' = [balance EXCEPT ![r.user] = seen[s] + r.delta]
      BY WritesOnly DEF InsertReservation, WriteCommit, WriteRelease, WritePosting, Posting
    <2>2. /\ r.user \in Users /\ r.delta \in Int /\ r.key \in LedgerKeys
          /\ seen[s] = balance[r.user]
      BY <2>1, WriteTargets
    <2>3. ledger[r.key].status # "committed"
      <3>1. CASE WriteCommit(s)
        BY <3>1, <2>1, <2>2, WriteTargets, TxFacts DEF WriteCommit, Statuses
      <3>2. CASE WritePosting(s)
        BY <3>2, TxFacts DEF WritePosting
      <3> QED
        BY <2>1, <3>1, <3>2
    <2> HIDE DEF r
    <2>4. u = r.user /\ balance'[u] = balance[u] + r.delta
      BY <2>1, <2>2 DEF IInv, TypeOK
    <2>5. /\ ledger'[r.key] = Tx(r.user, r.delta, "committed")
          /\ \A j \in LedgerKeys \ {r.key} : ledger'[j] = ledger[j]
      BY <2>1, <2>2 DEF IInv, TypeOK
    <2>6. /\ ledger'[r.key].status = "committed" /\ ledger'[r.key].user = r.user
          /\ ledger'[r.key].delta = r.delta
      BY <2>2, <2>5, TxFacts DEF Statuses
    <2> QED
      BY <2>2, <2>3, <2>4, <2>5, <2>6
  <1> HIDE DEF A
  <1>2. Spec => [][A]_vars
    BY <1>1, Invariance, PTL DEF Spec
  <1> QED
    BY <1>2 DEF A, BalanceMovesWithLedger

-----------------------------------------------------------------------------
(* The transactions implement the atomic ledger *)

\* What a request may ask for: the amounts of the request schemas, under a key
\* of its own kind.
RequestAmounts ==
    \A s \in Sessions :
        /\ req[s].op = "reserve" => -req[s].delta \in Amounts
        /\ req[s].op \in {"purchase", "grant"} =>
              req[s].key \in PurchaseKeys \cup GrantKeys /\ req[s].delta \in Amounts
        /\ req[s].op = "adjust" => req[s].key \in AdminKeys /\ req[s].delta \in Adjustments

\* The check reserve_credits made is still good when it inserts: the row lock
\* keeps commits, postings and other reservations of that user out, and a
\* release, which does not take it, only raises what is available.
StillSufficient ==
    \A s \in Sessions, v \in Users :
        pc[s] = "write" /\ req[s].op = "reserve" /\ req[s].user = v
            => Available(v) >= -req[s].delta

WalletInv == IInv /\ LedgerInv /\ RequestAmounts /\ StillSufficient

\* The wallet starts where the ledger does.
LEMMA WalletInit == Init => WalletInv /\ LedgerInit
  <1> SUFFICES ASSUME Init PROVE WalletInv
    BY DEF Init
  <1>1. IInv /\ LedgerInv
    BY InitIInv, LedgerInitInv DEF Init
  <1>2. RequestAmounts /\ StillSufficient
    BY DEF Init, RequestAmounts, StillSufficient, NoRequest
  <1> QED
    BY <1>1, <1>2 DEF WalletInv

\* A step that keeps both tables keeps what is available.
LEMMA SameAvailable ==
    ASSUME balance' = balance, ledger' = ledger, NEW v \in Users
    PROVE  Available(v)' = Available(v)
  BY SumsOfLedger

\* The writes of one user's request leave what another has available alone.
LEMMA OthersAvailable ==
    ASSUME LedgerInv, NEW k \in LedgerKeys, NEW row \in Transactions,
           ledger' = [ledger EXCEPT ![k] = row], NEW v \in Users, balance'[v] = balance[v],
           row.user # v, ledger[k] = NoTx \/ ledger[k].user # v
    PROVE  Available(v)' = Available(v)
  <1>1. PICK old : old = ledger
    OBVIOUS
  <1>2. PICK new : new = ledger'
    OBVIOUS
  <1>3. /\ old \in [LedgerKeys -> Transactions] /\ IsFiniteSet(MadeIn(old))
        /\ new = [old EXCEPT ![k] = row]
    BY <1>1, <1>2 DEF LedgerInv, LedgerTypeOK, RowsAreFinite
  <1>4. /\ new \in [LedgerKeys -> Transactions] /\ new[k] = row
        /\ \A j \in LedgerKeys \ {k} : new[j] = old[j]
    BY <1>3
  <1>5. OpenPart(row, v) = 0 /\ OpenPart(old[k], v) = 0
    BY <1>1 DEF OpenPart, Counts, NoTx
  <1>6. OpenSum(old, v) \in Int /\ OpenSum(new, v) \in Int
    BY <1>3, <1>4, LedgerSums
  <1>7. Moves(OpenSum(old, v), OpenSum(new, v), OpenPart(old[k], v), OpenPart(row, v))
    BY <1>3, <1>4, LedgerSums
  <1>8. OpenSum(new, v) = OpenSum(old, v)
    BY <1>5, <1>6, <1>7 DEF Moves
  <1> QED
    BY <1>1, <1>2, <1>8, SumsOfLedger

\* Each write is the operation of the atomic ledger it is named for.
LEMMA InsertReservationReserves ==
    ASSUME WalletInv, NEW s \in Sessions, InsertReservation(s)
    PROVE  Reserve(req[s].user, req[s].key, -req[s].delta)
           /\ req[s].user \in Users /\ req[s].key \in ReserveKeys /\ -req[s].delta \in Amounts
  <1>1. PICK r : r = req[s]
    OBVIOUS
  <1>2. /\ pc[s] = "write" /\ r.op = "reserve" /\ ledger[r.key] = NoTx
        /\ ledger' = [ledger EXCEPT ![r.key] = Tx(r.user, r.delta, "reserved")]
        /\ balance' = balance
    BY <1>1 DEF InsertReservation
  <1>3. r.key \in ReserveKeys /\ r.user \in Users /\ r.delta \in Int
    BY <1>1, <1>2 DEF WalletInv, IInv, RequestShape, TypeOK, Requests
  <1>4. Available(r.user) >= -r.delta /\ -r.delta \in Amounts
    BY <1>1, <1>2, <1>3 DEF WalletInv, StillSufficient, RequestAmounts
  <1>5. -(-r.delta) = r.delta
    BY <1>3
  <1> QED
    BY <1>1, <1>2, <1>3, <1>4, <1>5 DEF Reserve

\* commit_reservation, as the ledger sees it.
LEMMA WriteCommitCommits ==
    ASSUME WalletInv, NEW s \in Sessions, WriteCommit(s)
    PROVE  CommitReservation(req[s].key) /\ req[s].key \in ReserveKeys
  <1>1. PICK r : r = req[s]
    OBVIOUS
  <1>2. /\ pc[s] = "write" /\ r.op = "commit"
        /\ ledger' = [ledger EXCEPT ![r.key] = Tx(r.user, r.delta, "committed")]
        /\ balance' = [balance EXCEPT ![r.user] = seen[s] + r.delta]
    BY <1>1 DEF WriteCommit
  <1>3. /\ r.user \in Users /\ r.delta \in Int /\ r.key \in LedgerKeys /\ r.key \in ReserveKeys
        /\ ledger[r.key] = Tx(r.user, r.delta, "reserved") /\ seen[s] = balance[r.user]
    BY <1>1, <1>2, WriteTargets DEF WalletInv
  <1>4. /\ ledger[r.key].status = "reserved" /\ ledger[r.key].user = r.user
        /\ ledger[r.key].delta = r.delta
    BY <1>3, TxFacts DEF Statuses
  <1>5. [ledger[r.key] EXCEPT !.status = "committed"] = Tx(r.user, r.delta, "committed")
    BY <1>3 DEF Tx
  <1>6. ledger' = [ledger EXCEPT ![r.key].status = "committed"]
    BY <1>2, <1>5
  <1>7. balance' = [balance EXCEPT ![ledger[r.key].user] = @ + ledger[r.key].delta]
    BY <1>2, <1>3, <1>4
  <1> QED
    BY <1>1, <1>3, <1>4, <1>6, <1>7 DEF CommitReservation

\* release_reservation, as the ledger sees it.
LEMMA WriteReleaseReleases ==
    ASSUME WalletInv, NEW s \in Sessions, WriteRelease(s)
    PROVE  ReleaseReservation(req[s].key) /\ req[s].key \in ReserveKeys
  <1>1. PICK r : r = req[s]
    OBVIOUS
  <1>2. /\ pc[s] = "write" /\ r.op = "release"
        /\ ledger' = [ledger EXCEPT ![r.key] = Tx(r.user, r.delta, "released"),
                                    ![ReleaseKey(r.key)] = Tx(r.user, -r.delta, "committed")]
        /\ balance' = balance
    BY <1>1 DEF WriteRelease
  <1>3. /\ r.user \in Users /\ r.delta \in Int /\ r.key \in LedgerKeys /\ r.key \in ReserveKeys
        /\ ledger[r.key] = Tx(r.user, r.delta, "reserved")
    BY <1>1, <1>2, WriteTargets DEF WalletInv
  <1>4. /\ ledger[r.key].status = "reserved" /\ ledger[r.key].user = r.user
        /\ ledger[r.key].delta = r.delta
    BY <1>3, TxFacts DEF Statuses
  <1>5. [ledger[r.key] EXCEPT !.status = "released"] = Tx(r.user, r.delta, "released")
    BY <1>3 DEF Tx
  <1>6. ledger' = [ledger EXCEPT ![r.key].status = "released",
                                 ![ReleaseKey(r.key)] =
                                     Tx(ledger[r.key].user, -ledger[r.key].delta, "committed")]
    BY <1>2, <1>4, <1>5
  <1> QED
    BY <1>1, <1>2, <1>3, <1>4, <1>6 DEF ReleaseReservation

\* purchase, grant and admin adjustment, as the ledger sees them.
LEMMA WritePostingPosts ==
    ASSUME WalletInv, NEW s \in Sessions, WritePosting(s)
    PROVE  /\ Post(req[s].user, req[s].key, req[s].delta) /\ req[s].user \in Users
           /\ \/ req[s].key \in PurchaseKeys \cup GrantKeys /\ req[s].delta \in Amounts
              \/ req[s].key \in AdminKeys /\ req[s].delta \in Adjustments
  <1>1. PICK r : r = req[s]
    OBVIOUS
  <1>2. /\ pc[s] = "write" /\ r.op \in Posting /\ r.op # "release" /\ ledger[r.key] = NoTx
        /\ ledger' = [ledger EXCEPT ![r.key] = Tx(r.user, r.delta, "committed")]
        /\ balance' = [balance EXCEPT ![r.user] = seen[s] + r.delta]
    BY <1>1 DEF WritePosting, Posting
  <1>3. r.user \in Users /\ seen[s] = balance[r.user]
    BY <1>1, <1>2, WriteTargets DEF WalletInv
  <1>4. \/ r.key \in PurchaseKeys \cup GrantKeys /\ r.delta \in Amounts
        \/ r.key \in AdminKeys /\ r.delta \in Adjustments
    BY <1>1, <1>2 DEF WalletInv, RequestAmounts, Posting
  <1>5. balance' = [balance EXCEPT ![r.user] = @ + r.delta]
    BY <1>2, <1>3
  <1> QED
    BY <1>1, <1>2, <1>3, <1>4, <1>5 DEF Post

\* A step of a session is a step of the atomic ledger, or leaves it alone.
LEMMA StepRefines == WalletInv /\ [Next]_vars => [LedgerNext]_ledgerVars
  <1> SUFFICES ASSUME WalletInv, [Next]_vars PROVE [LedgerNext]_ledgerVars
    OBVIOUS
  <1>1. CASE UNCHANGED vars
    BY <1>1 DEF vars, ledgerVars
  <1>2. ASSUME NEW s \in Sessions, Arrive(s) \/ Step(s) \/ Abort(s)
        PROVE  [LedgerNext]_ledgerVars
    <2>1. CASE balance' = balance /\ ledger' = ledger
      BY <2>1 DEF ledgerVars
    <2>2. CASE InsertReservation(s)
      BY <2>2, InsertReservationReserves DEF LedgerNext
    <2>3. CASE WriteCommit(s)
      BY <2>3, WriteCommitCommits DEF LedgerNext
    <2>4. CASE WriteRelease(s)
      BY <2>4, WriteReleaseReleases DEF LedgerNext
    <2>5. CASE WritePosting(s)
      BY <2>5, WritePostingPosts DEF LedgerNext
    <2> QED
      BY <1>2, <2>1, <2>2, <2>3, <2>4, <2>5, WritesOnly DEF WalletInv
  <1> QED
    BY <1>1, <1>2 DEF Next

\* A session's request is set when it arrives, completed from the reservation it
\* locks, and cleared at the end.
LEMMA AmountsKept ==
    ASSUME WalletInv, NEW s \in Sessions, Arrive(s) \/ Step(s) \/ Abort(s)
    PROVE  RequestAmounts'
  <1> USE DEF WalletInv
  <1>1. CASE req' = req
    BY <1>1 DEF RequestAmounts
  <1>2. CASE EndTransaction(s)
    <2>1. req' = [req EXCEPT ![s] = NoRequest] /\ req \in [Sessions -> Requests]
      BY <1>2 DEF EndTransaction, IInv, TypeOK
    <2>2. NoRequest.op = "none"
      BY DEF NoRequest
    <2> QED
      BY <2>1, <2>2 DEF RequestAmounts
  <1>3. CASE LockReservation(s)
    <2>1. PICK r : /\ req' = [req EXCEPT ![s] = r] /\ r.op = req[s].op
                   /\ req \in [Sessions -> Requests]
      <3>1. PICK k : k = req[s].key
        OBVIOUS
      <3>2. PICK r : r = [op |-> req[s].op, user |-> ledger[k].user, key |-> k,
                          delta |-> ledger[k].delta]
        OBVIOUS
      <3>3. req' = [req EXCEPT ![s] = r] /\ r.op = req[s].op
        BY <1>3, <3>1, <3>2 DEF LockReservation, HoldReservation
      <3> QED
        BY <3>3 DEF IInv, TypeOK
    <2>2. req[s].op \in {"commit", "release"}
      BY <1>3 DEF LockReservation, IInv, RequestShape
    <2> QED
      BY <2>1, <2>2 DEF RequestAmounts
  <1>4. CASE Arrive(s)
    <2>1. PICK op \in Operations, u \in Users \cup {NoUser}, k \in LedgerKeys, d \in Int,
               loc \in {"wallet", "tx"} :
            /\ Begin(s, op, u, k, d, loc)
            /\ op = "reserve" => -d \in Amounts
            /\ op \in {"purchase", "grant"} => k \in PurchaseKeys \cup GrantKeys /\ d \in Amounts
            /\ op = "adjust" => k \in AdminKeys /\ d \in Adjustments
      <3> USE KeyFacts, AmountAssumption DEF Operations, Posting, PostingKeys
      <3>1. CASE BeginReserve(s)
        <4>1. PICK u \in Users, k \in ReserveKeys, a \in Amounts :
                 Begin(s, "reserve", u, k, -a, "wallet")
          BY <3>1 DEF BeginReserve
        <4>2. -(-a) = a /\ -a \in Int
          OBVIOUS
        <4> QED
          BY <4>1, <4>2
      <3>2. CASE BeginCommit(s)
        BY <3>2 DEF BeginCommit
      <3>3. CASE BeginRelease(s)
        BY <3>3 DEF BeginRelease
      <3>4. CASE BeginPurchase(s)
        BY <3>4 DEF BeginPurchase
      <3>5. CASE BeginGrant(s)
        BY <3>5 DEF BeginGrant
      <3>6. CASE BeginAdjust(s)
        BY <3>6 DEF BeginAdjust
      <3> QED
        BY <1>4, <3>1, <3>2, <3>3, <3>4, <3>5, <3>6 DEF Arrive
    <2>2. PICK r : r = [op |-> op, user |-> u, key |-> k, delta |-> d]
      OBVIOUS
    <2>3. req' = [req EXCEPT ![s] = r] /\ req \in [Sessions -> Requests]
      BY <2>1, <2>2 DEF Begin, IInv, TypeOK
    <2>4. r.op = op /\ r.key = k /\ r.delta = d
      BY <2>2
    <2> QED
      BY <2>1, <2>3, <2>4 DEF RequestAmounts
  <1> QED
    BY <1>1, <1>2, <1>3, <1>4
       DEF Step, Abort, Rollback, LockWallet, WalletMissing, CreateWallet, HoldWallet,
           CreateWalletConflict, CheckAvailable, InsufficientCredits, InsertReservation,
           NotReserved, WriteCommit, WriteRelease, WritePosting, DuplicateKey

\* What a user has available is a number.
LEMMA AvailableIsInt ==
    /\ LedgerInv => \A v \in Users : Available(v) \in Int
    /\ LedgerInv' => \A v \in Users : Available(v)' \in Int
  <1>1. ASSUME NEW table \in [LedgerKeys -> Transactions], IsFiniteSet(MadeIn(table)),
               NEW v \in Users
        PROVE  OpenSum(table, v) \in Int
    BY <1>1, OwnedFacts, TotalType DEF OpenSum
  <1>2. LedgerInv => \A v \in Users : Available(v) \in Int
    <2> SUFFICES ASSUME LedgerInv, NEW v \in Users PROVE Available(v) \in Int
      OBVIOUS
    <2>1. PICK table : table = ledger
      OBVIOUS
    <2>2. OpenSum(table, v) \in Int /\ balance[v] \in Int
      BY <1>1, <2>1 DEF LedgerInv, LedgerTypeOK, RowsAreFinite
    <2> QED
      BY <2>1, <2>2, SumsOfLedger
  <1>3. LedgerInv' => \A v \in Users : Available(v)' \in Int
    <2> SUFFICES ASSUME LedgerInv', NEW v \in Users PROVE Available(v)' \in Int
      OBVIOUS
    <2>1. PICK table : table = ledger'
      OBVIOUS
    <2>2. OpenSum(table, v) \in Int /\ balance'[v] \in Int
      BY <1>1, <2>1 DEF LedgerInv, LedgerTypeOK, RowsAreFinite
    <2> QED
      BY <2>1, <2>2, SumsOfLedger
  <1> QED
    BY <1>2, <1>3

\* Whose credits a step may touch while a reservation is about to be inserted.
LEMMA AvailableKept ==
    ASSUME WalletInv, NEW s \in Sessions, Arrive(s) \/ Step(s) \/ Abort(s),
           NEW t \in Sessions \ {s}, pc[t] = "write", req[t].op = "reserve",
           NEW v \in Users, v = req[t].user
    PROVE  Available(v)' >= Available(v)
  <1> USE DEF WalletInv
  <1>2. PICK r : r = req[s]
    OBVIOUS
  <1>4. Available(v) \in Int
    BY AvailableIsInt
  <1>5. CASE balance' = balance /\ ledger' = ledger
    BY <1>4, <1>5, SameAvailable
  <1>6. CASE WriteRelease(s)
    BY <1>6, WriteReleaseReleases, ReleaseLedgerInv
  <1>7. CASE InsertReservation(s) \/ WriteCommit(s) \/ WritePosting(s)
    <2>1. pc[s] = "write" /\ r.op # "release"
      BY <1>2, <1>7 DEF InsertReservation, WriteCommit, WritePosting, Posting
    <2>2. r.user # v
      BY <1>2, <2>1, Exclusive
    <2>3. /\ r.user \in Users /\ r.delta \in Int /\ r.key \in LedgerKeys
          /\ r.op = "commit" => ledger[r.key] = Tx(r.user, r.delta, "reserved")
      BY <1>2, <2>1, WriteTargets
    <2>4. PICK st \in {"reserved", "committed"} : ledger' = [ledger EXCEPT ![r.key] = Tx(r.user, r.delta, st)]
      BY <1>2, <1>7 DEF InsertReservation, WriteCommit, WritePosting
    <2>5. PICK row : row = Tx(r.user, r.delta, st)
      OBVIOUS
    <2>6. row \in Transactions /\ row.user # v
      BY <2>2, <2>3, <2>4, <2>5, TxFacts DEF Statuses
    <2>7. balance'[v] = balance[v]
      <3>1. CASE balance' = balance
        BY <3>1
      <3>2. CASE balance' = [balance EXCEPT ![r.user] = seen[s] + r.delta]
        BY <2>2, <3>2 DEF LedgerInv, LedgerTypeOK
      <3> QED
        BY <1>2, <1>7, <3>1, <3>2 DEF InsertReservation, WriteCommit, WritePosting
    <2>8. ledger[r.key] = NoTx \/ ledger[r.key].user # v
      <3>1. CASE ledger[r.key] = NoTx
        BY <3>1
      <3>2. CASE WriteCommit(s)
        BY <1>2, <2>2, <2>3, <3>2, TxFacts DEF WriteCommit, Statuses
      <3> QED
        BY <1>2, <1>7, <3>1, <3>2 DEF InsertReservation, WritePosting
    <2>9. ledger' = [ledger EXCEPT ![r.key] = row]
      BY <2>4, <2>5
    <2>10. Available(v)' = Available(v)
      BY <2>3, <2>6, <2>7, <2>8, <2>9, OthersAvailable
    <2> QED
      BY <1>4, <2>10
  <1> QED
    BY <1>5, <1>6, <1>7, WritesOnly

\* The row lock carries the availability check to the insert.
LEMMA SufficientKept ==
    ASSUME WalletInv, LedgerInv', NEW s \in Sessions, Arrive(s) \/ Step(s) \/ Abort(s)
    PROVE  StillSufficient'
  <1> SUFFICES ASSUME NEW t \in Sessions, NEW v \in Users,
                      pc'[t] = "write", req'[t].op = "reserve", req'[t].user = v
               PROVE  Available(v)' >= -req'[t].delta
    BY DEF StillSufficient
  <1>1. pc \in [Sessions -> Locations] /\ req \in [Sessions -> Requests]
    BY DEF WalletInv, IInv, TypeOK
  <1>2. Available(v) \in Int /\ Available(v)' \in Int
    BY AvailableIsInt DEF WalletInv
  <1>3. CASE t # s
    <2>1. pc'[t] = pc[t] /\ req'[t] = req[t]
      BY <1>1, <1>3
         DEF Arrive, BeginReserve, BeginCommit, BeginRelease, BeginPurchase, BeginGrant,
             BeginAdjust, Begin, Step, LockWallet, WalletMissing, CreateWallet, HoldWallet,
             CreateWalletConflict, CheckAvailable, InsufficientCredits, InsertReservation,
             LockReservation, HoldReservation, NotReserved, WriteCommit, WriteRelease,
             WritePosting, DuplicateKey, Abort, Rollback, EndTransaction
    <2>2. pc[t] = "write" /\ req[t].op = "reserve" /\ req[t].user = v
      BY <2>1
    <2>3. Available(v) >= -req[t].delta
      BY <2>2 DEF WalletInv, StillSufficient
    <2>4. Available(v)' >= Available(v)
      BY <1>3, <2>2, AvailableKept
    <2>5. req[t].delta \in Int
      BY <1>1 DEF Requests
    <2> QED
      BY <1>2, <2>1, <2>3, <2>4, <2>5
  <1>4. CASE t = s
    <2>1. CheckAvailable(s)
      <3>1. ~Arrive(s)
        BY <1>1, <1>4 DEF Arrive, BeginReserve, BeginCommit, BeginRelease, BeginPurchase,
                          BeginGrant, BeginAdjust, Begin
      <3>2. ~EndTransaction(s)
        BY <1>1, <1>4 DEF EndTransaction
      <3>3. ~WalletMissing(s) /\ ~LockWallet(s) /\ ~CreateWallet(s)
        BY <1>1, <1>4 DEF WalletMissing, LockWallet, CreateWallet, HoldWallet
      <3>4. ~LockReservation(s)
        <4> SUFFICES ASSUME LockReservation(s) PROVE FALSE
          OBVIOUS
        <4>1. req[s].op \in {"commit", "release"}
          BY DEF LockReservation, WalletInv, IInv, RequestShape
        <4>2. req'[s].op = req[s].op
          <5>1. PICK k : k = req[s].key
            OBVIOUS
          <5>2. PICK r : r = [op |-> req[s].op, user |-> ledger[k].user, key |-> k,
                              delta |-> ledger[k].delta]
            OBVIOUS
          <5>3. req' = [req EXCEPT ![s] = r] /\ r.op = req[s].op
            BY <5>1, <5>2 DEF LockReservation, HoldReservation
          <5> QED
            BY <1>1, <5>3
        <4> QED
          BY <1>4, <4>1, <4>2
      <3> QED
        BY <3>1, <3>2, <3>3, <3>4
           DEF Step, Abort, Rollback, CreateWalletConflict, InsufficientCredits,
               InsertReservation, NotReserved, WriteCommit, WriteRelease, WritePosting,
               DuplicateKey
    <2>2. /\ pc[s] = "sum" /\ req' = req /\ balance' = balance /\ ledger' = ledger
          /\ seen[s] + SumReserved(v) >= -req[s].delta
      BY <1>4, <2>1 DEF CheckAvailable, SufficientCredits
    <2>3. seen[s] = balance[v]
      BY <1>4, <2>2 DEF WalletInv, IInv, SeenIsCurrent
    <2>4. Available(v) >= -req[s].delta
      BY <2>2, <2>3 DEF Available
    <2>5. Available(v)' = Available(v)
      BY <2>2, SameAvailable
    <2> QED
      BY <1>4, <2>2, <2>4, <2>5
  <1> QED
    BY <1>3, <1>4

\* Every step of the wallet keeps its invariant.
LEMMA WalletNext == WalletInv /\ [Next]_vars => WalletInv'
  <1> SUFFICES ASSUME WalletInv, [Next]_vars PROVE WalletInv'
    OBVIOUS
  <1>1. LedgerInv'
    BY StepRefines, LedgerNextInv DEF WalletInv
  <1>2. IInv'
    BY NextIInv DEF WalletInv
  <1>3. RequestAmounts' /\ StillSufficient'
    <2>1. CASE UNCHANGED vars
      <3>1. balance' = balance /\ ledger' = ledger /\ req' = req /\ pc' = pc
        BY <2>1 DEF vars
      <3>2. RequestAmounts'
        BY <3>1 DEF WalletInv, RequestAmounts
      <3>3. \A v \in Users : Available(v)' = Available(v)
        BY <3>1, SameAvailable
      <3>4. StillSufficient'
        BY <3>1, <3>3 DEF WalletInv, StillSufficient
      <3> QED
        BY <3>2, <3>4
    <2>2. CASE Next
      <3>1. PICK s \in Sessions : Arrive(s) \/ Step(s) \/ Abort(s)
        BY <2>2 DEF Next
      <3> QED
        BY <1>1, <3>1, AmountsKept, SufficientKept
    <2> QED
      BY <2>1, <2>2
  <1> QED
    BY <1>1, <1>2, <1>3 DEF WalletInv

\* The wallet's locks, and what a session remembers of what it read, hold at
\* every step of reserve, commit, release and the postings.
THEOREM WalletInvariance == Spec => []WalletInv
  <1>1. Init => WalletInv
    BY WalletInit
  <1> QED
    BY <1>1, WalletNext, PTL DEF Spec

\* Refinement: the sessions with their row locks, copies, conflicts and
\* rollbacks are the atomic ledger of CreditLedger.
THEOREM WalletImplementsLedger == Spec => LedgerSpec
  <1>1. Init => LedgerInit
    BY DEF Init
  <1> QED
    BY <1>1, StepRefines, WalletInvariance, PTL DEF Spec, LedgerSpec

\* Nobody spends credits they do not have, however many sessions reserve,
\* commit, release, buy and adjust at once.
THEOREM NobodyOverspends == Spec => []NoOverspend
  <1>1. LedgerInv => NoOverspend
    BY DEF LedgerInv
  <1> QED
    BY <1>1, LedgerInvariance, WalletImplementsLedger, PTL

\* The denormalised balance is the sum of the settled rows of the ledger.
THEOREM BooksBalance == Spec => []LedgerBacksBalance
  <1>1. LedgerInv => LedgerBacksBalance
    BY DEF LedgerInv
  <1> QED
    BY <1>1, LedgerInvariance, WalletImplementsLedger, PTL

-----------------------------------------------------------------------------
(* The mirror of the subscriptions: types *)

RowStatus   == {"trialing", "active", "past_due", "grace", "paused", "canceled", "expired"}
Tiers       == {"free"} \cup PaidTiers
EventKinds  == RcKinds \cup {"created", "updated", "deleted", "paid", "failed"}
StoreStatus == {"none", "active", "past_due", "canceled", "expired"}

StoreEvent  == [sub : Subs, kind : EventKinds, ts : Nat, status : StoreStatus \ {"none"},
                tier : Tiers, period : Nat]
StoreRow    == [status : StoreStatus, tier : Tiers, period : Nat]
RowValues   == [status : RowStatus, tier : Tiers, period : Nat]
Webhook     == [at : {"idle", "load", "flush", "cases", "commit"}, ev : Nat,
                row : Seq(SubscriptionRow), open : SUBSET Nat, began : Nat]
Cancelling  == [at : {"idle", "called"}, status : RowStatus \cup {"none"}, began : Nat]
LoadedCase  == [at : Subs \X Nat, state : DOMAIN NextState]

SyncShape ==
    /\ clock \in Nat
    /\ store \in [Subs -> StoreRow]
    /\ events \in Seq(StoreEvent)
    /\ recorded \subseteq EventIds
    /\ rows \in [Subs -> Seq(SubscriptionRow)]
    /\ cases \in [Subs -> Seq(DunningCase)]
    /\ handler \in [Handlers -> Webhook]
    /\ cancel \in [Subs -> Cancelling]
    /\ beat \subseteq LoadedCase

\* The rows and cases of a subscription refer to each other and to the past.
RowsSound ==
    \A s \in Subs :
        /\ \A r \in 1..Len(rows[s]) : rows[s][r].updated <= clock
        /\ \A c \in 1..Len(cases[s]) : cases[s][c].row \in 1..Len(rows[s])
        /\ cancel[s].at = "called" => rows[s] # <<>> /\ cancel[s].began <= clock

\* A webhook request serves an event that is not in the ledger, no two serve the
\* same one, and the row one has loaded is still there.
WebhooksSound ==
    \A h \in Handlers : handler[h].at # "idle" =>
        /\ handler[h].ev \in EventIds \ recorded
        /\ handler[h].began <= clock
        /\ handler[h].row # <<>> => rows[Sub(h)] # <<>>
        /\ \A g \in Handlers \ {h} : handler[g].at # "idle" => handler[g].ev # handler[h].ev

GrantsAreFinite == IsFiniteSet(grants)

SyncInv == SyncShape /\ RowsSound /\ WebhooksSound /\ GrantsAreFinite /\ GrantsArePaidFor

\* The values a handler takes from an event, or leaves as it loaded them.
LEMMA InSessionType ==
    ASSUME NEW e \in StoreEvent, NEW loaded \in Seq(SubscriptionRow)
    PROVE  Incoming(e) \in RowValues /\ InSession(e, loaded) \in RowValues
  <1>1. Incoming(e) \in RowValues
    <2>1. \A k \in RcKinds : RC_STATUS_MAP[k] \in RowStatus
      BY DEF RC_STATUS_MAP, RowStatus
    <2> QED
      BY <2>1 DEF Incoming, RowValues, StoreEvent, StoreStatus, RowStatus, Tiers
  <1>2. CASE loaded = <<>>
    BY <1>1, <1>2 DEF InSession
  <1>3. CASE loaded # <<>>
    <2>1. loaded[1] \in SubscriptionRow
      BY <1>3
    <2>2. Values(loaded[1]) \in RowValues
      BY <2>1 DEF Values, SubscriptionRow, RowValues, RowStatus, Tiers
    <2>3. [Values(loaded[1]) EXCEPT !.status = "past_due"] \in RowValues
      BY <2>2 DEF RowValues, RowStatus
    <2> QED
      BY <1>1, <1>3, <2>2, <2>3 DEF InSession
  <1> QED
    BY <1>1, <1>2, <1>3

\* The row a transaction leaves behind.
LEMMA FlushedType ==
    ASSUME NEW e \in StoreEvent, NEW loaded \in Seq(SubscriptionRow), loaded # <<>>,
           NEW cur \in SubscriptionRow, NEW began \in Nat
    PROVE  /\ Flushed(e, loaded, cur, began) \in SubscriptionRow
           /\ Flushed(e, loaded, cur, began).updated \in {cur.updated, began}
  <1>1. PICK v : v = InSession(e, loaded)
    OBVIOUS
  <1>2. PICK old : old = Values(loaded[1])
    OBVIOUS
  <1>3. v \in RowValues
    BY <1>1, InSessionType
  <1>4. EntitledTier(v) \in Tiers
    BY <1>3 DEF EntitledTier, RowValues, Tiers
  <1>5. Flushed(e, loaded, cur, began) =
          [status  |-> IF v.status = old.status THEN cur.status ELSE v.status,
           tier    |-> IF v.tier = old.tier THEN cur.tier ELSE v.tier,
           period  |-> IF v.period = old.period THEN cur.period ELSE v.period,
           updated |-> IF v = old THEN cur.updated ELSE began,
           ent     |-> IF e.kind \in ApplyKinds THEN EntitledTier(v) ELSE cur.ent]
    BY <1>1, <1>2, Zenon DEF Flushed
  <1> QED
    BY <1>3, <1>4, <1>5 DEF SubscriptionRow, RowValues, RowStatus, Tiers

\* The row an upsert inserts is one its table admits.
LEMMA InsertedType ==
    ASSUME NEW e \in StoreEvent, NEW began \in Nat
    PROVE  Inserted(e, began) \in SubscriptionRow /\ Inserted(e, began).updated = began
  <1>1. PICK v : v = Incoming(e)
    OBVIOUS
  <1>2. <<>> \in Seq(SubscriptionRow)
    OBVIOUS
  <1>3. v \in RowValues
    BY <1>1, <1>2, InSessionType
  <1>4. EntitledTier(v) \in Tiers
    BY <1>3 DEF EntitledTier, RowValues, Tiers
  <1>5. Inserted(e, began) =
          [status |-> v.status, tier |-> v.tier, period |-> v.period, updated |-> began,
           ent |-> IF e.kind \in ApplyKinds THEN EntitledTier(v) ELSE "none"]
    BY <1>1, Zenon DEF Inserted
  <1> QED
    BY <1>3, <1>4, <1>5 DEF SubscriptionRow, RowValues, RowStatus, Tiers

\* An event grants one period at most, and only if it reports a payment.
LEMMA PeriodGrantsFacts ==
    ASSUME NEW e, NEW loaded
    PROVE  \/ PeriodGrants(e, loaded) = {}
           \/ e.kind \in GrantKinds /\ \E g : g[1] = e.sub /\ PeriodGrants(e, loaded) = {g}
  <1>1. PICK v : v = InSession(e, loaded)
    OBVIOUS
  <1>2. PICK g : g = <<e.sub, IF loaded = <<>> THEN Len(rows[e.sub]) + 1 ELSE 1, v.period>>
    OBVIOUS
  <1>3. PeriodGrants(e, loaded) =
           IF e.kind \in GrantKinds /\ HasRow(e, loaded) /\ v.tier # "free" THEN {g} ELSE {}
    BY <1>1, <1>2, Zenon DEF PeriodGrants
  <1>4. g[1] = e.sub
    BY <1>2
  <1> QED
    BY <1>3, <1>4, Zenon

\* Nothing has been sent, and nothing is stored.
LEMMA SyncInitInv == SyncInit => SyncInv
  <1> SUFFICES ASSUME SyncInit PROVE SyncInv
    OBVIOUS
  <1> USE DEF SyncInit
  <1>1. SyncShape
    BY DEF SyncShape, StoreRow, StoreStatus, Tiers, EventIds, Webhook, IdleHandler,
           Cancelling, NoCancel
  <1>2. RowsSound /\ WebhooksSound
    BY DEF RowsSound, WebhooksSound, NoCancel, IdleHandler
  <1>3. GrantsAreFinite
    BY FS_EmptySet DEF GrantsAreFinite
  <1>4. GrantsArePaidFor
    <2> SUFFICES ASSUME NEW s \in Subs
                 PROVE  Cardinality({g \in grants : g[1] = s})
                   <= Cardinality({i \in recorded : events[i].sub = s /\ events[i].kind \in GrantKinds})
      BY DEF GrantsArePaidFor
    <2>1. /\ {g \in grants : g[1] = s} = {}
          /\ {i \in recorded : events[i].sub = s /\ events[i].kind \in GrantKinds} = {}
      OBVIOUS
    <2> QED
      BY <2>1, FS_EmptySet
  <1> QED
    BY <1>1, <1>2, <1>3, <1>4 DEF SyncInv

-----------------------------------------------------------------------------
(* The mirror of the subscriptions: steps *)

\* What a store sends is appended to what it sent.
LEMMA EmitFacts ==
    ASSUME SyncShape, NEW s \in Subs, NEW st \in StoreStatus \ {"none"}, NEW t \in Tiers,
           NEW p \in Nat, NEW kinds \in Seq(EventKinds), Emit(s, st, t, p, kinds)
    PROVE  /\ store' \in [Subs -> StoreRow] /\ events' \in Seq(StoreEvent)
           /\ EventIds \subseteq EventIds'
           /\ \A i \in EventIds : events'[i] = events[i]
  <1>1. PICK tail : tail = [k \in 1..Len(kinds) |->
                              [sub |-> s, kind |-> kinds[k], ts |-> clock,
                               status |-> st, tier |-> t, period |-> p]]
    OBVIOUS
  <1>2. tail \in Seq(StoreEvent) /\ Len(tail) = Len(kinds)
    <2>1. \A k \in 1..Len(kinds) : kinds[k] \in EventKinds
      OBVIOUS
    <2>2. \A k \in 1..Len(kinds) : [sub |-> s, kind |-> kinds[k], ts |-> clock,
                               status |-> st, tier |-> t, period |-> p] \in StoreEvent
      BY <2>1 DEF SyncShape, StoreEvent
    <2> QED
      BY <1>1, <2>2
  <1>3. events' = events \o tail /\ events \in Seq(StoreEvent)
    BY <1>1 DEF Emit, SyncShape
  <1>4. /\ events' \in Seq(StoreEvent) /\ Len(events') = Len(events) + Len(tail)
        /\ \A i \in 1..Len(events) : events'[i] = events[i]
    <2>1. PICK old : old = events
      OBVIOUS
    <2>2. old \in Seq(StoreEvent) /\ Len(old) \in Nat /\ Len(tail) \in Nat
      BY <1>2, <1>3, <2>1
    <2>3. /\ old \o tail \in Seq(StoreEvent) /\ Len(old \o tail) = Len(old) + Len(tail)
          /\ \A i \in 1..Len(old) + Len(tail) :
                (old \o tail)[i] = IF i <= Len(old) THEN old[i] ELSE tail[i - Len(old)]
      BY ZenonT(40), <1>2, <2>2, ConcatProperties
    <2>4. \A i \in 1..Len(old) : (old \o tail)[i] = old[i]
      BY <2>2, <2>3
    <2> QED
      BY <1>3, <2>1, <2>3, <2>4
  <1>5. EventIds \subseteq EventIds'
    BY <1>2, <1>3, <1>4 DEF EventIds
  <1>6. store' \in [Subs -> StoreRow]
    BY DEF Emit, SyncShape, StoreRow
  <1> QED
    BY <1>4, <1>5, <1>6 DEF EventIds

\* While the database is left alone, time and the stores may go on.
LEMMA OutsideSyncInv ==
    ASSUME SyncInv, clock' \in Nat, clock <= clock',
           store' \in [Subs -> StoreRow], events' \in Seq(StoreEvent),
           EventIds \subseteq EventIds', \A i \in EventIds : events'[i] = events[i],
           cancel' \in [Subs -> Cancelling],
           \A s \in Subs : cancel'[s].at = "called" => rows[s] # <<>> /\ cancel'[s].began <= clock',
           UNCHANGED <<recorded, rows, grants, cases, handler, beat>>
    PROVE  SyncInv'
  <1> USE DEF SyncInv
  <1>1. SyncShape'
    BY DEF SyncShape
  <1>2. RowsSound'
    <2> SUFFICES ASSUME NEW s \in Subs
                 PROVE  /\ \A r \in 1..Len(rows[s]) : rows[s][r].updated <= clock'
                        /\ \A c \in 1..Len(cases[s]) : cases[s][c].row \in 1..Len(rows[s])
      BY DEF RowsSound
    <2>1. rows[s] \in Seq(SubscriptionRow) /\ clock \in Nat
      BY DEF SyncShape
    <2>2. ASSUME NEW r \in 1..Len(rows[s]) PROVE rows[s][r].updated <= clock'
      <3>1. rows[s][r] \in SubscriptionRow
        BY <2>1
      <3>2. rows[s][r].updated \in Nat /\ rows[s][r].updated <= clock
        BY <3>1 DEF SubscriptionRow, RowsSound
      <3> QED
        BY <2>1, <3>2
    <2> QED
      BY <2>2 DEF RowsSound
  <1>3. WebhooksSound'
    <2> SUFFICES ASSUME NEW h \in Handlers, handler[h].at # "idle"
                 PROVE  /\ handler[h].ev \in EventIds' \ recorded
                        /\ handler[h].began <= clock'
                        /\ handler[h].row # <<>> => rows[events'[handler[h].ev].sub] # <<>>
                        /\ \A g \in Handlers \ {h} :
                              handler[g].at # "idle" => handler[g].ev # handler[h].ev
      BY DEF WebhooksSound, Sub, Event
    <2>1. /\ handler[h].ev \in EventIds \ recorded
          /\ handler[h].began <= clock
          /\ handler[h].row # <<>> => rows[events[handler[h].ev].sub] # <<>>
          /\ \A g \in Handlers \ {h} : handler[g].at # "idle" => handler[g].ev # handler[h].ev
      BY DEF WebhooksSound, Sub, Event
    <2>2. handler[h].began \in Nat /\ clock \in Nat
      BY DEF SyncShape, Webhook
    <2> QED
      BY <2>1, <2>2
  <1>4. GrantsAreFinite'
    BY DEF GrantsAreFinite
  <1>5. GrantsArePaidFor'
    <2>1. \A i \in recorded : events'[i] = events[i]
      BY DEF SyncShape
    <2> QED
      BY <2>1 DEF GrantsArePaidFor
  <1> QED
    BY <1>1, <1>2, <1>3, <1>4, <1>5

\* A request moves on, or ends with its event in the ledger.
LEMMA WebhooksKept ==
    ASSUME SyncShape, WebhooksSound, NEW h \in Handlers, NEW w \in Webhook,
           handler' = [handler EXCEPT ![h] = w], events' = events, clock' = clock,
           \/ recorded' = recorded
           \/ /\ w.at = "idle" /\ handler[h].at # "idle"
              /\ recorded' = recorded \cup {handler[h].ev},
           \A s \in Subs : rows[s] # <<>> => rows'[s] # <<>>,
           w.at # "idle" =>
              /\ w.ev \in EventIds \ recorded /\ w.began <= clock
              /\ w.row # <<>> => rows[events[w.ev].sub] # <<>>
              /\ \A g \in Handlers \ {h} : handler[g].at # "idle" => handler[g].ev # w.ev
    PROVE  WebhooksSound' /\ handler' \in [Handlers -> Webhook]
  <1>1. /\ handler \in [Handlers -> Webhook] /\ handler' \in [Handlers -> Webhook]
        /\ handler'[h] = w /\ \A g \in Handlers \ {h} : handler'[g] = handler[g]
    BY DEF SyncShape
  <1>2. \A i \in EventIds : events[i].sub \in Subs
    <2>1. \A i \in 1..Len(events) : events[i] \in StoreEvent
      BY DEF SyncShape
    <2> QED
      BY <2>1 DEF StoreEvent, EventIds
  <1>3. EventIds' = EventIds
    BY DEF EventIds
  <1> SUFFICES ASSUME NEW g \in Handlers, handler'[g].at # "idle"
               PROVE  /\ handler'[g].ev \in EventIds \ recorded'
                      /\ handler'[g].began <= clock
                      /\ handler'[g].row # <<>> => rows'[events[handler'[g].ev].sub] # <<>>
                      /\ \A f \in Handlers \ {g} :
                           handler'[f].at # "idle" => handler'[f].ev # handler'[g].ev
    BY <1>1, <1>3 DEF WebhooksSound, Sub, Event
  <1>4. CASE g = h
    <2>1. recorded' = recorded
      BY <1>1, <1>4
    <2> QED
      BY <1>1, <1>2, <1>4, <2>1
  <1>5. CASE g # h
    <2>1. /\ handler[g].ev \in EventIds \ recorded /\ handler[g].began <= clock
          /\ handler[g].row # <<>> => rows[events[handler[g].ev].sub] # <<>>
          /\ \A f \in Handlers \ {g} : handler[f].at # "idle" => handler[f].ev # handler[g].ev
          /\ handler'[g] = handler[g]
      BY <1>1, <1>5 DEF WebhooksSound, Sub, Event
    <2>2. handler[g].ev \notin recorded'
      BY <1>5, <2>1
    <2>3. \A f \in Handlers \ {g} : handler'[f].at # "idle" => handler'[f].ev # handler'[g].ev
      BY <1>1, <1>5, <2>1
    <2> QED
      BY <1>2, <2>1, <2>2, <2>3
  <1> QED
    BY <1>4, <1>5

\* Steps inside a request: the database is as it was.
LEMMA RequestSyncInv ==
    ASSUME SyncInv, NEW h \in Handlers, NEW w \in Webhook,
           handler' = [handler EXCEPT ![h] = w],
           UNCHANGED <<clock, store, events, recorded, rows, grants, cases, cancel, beat>>,
           w.at # "idle" =>
              /\ w.ev \in EventIds \ recorded /\ w.began <= clock
              /\ w.row # <<>> => rows[events[w.ev].sub] # <<>>
              /\ \A g \in Handlers \ {h} : handler[g].at # "idle" => handler[g].ev # w.ev
    PROVE  SyncInv'
  <1> USE DEF SyncInv
  <1>1. WebhooksSound' /\ handler' \in [Handlers -> Webhook]
    BY WebhooksKept
  <1>2. SyncShape'
    BY <1>1 DEF SyncShape, EventIds
  <1> QED
    BY <1>1, <1>2 DEF RowsSound, GrantsAreFinite, GrantsArePaidFor

\* How many rows a subscription has then.
RowCount(e, loaded, q) == IF HasRow(e, loaded) /\ loaded = <<>> THEN Len(q) + 1 ELSE Len(q)

\* No row of q is dated after t, and the cases cs are about the first n rows.
Dated(q, t) == \A r \in 1..Len(q) : q[r].updated <= t
CasesOf(cs, n) == \A c \in 1..Len(cs) : cs[c].row \in 1..n

\* The rows of a subscription after a request's transaction.
LEMMA RowsAfterFacts ==
    ASSUME NEW e \in StoreEvent, NEW loaded \in Seq(SubscriptionRow), NEW began \in Nat,
           NEW now \in Nat, began <= now, NEW q \in Seq(SubscriptionRow),
           loaded # <<>> => q # <<>>, Dated(q, now), NEW new,
           new = RowsAfter(e, loaded, q, began)
    PROVE  /\ new \in Seq(SubscriptionRow)
           /\ Len(new) = RowCount(e, loaded, q)
           /\ Dated(new, now)
  <1> USE DEF RowsAfter, RowCount, Dated
  <1>1. CASE ~HasRow(e, loaded)
    BY <1>1
  <1>2. CASE HasRow(e, loaded) /\ loaded = <<>>
    <2>1. PICK row : row = Inserted(e, began)
      OBVIOUS
    <2>2. row \in SubscriptionRow /\ row.updated = began
      BY <2>1, InsertedType
    <2>3. new = Append(q, row)
      BY <1>2, <2>1
    <2>4. /\ new \in Seq(SubscriptionRow) /\ Len(new) = Len(q) + 1
          /\ \A r \in 1..Len(new) : new[r] = IF r <= Len(q) THEN q[r] ELSE row
      BY <2>2, <2>3
    <2> QED
      BY <1>2, <2>2, <2>4
  <1>3. CASE HasRow(e, loaded) /\ loaded # <<>>
    <2>1. q[1] \in SubscriptionRow /\ 1 \in 1..Len(q)
      BY <1>3
    <2>2. PICK row : row = Flushed(e, loaded, q[1], began)
      OBVIOUS
    <2>3. row \in SubscriptionRow /\ row.updated \in {q[1].updated, began}
      BY <1>3, <2>1, <2>2, FlushedType
    <2>4. new = [q EXCEPT ![1] = row]
      BY <1>3, <2>2
    <2>5. /\ new \in Seq(SubscriptionRow) /\ Len(new) = Len(q)
          /\ \A r \in 1..Len(new) : new[r] = IF r = 1 THEN row ELSE q[r]
      BY <2>1, <2>3, <2>4
    <2> QED
      BY <1>3, <2>1, <2>3, <2>5
  <1> QED
    BY <1>1, <1>2, <1>3

\* Its dunning cases: one more, or some of them closed.
LEMMA CasesAfterFacts ==
    ASSUME SyncShape, RowsSound, NEW e \in StoreEvent, NEW loaded \in Seq(SubscriptionRow),
           NEW open \in SUBSET Nat, loaded # <<>> => rows[e.sub] # <<>>, NEW new,
           new = CasesAfter(e, loaded, open), NEW n \in Nat,
           n = RowCount(e, loaded, rows[e.sub])
    PROVE  /\ new \in Seq(DunningCase)
           /\ CasesOf(new, n)
  <1> USE DEF RowCount, CasesOf
  <1>1. PICK old : old = cases[e.sub]
    OBVIOUS
  <1>2. PICK q : q = rows[e.sub]
    OBVIOUS
  <1>3. /\ e.sub \in Subs /\ old \in Seq(DunningCase) /\ q \in Seq(SubscriptionRow)
    BY <1>1, <1>2 DEF SyncShape, StoreEvent
  <1>4. \A c \in 1..Len(old) : old[c] \in DunningCase /\ old[c].row \in 1..n
    <2>1. \A c \in 1..Len(old) : old[c] \in DunningCase
      BY <1>3
    <2>2. \A c \in 1..Len(old) : old[c].row \in 1..Len(q)
      BY <1>1, <1>2, <1>3 DEF RowsSound
    <2>3. Len(q) \in Nat /\ Len(q) <= n
      BY <1>2, <1>3
    <2> QED
      BY <2>1, <2>2, <2>3
  <1>5. CASE e.kind \in OpenKinds /\ open = {} /\ HasRow(e, loaded)
    <2>1. PICK r : r = IF loaded = <<>> THEN Len(q) + 1 ELSE 1
      OBVIOUS
    <2>2. r \in 1..n
      <3>1. CASE loaded = <<>>
        BY <1>2, <1>3, <1>5, <2>1, <3>1
      <3>2. CASE loaded # <<>>
        BY <1>2, <1>3, <1>5, <2>1, <3>2
      <3> QED
        BY <3>1, <3>2
    <2>3. PICK case : case = [row |-> r, state |-> "day0"]
      OBVIOUS
    <2>4. case \in DunningCase /\ case.row = r
      BY <2>2, <2>3 DEF DunningCase, NextState
    <2>5. new = Append(old, case)
      BY <1>1, <1>2, <1>5, <2>1, <2>3, Zenon DEF CasesAfter
    <2>6. /\ new \in Seq(DunningCase) /\ Len(new) = Len(old) + 1
          /\ \A c \in 1..Len(new) : new[c] = IF c <= Len(old) THEN old[c] ELSE case
      BY <1>3, <2>4, <2>5
    <2> QED
      BY <1>4, <2>2, <2>4, <2>6
  <1>6. CASE ~(e.kind \in OpenKinds /\ open = {} /\ HasRow(e, loaded)) /\ e.kind \in RecoverKinds
    <2>1. new = [c \in 1..Len(old) |->
                   IF c \in open THEN [old[c] EXCEPT !.state = "recovered"] ELSE old[c]]
      BY <1>1, <1>6, Zenon DEF CasesAfter
    <2>2. ASSUME NEW c \in 1..Len(old)
          PROVE  /\ new[c] \in DunningCase /\ new[c].row = old[c].row
      <3>1. old[c] \in DunningCase
        BY <1>4
      <3>2. /\ [old[c] EXCEPT !.state = "recovered"] \in DunningCase
            /\ [old[c] EXCEPT !.state = "recovered"].row = old[c].row
        BY <3>1 DEF DunningCase, TERMINAL_STATES
      <3> QED
        BY <2>1, <3>1, <3>2
    <2>3. new \in Seq(DunningCase) /\ Len(new) = Len(old)
      BY <1>3, <2>1, <2>2
    <2> QED
      BY <1>4, <2>2, <2>3
  <1>7. CASE ~(e.kind \in OpenKinds /\ open = {} /\ HasRow(e, loaded)) /\ e.kind \notin RecoverKinds
    <2>1. new = old
      BY <1>1, <1>7, Zenon DEF CasesAfter
    <2> QED
      BY <1>3, <1>4, <2>1
  <1> QED
    BY <1>5, <1>6, <1>7

\* A grant goes with a payment that enters the ledger of events.
LEMMA GrantsCounted ==
    ASSUME NEW x, NEW G, NEW P, NEW H, NEW Q,
           IsFiniteSet(G), IsFiniteSet(P), Cardinality(G) <= Cardinality(P),
           \/ H = G /\ (Q = P \/ Q = P \cup {x})
           \/ \E g : H = G \cup {g} /\ x \notin P /\ Q = P \cup {x}
    PROVE  Cardinality(H) <= Cardinality(Q)
  <1>1. Cardinality(G) \in Nat /\ Cardinality(P) \in Nat
    BY FS_CardinalityType
  <1>2. CASE H = G /\ Q = P
    BY <1>2
  <1>3. CASE H = G /\ Q = P \cup {x}
    <2>1. IsFiniteSet(Q) /\ P \subseteq Q
      BY <1>3, FS_AddElement
    <2>2. Cardinality(P) <= Cardinality(Q) /\ Cardinality(Q) \in Nat
      BY <2>1, FS_Subset, FS_CardinalityType
    <2> QED
      BY <1>1, <1>3, <2>2
  <1>4. CASE \E g : H = G \cup {g} /\ x \notin P /\ Q = P \cup {x}
    <2>1. PICK g : H = G \cup {g} /\ x \notin P /\ Q = P \cup {x}
      BY <1>4
    <2>2. Cardinality(Q) = Cardinality(P) + 1
      BY <2>1, FS_AddElement
    <2>3. Cardinality(H) = Cardinality(G) \/ Cardinality(H) = Cardinality(G) + 1
      BY <2>1, FS_AddElement
    <2> QED
      BY <1>1, <2>2, <2>3
  <1> QED
    BY <1>2, <1>3, <1>4

\* What a request that is not idle has in hand.
LEMMA InHand ==
    ASSUME SyncInv, NEW h \in Handlers, handler[h].at # "idle"
    PROVE  /\ handler[h].ev \in EventIds \ recorded /\ Event(h) \in StoreEvent
           /\ Sub(h) = Event(h).sub /\ Sub(h) \in Subs
           /\ handler[h].row \in Seq(SubscriptionRow) /\ handler[h].open \in SUBSET Nat
           /\ handler[h].began \in Nat /\ clock \in Nat /\ handler[h].began <= clock
           /\ (handler[h].row # <<>> => rows[Sub(h)] # <<>>)
           /\ \A g \in Handlers \ {h} : handler[g].at # "idle" => handler[g].ev # handler[h].ev
  <1>1. handler[h].ev \in 1..Len(events) /\ handler[h].ev \notin recorded
    BY DEF SyncInv, WebhooksSound, EventIds
  <1>2. Event(h) \in StoreEvent
    BY <1>1 DEF SyncInv, SyncShape, Event
  <1>3. Sub(h) = Event(h).sub /\ Sub(h) \in Subs
    BY <1>2 DEF Sub, StoreEvent
  <1>4. /\ handler[h].row \in Seq(SubscriptionRow) /\ handler[h].open \in SUBSET Nat
        /\ handler[h].began \in Nat /\ clock \in Nat
    BY DEF SyncInv, SyncShape, Webhook
  <1> QED
    BY <1>1, <1>2, <1>3, <1>4 DEF SyncInv, WebhooksSound, EventIds

\* A request that has ended.
LEMMA IdleIsWebhook == IdleHandler \in Webhook /\ IdleHandler.at = "idle"
  BY DEF IdleHandler, Webhook

\* The commit of a request: rows, cases, credits and the ledger entry at once.
LEMMA CommitSyncInv ==
    ASSUME SyncInv, NEW h \in Handlers, Commit(h)
    PROVE  SyncInv'
  <1> USE DEF SyncInv
  <1>1. PICK e : e = Event(h)
    OBVIOUS
  <1>2. PICK s : s = Sub(h)
    OBVIOUS
  <1>3. PICK loaded : loaded = handler[h].row
    OBVIOUS
  <1>4. PICK i : i = handler[h].ev
    OBVIOUS
  <1>5. PICK began : began = handler[h].began
    OBVIOUS
  <1>6. PICK now : now = clock
    OBVIOUS
  <1>7. /\ handler[h].at = "commit" /\ e \in StoreEvent /\ s \in Subs /\ s = e.sub
        /\ loaded \in Seq(SubscriptionRow) /\ (loaded # <<>> => rows[s] # <<>>)
        /\ began \in Nat /\ now \in Nat /\ began <= now
        /\ i \in EventIds \ recorded /\ e = events[i]
    <2>1. handler[h].at = "commit" /\ handler[h].at # "idle"
      BY DEF Commit
    <2> QED
      BY <1>1, <1>2, <1>3, <1>4, <1>5, <1>6, <2>1, InHand DEF Event
  <1>8. PICK q : q = rows[s]
    OBVIOUS
  <1>9. PICK new : new = RowsAfter(e, loaded, q, began)
    OBVIOUS
  <1>10. PICK paid : paid = PeriodGrants(e, loaded)
    OBVIOUS
  <1>11. PICK after : after = CasesAfter(e, loaded, handler[h].open)
    OBVIOUS
  <1>12. /\ rows' = [rows EXCEPT ![s] = new]
         /\ grants' = grants \cup paid
         /\ cases' = [cases EXCEPT ![s] = after]
         /\ recorded' = recorded \cup {i}
         /\ handler' = [handler EXCEPT ![h] = IdleHandler]
         /\ UNCHANGED <<clock, store, events, cancel, beat>>
    <2>1. rows' = [rows EXCEPT ![s] = new]
      <3>1. rows' = [rows EXCEPT ![Sub(h)] = RowsAfter(Event(h), handler[h].row, @, handler[h].began)]
        BY Zenon DEF Commit
      <3> QED
        BY <1>1, <1>2, <1>3, <1>5, <1>8, <1>9, <3>1, Zenon
    <2>2. grants' = grants \cup paid /\ cases' = [cases EXCEPT ![s] = after]
      BY <1>1, <1>2, <1>3, <1>10, <1>11, Zenon DEF Commit
    <2> QED
      BY <1>4, <2>1, <2>2 DEF Commit, RollBack, storeVars
  <1>13. q \in Seq(SubscriptionRow) /\ (loaded # <<>> => q # <<>>) /\ Dated(q, now)
    <2>1. q \in Seq(SubscriptionRow) /\ \A r \in 1..Len(rows[s]) : rows[s][r].updated <= clock
      BY <1>7, <1>8 DEF SyncShape, RowsSound
    <2>2. loaded # <<>> => q # <<>>
      BY <1>7, <1>8
    <2> QED
      BY <1>6, <1>8, <2>1, <2>2 DEF Dated
  <1>14. /\ new \in Seq(SubscriptionRow)
         /\ Len(new) = RowCount(e, loaded, q)
         /\ Dated(new, now)
    <2>1. /\ e \in StoreEvent /\ loaded \in Seq(SubscriptionRow) /\ began \in Nat
          /\ now \in Nat /\ began <= now /\ q \in Seq(SubscriptionRow)
      BY <1>7, <1>13
    <2>2. loaded # <<>> => q # <<>>
      BY <1>13
    <2>3. Dated(q, now)
      BY <1>13
    <2> QED
      BY <1>9, <2>1, <2>2, <2>3, RowsAfterFacts
  <1>15. after \in Seq(DunningCase) /\ CasesOf(after, Len(new))
    <2>1. PICK open : open = handler[h].open
      OBVIOUS
    <2>2. PICK n : n = Len(new)
      OBVIOUS
    <2>3. open \in SUBSET Nat /\ n \in Nat
      BY <1>14, <2>1, <2>2 DEF SyncShape, Webhook
    <2>4. loaded # <<>> => rows[e.sub] # <<>>
      BY <1>7
    <2>5. n = RowCount(e, loaded, rows[e.sub])
      BY <1>7, <1>8, <1>14, <2>2
    <2>6. e \in StoreEvent /\ loaded \in Seq(SubscriptionRow)
      BY <1>7
    <2>7. after = CasesAfter(e, loaded, open)
      BY <1>11, <2>1
    <2>8. SyncShape /\ RowsSound
      OBVIOUS
    <2>9. after \in Seq(DunningCase) /\ CasesOf(after, n)
      BY <2>3, <2>4, <2>5, <2>6, <2>7, <2>8, CasesAfterFacts
    <2> QED
      BY <2>2, <2>9
  <1>16. \A t \in Subs : rows[t] # <<>> => rows'[t] # <<>>
    <2>1. ASSUME NEW t \in Subs, rows[t] # <<>> PROVE rows'[t] # <<>>
      <3>1. CASE t = s
        <4>1. Len(new) > 0
          BY <1>8, <1>13, <1>14, <2>1, <3>1 DEF RowCount
        <4> QED
          BY <1>7, <1>12, <3>1, <4>1 DEF SyncShape
      <3>2. CASE t # s
        BY <1>12, <2>1, <3>2 DEF SyncShape
      <3> QED
        BY <3>1, <3>2
    <2> QED
      BY <2>1
  <1>17. WebhooksSound' /\ handler' \in [Handlers -> Webhook]
    <2>1. IdleHandler \in Webhook /\ IdleHandler.at = "idle"
      BY IdleIsWebhook
    <2>2. handler[h].at # "idle" /\ recorded' = recorded \cup {handler[h].ev}
      BY <1>4, <1>7, <1>12
    <2> QED
      BY <1>12, <1>16, <2>1, <2>2, WebhooksKept
  <1>18. SyncShape'
    <2>1. rows' \in [Subs -> Seq(SubscriptionRow)] /\ cases' \in [Subs -> Seq(DunningCase)]
      BY <1>7, <1>12, <1>14, <1>15 DEF SyncShape
    <2> QED
      BY <1>7, <1>12, <1>17, <2>1 DEF SyncShape, EventIds
  <1>19. RowsSound'
    <2> SUFFICES ASSUME NEW t \in Subs
                 PROVE  /\ \A r \in 1..Len(rows'[t]) : rows'[t][r].updated <= clock
                        /\ \A c \in 1..Len(cases'[t]) : cases'[t][c].row \in 1..Len(rows'[t])
      BY <1>12, <1>16 DEF RowsSound
    <2>1. CASE t = s
      <3>1. rows'[t] = new /\ cases'[t] = after
        BY <1>7, <1>12, <2>1 DEF SyncShape
      <3> QED
        BY <1>6, <1>14, <1>15, <3>1 DEF Dated, CasesOf
    <2>2. CASE t # s
      <3>1. rows'[t] = rows[t] /\ cases'[t] = cases[t]
        BY <1>12, <2>2 DEF SyncShape
      <3> QED
        BY <3>1 DEF RowsSound
    <2> QED
      BY <2>1, <2>2
  <1>20. \/ paid = {}
         \/ e.kind \in GrantKinds /\ \E g : g[1] = s /\ paid = {g}
    BY <1>7, <1>10, PeriodGrantsFacts
  <1>21. GrantsAreFinite'
    <2>1. IsFiniteSet(paid)
      BY <1>20, FS_EmptySet, FS_Singleton
    <2> QED
      BY <1>12, <2>1, FS_Union DEF GrantsAreFinite
  <1>22. GrantsArePaidFor'
    <2> SUFFICES ASSUME NEW t \in Subs
                 PROVE  Cardinality({g \in grants' : g[1] = t})
                   <= Cardinality({j \in recorded' : events[j].sub = t /\ events[j].kind \in GrantKinds})
      BY <1>12 DEF GrantsArePaidFor
    <2>1. PICK G : G = {g \in grants : g[1] = t}
      OBVIOUS
    <2>2. PICK P : P = {j \in recorded : events[j].sub = t /\ events[j].kind \in GrantKinds}
      OBVIOUS
    <2>3. PICK H : H = {g \in grants' : g[1] = t}
      OBVIOUS
    <2>4. PICK Q : Q = {j \in recorded' : events[j].sub = t /\ events[j].kind \in GrantKinds}
      OBVIOUS
    <2>5. IsFiniteSet(G) /\ IsFiniteSet(P)
      <3>1. IsFiniteSet(recorded)
        <4>1. Len(events) \in Nat /\ recorded \subseteq 1..Len(events)
          BY DEF SyncShape, EventIds
        <4>2. IsFiniteSet(1..Len(events))
          BY <4>1, FS_Interval
        <4> QED
          BY <4>1, <4>2, FS_Subset
      <3>2. G \subseteq grants /\ P \subseteq recorded
        BY <2>1, <2>2
      <3> QED
        BY <3>1, <3>2, FS_Subset DEF GrantsAreFinite
    <2>6. Cardinality(G) <= Cardinality(P)
      BY <2>1, <2>2 DEF GrantsArePaidFor
    <2>7. i \notin P
      BY <1>7, <2>2
    <2>8. \/ H = G /\ (Q = P \/ Q = P \cup {i})
          \/ \E g : H = G \cup {g} /\ i \notin P /\ Q = P \cup {i}
      <3>1. Q = P \/ Q = P \cup {i}
        BY <1>12, <2>2, <2>4
      <3>2. CASE paid = {}
        BY <1>12, <2>1, <2>3, <3>1, <3>2
      <3>3. CASE e.kind \in GrantKinds /\ \E g : g[1] = s /\ paid = {g}
        <4>1. PICK g : g[1] = s /\ paid = {g}
          BY <3>3
        <4>2. CASE t = s
          <5>1. H = G \cup {g}
            BY <1>12, <2>1, <2>3, <4>1, <4>2
          <5>2. Q = P \cup {i}
            BY <1>7, <1>12, <2>2, <2>4, <3>3, <4>2
          <5> QED
            BY <2>7, <5>1, <5>2
        <4>3. CASE t # s
          <5>1. H = G
            BY <1>12, <2>1, <2>3, <4>1, <4>3
          <5> QED
            BY <3>1, <5>1
        <4> QED
          BY <4>2, <4>3
      <3> QED
        BY <1>20, <3>2, <3>3
    <2>9. Cardinality(H) <= Cardinality(Q)
      BY <2>5, <2>6, <2>8, GrantsCounted
    <2> QED
      BY <2>3, <2>4, <2>9
  <1> QED
    BY <1>17, <1>18, <1>19, <1>21, <1>22

\* A grant that exists already: at most the cases of the subscription change.
LEMMA CommitGrantExistsSyncInv ==
    ASSUME SyncInv, NEW h \in Handlers, CommitGrantExists(h)
    PROVE  SyncInv'
  <1> USE DEF SyncInv
  <1>1. handler[h].at = "commit" /\ handler[h].at # "idle"
    BY DEF CommitGrantExists
  <1>2. /\ handler' = [handler EXCEPT ![h] = IdleHandler]
        /\ UNCHANGED <<clock, store, events, recorded, rows, grants, cancel, beat>>
    BY DEF CommitGrantExists, RollBack, storeVars
  <1>3. WebhooksSound' /\ handler' \in [Handlers -> Webhook]
    <2>1. IdleHandler \in Webhook /\ IdleHandler.at = "idle"
      BY IdleIsWebhook
    <2> QED
      BY <1>2, <2>1, WebhooksKept
  <1>4. CASE Event(h).kind # "paid"
    <2>1. cases' = cases
      BY <1>4 DEF CommitGrantExists
    <2> QED
      BY <1>2, <1>3, <2>1 DEF SyncShape, RowsSound, EventIds, GrantsAreFinite, GrantsArePaidFor
  <1>5. CASE Event(h).kind = "paid"
    <2>1. PICK e : e = Event(h)
      OBVIOUS
    <2>2. PICK loaded : loaded = handler[h].row
      OBVIOUS
    <2>3. PICK open : open = handler[h].open
      OBVIOUS
    <2>4. /\ e \in StoreEvent /\ e.sub \in Subs /\ loaded \in Seq(SubscriptionRow)
          /\ open \in SUBSET Nat /\ (loaded # <<>> => rows[e.sub] # <<>>)
      BY <1>1, <2>1, <2>2, <2>3, InHand
    <2>5. PICK after : after = CasesAfter(e, loaded, open)
      OBVIOUS
    <2>6. cases' = [cases EXCEPT ![e.sub] = after]
      BY <1>5, <2>1, <2>2, <2>3, <2>5, Zenon DEF CommitGrantExists
    <2>7. PICK n : n = Len(rows[e.sub])
      OBVIOUS
    <2>8. n \in Nat
      BY <2>4, <2>7 DEF SyncShape
    <2>9. n = RowCount(e, loaded, rows[e.sub])
      BY <1>5, <2>1, <2>7 DEF RowCount, HasRow, UpsertKinds, RcKinds
    <2>10. after \in Seq(DunningCase) /\ CasesOf(after, n)
      <3>1. SyncShape /\ RowsSound
        OBVIOUS
      <3>2. loaded # <<>> => rows[e.sub] # <<>>
        BY <2>4
      <3> QED
        BY <2>4, <2>5, <2>8, <2>9, <3>1, <3>2, CasesAfterFacts
    <2>11. SyncShape'
      BY <1>2, <1>3, <2>4, <2>6, <2>10 DEF SyncShape, EventIds
    <2>12. RowsSound'
      <3> SUFFICES ASSUME NEW t \in Subs
                   PROVE  \A c \in 1..Len(cases'[t]) : cases'[t][c].row \in 1..Len(rows[t])
        BY <1>2 DEF RowsSound
      <3>1. CASE t = e.sub
        <4>1. cases'[t] = after
          BY <2>4, <2>6, <3>1 DEF SyncShape
        <4> QED
          BY <2>7, <2>10, <3>1, <4>1 DEF CasesOf
      <3>2. CASE t # e.sub
        <4>1. cases'[t] = cases[t]
          BY <2>6, <3>2 DEF SyncShape
        <4> QED
          BY <4>1 DEF RowsSound
      <3> QED
        BY <3>1, <3>2
    <2> QED
      BY <1>2, <1>3, <2>11, <2>12 DEF GrantsAreFinite, GrantsArePaidFor
  <1> QED
    BY <1>4, <1>5

\* /cancel/web writes the status and the date of the row it loaded.
LEMMA CancelWebCommitFacts ==
    ASSUME SyncInv, NEW s \in Subs, CancelWebCommit(s)
    PROVE  /\ rows' \in [Subs -> Seq(SubscriptionRow)]
           /\ \A t \in Subs : /\ Len(rows'[t]) = Len(rows[t])
                              /\ Dated(rows'[t], clock)
                              /\ \A r \in 1..Len(rows[t]) :
                                    /\ rows'[t][r].tier = rows[t][r].tier
                                    /\ rows'[t][r].period = rows[t][r].period
  <1> USE DEF SyncInv
  <1>1. PICK q : q = rows[s]
    OBVIOUS
  <1>2. PICK began : began = cancel[s].began
    OBVIOUS
  <1>3. /\ q \in Seq(SubscriptionRow) /\ q # <<>> /\ Dated(q, clock)
        /\ began \in Nat /\ clock \in Nat /\ began <= clock
    BY <1>1, <1>2 DEF CancelWebCommit, SyncShape, RowsSound, Cancelling, Dated
  <1>4. \A t \in Subs : rows[t] \in Seq(SubscriptionRow) /\ Dated(rows[t], clock)
    BY DEF SyncShape, RowsSound, Dated
  <1>5. CASE rows' = rows
    BY <1>4, <1>5 DEF SyncShape
  <1>6. CASE rows' # rows
    <2>1. rows' = [rows EXCEPT ![s][1].status = "canceled", ![s][1].updated = began]
      BY <1>2, <1>6 DEF CancelWebCommit
    <2>2. PICK row : row = [q[1] EXCEPT !.status = "canceled", !.updated = began]
      OBVIOUS
    <2>3. PICK new : new = [q EXCEPT ![1] = row]
      OBVIOUS
    <2>4. q[1] \in SubscriptionRow /\ 1 \in 1..Len(q)
      BY <1>3
    <2>5. /\ row \in SubscriptionRow /\ row.updated = began
          /\ row.tier = q[1].tier /\ row.period = q[1].period
      BY <1>3, <2>2, <2>4 DEF SubscriptionRow
    <2>6. /\ new \in Seq(SubscriptionRow) /\ Len(new) = Len(q)
          /\ \A r \in 1..Len(new) : new[r] = IF r = 1 THEN row ELSE q[r]
      BY <1>3, <2>3, <2>4, <2>5
    <2>7. rows'[s] = new /\ \A t \in Subs \ {s} : rows'[t] = rows[t]
      BY <1>1, <2>1, <2>2, <2>3, <2>4 DEF SyncShape
    <2>8. rows' \in [Subs -> Seq(SubscriptionRow)]
      BY <2>1, <2>6, <2>7 DEF SyncShape
    <2>9. Dated(new, clock)
      BY <1>3, <2>5, <2>6 DEF Dated
    <2>10. \A r \in 1..Len(q) : new[r].tier = q[r].tier /\ new[r].period = q[r].period
      BY <2>5, <2>6
    <2> QED
      BY <1>1, <1>4, <2>6, <2>7, <2>8, <2>9, <2>10
  <1> QED
    BY <1>5, <1>6

\* /cancel/web keeps the rows, and those who loaded them, sound.
LEMMA CancelWebCommitSyncInv ==
    ASSUME SyncInv, NEW s \in Subs, CancelWebCommit(s)
    PROVE  SyncInv'
  <1> USE DEF SyncInv
  <1>1. /\ rows' \in [Subs -> Seq(SubscriptionRow)]
        /\ \A t \in Subs : Len(rows'[t]) = Len(rows[t]) /\ Dated(rows'[t], clock)
    BY CancelWebCommitFacts
  <1>2. /\ cancel' = [cancel EXCEPT ![s] = NoCancel]
        /\ UNCHANGED <<clock, store, events, recorded, grants, cases, handler, beat>>
    BY DEF CancelWebCommit, storeVars
  <1>3. cancel' \in [Subs -> Cancelling] /\ \A t \in Subs : cancel'[t] \in {NoCancel, cancel[t]}
    BY <1>2 DEF SyncShape, Cancelling, NoCancel
  <1>4. SyncShape'
    BY <1>1, <1>2, <1>3 DEF SyncShape, EventIds
  <1>5. \A t \in Subs : rows[t] # <<>> => rows'[t] # <<>>
    BY <1>1 DEF SyncShape
  <1>6. RowsSound'
    BY <1>1, <1>2, <1>3, <1>5 DEF RowsSound, Dated, NoCancel
  <1>7. WebhooksSound'
    <2>1. \A i \in EventIds : events[i].sub \in Subs
      <3>1. \A i \in 1..Len(events) : events[i] \in StoreEvent
        BY DEF SyncShape
      <3> QED
        BY <3>1 DEF StoreEvent, EventIds
    <2> QED
      BY <1>2, <1>5, <2>1 DEF WebhooksSound, Sub, Event, EventIds
  <1> QED
    BY <1>2, <1>4, <1>6, <1>7 DEF GrantsAreFinite, GrantsArePaidFor

\* The dunning tick: the cases it loads, and the states it writes.
LEMMA BeatSyncInv ==
    ASSUME SyncInv, BeatLoad \/ BeatWrite
    PROVE  SyncInv'
  <1> USE DEF SyncInv
  <1>1. CASE BeatLoad
    <2>1. beat' \subseteq LoadedCase
      <3>1. ASSUME NEW b \in beat' PROVE b \in LoadedCase
        <4>1. PICK sc \in AllCases : /\ cases[sc[1]][sc[2]].state \notin TERMINAL_STATES
                                     /\ b = [at |-> sc, state |-> cases[sc[1]][sc[2]].state]
          BY <1>1, <3>1 DEF BeatLoad
        <4>2. sc \in Subs \X (1..MaxEvents) /\ sc[2] <= Len(cases[sc[1]])
          BY <4>1 DEF AllCases
        <4>3. sc[1] \in Subs /\ sc[2] \in 1..Len(cases[sc[1]]) /\ sc \in Subs \X Nat
          BY <4>2
        <4>4. cases[sc[1]] \in Seq(DunningCase)
          BY <4>3 DEF SyncShape
        <4>5. cases[sc[1]][sc[2]] \in DunningCase
          BY <4>3, <4>4
        <4> QED
          BY <4>1, <4>3, <4>5 DEF LoadedCase, DunningCase
      <3> QED
        BY <3>1
    <2> QED
      BY <1>1, <2>1 DEF BeatLoad, SyncShape, RowsSound, WebhooksSound, Sub, Event, EventIds,
                        GrantsAreFinite, GrantsArePaidFor, storeVars, dataVars
  <1>2. CASE BeatWrite
    <2>1. PICK due \in SUBSET beat :
            cases' = [s \in Subs |-> [c \in 1..Len(cases[s]) |->
                IF \E b \in due : b.at = <<s, c>>
                THEN [cases[s][c] EXCEPT !.state =
                        NextState[(CHOOSE b \in due : b.at = <<s, c>>).state]]
                ELSE cases[s][c]]]
      BY <1>2 DEF BeatWrite
    <2>2. ASSUME NEW s \in Subs
          PROVE  /\ cases'[s] \in Seq(DunningCase) /\ Len(cases'[s]) = Len(cases[s])
                 /\ \A c \in 1..Len(cases[s]) : cases'[s][c].row = cases[s][c].row
      <3>1. PICK old : old = cases[s]
        OBVIOUS
      <3>2. PICK new : new = [c \in 1..Len(old) |->
                IF \E b \in due : b.at = <<s, c>>
                THEN [old[c] EXCEPT !.state = NextState[(CHOOSE b \in due : b.at = <<s, c>>).state]]
                ELSE old[c]]
        OBVIOUS
      <3>3. cases'[s] = new
        BY <2>1, <3>1, <3>2
      <3>4. old \in Seq(DunningCase)
        BY <3>1 DEF SyncShape
      <3>5. ASSUME NEW c \in 1..Len(old)
            PROVE  new[c] \in DunningCase /\ new[c].row = old[c].row
        <4>1. old[c] \in DunningCase
          BY <3>4
        <4>2. CASE \E b \in due : b.at = <<s, c>>
          <5>1. PICK b : b = CHOOSE x \in due : x.at = <<s, c>>
            OBVIOUS
          <5>2. b \in due
            BY <4>2, <5>1
          <5>3. b.state \in DOMAIN NextState
            BY <2>1, <5>2 DEF SyncShape, LoadedCase
          <5>4. NextState[b.state] \in DOMAIN NextState \cup TERMINAL_STATES
            BY <5>3 DEF NextState, TERMINAL_STATES
          <5>5. new[c] = [old[c] EXCEPT !.state = NextState[b.state]]
            BY <3>2, <4>2, <5>1
          <5> QED
            BY <4>1, <5>4, <5>5 DEF DunningCase
        <4>3. CASE ~ \E b \in due : b.at = <<s, c>>
          <5>1. new[c] = old[c]
            BY <3>2, <4>3
          <5> QED
            BY <4>1, <5>1
        <4> QED
          BY <4>2, <4>3
      <3>6. new \in Seq(DunningCase) /\ Len(new) = Len(old)
        BY <3>2, <3>4, <3>5
      <3> QED
        BY <3>1, <3>3, <3>5, <3>6
    <2>3. cases' \in [Subs -> Seq(DunningCase)]
      BY <2>1, <2>2
    <2>4. /\ beat' = {}
          /\ UNCHANGED <<clock, store, events, recorded, rows, grants, handler, cancel>>
      BY <1>2 DEF BeatWrite, storeVars
    <2>5. SyncShape'
      BY <2>3, <2>4 DEF SyncShape, EventIds
    <2>6. RowsSound'
      BY <2>2, <2>4 DEF RowsSound
    <2> QED
      BY <2>4, <2>5, <2>6 DEF WebhooksSound, Sub, Event, EventIds, GrantsAreFinite, GrantsArePaidFor
  <1> QED
    BY <1>1, <1>2

\* A request begins, loads, writes, reads the cases, or is rolled back.
LEMMA RequestStepSyncInv ==
    ASSUME SyncInv, NEW h \in Handlers,
           Deliver(h) \/ Load(h) \/ Flush(h) \/ ReadCases(h) \/ AbortWebhook(h)
    PROVE  SyncInv'
  <1>1. UNCHANGED <<clock, store, events, recorded, rows, grants, cases, cancel, beat>>
    <2>1. CASE Deliver(h)
      BY <2>1, Zenon DEF Deliver, storeVars, dataVars
    <2>2. CASE Load(h) \/ Flush(h) \/ ReadCases(h) \/ AbortWebhook(h)
      BY <2>2 DEF Load, Flush, ReadCases, AbortWebhook, storeVars, dataVars
    <2> QED
      BY <2>1, <2>2
  <1>2. handler[h] \in Webhook /\ handler \in [Handlers -> Webhook] /\ clock \in Nat
    BY DEF SyncInv, SyncShape
  <1>3. IdleHandler \in Webhook /\ IdleHandler.at = "idle"
    BY IdleIsWebhook
  <1>4. CASE handler' = [handler EXCEPT ![h] = IdleHandler]
    BY <1>1, <1>3, <1>4, RequestSyncInv
  <1>5. CASE handler' = handler
    <2>1. handler' = [handler EXCEPT ![h] = handler[h]]
      BY <1>2, <1>5
    <2>2. PICK w : w = handler[h]
      OBVIOUS
    <2>3. w.at # "idle" =>
            /\ w.ev \in EventIds \ recorded /\ w.began <= clock
            /\ (w.row # <<>> => rows[events[w.ev].sub] # <<>>)
            /\ \A g \in Handlers \ {h} : handler[g].at # "idle" => handler[g].ev # w.ev
      BY <2>2, InHand DEF Sub, Event
    <2> QED
      BY <1>1, <1>2, <2>1, <2>2, <2>3, RequestSyncInv
  <1>6. CASE Deliver(h) /\ handler' # handler
    <2>1. PICK i \in EventIds :
            /\ handler[h].at = "idle" /\ \A g \in Handlers : handler[g].ev # i
            /\ i \notin recorded
            /\ handler' = [handler EXCEPT ![h] =
                    [IdleHandler EXCEPT !.at = "load", !.ev = i, !.began = clock]]
      BY <1>6, Zenon DEF Deliver
    <2>2. PICK w : w = [IdleHandler EXCEPT !.at = "load", !.ev = i, !.began = clock]
      OBVIOUS
    <2>3. w = [at |-> "load", ev |-> i, row |-> <<>>, open |-> {}, began |-> clock]
      BY <2>2 DEF IdleHandler
    <2>4. w \in Webhook
      <3>1. i \in Nat
        BY DEF EventIds, SyncInv, SyncShape
      <3> QED
        BY <1>2, <2>3, <3>1 DEF Webhook
    <2>5. /\ w.ev \in EventIds \ recorded /\ w.began <= clock
          /\ (w.row # <<>> => rows[events[w.ev].sub] # <<>>)
          /\ \A g \in Handlers \ {h} : handler[g].at # "idle" => handler[g].ev # w.ev
      BY <1>2, <2>1, <2>3
    <2> QED
      BY <1>1, <2>1, <2>2, <2>4, <2>5, RequestSyncInv
  <1>7. CASE (Load(h) \/ Flush(h) \/ ReadCases(h)) /\ handler' # [handler EXCEPT ![h] = IdleHandler]
    <2>1. handler[h].at # "idle"
      BY <1>7 DEF Load, Flush, ReadCases
    <2>2. /\ handler[h].ev \in EventIds \ recorded /\ handler[h].began <= clock
          /\ (handler[h].row # <<>> => rows[events[handler[h].ev].sub] # <<>>)
          /\ Sub(h) = events[handler[h].ev].sub /\ Sub(h) \in Subs
          /\ \A g \in Handlers \ {h} : handler[g].at # "idle" => handler[g].ev # handler[h].ev
      BY <2>1, InHand DEF Event
    <2>3. PICK w : handler' = [handler EXCEPT ![h] = w] /\ w \in Webhook
                   /\ w.ev = handler[h].ev /\ w.began = handler[h].began
                   /\ (w.row = handler[h].row \/ w.row = rows[Sub(h)])
      <3>1. CASE Load(h)
        <4>1. handler' = [handler EXCEPT ![h] = [handler[h] EXCEPT !.at = "flush", !.row = rows[Sub(h)]]]
          BY <1>2, <1>7, <3>1 DEF Load, RollBack
        <4>2. PICK w : w = [handler[h] EXCEPT !.at = "flush", !.row = rows[Sub(h)]]
          OBVIOUS
        <4>3. rows[Sub(h)] \in Seq(SubscriptionRow)
          BY <2>2 DEF SyncInv, SyncShape
        <4>4. w \in Webhook /\ w.ev = handler[h].ev /\ w.began = handler[h].began /\ w.row = rows[Sub(h)]
          BY <1>2, <4>2, <4>3 DEF Webhook
        <4>5. handler' = [handler EXCEPT ![h] = w]
          BY <4>1, <4>2
        <4> QED
          BY <4>4, <4>5
      <3>2. CASE Flush(h)
        <4>1. PICK at : at = IF Event(h).kind \in OpenKinds \cup RecoverKinds /\ handler[h].row # <<>>
                             THEN "cases" ELSE "commit"
          OBVIOUS
        <4>2. handler' = [handler EXCEPT ![h].at = at] /\ at \in {"cases", "commit"}
          BY <3>2, <4>1 DEF Flush
        <4>3. PICK w : w = [handler[h] EXCEPT !.at = at]
          OBVIOUS
        <4>4. w \in Webhook /\ w.ev = handler[h].ev /\ w.began = handler[h].began /\ w.row = handler[h].row
          BY <1>2, <4>2, <4>3 DEF Webhook
        <4>5. handler' = [handler EXCEPT ![h] = w]
          BY <1>2, <4>2, <4>3
        <4> QED
          BY <4>4, <4>5
      <3>3. CASE ReadCases(h)
        <4>1. PICK open : open = OpenCases(Sub(h), 1)
          OBVIOUS
        <4>2. handler' = [handler EXCEPT ![h].at = "commit", ![h].open = open]
          BY <1>7, <3>3, <4>1 DEF ReadCases, RollBack
        <4>3. open \in SUBSET Nat
          <5>1. cases[Sub(h)] \in Seq(DunningCase)
            BY <2>2 DEF SyncInv, SyncShape
          <5> QED
            BY <4>1, <5>1 DEF OpenCases
        <4>4. PICK w : w = [handler[h] EXCEPT !.at = "commit", !.open = open]
          OBVIOUS
        <4>5. w \in Webhook /\ w.ev = handler[h].ev /\ w.began = handler[h].began /\ w.row = handler[h].row
          BY <1>2, <4>3, <4>4 DEF Webhook
        <4>6. handler' = [handler EXCEPT ![h] = w]
          BY <1>2, <4>2, <4>4
        <4> QED
          BY <4>5, <4>6
      <3> QED
        BY <1>7, <3>1, <3>2, <3>3
    <2>4. /\ w.ev \in EventIds \ recorded /\ w.began <= clock
          /\ (w.row # <<>> => rows[events[w.ev].sub] # <<>>)
          /\ \A g \in Handlers \ {h} : handler[g].at # "idle" => handler[g].ev # w.ev
      BY <2>2, <2>3
    <2> QED
      BY <1>1, <2>3, <2>4, RequestSyncInv
  <1> QED
    BY <1>4, <1>5, <1>6, <1>7 DEF AbortWebhook, RollBack

\* The stores, the clock, and the call of /cancel/web.
LEMMA OutsideStepSyncInv ==
    ASSUME SyncInv, Tick \/ \E s \in Subs : StoreNext(s) \/ CancelWebCall(s)
    PROVE  /\ SyncInv' /\ UNCHANGED <<recorded, rows, grants, cases, handler, beat>>
           /\ \A i \in EventIds : events'[i] = events[i]
  <1>1. SyncShape /\ RowsSound /\ clock \in Nat
    BY DEF SyncInv, SyncShape
  <1>2. CASE Tick
    <2>1. clock' = clock + 1 /\ UNCHANGED <<store, events, recorded, rows, grants, cases, handler, cancel, beat>>
      BY <1>2 DEF Tick, storeVars, dataVars
    <2>2. clock' \in Nat /\ clock <= clock'
      BY <1>1, <2>1
    <2>3. \A s \in Subs : cancel[s].at = "called" => rows[s] # <<>> /\ cancel[s].began <= clock'
      BY <1>1, <2>1 DEF SyncShape, RowsSound, Cancelling
    <2>4. /\ store' \in [Subs -> StoreRow] /\ events' \in Seq(StoreEvent) /\ cancel' \in [Subs -> Cancelling]
          /\ EventIds \subseteq EventIds' /\ \A i \in EventIds : events'[i] = events[i]
      BY <1>1, <2>1 DEF SyncShape, EventIds
    <2> QED
      BY <2>1, <2>2, <2>3, <2>4, OutsideSyncInv
  <1>3. ASSUME NEW s \in Subs, StoreNext(s) \/ CancelWebCall(s)
        PROVE  /\ SyncInv' /\ UNCHANGED <<recorded, rows, grants, cases, handler, beat>>
               /\ \A i \in EventIds : events'[i] = events[i]
    <2>1. /\ UNCHANGED <<clock, recorded, rows, grants, cases, handler, beat>>
          /\ \E st \in StoreStatus \ {"none"}, t \in Tiers, p \in Nat, kinds \in Seq(EventKinds) :
                Emit(s, st, t, p, kinds)
      <3>1. PICK tier : tier = store[s].tier
        OBVIOUS
      <3>2. PICK period : period = store[s].period
        OBVIOUS
      <3>3. tier \in Tiers /\ period \in Nat /\ period + 1 \in Nat
        BY <1>1, <3>1, <3>2 DEF SyncShape, StoreRow
      <3>4. \A t \in PaidTiers : t \in Tiers
        BY DEF Tiers
      <3>5. /\ "active" \in StoreStatus \ {"none"} /\ "past_due" \in StoreStatus \ {"none"}
            /\ "canceled" \in StoreStatus \ {"none"} /\ "expired" \in StoreStatus \ {"none"}
        BY DEF StoreStatus
      <3>6. \A x, y \in EventKinds : <<x>> \in Seq(EventKinds) /\ <<x, y>> \in Seq(EventKinds)
        OBVIOUS
      <3>7. /\ "created" \in EventKinds /\ "paid" \in EventKinds /\ "updated" \in EventKinds
            /\ "deleted" \in EventKinds /\ "failed" \in EventKinds /\ "INITIAL_PURCHASE" \in EventKinds
            /\ "RENEWAL" \in EventKinds /\ "BILLING_ISSUE" \in EventKinds
            /\ "PRODUCT_CHANGE" \in EventKinds /\ "CANCELLATION" \in EventKinds
            /\ "EXPIRATION" \in EventKinds
        BY DEF EventKinds, RcKinds
      <3>8. CASE Subscribe(s)
        <4>1. PICK t \in PaidTiers, kinds \in Seq(EventKinds) : Happens(s, "active", t, 1, kinds)
          BY <3>6, <3>7, <3>8 DEF Subscribe
        <4>2. Emit(s, "active", t, 1, kinds) /\ UNCHANGED <<clock, recorded, rows, grants, cases, handler, beat>>
          BY <4>1 DEF Happens, dataVars
        <4> QED
          BY <3>4, <3>5, <4>2
      <3>9. CASE Renew(s)
        <4>1. PICK kinds \in Seq(EventKinds) : Happens(s, "active", tier, period + 1, kinds)
          BY <3>1, <3>2, <3>6, <3>7, <3>9 DEF Renew
        <4>2. Emit(s, "active", tier, period + 1, kinds) /\ UNCHANGED <<clock, recorded, rows, grants, cases, handler, beat>>
          BY <4>1 DEF Happens, dataVars
        <4> QED
          BY <3>3, <3>5, <4>2
      <3>10. CASE PaymentFails(s)
        <4>1. PICK kinds \in Seq(EventKinds) : Happens(s, "past_due", tier, period, kinds)
          BY <3>1, <3>2, <3>6, <3>7, <3>10 DEF PaymentFails
        <4>2. Emit(s, "past_due", tier, period, kinds) /\ UNCHANGED <<clock, recorded, rows, grants, cases, handler, beat>>
          BY <4>1 DEF Happens, dataVars
        <4> QED
          BY <3>3, <3>5, <4>2
      <3>11. CASE PaymentRecovers(s)
        <4>1. PICK p \in {period, period + 1}, kinds \in Seq(EventKinds) : Happens(s, "active", tier, p, kinds)
          BY <3>1, <3>2, <3>6, <3>7, <3>11 DEF PaymentRecovers
        <4>2. Emit(s, "active", tier, p, kinds) /\ UNCHANGED <<clock, recorded, rows, grants, cases, handler, beat>>
          BY <4>1 DEF Happens, dataVars
        <4> QED
          BY <3>3, <3>5, <4>2
      <3>12. CASE ChangeProduct(s)
        <4>1. PICK t \in PaidTiers, kinds \in Seq(EventKinds) : Happens(s, "active", t, period, kinds)
          BY <3>2, <3>6, <3>7, <3>12 DEF ChangeProduct
        <4>2. Emit(s, "active", t, period, kinds) /\ UNCHANGED <<clock, recorded, rows, grants, cases, handler, beat>>
          BY <4>1 DEF Happens, dataVars
        <4> QED
          BY <3>3, <3>4, <3>5, <4>2
      <3>13. CASE CancelAtStore(s)
        <4>1. PICK kinds \in Seq(EventKinds) : Happens(s, "canceled", tier, period, kinds)
          BY <3>1, <3>2, <3>6, <3>7, <3>13 DEF CancelAtStore
        <4>2. Emit(s, "canceled", tier, period, kinds) /\ UNCHANGED <<clock, recorded, rows, grants, cases, handler, beat>>
          BY <4>1 DEF Happens, dataVars
        <4> QED
          BY <3>3, <3>5, <4>2
      <3>14. CASE ExpireAtStore(s)
        <4>1. Happens(s, "expired", tier, period, <<"EXPIRATION">>) /\ <<"EXPIRATION">> \in Seq(EventKinds)
          BY <3>1, <3>2, <3>6, <3>7, <3>14 DEF ExpireAtStore
        <4>2. Emit(s, "expired", tier, period, <<"EXPIRATION">>) /\ UNCHANGED <<clock, recorded, rows, grants, cases, handler, beat>>
          BY <4>1 DEF Happens, dataVars
        <4> QED
          BY <3>3, <3>5, <4>1, <4>2
      <3>15. CASE CancelWebCall(s)
        <4>1. Emit(s, "canceled", tier, period, <<"deleted">>) /\ <<"deleted">> \in Seq(EventKinds)
          BY <3>1, <3>2, <3>6, <3>7, <3>15 DEF CancelWebCall
        <4>2. UNCHANGED <<clock, recorded, rows, grants, cases, handler, beat>>
          BY <3>15 DEF CancelWebCall, dataVars
        <4> QED
          BY <3>3, <3>5, <4>1, <4>2
      <3> QED
        BY <1>3, <3>8, <3>9, <3>10, <3>11, <3>12, <3>13, <3>14, <3>15 DEF StoreNext
    <2>2. /\ store' \in [Subs -> StoreRow] /\ events' \in Seq(StoreEvent)
          /\ EventIds \subseteq EventIds' /\ \A i \in EventIds : events'[i] = events[i]
      BY <1>1, <2>1, EmitFacts
    <2>3. /\ cancel' \in [Subs -> Cancelling]
          /\ \A t \in Subs : cancel'[t].at = "called" => rows[t] # <<>> /\ cancel'[t].began <= clock'
      <3>1. CASE StoreNext(s)
        <4>1. cancel' = cancel
          BY <3>1 DEF StoreNext, Subscribe, Renew, PaymentFails, PaymentRecovers, ChangeProduct,
                      CancelAtStore, ExpireAtStore, Happens
        <4> QED
          BY <1>1, <2>1, <4>1 DEF SyncShape, RowsSound
      <3>2. CASE CancelWebCall(s)
        <4>1. PICK c : c = [at |-> "called", status |-> rows[s][1].status, began |-> clock]
          OBVIOUS
        <4>2. cancel' = [cancel EXCEPT ![s] = c] /\ rows[s] # <<>>
          BY <3>2, <4>1 DEF CancelWebCall
        <4>3. rows[s] \in Seq(SubscriptionRow)
          BY <1>1 DEF SyncShape
        <4>4. rows[s][1] \in SubscriptionRow
          BY <4>2, <4>3
        <4>5. c \in Cancelling /\ c.began = clock
          BY <1>1, <4>1, <4>4 DEF Cancelling, SubscriptionRow, RowStatus
        <4> QED
          BY <1>1, <2>1, <4>2, <4>5 DEF SyncShape, RowsSound
      <3> QED
        BY <1>3, <3>1, <3>2
    <2>4. clock' \in Nat /\ clock <= clock' /\ UNCHANGED <<recorded, rows, grants, cases, handler, beat>>
      BY <1>1, <2>1
    <2> QED
      BY <2>2, <2>3, <2>4, OutsideSyncInv
  <1> QED
    BY <1>2, <1>3

\* Every step keeps the invariant.
LEMMA SyncNextInv ==
    ASSUME SyncInv, [SyncNext]_syncVars
    PROVE  SyncInv'
  <1>1. CASE Tick \/ \E s \in Subs : StoreNext(s) \/ CancelWebCall(s)
    BY <1>1, OutsideStepSyncInv
  <1>2. CASE \E s \in Subs : CancelWebCommit(s)
    BY <1>2, CancelWebCommitSyncInv
  <1>3. CASE \E h \in Handlers : Deliver(h) \/ Load(h) \/ Flush(h) \/ ReadCases(h) \/ AbortWebhook(h)
    BY <1>3, RequestStepSyncInv
  <1>4. CASE \E h \in Handlers : Commit(h)
    BY <1>4, CommitSyncInv
  <1>5. CASE \E h \in Handlers : CommitGrantExists(h)
    BY <1>5, CommitGrantExistsSyncInv
  <1>6. CASE BeatLoad \/ BeatWrite
    BY <1>6, BeatSyncInv
  <1>7. CASE UNCHANGED syncVars
    BY <1>7 DEF syncVars, SyncInv, SyncShape, RowsSound, WebhooksSound, Sub, Event, EventIds,
                GrantsAreFinite, GrantsArePaidFor
  <1> QED
    BY <1>1, <1>2, <1>3, <1>4, <1>5, <1>6, <1>7 DEF SyncNext, Serve

-----------------------------------------------------------------------------
(* The mirror of the subscriptions: theorems, for any number of requests at a *)
(* time, with the dunning tick and with /cancel/web                           *)

\* The invariant of the webhook routes: requests are served once, and no grant
\* is without its payment in the ledger.
THEOREM SyncInvariance == SyncSpec => []SyncInv
  <1>1. SyncInit => SyncInv
    BY SyncInitInv
  <1>2. SyncInv /\ [SyncNext]_syncVars => SyncInv'
    BY SyncNextInv
  <1> QED
    BY <1>1, <1>2, PTL DEF SyncSpec

\* Every row is one the tables' CHECK constraints admit, no row is dated later
\* than now, and no request works for an event that is in the ledger.
THEOREM SyncTypeCorrect == SyncSpec => []SyncTypeOK
  <1>1. SyncInv => SyncTypeOK
    BY DEF SyncInv, SyncShape, RowsSound, WebhooksSound, SyncTypeOK
  <1> QED
    BY <1>1, SyncInvariance, PTL

\* grant_subscription_credits: however many requests run, are rolled back or
\* repeated, a subscription is granted credits at most once per payment that the
\* store reported and the ledger of events has.
THEOREM CreditsNeedPayments == SyncSpec => []GrantsArePaidFor
  <1>1. SyncInv => GrantsArePaidFor
    BY DEF SyncInv
  <1> QED
    BY <1>1, SyncInvariance, PTL

\* insert_ledger_event: a transaction that changes the plan of a subscription or
\* the credits enters its event into the ledger, which did not have it.
THEOREM OneEffectPerEvent == SyncSpec => EffectsOncePerEvent
  <1> DEFINE Once ==
        (grants' # grants \/ \E s \in Subs : Len(rows'[s]) # Len(rows[s])
          \/ \E r \in 1..Len(rows[s]) : rows'[s][r].tier # rows[s][r].tier
                                     \/ rows'[s][r].period # rows[s][r].period)
        => \E i \in EventIds \ recorded : recorded' = recorded \cup {i}
  <1>1. SyncInv /\ [SyncNext]_syncVars => [Once]_syncVars
    <2> SUFFICES ASSUME SyncInv, SyncNext PROVE Once
      OBVIOUS
    <2>1. CASE UNCHANGED <<rows, grants>>
      BY <2>1
    <2>2. CASE \E h \in Handlers : Commit(h)
      <3>1. PICK h \in Handlers : Commit(h)
        BY <2>2
      <3>2. handler[h].at # "idle" /\ recorded' = recorded \cup {handler[h].ev}
        BY <3>1 DEF Commit
      <3>3. handler[h].ev \in EventIds \ recorded
        BY <3>2, InHand
      <3> QED
        BY <3>2, <3>3
    <2>3. CASE \E s \in Subs : CancelWebCommit(s)
      <3>1. PICK s \in Subs : CancelWebCommit(s)
        BY <2>3
      <3>2. \A t \in Subs : /\ Len(rows'[t]) = Len(rows[t])
                            /\ \A r \in 1..Len(rows[t]) :
                                  /\ rows'[t][r].tier = rows[t][r].tier
                                  /\ rows'[t][r].period = rows[t][r].period
        BY <3>1, CancelWebCommitFacts
      <3>3. grants' = grants
        BY <3>1 DEF CancelWebCommit
      <3> QED
        BY <3>2, <3>3
    <2>4. CASE Tick \/ (\E s \in Subs : StoreNext(s) \/ CancelWebCall(s)) \/ BeatLoad \/ BeatWrite
      <3>1. UNCHANGED <<rows, grants>>
        BY <2>4, OutsideStepSyncInv DEF BeatLoad, BeatWrite, dataVars
      <3> QED
        BY <2>1, <3>1
    <2>5. CASE \E h \in Handlers : \/ Deliver(h) \/ Load(h) \/ Flush(h) \/ ReadCases(h)
                                   \/ CommitGrantExists(h) \/ AbortWebhook(h)
      <3>1. UNCHANGED <<rows, grants>>
        <4>1. PICK h \in Handlers : \/ Deliver(h) \/ Load(h) \/ Flush(h) \/ ReadCases(h)
                                    \/ CommitGrantExists(h) \/ AbortWebhook(h)
          BY <2>5
        <4>2. CASE Deliver(h)
          BY <4>2 DEF Deliver, dataVars
        <4>3. CASE Load(h) \/ Flush(h) \/ ReadCases(h) \/ CommitGrantExists(h) \/ AbortWebhook(h)
          BY <4>3 DEF Load, Flush, ReadCases, CommitGrantExists, AbortWebhook, dataVars
        <4> QED
          BY <4>1, <4>2, <4>3
      <3> QED
        BY <2>1, <3>1
    <2> QED
      BY <2>2, <2>3, <2>4, <2>5 DEF SyncNext, Serve
  <1> QED
    BY <1>1, SyncInvariance, PTL DEF SyncSpec, EffectsOncePerEvent
=============================================================================
