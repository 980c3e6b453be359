--------------------------- MODULE ProfilePortfolio ---------------------------
(***************************************************************************)
(* profile-svc: the items of one profile's portfolio and its links to      *)
(* other platforms (routers/portfolio.py, routers/oauth.py,                *)
(* workers/health_score_tasks.py, services/kms_crypto.py,                  *)
(* models/profile.py).  The pair (profile, position) is UNIQUE, checked    *)
(* row by row, and a position is one of the Limit first numbers: a         *)
(* transaction that would break either is lost.  Files, captions and       *)
(* scores are left out.  The ciphertext of a token is the number of the    *)
(* data key it was made with; every call of encrypt_token makes a new key. *)
(***************************************************************************)
EXTENDS RequestSlots, Sequences, FiniteSets

CONSTANTS Limit,               \* PORTFOLIO_ITEM_LIMIT, 12 in the code
          MaxItems,            \* bound: items that are ever created
          Providers, MaxKeys   \* bound: data keys

ASSUME LimitAssumption == Limit \in Nat

VARIABLES
    places,     \* portfolio_items: the position of each item, None once it is deleted
    links,      \* external_links: [Providers -> None or the row]
    keys        \* data keys KMS has made

portfolioVars == <<places, links, keys>>

Positions == 0 .. Limit - 1
LinkRow == [id : Nat, access : Nat, dataKey : Nat, refresh : {None} \cup Nat, ok : BOOLEAN]

PortfolioInit == places = <<>> /\ links = [p \in Providers |-> None] /\ keys = 0

Held(ps)     == {i \in DOMAIN ps : ps[i] # None}
Count        == Cardinality(Held(places))
FreeFor(ps, i, pos) == pos \in Positions /\ \A j \in Held(ps) \ {i} : ps[j] # pos

\* POST /upload-url: the items are counted, the count is the new position.
LoadUpload(c) ==
    /\ Count < Limit
    /\ Begin(c, [op |-> "upload", position |-> Count])
    /\ UNCHANGED portfolioVars
\* Faulty variant: no unique pair in the table.
CommitUploadAnywhere(c) ==
    /\ Doing(c, "upload") /\ Len(places) < MaxItems
    /\ places' = Append(places, work[c].position)
    /\ End(c) /\ UNCHANGED <<links, keys>>

CommitUpload(c) ==
    /\ Doing(c, "upload") /\ Len(places) < MaxItems
    /\ FreeFor(places, 0, work[c].position)
    /\ places' = Append(places, work[c].position)
    /\ End(c) /\ UNCHANGED <<links, keys>>
\* POST /{item}/finalize may name a position, DELETE /{item}.
FinalizeUpload(i, pos) ==
    /\ FreeFor(places, i, pos) /\ AtOnce
    /\ places' = [places EXCEPT ![i] = pos] /\ UNCHANGED <<links, keys>>
DeleteItem(i) == /\ AtOnce /\ places' = [places EXCEPT ![i] = None]
                 /\ UNCHANGED <<links, keys>>

\* PATCH /reorder: the items are read and numbered, then written one row at a
\* time, in the order of their random ids; each row must find its place free,
\* and an item that was deleted since fails the whole.
LoadReorder(c, first, second) ==
    /\ Begin(c, [op |-> "reorder", loaded |-> places,
                 wanted |-> [places EXCEPT ![first] = 0, ![second] = 1]])
    /\ UNCHANGED portfolioVars
CommitReorder(c) ==
    LET q == work[c]
        moved == {i \in Held(q.loaded) : q.wanted[i] # q.loaded[i]}
        Put(ps, i) == [ps EXCEPT ![i] = q.wanted[i]]
    IN
    /\ Doing(c, "reorder") /\ moved \subseteq Held(places)
    /\ \/ moved = {} /\ UNCHANGED places
       \/ \E i \in moved : /\ moved = {i} /\ FreeFor(places, i, q.wanted[i])
                           /\ places' = Put(places, i)
       \/ \E i, j \in moved :
             /\ i # j /\ moved = {i, j} /\ FreeFor(places, i, q.wanted[i])
             /\ FreeFor(Put(places, i), j, q.wanted[j])
             /\ places' = Put(Put(places, i), j)
    /\ End(c) /\ UNCHANGED <<links, keys>>

-----------------------------------------------------------------------------
(* External links *)

\* encrypt_token: each call has KMS make a data key of its own.
EncryptTokens(n) == keys + n <= MaxKeys /\ keys' = keys + n

\* oauth_callback: both tokens are encrypted, then the row is read, then
\* inserted or updated.  Only some providers hand out a refresh token.
LoadCallback(c, p, renewable) ==
    /\ EncryptTokens(IF renewable THEN 2 ELSE 1)
    /\ Begin(c, [op |-> "callback", p |-> p, loaded |-> links[p],
                 row |-> [id |-> IF links[p] = None THEN keys + 1 ELSE links[p].id,
                          access |-> keys + 1, dataKey |-> keys + 1, ok |-> TRUE,
                          refresh |-> IF renewable THEN keys + 2 ELSE None]])
    /\ UNCHANGED <<places, links>>
\* A row that was inserted, or is no longer there, when it is written fails
\* the commit.
SameLink(current, loaded) == IF loaded = None THEN current = None
                             ELSE current # None /\ current.id = loaded.id
RowToSave(current, loaded, row) == IF loaded = None THEN row ELSE Flush(current, loaded, row)
SaveLink(c) ==
    LET q == work[c]
    IN
    /\ Doing(c, "callback")
    /\ SameLink(links[q.p], q.loaded)
    /\ links' = [links EXCEPT ![q.p] = RowToSave(@, q.loaded, q.row)]
    /\ End(c) /\ UNCHANGED <<places, keys>>

\* refresh_expiring_oauth_tokens: a token that can be read is exchanged, one
\* that cannot, or whose exchange fails, is marked; all links in one commit.
LoadTokenRefresh(c, p) ==
    /\ links[p] # None /\ links[p].ok
    /\ \/ /\ links[p].access = links[p].dataKey /\ EncryptTokens(1)
          /\ Begin(c, [op |-> "token", p |-> p, loaded |-> links[p],
                       row |-> [links[p] EXCEPT !.access = keys + 1, !.dataKey = keys + 1]])
       \/ /\ Begin(c, [op |-> "token", p |-> p, loaded |-> links[p],
                       row |-> [links[p] EXCEPT !.ok = FALSE]])
          /\ UNCHANGED keys
    /\ UNCHANGED <<places, links>>
SaveTokenRefresh(c) ==
    LET q == work[c]
    IN
    /\ Doing(c, "token") /\ SameLink(links[q.p], q.loaded)
    /\ links' = [links EXCEPT ![q.p] = RowToSave(@, q.loaded, q.row)]
    /\ End(c) /\ UNCHANGED <<places, keys>>

\* Disconnect: the revocation at the provider is tried, the row is deleted.
Disconnect(p) == /\ links[p] # None /\ AtOnce
                 /\ links' = [links EXCEPT ![p] = None] /\ UNCHANGED <<places, keys>>

\* A constraint or a call fails: the transaction is lost.
PortfolioFails(c) == ~Free(c) /\ End(c) /\ UNCHANGED portfolioVars

PortfolioNext ==
    \/ \E i \in Held(places) : DeleteItem(i) \/ \E pos \in Positions : FinalizeUpload(i, pos)
    \/ \E p \in Providers : Disconnect(p)
    \/ \E c \in Slots :
          \/ LoadUpload(c) \/ CommitUpload(c)
          \/ \E i, j \in Held(places) : i # j /\ LoadReorder(c, i, j)
          \/ CommitReorder(c)
          \/ \E p \in Providers, renewable \in BOOLEAN : LoadCallback(c, p, renewable)
          \/ SaveLink(c)
          \/ \E p \in Providers : LoadTokenRefresh(c, p)
          \/ SaveTokenRefresh(c) \/ PortfolioFails(c)
===============================================================================
