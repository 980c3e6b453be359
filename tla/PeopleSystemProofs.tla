-------------------------- MODULE PeopleSystemProofs --------------------------
(***************************************************************************)
(* TLAPS proofs about PeopleSystem, for any users, addresses, profiles and *)
(* limits and any number of overlapping requests and tasks.  A behaviour   *)
(* is one area of the system, so what a request carries is stated under    *)
(* the area it belongs to; an area that is not running never changes.      *)
(***************************************************************************)
EXTENDS PeopleSystem, FiniteSetTheorems, TLAPS

\* Every slot has its request, or none.
SlotsFilled == work = [c \in Slots |-> work[c]]

\* A request that moves on or ends changes its own slot and no other.
LEMMA SlotMove ==
    ASSUME SlotsFilled, NEW c \in Slots, NEW r, work' = [work EXCEPT ![c] = r]
    PROVE  /\ SlotsFilled' /\ work'[c] = r
           /\ \A d \in Slots \ {c} : work'[d] = work[d]
  BY DEF SlotsFilled

\* A slot whose request is r is doing what r says and nothing else.
LEMMA SlotDoes ==
    ASSUME NEW c, NEW op
    PROVE  /\ Doing(c, op) => work[c] # None /\ work[c].op = op
           /\ work'[c] = None => ~Doing(c, op)'
           /\ Doing(c, op)' => work'[c] # None /\ work'[c].op = op
  BY DEF Doing

-----------------------------------------------------------------------------
(* Sessions *)

\* Tokens are of sessions, and what was logged out is a session.
SessionRows ==
    /\ sessions \in Seq(SessionRow) /\ mint \in Seq(Nat)
    /\ \A t \in 1..Len(mint) : mint[t] \in 1..Len(sessions)
    /\ out \subseteq 1..Len(sessions)

\* A refresh carries the row as it read it; a logout that is about to commit
\* has marked its sessions in Redis before.
CarriesSession(r) ==
    r # None =>
      /\ r.op \in {"refresh", "rotate"} => r.t \in 1..Len(mint) /\ r.loaded \in SessionRow
      /\ r.op \in {"out", "revoke"} => r.targets \subseteq 1..Len(sessions)
      /\ r.op = "revoke" => r.targets \subseteq marks
SessionRequests == \A c \in Slots : CarriesSession(work[c])

SessionInv == /\ SessionRows /\ RevokedForGood
              /\ area = "sessions" => SlotsFilled /\ SessionRequests

\* Only revoked rows may be out, and all of them are marked.
SessionRule(ss, ms, os) ==
    /\ os \subseteq ms
    /\ \A s \in os : ss[s].revoked
    /\ \A s \in 1..Len(ss) : ss[s].revoked => s \in ms

LEMMA SessionRuleIs ==
    ASSUME sessions \in Seq(SessionRow)
    PROVE  RevokedForGood <=> SessionRule(sessions, marks, out)
  BY DEF RevokedForGood, SessionRule

\* What the rotation of a token writes: the token, and nothing of what another
\* transaction has put into the row since it was read.
LEMMA RotatedRow ==
    ASSUME sessions \in Seq(SessionRow), NEW s \in 1..Len(sessions),
           NEW loaded \in SessionRow, NEW t \in Nat
    PROVE  /\ Rotated(s, loaded, t) \in SessionRow
           /\ Rotated(s, loaded, t).revoked = sessions[s].revoked
  <1>1. sessions[s] \in SessionRow
    OBVIOUS
  <1> QED
    BY <1>1 DEF Rotated, Flush, SessionRow

\* Sessions, tokens and marks are never taken away, so what a request carries
\* stays good.
SessionsGrow ==
    /\ SessionRows /\ SessionRows' /\ marks \subseteq marks'
    /\ Len(sessions) <= Len(sessions') /\ Len(mint) <= Len(mint')

LEMMA CarriesGrows ==
    ASSUME SessionsGrow, NEW r, CarriesSession(r)
    PROVE  CarriesSession(r)'
  <1>1. /\ Len(sessions) \in Nat /\ Len(sessions') \in Nat
        /\ Len(mint) \in Nat /\ Len(mint') \in Nat
    BY DEF SessionsGrow, SessionRows
  <1> QED
    BY <1>1 DEF SessionsGrow, CarriesSession, SessionRow

LEMMA SessionIdle ==
    ASSUME SlotsFilled, SessionsGrow, SessionRequests, work' = work
    PROVE  SlotsFilled' /\ SessionRequests'
  <1>1. \A d \in Slots : CarriesSession(work[d])'
    BY CarriesGrows DEF SessionRequests, CarriesSession
  <1> QED
    BY <1>1 DEF SlotsFilled, SessionRequests

LEMMA SessionMoves ==
    ASSUME SlotsFilled, SessionsGrow, SessionRequests,
           NEW c \in Slots, NEW r, work' = [work EXCEPT ![c] = r], CarriesSession(r)'
    PROVE  SlotsFilled' /\ SessionRequests'
  <1>1. /\ SlotsFilled' /\ work'[c] = r
        /\ \A d \in Slots \ {c} : work'[d] = work[d]
    BY SlotMove
  <1>2. CarriesSession(work[c])'
    BY <1>1 DEF CarriesSession
  <1>3. ASSUME NEW d \in Slots \ {c} PROVE CarriesSession(work[d])'
    <2>1. CarriesSession(work[d])
      BY DEF SessionRequests
    <2> QED
      BY <1>1, <2>1, CarriesGrows DEF CarriesSession
  <1> QED
    BY <1>1, <1>2, <1>3 DEF SessionRequests

LEMMA SessionStep ==
    ASSUME SessionInv, area = "sessions", SessionNext, UNCHANGED area
    PROVE  SessionInv'
  <1> USE DEF SessionInv, sessionVars
  <1>0. SUFFICES SessionRows' /\ RevokedForGood' /\ SlotsFilled' /\ SessionRequests'
    OBVIOUS
  <1>a. /\ SessionRows /\ SlotsFilled /\ SessionRequests /\ SessionRule(sessions, marks, out)
        /\ Len(sessions) \in Nat /\ Len(mint) \in Nat
    BY SessionRuleIs DEF SessionRows
  <1>1. ASSUME NEW u \in Holders, IssueTokenPair(u)
        PROVE  SessionRows' /\ RevokedForGood' /\ SlotsFilled' /\ SessionRequests'
    <2>1. /\ Len(sessions') = Len(sessions) + 1 /\ Len(mint') = Len(mint) + 1
          /\ sessions' \in Seq(SessionRow) /\ mint' \in Seq(Nat)
          /\ \A s \in 1..Len(sessions) : sessions'[s] = sessions[s]
          /\ ~sessions'[Len(sessions) + 1].revoked
          /\ \A t \in 1..Len(mint) : mint'[t] = mint[t]
          /\ mint'[Len(mint) + 1] = Len(sessions) + 1
          /\ UNCHANGED <<work, usedJti, marks, out>>
      BY <1>1, <1>a DEF IssueTokenPair, MintRefreshToken, AtOnce, SessionRows, SessionRow
    <2>a. \A t \in 1..Len(mint') : t \in 1..Len(mint) \/ t = Len(mint) + 1
      BY <1>a, <2>1
    <2>b. \A s \in 1..Len(sessions') : s \in 1..Len(sessions) \/ s = Len(sessions) + 1
      BY <1>a, <2>1
    <2>c. 1..Len(sessions) \subseteq 1..Len(sessions')
      BY <1>a, <2>1
    <2>d. \A t \in 1..Len(mint') : mint'[t] \in 1..Len(sessions')
      <3>1. \A t \in 1..Len(mint) : mint'[t] \in 1..Len(sessions)
        BY <1>a, <2>1 DEF SessionRows
      <3>2. Len(sessions) + 1 \in 1..Len(sessions')
        BY <1>a, <2>1
      <3> QED
        BY <2>1, <2>a, <2>c, <3>1, <3>2
    <2>2. SessionRows'
      BY <1>a, <2>1, <2>c, <2>d DEF SessionRows
    <2>3. SessionRule(sessions', marks', out')
      <3>1. \A s \in out : s \in 1..Len(sessions)
        BY <1>a DEF SessionRows
      <3> QED
        BY <1>a, <2>1, <2>b, <3>1 DEF SessionRule
    <2>4. RevokedForGood'
      BY <2>1, <2>3 DEF RevokedForGood, SessionRule
    <2> QED
      BY <1>a, <2>1, <2>2, <2>4, SessionIdle DEF SessionsGrow
  <1>2. ASSUME NEW t \in DOMAIN mint, ReplayToken(t)
        PROVE  SessionRows' /\ RevokedForGood' /\ SlotsFilled' /\ SessionRequests'
    <2>1. UNCHANGED <<work, sessions, mint, out>> /\ marks \subseteq marks'
      BY <1>2 DEF ReplayToken, MarkSessionRevoked, AtOnce
    <2>2. SessionRows' /\ RevokedForGood'
      BY <1>a, <2>1 DEF SessionRows, RevokedForGood
    <2> QED
      BY <1>a, <2>1, <2>2, SessionIdle DEF SessionsGrow
  <1>3. ASSUME NEW c \in Slots, NEW t \in DOMAIN mint, LoadRefresh(c, t)
        PROVE  SessionRows' /\ RevokedForGood' /\ SlotsFilled' /\ SessionRequests'
    <2>1. /\ t \in 1..Len(mint) /\ sessions[mint[t]] \in SessionRow
          /\ UNCHANGED <<sessions, mint, marks, out>>
          /\ work' = [work EXCEPT ![c] = [op |-> "refresh", t |-> t,
                                         loaded |-> sessions[mint[t]]]]
      BY <1>3, <1>a DEF LoadRefresh, Begin, SessionRows
    <2>2. SessionRows' /\ RevokedForGood'
      BY <1>a, <2>1 DEF SessionRows, RevokedForGood
    <2>m. CarriesSession([op |-> "refresh", t |-> t, loaded |-> sessions[mint[t]]])'
      BY <1>a, <2>1, <2>2 DEF CarriesSession
    <2>n. SessionsGrow
      BY <1>a, <2>1, <2>2 DEF SessionsGrow
    <2> QED
      BY <1>a, <2>1, <2>2, <2>m, <2>n, SessionMoves
  <1>4. ASSUME NEW c \in Slots, NEW targets \in SUBSET (1..Len(sessions)), NEW spent,
               LoadOut(c, targets, spent)
        PROVE  SessionRows' /\ RevokedForGood' /\ SlotsFilled' /\ SessionRequests'
    <2>1. /\ UNCHANGED <<sessions, mint, marks, out>>
          /\ work' = [work EXCEPT ![c] = [op |-> "out", targets |-> targets, spent |-> spent]]
      BY <1>4 DEF LoadOut, Begin
    <2>2. SessionRows' /\ RevokedForGood'
      BY <1>a, <2>1 DEF SessionRows, RevokedForGood
    <2>m. CarriesSession([op |-> "out", targets |-> targets, spent |-> spent])'
      BY <1>a, <2>1, <2>2 DEF CarriesSession
    <2>n. SessionsGrow
      BY <1>a, <2>1, <2>2 DEF SessionsGrow
    <2> QED
      BY <1>a, <2>1, <2>2, <2>m, <2>n, SessionMoves
  <1>5. ASSUME NEW c \in Slots, SpendToken(c)
        PROVE  SessionRows' /\ RevokedForGood' /\ SlotsFilled' /\ SessionRequests'
    <2>1. /\ work[c].t \in 1..Len(mint) /\ work[c].loaded \in SessionRow
          /\ mint[work[c].t] \in 1..Len(sessions)
      BY <1>5, <1>a DEF SpendToken, SessionRequests, SessionRows, CarriesSession, Doing
    <2>2. /\ mint' \in Seq(Nat) /\ Len(mint') = Len(mint) + 1
          /\ \A t \in 1..Len(mint) : mint'[t] = mint[t]
          /\ mint'[Len(mint) + 1] = mint[work[c].t]
          /\ UNCHANGED <<sessions, marks, out>>
          /\ work' = [work EXCEPT ![c] = [op |-> "rotate", t |-> Len(mint) + 1,
                                         loaded |-> work[c].loaded]]
      BY <1>5, <1>a, <2>1 DEF SpendToken, MintRefreshToken, Step, SessionRows
    <2>a. \A t \in 1..Len(mint') : t \in 1..Len(mint) \/ t = Len(mint) + 1
      BY <1>a, <2>2
    <2>b. SessionRows'
      BY <1>a, <2>1, <2>2, <2>a DEF SessionRows
    <2>3. SessionRows' /\ RevokedForGood'
      BY <1>a, <2>2, <2>b DEF RevokedForGood
    <2>r. PICK r : r = [op |-> "rotate", t |-> Len(mint) + 1, loaded |-> work[c].loaded]
      OBVIOUS
    <2>m. CarriesSession(r)'
      <3>1. Len(mint) + 1 \in 1..Len(mint')
        BY <1>a, <2>2
      <3> QED
        BY <2>1, <2>r, <3>1 DEF CarriesSession
    <2>n. SessionsGrow
      BY <1>a, <2>1, <2>2, <2>3 DEF SessionsGrow
    <2> QED
      BY <1>a, <2>1, <2>2, <2>3, <2>r, <2>m, <2>n, SessionMoves
  <1>6. ASSUME NEW c \in Slots, RotateToken(c)
        PROVE  SessionRows' /\ RevokedForGood' /\ SlotsFilled' /\ SessionRequests'
    <2> DEFINE s == mint[work[c].t]
               row == Rotated(s, work[c].loaded, work[c].t)
    <2>1. /\ work[c].t \in 1..Len(mint) /\ work[c].loaded \in SessionRow /\ s \in 1..Len(sessions)
      BY <1>6, <1>a DEF RotateToken, SessionRequests, SessionRows, CarriesSession, Doing
    <2>2. row \in SessionRow /\ row.revoked = sessions[s].revoked
      <3>1. sessions \in Seq(SessionRow) /\ work[c].t \in Nat
        BY <1>a, <2>1 DEF SessionRows
      <3> QED
        BY <2>1, <3>1, RotatedRow
    <2>3. /\ sessions' = [sessions EXCEPT ![s] = row] /\ UNCHANGED <<mint, marks, out>>
          /\ work' = [work EXCEPT ![c] = None]
      BY <1>6 DEF RotateToken, End
    <2>4. /\ sessions' \in Seq(SessionRow) /\ Len(sessions') = Len(sessions)
          /\ \A i \in 1..Len(sessions) : sessions'[i].revoked = sessions[i].revoked
      BY <1>a, <2>1, <2>2, <2>3 DEF SessionRows
    <2>5. SessionRows'
      BY <1>a, <2>3, <2>4 DEF SessionRows
    <2>6. SessionRule(sessions', marks', out')
      BY <1>a, <2>3, <2>4 DEF SessionRule, SessionRows
    <2>7. RevokedForGood'
      BY <2>4, <2>6 DEF RevokedForGood, SessionRule
    <2>m. CarriesSession(None)'
      BY <1>a, <2>3, <2>4, <2>5, <2>7 DEF CarriesSession
    <2>n. SessionsGrow
      BY <1>a, <2>3, <2>4, <2>5, <2>7 DEF SessionsGrow
    <2> QED
      BY <1>a, <2>3, <2>4, <2>5, <2>7, <2>m, <2>n, SessionMoves
  <1>7. ASSUME NEW c \in Slots, MarkOut(c)
        PROVE  SessionRows' /\ RevokedForGood' /\ SlotsFilled' /\ SessionRequests'
    <2>1. work[c].targets \subseteq 1..Len(sessions)
      BY <1>7, <1>a DEF MarkOut, SessionRequests, CarriesSession, Doing
    <2>2. PICK r : /\ work' = [work EXCEPT ![c] = r]
                   /\ \/ r = None
                      \/ /\ r = [op |-> "revoke", targets |-> work[c].targets]
                         /\ marks' = marks \cup work[c].targets
      BY <1>7 DEF MarkOut, MarkSessionRevoked, Step, End
    <2>3. UNCHANGED <<sessions, mint, out>> /\ marks \subseteq marks'
      BY <1>7 DEF MarkOut, MarkSessionRevoked
    <2>4. SessionRows' /\ RevokedForGood'
      BY <1>a, <2>3 DEF SessionRows, RevokedForGood
    <2>m. CarriesSession(r)'
      BY <1>a, <2>1, <2>2, <2>3, <2>4 DEF CarriesSession
    <2>n. SessionsGrow
      BY <1>a, <2>1, <2>2, <2>3, <2>4 DEF SessionsGrow
    <2> QED
      BY <1>a, <2>1, <2>2, <2>3, <2>4, <2>m, <2>n, SessionMoves
  <1>8. ASSUME NEW c \in Slots, CommitOut(c)
        PROVE  SessionRows' /\ RevokedForGood' /\ SlotsFilled' /\ SessionRequests'
    <2>1. work[c].targets \subseteq 1..Len(sessions) /\ work[c].targets \subseteq marks
      BY <1>8, <1>a DEF CommitOut, SessionRequests, CarriesSession, Doing
    <2>2. /\ sessions' = [s \in DOMAIN sessions |->
                            IF s \in work[c].targets THEN [sessions[s] EXCEPT !.revoked = TRUE]
                            ELSE sessions[s]]
          /\ out' = out \cup work[c].targets
          /\ work' = [work EXCEPT ![c] = None] /\ UNCHANGED <<mint, marks>>
      BY <1>8 DEF CommitOut, End
    <2>3. \A s \in 1..Len(sessions) : sessions[s] \in SessionRow
      BY <1>a DEF SessionRows
    <2>4. ASSUME NEW s \in 1..Len(sessions)
          PROVE  /\ sessions'[s] \in SessionRow
                 /\ sessions'[s].revoked <=> sessions[s].revoked \/ s \in work[c].targets
      <3>1. DOMAIN sessions = 1..Len(sessions)
        BY <1>a DEF SessionRows
      <3>2. CASE s \in work[c].targets
        <4>1. sessions'[s] = [sessions[s] EXCEPT !.revoked = TRUE]
          BY <2>2, <3>1, <3>2
        <4> QED
          BY <2>3, <3>2, <4>1 DEF SessionRow
      <3>3. CASE s \notin work[c].targets
        BY <2>2, <2>3, <3>1, <3>3
      <3> QED
        BY <3>2, <3>3
    <2>5. sessions' \in Seq(SessionRow) /\ Len(sessions') = Len(sessions)
      <3>1. /\ DOMAIN sessions = 1..Len(sessions) /\ DOMAIN sessions' = 1..Len(sessions)
            /\ sessions' = [s \in 1..Len(sessions) |-> sessions'[s]]
        BY <1>a, <2>2 DEF SessionRows
      <3>2. sessions' \in [1..Len(sessions) -> SessionRow]
        BY <2>4, <3>1
      <3> QED
        BY <1>a, <3>2
    <2>6. SessionRows'
      BY <1>a, <2>1, <2>2, <2>5 DEF SessionRows
    <2>7. SessionRule(sessions', marks', out')
      BY <1>a, <2>1, <2>2, <2>4, <2>5 DEF SessionRule, SessionRows
    <2>8. RevokedForGood'
      BY <2>5, <2>7 DEF RevokedForGood, SessionRule
    <2>m. CarriesSession(None)'
      BY <1>a, <2>2, <2>5, <2>6, <2>8 DEF CarriesSession
    <2>n. SessionsGrow
      BY <1>a, <2>2, <2>5, <2>6, <2>8 DEF SessionsGrow
    <2> QED
      BY <1>a, <2>2, <2>5, <2>6, <2>8, <2>m, <2>n, SessionMoves
  <1>9. ASSUME NEW c \in Slots, SessionFails(c)
        PROVE  SessionRows' /\ RevokedForGood' /\ SlotsFilled' /\ SessionRequests'
    <2>1. UNCHANGED <<sessions, mint, marks, out>> /\ work' = [work EXCEPT ![c] = None]
      BY <1>9 DEF SessionFails, End
    <2>2. SessionRows' /\ RevokedForGood'
      BY <1>a, <2>1 DEF SessionRows, RevokedForGood
    <2>m. CarriesSession(None)'
      BY <1>a, <2>1, <2>2 DEF CarriesSession
    <2>n. SessionsGrow
      BY <1>a, <2>1, <2>2 DEF SessionsGrow
    <2> QED
      BY <1>a, <2>1, <2>2, <2>m, <2>n, SessionMoves
  <1>10. ASSUME NEW c \in Slots, NEW t \in DOMAIN mint, Logout(c, t)
         PROVE  SessionRows' /\ RevokedForGood' /\ SlotsFilled' /\ SessionRequests'
    <2>1. {mint[t]} \in SUBSET (1..Len(sessions))
      BY <1>a DEF SessionRows
    <2> QED
      BY <1>4, <1>10, <2>1 DEF Logout
  <1>11. ASSUME NEW c \in Slots, NEW u \in Holders, LogoutAll(c, u)
         PROVE  SessionRows' /\ RevokedForGood' /\ SlotsFilled' /\ SessionRequests'
    <2>1. {s \in DOMAIN sessions : sessions[s].user = u /\ ~sessions[s].revoked}
             \in SUBSET (1..Len(sessions))
      BY <1>a DEF SessionRows
    <2> QED
      BY <1>4, <1>11, <2>1 DEF LogoutAll
  <1>12. ASSUME NEW c \in Slots, NEW s \in DOMAIN sessions, RevokeSession(c, s)
         PROVE  SessionRows' /\ RevokedForGood' /\ SlotsFilled' /\ SessionRequests'
    <2>1. {s} \in SUBSET (1..Len(sessions))
      BY <1>a DEF SessionRows
    <2> QED
      BY <1>4, <1>12, <2>1 DEF RevokeSession
  <1>13. ASSUME NEW t \in DOMAIN mint, LogoutMissed(t)
         PROVE  SessionRows' /\ RevokedForGood' /\ SlotsFilled' /\ SessionRequests'
    <2>1. UNCHANGED <<work, sessions, mint, marks, out>>
      BY <1>13 DEF LogoutMissed, AtOnce
    <2>2. SessionRows' /\ RevokedForGood'
      BY <1>a, <2>1 DEF SessionRows, RevokedForGood
    <2> QED
      BY <1>a, <2>1, <2>2, SessionIdle DEF SessionsGrow
  <1> QED
    BY <1>1, <1>2, <1>3, <1>5, <1>6, <1>7, <1>8, <1>9, <1>10, <1>11, <1>12, <1>13 DEF SessionNext

-----------------------------------------------------------------------------
(* The tokens of the sessions *)

\* A token that a refresh has minted and not yet written is in no client's hands
\* and in no other refresh.
TokensApart ==
    /\ \A c \in Slots : Doing(c, "rotate") => work[c].t \notin held
    /\ \A c, d \in Slots : Doing(c, "rotate") /\ Doing(d, "rotate") /\ c # d
                               => work[c].t # work[d].t

\* That is why a token that a logout was told of is never written again.
TokensInv ==
    /\ held \subseteq 1..Len(mint) /\ told \subseteq held /\ ToldIsDead
    /\ area = "sessions" => TokensApart

\* A request that moves on to anything but a rotation.
LEMMA ApartMoves ==
    ASSUME SlotsFilled, TokensApart, held' = held, NEW c \in Slots, NEW r,
           work' = [work EXCEPT ![c] = r], r = None \/ r.op # "rotate"
    PROVE  TokensApart'
  <1>1. /\ work'[c] = r /\ ~Doing(c, "rotate")'
        /\ \A d \in Slots \ {c} : work'[d] = work[d] /\ (Doing(d, "rotate")' <=> Doing(d, "rotate"))
    BY SlotMove DEF Doing
  <1> QED
    BY <1>1 DEF TokensApart

\* Rows stay revoked, and no token that a client holds is written into one.
RowsForget ==
    \A s \in 1..Len(sessions) :
        /\ sessions[s].revoked => sessions'[s].revoked
        /\ sessions'[s].token # sessions[s].token => sessions'[s].token \notin held

LEMMA DeadStay ==
    ASSUME SessionRows, held \subseteq 1..Len(mint), told \subseteq held, ToldIsDead, told' = told,
           \A t \in 1..Len(mint) : mint'[t] = mint[t], RowsForget
    PROVE  ToldIsDead'
  <1> SUFFICES ASSUME NEW t \in told
               PROVE  sessions'[mint[t]].token # t \/ sessions'[mint[t]].revoked
    BY DEF ToldIsDead
  <1>1. mint[t] \in 1..Len(sessions) /\ t \in held
    BY DEF SessionRows
  <1> QED
    BY <1>1 DEF ToldIsDead, RowsForget

LEMMA TokenStep ==
    ASSUME SessionInv, TokensInv, area = "sessions", SessionNext, UNCHANGED area
    PROVE  TokensInv'
  <1>a. /\ SessionRows /\ SlotsFilled /\ SessionRequests /\ TokensApart /\ ToldIsDead
        /\ held \subseteq 1..Len(mint) /\ told \subseteq held
        /\ Len(sessions) \in Nat /\ Len(mint) \in Nat
        /\ DOMAIN mint = 1..Len(mint) /\ DOMAIN sessions = 1..Len(sessions)
    BY DEF SessionInv, TokensInv, SessionRows
  <1>0. SUFFICES held' \subseteq 1..Len(mint') /\ told' \subseteq held' /\ ToldIsDead' /\ TokensApart'
    BY DEF TokensInv
  \* What leaves the tokens, and mints and writes none.
  <1>b. ASSUME UNCHANGED <<mint, held, told>>,
               RowsForget,
               \/ work' = work
               \/ \E c \in Slots : \E r : /\ work' = [work EXCEPT ![c] = r]
                                          /\ r = None \/ r.op # "rotate"
        PROVE  held' \subseteq 1..Len(mint') /\ told' \subseteq held' /\ ToldIsDead' /\ TokensApart'
    <2>1. ToldIsDead'
      BY <1>a, <1>b, DeadStay
    <2>2. TokensApart'
      <3>1. CASE work' = work
        BY <1>a, <1>b, <3>1 DEF TokensApart, Doing
      <3>2. CASE \E c \in Slots : \E r : work' = [work EXCEPT ![c] = r] /\ (r = None \/ r.op # "rotate")
        BY <1>a, <1>b, <3>2, ApartMoves
      <3> QED
        BY <1>b, <3>1, <3>2
    <2> QED
      BY <1>a, <1>b, <2>1, <2>2
  <1>1. ASSUME NEW u \in Holders, IssueTokenPair(u)
        PROVE  held' \subseteq 1..Len(mint') /\ told' \subseteq held' /\ ToldIsDead' /\ TokensApart'
    <2>1. /\ held' = held \cup {Len(mint) + 1} /\ told' = told /\ work' = work
          /\ Len(mint') = Len(mint) + 1
          /\ \A t \in 1..Len(mint) : mint'[t] = mint[t]
          /\ \A s \in 1..Len(sessions) : sessions'[s] = sessions[s]
      BY <1>1, <1>a DEF IssueTokenPair, MintRefreshToken, AtOnce, SessionRows
    <2>2. ToldIsDead'
      <3>1. RowsForget
        BY <2>1 DEF RowsForget
      <3> QED
        BY <1>a, <2>1, <3>1, DeadStay
    <2>3. \A c \in Slots : Doing(c, "rotate") => work[c].t \in 1..Len(mint)
      BY <1>a DEF SessionRequests, CarriesSession, Doing
    <2>4. \A t \in 1..Len(mint) : t # Len(mint) + 1
      BY <1>a
    <2>5. TokensApart'
      BY <1>a, <2>1, <2>3, <2>4 DEF TokensApart, Doing
    <2>6. 1..Len(mint) \subseteq 1..Len(mint') /\ Len(mint) + 1 \in 1..Len(mint')
      BY <1>a, <2>1
    <2> QED
      BY <1>a, <2>1, <2>2, <2>5, <2>6
  <1>2. ASSUME NEW t \in DOMAIN mint, ReplayToken(t)
        PROVE  held' \subseteq 1..Len(mint') /\ told' \subseteq held' /\ ToldIsDead' /\ TokensApart'
    BY <1>b, <1>2 DEF ReplayToken, AtOnce, RowsForget
  <1>3. ASSUME NEW t \in DOMAIN mint, LogoutMissed(t)
        PROVE  held' \subseteq 1..Len(mint') /\ told' \subseteq held' /\ ToldIsDead' /\ TokensApart'
    <2>1. /\ UNCHANGED <<work, sessions, mint, held>> /\ told' = told \cup {t} /\ t \in held
          /\ sessions[mint[t]].token # t \/ sessions[mint[t]].revoked
      BY <1>3 DEF LogoutMissed, AtOnce
    <2>2. ToldIsDead'
      BY <1>a, <2>1 DEF ToldIsDead
    <2>3. TokensApart'
      BY <1>a, <2>1 DEF TokensApart, Doing
    <2> QED
      BY <1>a, <2>1, <2>2, <2>3
  <1>4. ASSUME NEW c \in Slots, NEW t \in DOMAIN mint, LoadRefresh(c, t)
        PROVE  held' \subseteq 1..Len(mint') /\ told' \subseteq held' /\ ToldIsDead' /\ TokensApart'
    <2>1. UNCHANGED <<sessions, mint, held, told>>
      BY <1>4 DEF LoadRefresh, sessionVars
    <2>2. \E r : work' = [work EXCEPT ![c] = r] /\ r.op # "rotate"
      <3>1. PICK r : r = [op |-> "refresh", t |-> t, loaded |-> sessions[mint[t]]]
        OBVIOUS
      <3>2. work' = [work EXCEPT ![c] = r] /\ r.op # "rotate"
        BY <1>4, <3>1 DEF LoadRefresh, Begin
      <3> QED
        BY <3>2
    <2> QED
      BY <1>b, <2>1, <2>2 DEF RowsForget
  <1>5. ASSUME NEW c \in Slots, NEW targets, NEW spent, LoadOut(c, targets, spent)
        PROVE  held' \subseteq 1..Len(mint') /\ told' \subseteq held' /\ ToldIsDead' /\ TokensApart'
    <2>1. UNCHANGED <<sessions, mint, held, told>>
      BY <1>5 DEF LoadOut, sessionVars
    <2>2. \E r : work' = [work EXCEPT ![c] = r] /\ r.op # "rotate"
      <3>1. PICK r : r = [op |-> "out", targets |-> targets, spent |-> spent]
        OBVIOUS
      <3>2. work' = [work EXCEPT ![c] = r] /\ r.op # "rotate"
        BY <1>5, <3>1 DEF LoadOut, Begin
      <3> QED
        BY <3>2
    <2> QED
      BY <1>b, <2>1, <2>2 DEF RowsForget
  <1>6. ASSUME NEW c \in Slots, SpendToken(c)
        PROVE  held' \subseteq 1..Len(mint') /\ told' \subseteq held' /\ ToldIsDead' /\ TokensApart'
    <2>1. PICK r : r = [op |-> "rotate", t |-> Len(mint) + 1, loaded |-> work[c].loaded]
      OBVIOUS
    <2>2. /\ UNCHANGED <<sessions, held, told>> /\ work' = [work EXCEPT ![c] = r]
          /\ mint' = Append(mint, mint[work[c].t]) /\ r.t = Len(mint) + 1
      BY <1>6, <2>1 DEF SpendToken, MintRefreshToken, Step
    <2>3. Len(mint') = Len(mint) + 1 /\ \A t \in 1..Len(mint) : mint'[t] = mint[t]
      BY <1>a, <2>2 DEF SessionRows
    <2>4. ToldIsDead'
      BY <1>a, <2>2, <2>3, DeadStay DEF RowsForget
    <2>5. /\ work'[c] = r
          /\ \A d \in Slots \ {c} : work'[d] = work[d]
      BY <1>a, <2>2, SlotMove
    <2>6. \A d \in Slots : Doing(d, "rotate") => work[d].t \in 1..Len(mint)
      BY <1>a DEF SessionRequests, CarriesSession, Doing
    <2>7. \A t \in 1..Len(mint) : t # r.t
      BY <1>a, <2>2
    <2>8. TokensApart'
      BY <1>a, <2>2, <2>5, <2>6, <2>7 DEF TokensApart, Doing
    <2>9. 1..Len(mint) \subseteq 1..Len(mint')
      BY <1>a, <2>3
    <2> QED
      BY <1>a, <2>2, <2>4, <2>8, <2>9
  <1>7. ASSUME NEW c \in Slots, RotateToken(c)
        PROVE  held' \subseteq 1..Len(mint') /\ told' \subseteq held' /\ ToldIsDead' /\ TokensApart'
    <2>1. PICK t, s, row : t = work[c].t /\ s = mint[t] /\ row = Rotated(s, work[c].loaded, t)
      OBVIOUS
    <2>2. /\ sessions' = [sessions EXCEPT ![s] = row] /\ held' = held \cup {t}
          /\ work' = [work EXCEPT ![c] = None] /\ UNCHANGED <<mint, told>> /\ Doing(c, "rotate")
      BY <1>7, <2>1 DEF RotateToken, End
    <2>3. /\ t \in 1..Len(mint) /\ work[c].loaded \in SessionRow /\ s \in 1..Len(sessions)
          /\ t \notin held /\ t \in Nat
      BY <1>a, <2>1, <2>2 DEF SessionRequests, SessionRows, CarriesSession, Doing, TokensApart
    <2>4. sessions \in Seq(SessionRow) /\ sessions[s] \in SessionRow
      BY <1>a, <2>3 DEF SessionRows
    <2>5. /\ row.revoked = sessions[s].revoked
          /\ row.token \in {sessions[s].token, t}
      <3>1. row.revoked = sessions[s].revoked
        BY <2>1, <2>3, <2>4, RotatedRow
      <3>2. row.token \in {sessions[s].token, t}
        BY <2>1, <2>3, <2>4 DEF Rotated, Flush, SessionRow
      <3> QED
        BY <3>1, <3>2
    <2>6. RowsForget
      <3>1. \A i \in 1..Len(sessions) : sessions'[i] = IF i = s THEN row ELSE sessions[i]
        BY <1>a, <2>2
      <3> QED
        BY <2>3, <2>5, <3>1 DEF RowsForget
    <2>7. ToldIsDead'
      BY <1>a, <2>2, <2>6, DeadStay
    <2>8. /\ work'[c] = None
          /\ \A d \in Slots \ {c} : work'[d] = work[d]
      BY <1>a, <2>2, SlotMove
    <2>9. TokensApart'
      BY <1>a, <2>1, <2>2, <2>8 DEF TokensApart, Doing
    <2> QED
      BY <1>a, <2>2, <2>3, <2>7, <2>9
  <1>8. ASSUME NEW c \in Slots, MarkOut(c)
        PROVE  held' \subseteq 1..Len(mint') /\ told' \subseteq held' /\ ToldIsDead' /\ TokensApart'
    <2>1. UNCHANGED <<sessions, mint, held, told>>
      BY <1>8 DEF MarkOut
    <2>2. \E r : work' = [work EXCEPT ![c] = r] /\ (r = None \/ r.op # "rotate")
      <3>1. PICK r : r = [op |-> "revoke", targets |-> work[c].targets]
        OBVIOUS
      <3>2. work' = [work EXCEPT ![c] = r] \/ work' = [work EXCEPT ![c] = None]
        BY <1>8, <3>1 DEF MarkOut, Step, End
      <3> QED
        BY <3>1, <3>2
    <2> QED
      BY <1>b, <2>1, <2>2 DEF RowsForget
  <1>9. ASSUME NEW c \in Slots, CommitOut(c)
        PROVE  held' \subseteq 1..Len(mint') /\ told' \subseteq held' /\ ToldIsDead' /\ TokensApart'
    <2>1. /\ UNCHANGED <<mint, held, told>> /\ work' = [work EXCEPT ![c] = None]
          /\ sessions' = [s \in DOMAIN sessions |->
                            IF s \in work[c].targets THEN [sessions[s] EXCEPT !.revoked = TRUE]
                            ELSE sessions[s]]
      BY <1>9 DEF CommitOut, End
    <2>2. \A s \in 1..Len(sessions) : sessions[s] \in SessionRow
      BY <1>a DEF SessionRows
    <2>3. \A s \in 1..Len(sessions) : /\ sessions[s].revoked => sessions'[s].revoked
                                      /\ sessions'[s].token = sessions[s].token
      BY <1>a, <2>1, <2>2 DEF SessionRow
    <2>4. RowsForget
      BY <2>3 DEF RowsForget
    <2>5. UNCHANGED <<mint, held, told>>
      BY <2>1
    <2> QED
      BY <1>b, <2>1, <2>4, <2>5
  <1>10. ASSUME NEW c \in Slots, SessionFails(c)
         PROVE  held' \subseteq 1..Len(mint') /\ told' \subseteq held' /\ ToldIsDead' /\ TokensApart'
    <2>1. UNCHANGED <<sessions, mint, held, told>> /\ work' = [work EXCEPT ![c] = None]
      BY <1>10 DEF SessionFails, End, sessionVars
    <2> QED
      BY <1>b, <2>1 DEF RowsForget
  <1>11. ASSUME NEW c \in Slots,
                \/ \E t \in DOMAIN mint : Logout(c, t)
                \/ \E u \in Holders : LogoutAll(c, u)
                \/ \E s \in DOMAIN sessions : RevokeSession(c, s)
         PROVE  held' \subseteq 1..Len(mint') /\ told' \subseteq held' /\ ToldIsDead' /\ TokensApart'
    BY <1>5, <1>11 DEF Logout, LogoutAll, RevokeSession
  <1> QED
    BY <1>1, <1>2, <1>3, <1>4, <1>6, <1>7, <1>8, <1>9, <1>10, <1>11 DEF SessionNext

-----------------------------------------------------------------------------
(* Accounts *)

Purposes == {"email_verify", "email_change", "password_reset"}

\* e was the address of account a; if it no longer is, the one that took its
\* place was answered for.
Settled(a, e) == accounts[a].email = e \/ <<a, accounts[a].email>> \in answered

\* Mails are of accounts, and a mail that asks to confirm an address went to
\* the account's own, as it then was.
AccountRows ==
    /\ accounts \in Seq(AccountRow) /\ mails \in Seq(MailRow)
    /\ \A m \in 1..Len(mails) : mails[m].account \in 1..Len(accounts)
MailsSettled ==
    \A m \in 1..Len(mails) :
        mails[m].purpose = "email_verify" => Settled(mails[m].account, mails[m].to)

\* What a request read may be old: the account may have another address by
\* now, but then that one was answered for.
CarriesAccount(r) ==
    r # None =>
      /\ r.op \in {"code", "phone"} => r.p \in Numbers /\ r.a \in 1..Len(accounts) \cup {None}
      /\ r.op = "mail" => /\ r.a \in 1..Len(accounts) /\ r.to \in Emails
                          /\ r.purpose \in Purposes
                          /\ r.purpose = "email_verify" => Settled(r.a, r.to)
      /\ r.op \in Purposes => /\ r.m \in 1..Len(mails) /\ mails[r.m].purpose = r.op
                              /\ r.loaded \in AccountRow
                              /\ Settled(mails[r.m].account, r.loaded.email)
AccountRequests == \A c \in Slots : CarriesAccount(work[c])

AccountInv == /\ AccountRows /\ MailsSettled /\ VerifiedWasAnswered
              /\ area = "accounts" => SlotsFilled /\ AccountRequests

\* Accounts and mails stay; an account takes another address only together
\* with the proof of it.
AccountsGrow ==
    /\ AccountRows /\ AccountRows' /\ answered \subseteq answered'
    /\ Len(accounts) <= Len(accounts') /\ Len(mails) <= Len(mails')
    /\ \A m \in 1..Len(mails) : /\ mails'[m].account = mails[m].account
                                /\ mails'[m].to = mails[m].to
                                /\ mails'[m].purpose = mails[m].purpose
    /\ \A a \in 1..Len(accounts) : \/ accounts'[a].email = accounts[a].email
                                   \/ <<a, accounts'[a].email>> \in answered'

LEMMA AccountLens ==
    ASSUME AccountRows
    PROVE  /\ Len(accounts) \in Nat /\ Len(mails) \in Nat
           /\ DOMAIN accounts = 1..Len(accounts) /\ DOMAIN mails = 1..Len(mails)
           /\ \A a \in 1..Len(accounts) : accounts[a] \in AccountRow
           /\ \A m \in 1..Len(mails) : mails[m] \in MailRow
  BY DEF AccountRows

LEMMA SettledGrows ==
    ASSUME AccountsGrow, NEW a \in 1..Len(accounts), NEW e, Settled(a, e)
    PROVE  Settled(a, e)'
  BY DEF AccountsGrow, Settled

LEMMA CarriesAccountGrows ==
    ASSUME AccountsGrow, NEW r, CarriesAccount(r)
    PROVE  CarriesAccount(r)'
  <1>1. /\ Len(accounts) \in Nat /\ Len(accounts') \in Nat
        /\ Len(mails) \in Nat /\ Len(mails') \in Nat
    BY DEF AccountsGrow, AccountRows
  <1>2. 1..Len(accounts) \subseteq 1..Len(accounts') /\ 1..Len(mails) \subseteq 1..Len(mails')
    BY <1>1 DEF AccountsGrow
  <1> SUFFICES ASSUME r # None
               PROVE  CarriesAccount(r)'
    BY DEF CarriesAccount
  <1>3. r.op = "mail" /\ r.purpose = "email_verify" => Settled(r.a, r.to)'
    <2> SUFFICES ASSUME r.op = "mail", r.purpose = "email_verify"
                 PROVE  Settled(r.a, r.to)'
      OBVIOUS
    <2>1. r.a \in 1..Len(accounts) /\ Settled(r.a, r.to)
      BY DEF CarriesAccount
    <2> QED
      BY <2>1, SettledGrows
  <1>4. r.op \in Purposes =>
            /\ r.m \in 1..Len(mails') /\ mails'[r.m].purpose = r.op
            /\ Settled(mails[r.m].account, r.loaded.email)'
    <2> SUFFICES ASSUME r.op \in Purposes
                 PROVE  /\ r.m \in 1..Len(mails') /\ mails'[r.m].purpose = r.op
                        /\ Settled(mails[r.m].account, r.loaded.email)'
      OBVIOUS
    <2>1. /\ r.m \in 1..Len(mails) /\ mails[r.m].purpose = r.op
          /\ Settled(mails[r.m].account, r.loaded.email)
      BY DEF CarriesAccount
    <2>2. PICK a : a = mails[r.m].account
      OBVIOUS
    <2>3. a \in 1..Len(accounts) /\ mails'[r.m].account = a /\ mails'[r.m].purpose = r.op
      BY <2>1, <2>2 DEF AccountsGrow, AccountRows
    <2>4. Settled(a, r.loaded.email)'
      BY <2>1, <2>2, <2>3, SettledGrows
    <2> QED
      BY <1>2, <2>1, <2>3, <2>4 DEF Settled
  <1> QED
    BY <1>2, <1>3, <1>4 DEF CarriesAccount

LEMMA AccountIdle ==
    ASSUME SlotsFilled, AccountsGrow, AccountRequests, work' = work
    PROVE  SlotsFilled' /\ AccountRequests'
  <1>1. \A d \in Slots : CarriesAccount(work[d])'
    BY CarriesAccountGrows DEF AccountRequests, CarriesAccount, Settled
  <1> QED
    BY <1>1 DEF SlotsFilled, AccountRequests

LEMMA AccountMoves ==
    ASSUME SlotsFilled, AccountsGrow, AccountRequests,
           NEW c \in Slots, NEW r, work' = [work EXCEPT ![c] = r], CarriesAccount(r)'
    PROVE  SlotsFilled' /\ AccountRequests'
  <1>1. /\ SlotsFilled' /\ work'[c] = r
        /\ \A d \in Slots \ {c} : work'[d] = work[d]
    BY SlotMove
  <1>2. CarriesAccount(work[c])'
    BY <1>1 DEF CarriesAccount, Settled
  <1>3. ASSUME NEW d \in Slots \ {c} PROVE CarriesAccount(work[d])'
    <2>1. PICK q : q = work[d]
      OBVIOUS
    <2>2. CarriesAccount(q)
      BY <2>1 DEF AccountRequests
    <2>3. CarriesAccount(q)'
      BY <2>2, CarriesAccountGrows
    <2> QED
      BY <1>1, <2>1, <2>3 DEF CarriesAccount, Settled
  <1> QED
    BY <1>1, <1>2, <1>3 DEF AccountRequests

\* The columns of an account an UPDATE names are those whose value the
\* handler changed.
LEMMA FlushedAccount ==
    ASSUME NEW current \in AccountRow, NEW loaded \in AccountRow, NEW wanted \in AccountRow,
           NEW row, row = Flush(current, loaded, wanted)
    PROVE  /\ row \in AccountRow
           /\ row.email = IF wanted.email = loaded.email THEN current.email ELSE wanted.email
           /\ row.emailOk = IF wanted.emailOk = loaded.emailOk THEN current.emailOk
                            ELSE wanted.emailOk
  BY DEF Flush, AccountRow

\* What a step has to keep, for one account and for one mail.
AccountSettled(a) ==
    accounts[a].emailOk /\ accounts[a].email # None => <<a, accounts[a].email>> \in answered
MailSettled(m) == mails[m].purpose = "email_verify" => Settled(mails[m].account, mails[m].to)

LEMMA SettledIs ==
    ASSUME AccountRows
    PROVE  /\ VerifiedWasAnswered <=> \A a \in 1..Len(accounts) : AccountSettled(a)
           /\ MailsSettled <=> \A m \in 1..Len(mails) : MailSettled(m)
  BY AccountLens DEF VerifiedWasAnswered, MailsSettled, AccountSettled, MailSettled

\* The mails that were there stay settled, and so do the accounts whose row no
\* one wrote to.
LEMMA MailKept ==
    ASSUME AccountsGrow, NEW m \in 1..Len(mails), MailSettled(m)
    PROVE  MailSettled(m)'
  <1> DEFINE a == mails[m].account
  <1>1. /\ a \in 1..Len(accounts) /\ mails'[m].account = a
        /\ mails'[m].to = mails[m].to /\ mails'[m].purpose = mails[m].purpose
    BY DEF AccountsGrow, AccountRows
  <1>2. CASE mails[m].purpose # "email_verify"
    BY <1>1, <1>2 DEF MailSettled
  <1>3. CASE mails[m].purpose = "email_verify"
    <2>1. PICK b, e : b = a /\ e = mails[m].to
      OBVIOUS
    <2>2. Settled(b, e)
      BY <1>3, <2>1 DEF MailSettled
    <2>3. Settled(b, e)'
      BY <1>1, <2>1, <2>2, SettledGrows
    <2> QED
      BY <1>1, <2>1, <2>3 DEF MailSettled, Settled
  <1> QED
    BY <1>2, <1>3

LEMMA AccountKept ==
    ASSUME AccountsGrow, NEW a \in 1..Len(accounts), AccountSettled(a),
           accounts'[a].email = accounts[a].email, accounts'[a].emailOk = accounts[a].emailOk
    PROVE  AccountSettled(a)'
  BY DEF AccountsGrow, AccountSettled

\* A step that may add accounts and mails and writes no address.  What it adds
\* is settled; what was there is kept.
LEMMA AccountFrame ==
    ASSUME AccountRows, MailsSettled, VerifiedWasAnswered, AccountRows', answered \subseteq answered',
           Len(accounts) <= Len(accounts'), Len(mails) <= Len(mails'),
           \A m \in 1..Len(mails) : /\ mails'[m].account = mails[m].account
                                    /\ mails'[m].to = mails[m].to
                                    /\ mails'[m].purpose = mails[m].purpose,
           \A a \in 1..Len(accounts) : /\ accounts'[a].email = accounts[a].email
                                       /\ accounts'[a].emailOk = accounts[a].emailOk,
           \A a \in 1..Len(accounts') : a > Len(accounts) => AccountSettled(a)',
           \A m \in 1..Len(mails') : m > Len(mails) => MailSettled(m)'
    PROVE  AccountsGrow /\ MailsSettled' /\ VerifiedWasAnswered'
  <1>1. Len(accounts) \in Nat /\ Len(mails) \in Nat
    BY AccountLens
  <1>2. AccountsGrow
    BY <1>1 DEF AccountsGrow
  <1>3. \A a \in 1..Len(accounts') : AccountSettled(a)'
    <2> SUFFICES ASSUME NEW a \in 1..Len(accounts') PROVE AccountSettled(a)'
      OBVIOUS
    <2>1. CASE a \in 1..Len(accounts)
      <3>1. AccountSettled(a)
        BY <2>1, SettledIs
      <3> QED
        BY <1>2, <2>1, <3>1, AccountKept
    <2>2. CASE a \notin 1..Len(accounts)
      BY <1>1, <2>2
    <2> QED
      BY <2>1, <2>2
  <1>4. \A m \in 1..Len(mails') : MailSettled(m)'
    <2> SUFFICES ASSUME NEW m \in 1..Len(mails') PROVE MailSettled(m)'
      OBVIOUS
    <2>1. CASE m \in 1..Len(mails)
      <3>1. MailSettled(m)
        BY <2>1, SettledIs
      <3> QED
        BY <1>2, <2>1, <3>1, MailKept
    <2>2. CASE m \notin 1..Len(mails)
      BY <1>1, <2>2
    <2> QED
      BY <2>1, <2>2
  <1>5. DOMAIN accounts' = 1..Len(accounts')
    BY DEF AccountRows
  <1> QED
    BY <1>2, <1>3, <1>4, <1>5
       DEF VerifiedWasAnswered, MailsSettled, AccountSettled, MailSettled

\* The steps that answer for an address: the account has it from then on, or
\* keeps the one it has, and the other accounts keep theirs.
LEMMA AddressProved ==
    ASSUME AccountRows, MailsSettled, VerifiedWasAnswered, NEW a \in 1..Len(accounts),
           NEW row \in AccountRow, accounts' = [accounts EXCEPT ![a] = row],
           NEW m \in 1..Len(mails), mails' = [mails EXCEPT ![m].consumed = TRUE],
           NEW e, answered' = answered \cup {<<a, e>>},
           row.email = e \/ (row.email = accounts[a].email /\ <<a, row.email>> \in answered)
    PROVE  AccountsGrow /\ MailsSettled' /\ VerifiedWasAnswered'
  <1>1. /\ accounts' \in Seq(AccountRow) /\ Len(accounts') = Len(accounts)
        /\ accounts'[a] = row
        /\ \A b \in 1..Len(accounts) : b # a => accounts'[b] = accounts[b]
    BY DEF AccountRows
  <1>2. mails[m] \in MailRow /\ [mails[m] EXCEPT !.consumed = TRUE] \in MailRow
    BY AccountLens DEF MailRow
  <1>3. /\ mails' \in Seq(MailRow) /\ Len(mails') = Len(mails)
        /\ \A n \in 1..Len(mails) : /\ mails'[n].account = mails[n].account
                                    /\ mails'[n].to = mails[n].to
                                    /\ mails'[n].purpose = mails[n].purpose
    <2>1. mails' \in Seq(MailRow) /\ Len(mails') = Len(mails)
      BY <1>2 DEF AccountRows
    <2>2. \A n \in 1..Len(mails) : n # m => mails'[n] = mails[n]
      BY DEF AccountRows
    <2>3. /\ mails'[m].account = mails[m].account /\ mails'[m].to = mails[m].to
          /\ mails'[m].purpose = mails[m].purpose
      BY <1>2 DEF AccountRows, MailRow
    <2> QED
      BY <2>1, <2>2, <2>3
  <1>4. AccountRows'
    BY <1>1, <1>3 DEF AccountRows
  <1>5. <<a, accounts'[a].email>> \in answered'
    BY <1>1
  <1>6. Len(accounts) \in Nat /\ Len(mails) \in Nat
    BY AccountLens
  <1>7. AccountsGrow
    BY <1>1, <1>3, <1>4, <1>5, <1>6 DEF AccountsGrow
  <1>8. \A b \in 1..Len(accounts') : AccountSettled(b)'
    <2> SUFFICES ASSUME NEW b \in 1..Len(accounts') PROVE AccountSettled(b)'
      OBVIOUS
    <2>1. CASE b = a
      BY <1>5, <2>1 DEF AccountSettled
    <2>2. CASE b # a
      <3>1. AccountSettled(b) /\ b \in 1..Len(accounts)
        BY <1>1, SettledIs
      <3> QED
        BY <1>1, <1>7, <2>2, <3>1, AccountKept
    <2> QED
      BY <2>1, <2>2
  <1>9. \A n \in 1..Len(mails') : MailSettled(n)'
    <2> SUFFICES ASSUME NEW n \in 1..Len(mails') PROVE MailSettled(n)'
      OBVIOUS
    <2>1. MailSettled(n) /\ n \in 1..Len(mails)
      BY <1>3, SettledIs
    <2> QED
      BY <1>7, <2>1, MailKept
  <1>10. DOMAIN accounts' = 1..Len(accounts')
    BY <1>4 DEF AccountRows
  <1> QED
    BY <1>7, <1>8, <1>9, <1>10
       DEF VerifiedWasAnswered, MailsSettled, AccountSettled, MailSettled

\* Steps of a handler that write neither an account nor a mail.
LEMMA AccountReads ==
    ASSUME AccountRows, MailsSettled, VerifiedWasAnswered,
           UNCHANGED <<accounts, mails, answered>>
    PROVE  AccountsGrow /\ MailsSettled' /\ VerifiedWasAnswered'
  <1>1. AccountsGrow
    BY AccountLens DEF AccountsGrow, AccountRows
  <1>2. MailsSettled' /\ VerifiedWasAnswered'
    BY DEF MailsSettled, Settled, VerifiedWasAnswered
  <1> QED
    BY <1>1, <1>2

\* A row that is appended to the accounts.
LEMMA AccountAdded ==
    ASSUME AccountRows, NEW row \in AccountRow, accounts' = Append(accounts, row),
           mails' \in Seq(MailRow),
           \A m \in 1..Len(mails') : mails'[m].account \in 1..Len(accounts) + 1
    PROVE  /\ AccountRows' /\ Len(accounts') = Len(accounts) + 1
           /\ \A a \in 1..Len(accounts) : accounts'[a] = accounts[a]
           /\ \A a \in 1..Len(accounts') :
                 a > Len(accounts) => a = Len(accounts) + 1 /\ accounts'[a] = row
  BY AccountLens DEF AccountRows

\* A mail that is appended, after some of the others have been closed.
SameMails(base) ==
    /\ DOMAIN base = DOMAIN mails /\ base = [m \in DOMAIN mails |-> base[m]]
    /\ \A m \in 1..Len(mails) : /\ base[m] \in MailRow
                                 /\ base[m].account = mails[m].account
                                 /\ base[m].to = mails[m].to
                                 /\ base[m].purpose = mails[m].purpose

LEMMA MailAdded ==
    ASSUME AccountRows, NEW base, SameMails(base),
           NEW a \in Nat, NEW purpose \in Purposes, NEW to \in Emails,
           NewMail(base, a, purpose, to)
    PROVE  /\ mails' \in Seq(MailRow) /\ Len(mails') = Len(mails) + 1
           /\ \A m \in 1..Len(mails) : /\ mails'[m].account = mails[m].account
                                       /\ mails'[m].to = mails[m].to
                                       /\ mails'[m].purpose = mails[m].purpose
           /\ \A m \in 1..Len(mails') : m > Len(mails) =>
                 /\ m = Len(mails) + 1 /\ mails'[m].account = a
                 /\ mails'[m].purpose = purpose /\ mails'[m].to = to
  <1> DEFINE mail == [account |-> a, purpose |-> purpose, to |-> to, consumed |-> FALSE]
  <1>1. mail \in MailRow
    BY DEF MailRow, Purposes
  <1>2. Len(mails) \in Nat /\ DOMAIN mails = 1..Len(mails)
    BY AccountLens
  <1>3. base \in [1..Len(mails) -> MailRow]
    BY <1>2 DEF SameMails
  <1>4. base \in Seq(MailRow) /\ Len(base) = Len(mails)
    BY <1>2, <1>3
  <1>5. mails' = Append(base, mail)
    BY DEF NewMail
  <1>6. /\ mails' \in Seq(MailRow) /\ Len(mails') = Len(base) + 1
        /\ \A m \in 1..Len(base) : mails'[m] = base[m]
        /\ mails'[Len(base) + 1] = mail
    BY <1>1, <1>4, <1>5
  <1>7. \A m \in 1..Len(mails') : m > Len(mails) => m = Len(mails) + 1
    BY <1>2, <1>4, <1>6
  <1>8. /\ mails'[Len(mails) + 1].account = a /\ mails'[Len(mails) + 1].purpose = purpose
        /\ mails'[Len(mails) + 1].to = to
    BY <1>4, <1>6
  <1> QED
    BY <1>4, <1>6, <1>7, <1>8 DEF SameMails

LEMMA MailsAsBase ==
    ASSUME AccountRows PROVE SameMails(mails)
  BY DEF AccountRows, SameMails

AccountGood == AccountsGrow /\ MailsSettled' /\ VerifiedWasAnswered' /\ SlotsFilled' /\ AccountRequests'

LEMMA SignupStep ==
    ASSUME SlotsFilled, AccountRows, MailsSettled, VerifiedWasAnswered, AccountRequests,
           NEW e \in Emails,
           SignupEmail(e) \/ \E verified \in BOOLEAN : SignupOauth(e, verified)
    PROVE  AccountGood
  <1>0. Len(accounts) \in Nat /\ Len(mails) \in Nat
    BY AccountLens
  <1>1. CASE SignupEmail(e)
    <2> DEFINE row == [email |-> e, emailOk |-> FALSE, phone |-> None]
    <2>1. /\ row \in AccountRow /\ accounts' = Append(accounts, row)
          /\ NewMail(mails, Len(accounts) + 1, "email_verify", e)
          /\ UNCHANGED <<answered, work>>
      BY <1>1 DEF SignupEmail, NewAccount, AtOnce, AccountRow
    <2>2. /\ mails' \in Seq(MailRow) /\ Len(mails') = Len(mails) + 1
          /\ \A m \in 1..Len(mails) : /\ mails'[m].account = mails[m].account
                                      /\ mails'[m].to = mails[m].to
                                      /\ mails'[m].purpose = mails[m].purpose
          /\ \A m \in 1..Len(mails') : m > Len(mails) =>
                /\ m = Len(mails) + 1 /\ mails'[m].account = Len(accounts) + 1
                /\ mails'[m].purpose = "email_verify" /\ mails'[m].to = e
      <3>1. "email_verify" \in Purposes /\ Len(accounts) + 1 \in Nat
        BY <1>0 DEF Purposes
      <3> QED
        BY <2>1, <3>1, MailAdded, MailsAsBase
    <2>3. \A m \in 1..Len(mails') : mails'[m].account \in 1..Len(accounts) + 1
      <3> SUFFICES ASSUME NEW m \in 1..Len(mails')
                   PROVE  mails'[m].account \in 1..Len(accounts) + 1
        OBVIOUS
      <3>1. m \in 1..Len(mails) \/ m > Len(mails)
        BY <1>0
      <3>2. m \in 1..Len(mails) => mails[m].account \in 1..Len(accounts)
        BY DEF AccountRows
      <3> QED
        BY <1>0, <2>2, <3>1, <3>2
    <2>4. /\ AccountRows' /\ Len(accounts') = Len(accounts) + 1
          /\ \A a \in 1..Len(accounts) : accounts'[a] = accounts[a]
          /\ \A a \in 1..Len(accounts') :
                a > Len(accounts) => a = Len(accounts) + 1 /\ accounts'[a] = row
      BY <2>1, <2>2, <2>3, AccountAdded
    <2>5. \A a \in 1..Len(accounts') : a > Len(accounts) => AccountSettled(a)'
      BY <2>4 DEF AccountSettled
    <2>6. accounts'[Len(accounts) + 1].email = e
      BY <1>0, <2>4
    <2>7. \A m \in 1..Len(mails') : m > Len(mails) => MailSettled(m)'
      BY <2>2, <2>6 DEF MailSettled, Settled
    <2>8. AccountsGrow /\ MailsSettled' /\ VerifiedWasAnswered'
      <3>1. /\ answered \subseteq answered' /\ Len(accounts) <= Len(accounts')
            /\ Len(mails) <= Len(mails') /\ AccountRows'
        BY <1>0, <2>1, <2>2, <2>4
      <3>2. \A m \in 1..Len(mails) : /\ mails'[m].account = mails[m].account
                                     /\ mails'[m].to = mails[m].to
                                     /\ mails'[m].purpose = mails[m].purpose
        BY <2>2
      <3>3. \A a \in 1..Len(accounts) : /\ accounts'[a].email = accounts[a].email
                                        /\ accounts'[a].emailOk = accounts[a].emailOk
        BY <2>4
      <3> QED
        BY <2>5, <2>7, <3>1, <3>2, <3>3, AccountFrame
    <2> QED
      BY <2>1, <2>8, AccountIdle DEF AccountGood
  <1>2. ASSUME NEW verified \in BOOLEAN, SignupOauth(e, verified) PROVE AccountGood
    <2>1. UNCHANGED <<mails, work>>
      BY <1>2 DEF SignupOauth, AtOnce
    <2>2. CASE UNCHANGED <<accounts, answered>>
      BY <2>1, <2>2, AccountReads, AccountIdle DEF AccountGood
    <2>3. CASE ~UNCHANGED <<accounts, answered>>
      <3> DEFINE row == [email |-> e, emailOk |-> verified, phone |-> None]
      <3>1. /\ row \in AccountRow /\ accounts' = Append(accounts, row)
            /\ answered' = answered \cup (IF verified THEN {<<Len(accounts) + 1, e>>} ELSE {})
        BY <1>2, <2>3 DEF SignupOauth, NewAccount, AccountRow
      <3>2. /\ mails' \in Seq(MailRow)
            /\ \A m \in 1..Len(mails') : mails'[m].account \in 1..Len(accounts) + 1
        BY <1>0, <2>1 DEF AccountRows
      <3>3. /\ AccountRows' /\ Len(accounts') = Len(accounts) + 1
            /\ \A a \in 1..Len(accounts) : accounts'[a] = accounts[a]
            /\ \A a \in 1..Len(accounts') :
                  a > Len(accounts) => a = Len(accounts) + 1 /\ accounts'[a] = row
        BY <3>1, <3>2, AccountAdded
      <3>4. \A a \in 1..Len(accounts') : a > Len(accounts) => AccountSettled(a)'
        BY <3>1, <3>3 DEF AccountSettled
      <3>5. \A m \in 1..Len(mails') : m > Len(mails) => MailSettled(m)'
        BY <1>0, <2>1
      <3>6. AccountsGrow /\ MailsSettled' /\ VerifiedWasAnswered'
        BY <1>0, <2>1, <3>1, <3>3, <3>4, <3>5, AccountFrame
      <3> QED
        BY <2>1, <3>6, AccountIdle DEF AccountGood
    <2> QED
      BY <2>2, <2>3
  <1> QED
    BY <1>1, <1>2

\* The steps of the codes: an account that is added has no address, and one
\* that takes a number keeps its address.
LEMMA PhoneStep ==
    ASSUME SlotsFilled, AccountRows, MailsSettled, VerifiedWasAnswered, AccountRequests,
           NEW c \in Slots,
           \/ \E p \in Numbers, a \in DOMAIN accounts \cup {None} : MatchOtp(c, p, a)
           \/ UseOtp(c) \/ SignupPhoneVerify(c) \/ PhoneChangeFinish(c)
    PROVE  AccountGood
  <1>0. /\ Len(accounts) \in Nat /\ Len(mails) \in Nat
        /\ DOMAIN accounts = 1..Len(accounts)
        /\ \A a \in 1..Len(accounts) : accounts[a] \in AccountRow
    BY AccountLens
  <1>a. Doing(c, "code") \/ Doing(c, "phone") =>
            work[c].p \in Numbers /\ work[c].a \in 1..Len(accounts) \cup {None}
    BY DEF AccountRequests, CarriesAccount, Doing
  <1>1. ASSUME NEW p \in Numbers, NEW a \in DOMAIN accounts \cup {None}, MatchOtp(c, p, a)
        PROVE  AccountGood
    <2>1. /\ UNCHANGED <<accounts, mails, answered>>
          /\ work' = [work EXCEPT ![c] = [op |-> "code", p |-> p, a |-> a]]
      BY <1>1 DEF MatchOtp, Begin, accountVars
    <2>2. AccountsGrow /\ MailsSettled' /\ VerifiedWasAnswered'
      BY <2>1, AccountReads
    <2>3. CarriesAccount([op |-> "code", p |-> p, a |-> a])'
      BY <1>0, <2>1 DEF CarriesAccount, Purposes
    <2> QED
      BY <2>1, <2>2, <2>3, AccountMoves DEF AccountGood
  <1>2. CASE UseOtp(c)
    <2>1. PICK r : r = [op |-> "phone", p |-> work[c].p, a |-> work[c].a]
      OBVIOUS
    <2>2. UNCHANGED <<accounts, mails, answered>> /\ work' = [work EXCEPT ![c] = r]
      BY <1>2, <2>1 DEF UseOtp, Step
    <2>3. AccountsGrow /\ MailsSettled' /\ VerifiedWasAnswered'
      BY <2>2, AccountReads
    <2>4. r.p \in Numbers /\ r.a \in 1..Len(accounts) \cup {None} /\ r.op = "phone"
      BY <1>2, <1>a, <2>1 DEF UseOtp
    <2>5. CarriesAccount(r)'
      BY <2>2, <2>4 DEF CarriesAccount, Purposes
    <2> QED
      BY <2>2, <2>3, <2>5, AccountMoves DEF AccountGood
  <1>3. CASE SignupPhoneVerify(c)
    <2> DEFINE row == [email |-> None, emailOk |-> FALSE, phone |-> work[c].p]
    <2>1. /\ row \in AccountRow /\ accounts' = Append(accounts, row)
          /\ UNCHANGED <<mails, answered>> /\ work' = [work EXCEPT ![c] = None]
      BY <1>3, <1>a DEF SignupPhoneVerify, NewAccount, AccountRow, End
    <2>2. /\ mails' \in Seq(MailRow)
          /\ \A m \in 1..Len(mails') : mails'[m].account \in 1..Len(accounts) + 1
      BY <1>0, <2>1 DEF AccountRows
    <2>3. /\ AccountRows' /\ Len(accounts') = Len(accounts) + 1
          /\ \A a \in 1..Len(accounts) : accounts'[a] = accounts[a]
          /\ \A a \in 1..Len(accounts') :
                a > Len(accounts) => a = Len(accounts) + 1 /\ accounts'[a] = row
      BY <2>1, <2>2, AccountAdded
    <2>4. \A a \in 1..Len(accounts') : a > Len(accounts) => AccountSettled(a)'
      BY <2>3 DEF AccountSettled
    <2>5. \A m \in 1..Len(mails') : m > Len(mails) => MailSettled(m)'
      BY <1>0, <2>1
    <2>6. AccountsGrow /\ MailsSettled' /\ VerifiedWasAnswered'
      BY <1>0, <2>1, <2>3, <2>4, <2>5, AccountFrame
    <2>7. CarriesAccount(None)'
      BY DEF CarriesAccount
    <2> QED
      BY <2>1, <2>6, <2>7, AccountMoves DEF AccountGood
  <1>4. CASE PhoneChangeFinish(c)
    <2> DEFINE a == work[c].a
               row == [accounts[a] EXCEPT !.phone = work[c].p]
    <2>1. /\ a \in 1..Len(accounts) /\ accounts' = [accounts EXCEPT ![a] = row]
          /\ UNCHANGED <<mails, answered>> /\ work' = [work EXCEPT ![c] = None]
      BY <1>4, <1>a DEF PhoneChangeFinish, End
    <2>2. /\ row \in AccountRow /\ row.email = accounts[a].email
          /\ row.emailOk = accounts[a].emailOk
      BY <1>0, <1>4, <1>a, <2>1 DEF PhoneChangeFinish, AccountRow
    <2>3. /\ accounts' \in Seq(AccountRow) /\ Len(accounts') = Len(accounts)
          /\ \A b \in 1..Len(accounts) : /\ accounts'[b].email = accounts[b].email
                                         /\ accounts'[b].emailOk = accounts[b].emailOk
      BY <1>0, <2>1, <2>2 DEF AccountRows
    <2>4. AccountRows'
      BY <2>1, <2>3 DEF AccountRows
    <2>5. /\ \A b \in 1..Len(accounts') : b > Len(accounts) => AccountSettled(b)'
          /\ \A m \in 1..Len(mails') : m > Len(mails) => MailSettled(m)'
      BY <1>0, <2>1, <2>3
    <2>6. AccountsGrow /\ MailsSettled' /\ VerifiedWasAnswered'
      BY <1>0, <2>1, <2>3, <2>4, <2>5, AccountFrame
    <2>7. CarriesAccount(None)'
      BY DEF CarriesAccount
    <2> QED
      BY <2>1, <2>6, <2>7, AccountMoves DEF AccountGood
  <1> QED
    BY <1>1, <1>2, <1>3, <1>4

\* A mail is prepared to the address the account has, or to the one it asks
\* for; when it goes out the account may have another.
LEMMA MailStep ==
    ASSUME SlotsFilled, AccountRows, MailsSettled, VerifiedWasAnswered, AccountRequests,
           NEW c \in Slots,
           \/ \E a \in DOMAIN accounts :
                 \/ VerifyStart(c, a) \/ ResetStart(c, a)
                 \/ \E e \in Emails : ChangeStart(c, a, e)
           \/ CommitMail(c)
    PROVE  AccountGood
  <1>0. /\ Len(accounts) \in Nat /\ Len(mails) \in Nat
        /\ DOMAIN accounts = 1..Len(accounts) /\ DOMAIN mails = 1..Len(mails)
        /\ \A a \in 1..Len(accounts) : accounts[a] \in AccountRow
        /\ \A m \in 1..Len(mails) : mails[m] \in MailRow
    BY AccountLens
  <1>1. ASSUME NEW a \in 1..Len(accounts), NEW purpose \in Purposes, NEW to \in Emails,
               LoadMail(c, a, purpose, to), purpose = "email_verify" => to = accounts[a].email
        PROVE  AccountGood
    <2>1. PICK r : /\ r = [op |-> "mail", a |-> a, purpose |-> purpose, to |-> to,
                           old |-> {m \in DOMAIN mails : /\ mails[m].account = a /\ Open(m)
                                                         /\ mails[m].purpose = purpose}]
      OBVIOUS
    <2>2. UNCHANGED <<accounts, mails, answered>> /\ work' = [work EXCEPT ![c] = r]
      BY <1>1, <2>1 DEF LoadMail, Begin, accountVars
    <2>3. AccountsGrow /\ MailsSettled' /\ VerifiedWasAnswered'
      BY <2>2, AccountReads
    <2>4. /\ r.op = "mail" /\ r.a = a /\ r.purpose = purpose /\ r.to = to
      BY <2>1
    <2>5. CarriesAccount(r)'
      BY <1>1, <2>2, <2>4 DEF CarriesAccount, Purposes, Settled
    <2> QED
      BY <2>2, <2>3, <2>5, AccountMoves DEF AccountGood
  <1>2. ASSUME NEW a \in DOMAIN accounts, VerifyStart(c, a) \/ ResetStart(c, a)
        PROVE  AccountGood
    <2>1. accounts[a].email \in Emails
      BY <1>0, <1>2 DEF VerifyStart, ResetStart, AccountRow
    <2>2. \E purpose \in Purposes : LoadMail(c, a, purpose, accounts[a].email)
      BY <1>2 DEF VerifyStart, ResetStart, Purposes
    <2> QED
      BY <1>0, <1>1, <2>1, <2>2
  <1>3. ASSUME NEW a \in DOMAIN accounts, NEW e \in Emails, ChangeStart(c, a, e)
        PROVE  AccountGood
    <2>1. LoadMail(c, a, "email_change", e) /\ "email_change" \in Purposes
      BY <1>3 DEF ChangeStart, Purposes
    <2> QED
      BY <1>0, <1>1, <2>1
  <1>4. CASE CommitMail(c)
    <2> DEFINE q == work[c]
    <2>0. PICK base : base = [m \in DOMAIN mails |-> IF m \in q.old
                                                     THEN [mails[m] EXCEPT !.consumed = TRUE]
                                                     ELSE mails[m]]
      OBVIOUS
    <2>1. /\ q.a \in 1..Len(accounts) /\ q.to \in Emails /\ q.purpose \in Purposes
          /\ q.purpose = "email_verify" => Settled(q.a, q.to)
      BY <1>4 DEF CommitMail, Doing, AccountRequests, CarriesAccount
    <2>2. /\ NewMail(base, q.a, q.purpose, q.to) /\ UNCHANGED <<accounts, answered>>
          /\ work' = [work EXCEPT ![c] = None]
      BY <1>4, <2>0 DEF CommitMail, End
    <2>3. \A m \in 1..Len(mails) : /\ base[m] \in MailRow
                                   /\ base[m].account = mails[m].account
                                   /\ base[m].to = mails[m].to
                                   /\ base[m].purpose = mails[m].purpose
      <3> SUFFICES ASSUME NEW m \in 1..Len(mails)
                   PROVE  /\ base[m] \in MailRow /\ base[m].account = mails[m].account
                          /\ base[m].to = mails[m].to /\ base[m].purpose = mails[m].purpose
        OBVIOUS
      <3>1. mails[m] \in MailRow
        BY <1>0
      <3>2. base[m] = mails[m] \/ base[m] = [mails[m] EXCEPT !.consumed = TRUE]
        BY <1>0, <2>0
      <3> QED
        BY <3>1, <3>2 DEF MailRow
    <2>4. DOMAIN base = DOMAIN mails /\ base = [m \in DOMAIN mails |-> base[m]] /\ q.a \in Nat
      BY <1>0, <2>0, <2>1
    <2>5. /\ mails' \in Seq(MailRow) /\ Len(mails') = Len(mails) + 1
          /\ \A m \in 1..Len(mails) : /\ mails'[m].account = mails[m].account
                                      /\ mails'[m].to = mails[m].to
                                      /\ mails'[m].purpose = mails[m].purpose
          /\ \A m \in 1..Len(mails') : m > Len(mails) =>
                /\ m = Len(mails) + 1 /\ mails'[m].account = q.a
                /\ mails'[m].purpose = q.purpose /\ mails'[m].to = q.to
      <3>1. PICK a \in Nat, purpose \in Purposes, to \in Emails :
                a = q.a /\ purpose = q.purpose /\ to = q.to
        BY <2>1, <2>4
      <3>2. NewMail(base, a, purpose, to)
        BY <2>2, <3>1
      <3>3. SameMails(base)
        BY <2>3, <2>4 DEF SameMails
      <3>4. /\ mails' \in Seq(MailRow) /\ Len(mails') = Len(mails) + 1
            /\ \A m \in 1..Len(mails) : /\ mails'[m].account = mails[m].account
                                         /\ mails'[m].to = mails[m].to
                                         /\ mails'[m].purpose = mails[m].purpose
            /\ \A m \in 1..Len(mails') : m > Len(mails) =>
                  /\ m = Len(mails) + 1 /\ mails'[m].account = a
                  /\ mails'[m].purpose = purpose /\ mails'[m].to = to
        BY <3>2, <3>3, MailAdded
      <3> QED
        BY <3>1, <3>4
    <2>6. \A m \in 1..Len(mails') : mails'[m].account \in 1..Len(accounts)
      <3> SUFFICES ASSUME NEW m \in 1..Len(mails')
                   PROVE  mails'[m].account \in 1..Len(accounts)
        OBVIOUS
      <3>1. m \in 1..Len(mails) \/ m > Len(mails)
        BY <1>0
      <3>2. m \in 1..Len(mails) => mails[m].account \in 1..Len(accounts)
        BY DEF AccountRows
      <3> QED
        BY <2>1, <2>5, <3>1, <3>2
    <2>7. AccountRows'
      BY <2>2, <2>5, <2>6 DEF AccountRows
    <2>8. \A m \in 1..Len(mails') : m > Len(mails) => MailSettled(m)'
      BY <2>1, <2>2, <2>5 DEF MailSettled, Settled
    <2>9. \A a \in 1..Len(accounts') : a > Len(accounts) => AccountSettled(a)'
      BY <1>0, <2>2
    <2>10. AccountsGrow /\ MailsSettled' /\ VerifiedWasAnswered'
      BY <1>0, <2>2, <2>5, <2>7, <2>8, <2>9, AccountFrame
    <2>11. CarriesAccount(None)'
      BY DEF CarriesAccount
    <2> QED
      BY <2>2, <2>10, <2>11, AccountMoves DEF AccountGood
  <1> QED
    BY <1>2, <1>3, <1>4

\* A link is answered.  The row that is written back may be older than the
\* one in the table: then it writes only the columns the answer changes.
LEMMA LinkStep ==
    ASSUME SlotsFilled, AccountRows, MailsSettled, VerifiedWasAnswered, AccountRequests,
           NEW c \in Slots,
           \/ \E m \in DOMAIN mails : LoadLink(c, m)
           \/ VerifyFinish(c) \/ ChangeFinish(c) \/ ResetFinish(c)
    PROVE  AccountGood
  <1>0. /\ Len(accounts) \in Nat /\ Len(mails) \in Nat
        /\ DOMAIN accounts = 1..Len(accounts) /\ DOMAIN mails = 1..Len(mails)
        /\ \A a \in 1..Len(accounts) : accounts[a] \in AccountRow
        /\ \A m \in 1..Len(mails) : /\ mails[m] \in MailRow
                                    /\ mails[m].account \in 1..Len(accounts)
    BY AccountLens DEF AccountRows
  <1>a. ASSUME NEW purpose \in Purposes, Doing(c, purpose)
        PROVE  /\ work[c].m \in 1..Len(mails) /\ mails[work[c].m].purpose = purpose
               /\ work[c].loaded \in AccountRow
               /\ Settled(mails[work[c].m].account, work[c].loaded.email)
    BY <1>a DEF AccountRequests, CarriesAccount, Doing
  <1>b. CarriesAccount(None)'
    BY DEF CarriesAccount
  <1>c. {"email_verify", "email_change", "password_reset"} \subseteq Purposes
    BY DEF Purposes
  <1>1. ASSUME NEW m \in DOMAIN mails, LoadLink(c, m) PROVE AccountGood
    <2>1. PICK r : r = [op |-> mails[m].purpose, m |-> m, loaded |-> accounts[mails[m].account]]
      OBVIOUS
    <2>2. UNCHANGED <<accounts, mails, answered>> /\ work' = [work EXCEPT ![c] = r]
      BY <1>1, <2>1 DEF LoadLink, Begin, accountVars
    <2>3. AccountsGrow /\ MailsSettled' /\ VerifiedWasAnswered'
      BY <2>2, AccountReads
    <2>4. /\ r.m \in 1..Len(mails) /\ mails[r.m].purpose = r.op /\ r.op \in Purposes
          /\ r.loaded \in AccountRow /\ Settled(mails[r.m].account, r.loaded.email)
      BY <1>0, <2>1 DEF MailRow, Settled, Purposes
    <2>5. CarriesAccount(r)'
      BY <2>2, <2>4 DEF CarriesAccount, Settled, Purposes
    <2> QED
      BY <2>2, <2>3, <2>5, AccountMoves DEF AccountGood
  <1>2. CASE VerifyFinish(c)
    <2>1. PICK m, a, loaded, wanted, e, row :
            /\ m = work[c].m /\ a = mails[m].account /\ loaded = work[c].loaded
            /\ wanted = [loaded EXCEPT !.emailOk = TRUE] /\ e = mails[m].to
            /\ row = Flush(accounts[a], loaded, wanted)
      OBVIOUS
    <2>2. /\ m \in 1..Len(mails) /\ mails[m].purpose = "email_verify" /\ loaded \in AccountRow
          /\ a \in 1..Len(accounts)
      BY <1>0, <1>2, <1>a, <1>c, <2>1 DEF VerifyFinish
    <2>3. wanted \in AccountRow /\ wanted.email = loaded.email
      BY <2>1, <2>2 DEF AccountRow
    <2>4. row \in AccountRow /\ row.email = accounts[a].email
      <3>1. PICK current \in AccountRow : current = accounts[a]
        BY <1>0, <2>2
      <3>2. row = Flush(current, loaded, wanted)
        BY <2>1, <3>1
      <3> QED
        BY <2>2, <2>3, <3>1, <3>2, FlushedAccount
    <2>5. /\ accounts' = [accounts EXCEPT ![a] = row] /\ answered' = answered \cup {<<a, e>>}
          /\ mails' = [mails EXCEPT ![m].consumed = TRUE] /\ work' = [work EXCEPT ![c] = None]
      BY <1>2, <2>1 DEF VerifyFinish, Consumed, End
    <2>6. row.email = e \/ (row.email = accounts[a].email /\ <<a, row.email>> \in answered)
      BY <2>1, <2>2, <2>4 DEF MailsSettled, Settled
    <2>7. AccountsGrow /\ MailsSettled' /\ VerifiedWasAnswered'
      BY <2>2, <2>4, <2>5, <2>6, AddressProved
    <2> QED
      BY <1>b, <2>5, <2>7, AccountMoves DEF AccountGood
  <1>3. CASE ChangeFinish(c)
    <2>1. PICK m, a, loaded, wanted, e, row :
            /\ m = work[c].m /\ a = mails[m].account /\ loaded = work[c].loaded
            /\ e = mails[m].to /\ wanted = [loaded EXCEPT !.email = e, !.emailOk = TRUE]
            /\ row = Flush(accounts[a], loaded, wanted)
      OBVIOUS
    <2>2. /\ m \in 1..Len(mails) /\ loaded \in AccountRow /\ a \in 1..Len(accounts)
          /\ e \in Emails /\ Settled(a, loaded.email)
      BY <1>0, <1>3, <1>a, <1>c, <2>1 DEF ChangeFinish, MailRow
    <2>3. wanted \in AccountRow /\ wanted.email = e
      BY <2>1, <2>2 DEF AccountRow
    <2>4. /\ row \in AccountRow
          /\ row.email = IF e = loaded.email THEN accounts[a].email ELSE e
      <3>1. PICK current \in AccountRow : current = accounts[a]
        BY <1>0, <2>2
      <3>2. row = Flush(current, loaded, wanted)
        BY <2>1, <3>1
      <3> QED
        BY <2>2, <2>3, <3>1, <3>2, FlushedAccount
    <2>5. /\ accounts' = [accounts EXCEPT ![a] = row] /\ answered' = answered \cup {<<a, e>>}
          /\ mails' = [mails EXCEPT ![m].consumed = TRUE] /\ work' = [work EXCEPT ![c] = None]
      BY <1>3, <2>1 DEF ChangeFinish, Consumed, End
    <2>6. row.email = e \/ (row.email = accounts[a].email /\ <<a, row.email>> \in answered)
      BY <2>2, <2>4 DEF Settled
    <2>7. AccountsGrow /\ MailsSettled' /\ VerifiedWasAnswered'
      BY <2>2, <2>4, <2>5, <2>6, AddressProved
    <2> QED
      BY <1>b, <2>5, <2>7, AccountMoves DEF AccountGood
  <1>4. CASE ResetFinish(c)
    <2>1. PICK m : m = work[c].m
      OBVIOUS
    <2>2. /\ m \in 1..Len(mails) /\ UNCHANGED <<accounts, answered>>
          /\ mails' = [mails EXCEPT ![m].consumed = TRUE] /\ work' = [work EXCEPT ![c] = None]
      BY <1>4, <1>a, <1>c, <2>1 DEF ResetFinish, Consumed, End
    <2>3. /\ mails[m] \in MailRow /\ [mails[m] EXCEPT !.consumed = TRUE] \in MailRow
          /\ [mails[m] EXCEPT !.consumed = TRUE].account = mails[m].account
          /\ [mails[m] EXCEPT !.consumed = TRUE].to = mails[m].to
          /\ [mails[m] EXCEPT !.consumed = TRUE].purpose = mails[m].purpose
      BY <1>0, <2>2 DEF MailRow
    <2>4. /\ mails' \in Seq(MailRow) /\ Len(mails') = Len(mails)
          /\ \A n \in 1..Len(mails) : mails'[n] = IF n = m THEN [mails[m] EXCEPT !.consumed = TRUE]
                                                  ELSE mails[n]
      BY <1>0, <2>2, <2>3 DEF AccountRows
    <2>5. AccountRows'
      BY <2>2, <2>3, <2>4 DEF AccountRows
    <2>6. /\ \A b \in 1..Len(accounts') : b > Len(accounts) => AccountSettled(b)'
          /\ \A n \in 1..Len(mails') : n > Len(mails) => MailSettled(n)'
      BY <1>0, <2>2, <2>4
    <2>7. \A n \in 1..Len(mails) : /\ mails'[n].account = mails[n].account
                                   /\ mails'[n].to = mails[n].to
                                   /\ mails'[n].purpose = mails[n].purpose
      BY <2>3, <2>4
    <2>8. AccountsGrow /\ MailsSettled' /\ VerifiedWasAnswered'
      BY <1>0, <2>2, <2>4, <2>5, <2>6, <2>7, AccountFrame
    <2> QED
      BY <1>b, <2>2, <2>8, AccountMoves DEF AccountGood
  <1> QED
    BY <1>1, <1>2, <1>3, <1>4

LEMMA AccountStep ==
    ASSUME AccountInv, area = "accounts", AccountNext, UNCHANGED area
    PROVE  AccountInv'
  <1>1. AccountRows /\ MailsSettled /\ VerifiedWasAnswered /\ SlotsFilled /\ AccountRequests
    BY DEF AccountInv
  <1>2. ASSUME NEW p \in Numbers, SendOtp(p) PROVE AccountGood
    <2>1. UNCHANGED <<accounts, mails, answered, work>>
      BY <1>2 DEF SendOtp, AtOnce
    <2> QED
      BY <1>1, <2>1, AccountReads, AccountIdle DEF AccountGood
  <1>3. ASSUME NEW c \in Slots, AccountFails(c) PROVE AccountGood
    <2>1. UNCHANGED <<accounts, mails, answered>> /\ work' = [work EXCEPT ![c] = None]
      BY <1>3 DEF AccountFails, End, accountVars
    <2>2. CarriesAccount(None)'
      BY DEF CarriesAccount
    <2> QED
      BY <1>1, <2>1, <2>2, AccountReads, AccountMoves DEF AccountGood
  <1>4. AccountGood
    BY <1>1, <1>2, <1>3, SignupStep, PhoneStep, MailStep, LinkStep DEF AccountNext
  <1> QED
    BY <1>4 DEF AccountGood, AccountInv, AccountsGrow

-----------------------------------------------------------------------------
(* The portfolio *)

PlaceRow == Positions \cup {None}

\* No two items at one place, whatever the list holds.
Distinct(ps) == \A i, j \in Held(ps) : ps[i] = ps[j] => i = j

PortfolioInv == places \in Seq(PlaceRow) /\ Distinct(places)

\* Items at different places among the Limit first numbers are Limit at most:
\* the column's constraints are enough, the count a handler made is not needed.
LEMMA DistinctFits ==
    ASSUME NEW ps \in Seq(PlaceRow), Distinct(ps)
    PROVE  Cardinality(Held(ps)) <= Limit
  <1> DEFINE f == [i \in Held(ps) |-> ps[i]]
  <1>1. \A i \in Held(ps) : ps[i] \in Positions
    BY DEF Held, PlaceRow
  <1>2. f \in Injection(Held(ps), Positions)
    BY <1>1 DEF Distinct, Injection, IsInjective
  <1>3. IsFiniteSet(Positions) /\ Cardinality(Positions) = Limit
    BY LimitAssumption, FS_Interval DEF Positions
  <1> QED
    BY <1>2, <1>3, FS_Injection

LEMMA FreeFitsIn ==
    ASSUME NEW ps \in Seq(PlaceRow), Distinct(ps), NEW i \in 1..Len(ps), NEW pos,
           FreeFor(ps, i, pos)
    PROVE  [ps EXCEPT ![i] = pos] \in Seq(PlaceRow) /\ Distinct([ps EXCEPT ![i] = pos])
  <1> DEFINE new == [ps EXCEPT ![i] = pos]
  <1>1. pos \in PlaceRow
    BY DEF FreeFor, PlaceRow
  <1>2. /\ new \in Seq(PlaceRow) /\ new[i] = pos /\ Len(new) = Len(ps)
        /\ \A j \in 1..Len(ps) : j # i => new[j] = ps[j]
    BY <1>1
  <1>3. \A j \in Held(new) : j = i \/ j \in Held(ps)
    BY <1>2 DEF Held
  <1> QED
    BY <1>2, <1>3 DEF Distinct, FreeFor, Held

LEMMA PortfolioStep ==
    ASSUME PortfolioInv, PortfolioNext
    PROVE  PortfolioInv'
  <1>0. /\ Len(places) \in Nat /\ DOMAIN places = 1..Len(places)
        /\ Held(places) \subseteq 1..Len(places)
    BY DEF PortfolioInv, Held
  <1>1. ASSUME UNCHANGED places PROVE PortfolioInv'
    BY <1>1 DEF PortfolioInv, Distinct, Held
  <1>2. ASSUME NEW i \in Held(places), DeleteItem(i) PROVE PortfolioInv'
    <2>1. places' = [places EXCEPT ![i] = None] /\ None \in PlaceRow
      BY <1>2 DEF DeleteItem, PlaceRow
    <2>2. /\ places' \in Seq(PlaceRow) /\ Len(places') = Len(places)
          /\ places'[i] = None /\ \A j \in 1..Len(places) : j # i => places'[j] = places[j]
      BY <1>0, <2>1 DEF PortfolioInv
    <2>3. \A j \in Held(places') : j \in Held(places) /\ places'[j] = places[j]
      BY <2>2 DEF Held
    <2> QED
      BY <2>2, <2>3 DEF PortfolioInv, Distinct
  <1>3. ASSUME NEW i \in Held(places), NEW pos \in Positions, FinalizeUpload(i, pos)
        PROVE  PortfolioInv'
    <2>1. places' = [places EXCEPT ![i] = pos] /\ FreeFor(places, i, pos) /\ i \in 1..Len(places)
      BY <1>0, <1>3 DEF FinalizeUpload
    <2> QED
      BY <2>1, FreeFitsIn DEF PortfolioInv
  <1>4. ASSUME NEW c \in Slots, CommitUpload(c) PROVE PortfolioInv'
    <2>1. PICK pos : pos = work[c].position
      OBVIOUS
    <2>2. places' = Append(places, pos) /\ FreeFor(places, 0, pos)
      BY <1>4, <2>1 DEF CommitUpload
    <2>3. /\ pos \in PlaceRow /\ pos \in Positions
          /\ \A j \in Held(places) : places[j] # pos
      BY <1>0, <2>2 DEF FreeFor, PlaceRow
    <2>4. /\ places' \in Seq(PlaceRow) /\ Len(places') = Len(places) + 1
          /\ places'[Len(places) + 1] = pos
          /\ \A j \in 1..Len(places) : places'[j] = places[j]
      BY <2>2, <2>3 DEF PortfolioInv
    <2>5. \A j \in Held(places') : \/ j = Len(places) + 1
                                   \/ j \in Held(places) /\ places'[j] = places[j]
      BY <1>0, <2>4 DEF Held
    <2> QED
      BY <2>3, <2>4, <2>5 DEF PortfolioInv, Distinct
  <1>5. ASSUME NEW c \in Slots, CommitReorder(c) PROVE PortfolioInv'
    <2>1. PICK wanted : wanted = work[c].wanted
      OBVIOUS
    <2>2. CASE UNCHANGED places
      BY <1>1, <2>2
    <2>3. CASE \E i \in Held(places) : /\ FreeFor(places, i, wanted[i])
                                       /\ places' = [places EXCEPT ![i] = wanted[i]]
      <3>1. PICK i \in Held(places) : /\ FreeFor(places, i, wanted[i])
                                      /\ places' = [places EXCEPT ![i] = wanted[i]]
        BY <2>3
      <3>2. PICK pos : pos = wanted[i]
        OBVIOUS
      <3>3. i \in 1..Len(places) /\ FreeFor(places, i, pos) /\ places' = [places EXCEPT ![i] = pos]
        BY <1>0, <3>1, <3>2
      <3> QED
        BY <3>3, FreeFitsIn DEF PortfolioInv
    <2>4. ASSUME NEW i \in Held(places), NEW j \in Held(places),
                 FreeFor(places, i, wanted[i]),
                 FreeFor([places EXCEPT ![i] = wanted[i]], j, wanted[j]),
                 places' = [[places EXCEPT ![i] = wanted[i]] EXCEPT ![j] = wanted[j]]
          PROVE  PortfolioInv'
      <3>1. PICK ps : ps = [places EXCEPT ![i] = wanted[i]]
        OBVIOUS
      <3>2. ps \in Seq(PlaceRow) /\ Distinct(ps)
        BY <1>0, <2>4, <3>1, FreeFitsIn DEF PortfolioInv
      <3>3. Len(ps) = Len(places)
        BY <3>1 DEF PortfolioInv
      <3>4. places' = [ps EXCEPT ![j] = wanted[j]] /\ FreeFor(ps, j, wanted[j])
            /\ j \in 1..Len(ps)
        BY <1>0, <2>4, <3>1, <3>3
      <3> QED
        BY <3>2, <3>4, FreeFitsIn DEF PortfolioInv
    <2> QED
      BY <1>5, <2>1, <2>2, <2>3, <2>4 DEF CommitReorder
  <1> QED
    BY <1>1, <1>2, <1>3, <1>4, <1>5 DEF PortfolioNext, Disconnect, LoadUpload, LoadReorder,
       LoadCallback, SaveLink, LoadTokenRefresh, SaveTokenRefresh, PortfolioFails, portfolioVars

LEMMA PortfolioInvFits == PortfolioInv => PortfolioFits
  BY DistinctFits DEF PortfolioInv, PortfolioFits, Count, Distinct

-----------------------------------------------------------------------------
(* The links to other platforms *)

LinkGood(l)  == l \in LinkRow /\ l.access = l.dataKey
LinksRows    == keys \in Nat /\ DOMAIN links = Providers
                /\ \A p \in Providers : links[p] = None \/ LinkGood(links[p])
\* A callback or a refresh carries the row it read and the row it wants, each
\* with the key of its own token.
CarriesLink(r) == r # None /\ r.op \in {"callback", "token"} =>
                     r.p \in Providers /\ (r.loaded = None \/ LinkGood(r.loaded)) /\ LinkGood(r.row)
LinkRequests   == \A c \in Slots : CarriesLink(work[c])

LinksInv == LinksRows /\ (area = "portfolio" => SlotsFilled /\ LinkRequests)

\* The two columns always differ from what was loaded together, so the UPDATE
\* names both or none.
LEMMA SavedLinkIsGood ==
    ASSUME NEW current, NEW loaded, NEW row, SameLink(current, loaded),
           current = None \/ LinkGood(current), loaded = None \/ LinkGood(loaded), LinkGood(row)
    PROVE  LinkGood(RowToSave(current, loaded, row))
  <1>1. CASE loaded = None
    BY <1>1 DEF RowToSave
  <1>2. CASE loaded # None
    <2>1. LinkGood(current) /\ LinkGood(loaded)
      BY <1>2 DEF SameLink
    <2>2. RowToSave(current, loaded, row) = Flush(current, loaded, row)
      BY <1>2 DEF RowToSave
    <2> QED
      BY <2>1, <2>2 DEF LinkGood, LinkRow, Flush
  <1> QED
    BY <1>1, <1>2

LEMMA LinkMoves ==
    ASSUME SlotsFilled, LinkRequests, NEW c \in Slots, NEW r,
           work' = [work EXCEPT ![c] = r], CarriesLink(r)
    PROVE  SlotsFilled' /\ LinkRequests'
  BY SlotMove DEF LinkRequests

LEMMA LinksStep ==
    ASSUME LinksInv, area = "portfolio", PortfolioNext, UNCHANGED area
    PROVE  LinksInv'
  <1>a. LinksRows /\ SlotsFilled /\ LinkRequests /\ keys \in Nat
    BY DEF LinksInv, LinksRows
  <1>0. SUFFICES LinksRows' /\ SlotsFilled' /\ LinkRequests'
    BY DEF LinksInv
  <1>e. CarriesLink(None)
    BY DEF CarriesLink
  <1>b. ASSUME NEW c \in Slots, NEW r, work' = [work EXCEPT ![c] = r], CarriesLink(r), UNCHANGED links,
               keys' \in Nat
        PROVE  LinksRows' /\ SlotsFilled' /\ LinkRequests'
    BY <1>a, <1>b, LinkMoves DEF LinksRows
  <1>1. ASSUME NEW i, NEW pos, DeleteItem(i) \/ FinalizeUpload(i, pos)
        PROVE  LinksRows' /\ SlotsFilled' /\ LinkRequests'
    BY <1>a, <1>1 DEF DeleteItem, FinalizeUpload, AtOnce, LinksRows, SlotsFilled, LinkRequests
  <1>2. ASSUME NEW p \in Providers, Disconnect(p)
        PROVE  LinksRows' /\ SlotsFilled' /\ LinkRequests'
    BY <1>a, <1>2 DEF Disconnect, AtOnce, LinksRows, SlotsFilled, LinkRequests
  <1>3. ASSUME NEW c \in Slots, NEW i, NEW j,
               \/ LoadUpload(c) \/ CommitUpload(c) \/ LoadReorder(c, i, j) \/ CommitReorder(c)
               \/ PortfolioFails(c)
        PROVE  LinksRows' /\ SlotsFilled' /\ LinkRequests'
    <2>1. /\ UNCHANGED <<links, keys>>
          /\ \E r : work' = [work EXCEPT ![c] = r] /\ (r = None \/ r.op \in {"upload", "reorder"})
      BY <1>3 DEF LoadUpload, CommitUpload, LoadReorder, CommitReorder, PortfolioFails, Begin, End,
         portfolioVars
    <2>2. PICK r : work' = [work EXCEPT ![c] = r] /\ (r = None \/ r.op \in {"upload", "reorder"})
      BY <2>1
    <2> QED
      BY <1>a, <1>b, <2>1, <2>2 DEF CarriesLink
  <1>4. ASSUME NEW c \in Slots, NEW p \in Providers, NEW renewable \in BOOLEAN,
               LoadCallback(c, p, renewable)
        PROVE  LinksRows' /\ SlotsFilled' /\ LinkRequests'
    <2>1. PICK row : row = [id |-> IF links[p] = None THEN keys + 1 ELSE links[p].id,
                            access |-> keys + 1, dataKey |-> keys + 1, ok |-> TRUE,
                            refresh |-> IF renewable THEN keys + 2 ELSE None]
      OBVIOUS
    <2>2. LinkGood(row)
      BY <1>a, <2>1 DEF LinksRows, LinkGood, LinkRow
    <2>3. PICK r : /\ r = [op |-> "callback", p |-> p, loaded |-> links[p], row |-> row]
                   /\ work' = [work EXCEPT ![c] = r]
      BY <1>4, <2>1 DEF LoadCallback, Begin
    <2>4. CarriesLink(r)
      BY <1>a, <2>2, <2>3 DEF CarriesLink, LinksRows
    <2>5. UNCHANGED links /\ keys' \in Nat
      BY <1>a, <1>4 DEF LoadCallback, EncryptTokens
    <2> QED
      BY <1>b, <2>3, <2>4, <2>5
  <1>5. ASSUME NEW c \in Slots, NEW p \in Providers, LoadTokenRefresh(c, p)
        PROVE  LinksRows' /\ SlotsFilled' /\ LinkRequests'
    <2>1. LinkGood(links[p])
      BY <1>a, <1>5 DEF LoadTokenRefresh, LinksRows
    <2>2. PICK row : /\ \/ row = [links[p] EXCEPT !.access = keys + 1, !.dataKey = keys + 1]
                        \/ row = [links[p] EXCEPT !.ok = FALSE]
                     /\ work' = [work EXCEPT ![c] =
                                   [op |-> "token", p |-> p, loaded |-> links[p], row |-> row]]
      BY <1>5 DEF LoadTokenRefresh, Begin
    <2>3. LinkGood(row)
      <3>1. PICK l \in LinkRow : l = links[p] /\ l.access = l.dataKey
        BY <2>1 DEF LinkGood
      <3>2. CASE row = [links[p] EXCEPT !.ok = FALSE]
        <4>1. row = [l EXCEPT !.ok = FALSE]
          BY <3>1, <3>2
        <4> QED
          BY <3>1, <4>1 DEF LinkGood, LinkRow
      <3>3. CASE row = [links[p] EXCEPT !.access = keys + 1, !.dataKey = keys + 1]
        <4>1. PICK k : k = keys + 1
          OBVIOUS
        <4>2. k \in Nat
          BY <1>a, <4>1
        <4>3. row = [l EXCEPT !.access = k, !.dataKey = k]
          BY <3>1, <3>3, <4>1
        <4> QED
          BY <3>1, <4>2, <4>3 DEF LinkGood, LinkRow
      <3> QED
        BY <2>2, <3>2, <3>3
    <2>4. CarriesLink([op |-> "token", p |-> p, loaded |-> links[p], row |-> row])
      BY <2>1, <2>3 DEF CarriesLink
    <2>5. UNCHANGED links /\ keys' \in Nat
      BY <1>a, <1>5 DEF LoadTokenRefresh, EncryptTokens
    <2> QED
      BY <1>b, <2>2, <2>4, <2>5
  <1>6. ASSUME NEW c \in Slots, SaveLink(c) \/ SaveTokenRefresh(c)
        PROVE  LinksRows' /\ SlotsFilled' /\ LinkRequests'
    <2>1. PICK p, loaded, row : p = work[c].p /\ loaded = work[c].loaded /\ row = work[c].row
      OBVIOUS
    <2>2. /\ work[c] # None /\ work[c].op \in {"callback", "token"} /\ SameLink(links[p], loaded)
          /\ links' = [links EXCEPT ![p] = RowToSave(links[p], loaded, row)]
          /\ work' = [work EXCEPT ![c] = None] /\ keys' = keys
      BY <1>6, <2>1 DEF SaveLink, SaveTokenRefresh, Doing, End
    <2>3. p \in Providers /\ (loaded = None \/ LinkGood(loaded)) /\ LinkGood(row)
      BY <1>a, <2>1, <2>2 DEF LinkRequests, CarriesLink
    <2>4. PICK new : new = RowToSave(links[p], loaded, row)
      OBVIOUS
    <2>5. LinkGood(new)
      BY <1>a, <2>2, <2>3, <2>4, SavedLinkIsGood DEF LinksRows
    <2>6. LinksRows'
      BY <1>a, <2>2, <2>3, <2>4, <2>5 DEF LinksRows
    <2> QED
      BY <1>a, <1>e, <2>2, <2>6, LinkMoves
  <1> QED
    BY <1>1, <1>2, <1>3, <1>4, <1>5, <1>6 DEF PortfolioNext

-----------------------------------------------------------------------------
(* The scores *)

ScoresInv ==
    /\ DOMAIN scores = Viewers
    /\ \A v \in Viewers : /\ DOMAIN scores[v] = Shown
                          /\ \A x \in Shown : scores[v][x].ver \in Nat

NewScoreNewVersion ==
    \A v \in Viewers, x \in Shown :
        scores'[v][x].of # scores[v][x].of => scores'[v][x].ver > scores[v][x].ver

\* The row is locked by the upsert and its version is read there: the step
\* that writes it counts from what the row holds, not from what was read
\* before.
LEMMA ScoresStep ==
    ASSUME ScoresInv, RankingNext \/ FeedNext
    PROVE  ScoresInv' /\ NewScoreNewVersion
  <1>1. ASSUME UNCHANGED scores PROVE ScoresInv' /\ NewScoreNewVersion
    BY <1>1 DEF ScoresInv, NewScoreNewVersion
  <1>2. ASSUME NEW c \in Slots, CommitRows(c) PROVE ScoresInv' /\ NewScoreNewVersion
    <2>1. PICK l : /\ l = work[c]
                   /\ scores' = [scores EXCEPT ![l.v] = [x \in Shown |->
                         IF x \in l.wrote THEN NewRow(scores[l.v][x], l) ELSE scores[l.v][x]]]
      BY <1>2 DEF CommitRows
    <2>2. \A v \in Viewers, x \in Shown :
             \/ scores'[v][x] = scores[v][x]
             \/ scores'[v][x].ver = scores[v][x].ver + 1
      BY <2>1 DEF ScoresInv, NewRow
    <2>3. /\ DOMAIN scores' = Viewers
          /\ \A v \in Viewers : DOMAIN scores'[v] = Shown
      BY <2>1 DEF ScoresInv
    <2>4. \A v \in Viewers, x \in Shown : scores[v][x].ver \in Nat
      BY DEF ScoresInv
    <2> QED
      BY <2>2, <2>3, <2>4 DEF ScoresInv, NewScoreNewVersion
  <1>3. ASSUME FeedNext PROVE UNCHANGED scores
    <2>1. ASSUME NEW v \in Viewers, CapReset(v) \/ (\E k \in Pages : PageExpires(v, k))
                                   \/ (\E x \in Shown : Save(v, x) \/ Unsave(v, x))
          PROVE  UNCHANGED scores
      BY <2>1 DEF CapReset, PageExpires, Save, Unsave, SetSaved, rankingVars
    <2>2. ASSUME NEW c \in Slots, Refund(c) \/ Look(c) \/ Fill(c) \/ PurgeDrop(c) \/ PurgeEnd(c)
                                  \/ WriteMode(c)
          PROVE  UNCHANGED scores
      BY <2>2 DEF Refund, Look, Fill, PurgeDrop, PurgeEnd, WriteMode, rankingVars
    <2>3. ASSUME NEW c \in Slots, NEW ok, Rank(c, ok)
          PROVE  UNCHANGED scores
      BY <2>3 DEF Rank, rankingVars
    <2>4. ASSUME NEW c \in Slots, NEW of, NEW andRecs, Told(c, of, andRecs)
          PROVE  UNCHANGED scores
      BY <2>4 DEF Told, rankingVars
    <2>5. ASSUME NEW c \in Slots, NEW v \in Viewers,
                 \/ \E k \in Pages, n \in PageSizes : AskFree(c, v, k, n)
                 \/ \E k \in Pages : AskPaid(c, v, k)
                 \/ PurgeRead(c, v)
                 \/ \E x \in Shown : Hide(c, v, x) \/ Unhide(c, v, x)
                 \/ \E m \in Modes : SetMode(c, v, m)
          PROVE  UNCHANGED scores
      BY <2>5 DEF AskFree, AskPaid, PurgeRead, Hide, Unhide, SetHide, SetMode, rankingVars
    <2> QED
      BY <1>3, <2>1, <2>2, <2>3, <2>4, <2>5 DEF FeedNext
  <1>4. CASE RankingNext
    BY <1>1, <1>2, <1>4 DEF RankingNext, EditProfile, BadgeMoves, NightlyRerank, NightlySets,
       CleanHides, StartChunk, EndChunk, StartSets, EndSets, ChunkProfile, StartRerank,
       PickFor, StartRow, WriteRow, Deadlock, WriteSet, CacheSet, WorkerLost, rankingVars
  <1> QED
    BY <1>1, <1>3, <1>4

-----------------------------------------------------------------------------
(* The badge and the identity check *)

Badges    == Promise!BadgeStates
Beyond(b) == b \notin {"unverified", "email_verified", "identity_pending"}
Approved(u) == \E h \in handled : /\ inquiries[hooks[h].inq] = u
                                  /\ hooks[h].status = "approved" /\ ~hooks[h].minor

\* What the outbox says was verified was approved by a webhook that is in the
\* log.
IdentityRows ==
    /\ inquiries \in Seq(Users) /\ hooks \in Seq(HookRow)
    /\ \A h \in 1..Len(hooks) : hooks[h].inq \in 1..Len(inquiries)
    /\ handled \subseteq 1..Len(hooks)
    /\ \A o \in outbox : o[3] \in Users /\ (o[1] = "identity.verified" => Approved(o[3]))

\* No badge is past the identity check without the approval; a review is
\* queued of a profile only.
BadgeRows ==
    /\ profiles \in [Users -> {None} \cup ProfileRow] /\ queued \in [Users -> Nat]
    /\ \A u \in Users : /\ BadgeOf(u) \in Badges
                        /\ queued[u] > 0 => profiles[u] # None
                        /\ Beyond(BadgeOf(u)) => Approved(u)

\* A badge user u may have been read with: approvals stay, so what holds of the
\* badge when it is read holds of the copy for ever.
Readable(u, b) == b \in Badges /\ (Beyond(b) => Approved(u))

\* A handler that is about to write a badge has read such a one, and, if it goes
\* by an event, one the event leads on from.
Writes(r) == r.op \in {"event", "recheck", "patch", "start", "review"}
CarriesBadge(r) ==
    r # None =>
      /\ r.op = "hook" => r.h \in 1..Len(hooks)
      /\ Writes(r) => r.u \in Users /\ profiles[r.u] # None /\ Readable(r.u, r.loaded)
      /\ r.op = "event" => /\ Transition(r.loaded, r.event) # None
                           /\ r.event = "identity.verified" => Approved(r.u)
      /\ r.op \in {"recheck", "patch"} => r.loaded = "badge_granted"
      /\ r.op = "start" => r.loaded = "identity_approved"
BadgeRequests == \A c \in Slots : CarriesBadge(work[c])

BadgeInv == /\ IdentityRows /\ BadgeRows
            /\ area = "badge" => SlotsFilled /\ BadgeRequests

\* Every transition a handler may make is in the table of badge_fsm.py.
LEMMA TransitionIsInTable ==
    ASSUME NEW badge, NEW event, Transition(badge, event) # None
    PROVE  /\ <<badge, event, Transition(badge, event)>> \in Promise!Table
           /\ Transition(badge, event) \in Badges
           /\ Beyond(Transition(badge, event)) => Beyond(badge) \/ event = "identity.verified"
  BY DEF Transition, Promise!Table, Badges, Promise!BadgeStates, Beyond

\* No score is an approval.
LEMMA ScoreIsNoApproval ==
    ASSUME NEW score PROVE ScoreToEvent(score) # "identity.verified"
  BY DEF ScoreToEvent

LEMMA NamedTransitions ==
    /\ Transition("badge_granted", "profile.updated.material") = "ai_review_pending"
    /\ Transition("identity_approved", "ai.review.started") = "ai_review_pending"
    /\ \A b : Transition(b, "badge.recheck.requested") # None => b = "badge_granted"
    /\ <<"badge_granted", "profile.updated.material", "ai_review_pending">> \in Promise!Table
    /\ <<"identity_approved", "ai.review.started", "ai_review_pending">> \in Promise!Table
    /\ <<"badge_granted", "badge.recheck.requested", "ai_review_pending">> \in Promise!Table
  BY DEF Transition, Promise!Table

-----------------------------------------------------------------------------
\* Webhooks, approvals and profiles are never taken away.
BadgeGrows ==
    /\ \A u \in Users : /\ Approved(u) => Approved(u)'
                        /\ profiles[u] # None => profiles'[u] # None
    /\ Len(hooks) \in Nat /\ Len(hooks') \in Nat /\ Len(hooks) <= Len(hooks')

LEMMA CarriedBadgeGrows ==
    ASSUME BadgeGrows, NEW r, CarriesBadge(r)
    PROVE  CarriesBadge(r)'
  BY DEF BadgeGrows, CarriesBadge, Writes, Readable

LEMMA BadgeIdle ==
    ASSUME SlotsFilled, BadgeGrows, BadgeRequests, work' = work
    PROVE  SlotsFilled' /\ BadgeRequests'
  <1>1. ASSUME NEW d \in Slots PROVE CarriesBadge(work[d])'
    <2>1. PICK r : r = work[d]
      OBVIOUS
    <2>2. CarriesBadge(r)'
      BY <2>1, CarriedBadgeGrows DEF BadgeRequests
    <2> QED
      BY <2>1, <2>2 DEF CarriesBadge, Writes
  <1> QED
    BY <1>1 DEF SlotsFilled, BadgeRequests

LEMMA BadgeMoveCarries ==
    ASSUME SlotsFilled, BadgeGrows, BadgeRequests,
           NEW c \in Slots, NEW r, work' = [work EXCEPT ![c] = r], CarriesBadge(r)'
    PROVE  SlotsFilled' /\ BadgeRequests'
  <1>1. /\ SlotsFilled' /\ work'[c] = r
        /\ \A d \in Slots \ {c} : work'[d] = work[d]
    BY SlotMove
  <1>2. CarriesBadge(work[c])'
    BY <1>1 DEF CarriesBadge, Writes
  <1>3. ASSUME NEW d \in Slots \ {c} PROVE CarriesBadge(work[d])'
    <2>1. PICK s : s = work[d]
      OBVIOUS
    <2>2. CarriesBadge(s)'
      BY <2>1, CarriedBadgeGrows DEF BadgeRequests
    <2> QED
      BY <1>1, <2>1, <2>2 DEF CarriesBadge, Writes
  <1> QED
    BY <1>1, <1>2, <1>3 DEF BadgeRequests

\* A request that ends carries nothing.
LEMMA EndCarriesNothing == CarriesBadge(None)'
  BY DEF CarriesBadge

LEMMA ApprovalStays ==
    ASSUME IdentityRows,
           \A h \in 1..Len(hooks) : hooks'[h] = hooks[h],
           \A i \in 1..Len(inquiries) : inquiries'[i] = inquiries[i],
           handled \subseteq handled', NEW u, Approved(u)
    PROVE  Approved(u)'
  BY DEF IdentityRows, Approved, HookRow

LEMMA SameApprovals ==
    ASSUME UNCHANGED <<hooks, inquiries, handled>>, NEW u
    PROVE  Approved(u)' <=> Approved(u)
  BY DEF Approved

LEMMA BadgeRowsStay ==
    ASSUME BadgeRows, UNCHANGED <<profiles, queued>>,
           \A u \in Users : Approved(u) => Approved(u)'
    PROVE  BadgeRows' /\ TableStep
  BY DEF BadgeRows, BadgeOf, TableStep

-----------------------------------------------------------------------------
\* A commit by the handler in slot c: the row takes the badge that was wanted, or
\* keeps what another handler has made of it.
LEMMA SaveFollows ==
    ASSUME BadgeRows, UNCHANGED <<hooks, inquiries, handled>>, queued' \in [Users -> Nat],
           NEW c \in Slots, work[c] # None, Writes(work[c]), work'[c] # work[c],
           NEW u \in Users, u = work[c].u, NEW loaded, loaded = work[c].loaded,
           NEW wanted, NEW event,
           SaveBadge(u, loaded, wanted), profiles[u] # None, Readable(u, loaded),
           wanted = loaded \/ <<loaded, event, wanted>> \in Promise!Table,
           wanted = loaded \/ (Beyond(wanted) => Approved(u)),
           \A v \in Users : queued'[v] > 0 => queued[v] > 0 \/ profiles[v] # None
    PROVE  /\ BadgeRows' /\ TableStep /\ Readable(u, wanted)
           /\ \A v \in Users : profiles[v] # None => profiles'[v] # None
  <1>1. PICK old \in ProfileRow : old = profiles[u]
    BY DEF BadgeRows
  <1>2. wanted \in Badges
    BY DEF Readable, Promise!Table, Badges, Promise!BadgeStates
  <1>3. PICK new : new = Flush(old, [badge |-> loaded], [badge |-> wanted])
    OBVIOUS
  <1>4. /\ new = [badge |-> IF wanted = loaded THEN old.badge ELSE wanted]
        /\ profiles' = [profiles EXCEPT ![u] = new]
    BY <1>1, <1>3 DEF SaveBadge, Flush, ProfileRow
  <1>5. new \in ProfileRow /\ new # None /\ new.badge \in Badges
    BY <1>1, <1>2, <1>4, NoneIsNoProfile DEF ProfileRow, Badges, Promise!BadgeStates
  <1>6. \A v \in Users : profiles'[v] = (IF v = u THEN new ELSE profiles[v])
    BY <1>4 DEF BadgeRows
  <1>7. \A v \in Users : BadgeOf(v)' = (IF v = u THEN new.badge ELSE BadgeOf(v))
    BY <1>5, <1>6 DEF BadgeOf
  <1>8. BadgeOf(u) = old.badge
    BY <1>1, NoneIsNoProfile DEF BadgeOf, BadgeRows
  <1>9. Beyond(new.badge) => Approved(u)
    BY <1>4, <1>8 DEF BadgeRows, Readable
  <1>10. BadgeRows'
    <2>1. profiles' \in [Users -> {None} \cup ProfileRow]
      BY <1>4, <1>5 DEF BadgeRows
    <2>2. ASSUME NEW v \in Users
          PROVE  /\ BadgeOf(v)' \in Badges
                 /\ queued'[v] > 0 => profiles'[v] # None
                 /\ Beyond(BadgeOf(v)') => Approved(v)'
      <3>1. BadgeOf(v)' \in Badges /\ (Beyond(BadgeOf(v)') => Approved(v))
        BY <1>5, <1>7, <1>9 DEF BadgeRows
      <3>2. queued'[v] > 0 => profiles'[v] # None
        BY <1>5, <1>6 DEF BadgeRows
      <3> QED
        BY <3>1, <3>2, SameApprovals
    <2> QED
      BY <2>1, <2>2 DEF BadgeRows
  <1>11. TableStep
    <2> SUFFICES ASSUME NEW v \in Users, BadgeOf(v)' # BadgeOf(v)
                 PROVE  \/ Promise!Leads(BadgeOf(v), BadgeOf(v)')
                        \/ \E d \in Slots : /\ Overtaken(d, v)
                                            /\ Promise!Leads(work[d].loaded, BadgeOf(v)')
      BY DEF TableStep
    <2>1. v = u /\ wanted # loaded /\ BadgeOf(u)' = wanted
      BY <1>4, <1>7, <1>8
    <2>2. Promise!Leads(loaded, wanted)
      <3>1. PICK t \in Promise!Table : t = <<loaded, event, wanted>>
        BY <2>1
      <3>2. t[1] = loaded /\ t[3] = wanted
        BY <3>1
      <3> QED
        BY <3>2 DEF Promise!Leads
    <2>3. loaded # BadgeOf(u) => Overtaken(c, u)
      BY DEF Overtaken, Writes
    <2> QED
      BY <2>1, <2>2, <2>3
  <1>12. Readable(u, wanted)
    BY <1>2 DEF Readable
  <1> QED
    BY <1>5, <1>6, <1>10, <1>11, <1>12

-----------------------------------------------------------------------------
LEMMA IdentityStep ==
    ASSUME BadgeInv, area = "badge", IdentityNext, UNCHANGED <<area, badgeRowVars>>
    PROVE  BadgeInv' /\ TableStep
  <1> USE DEF BadgeInv
  <1>a. /\ IdentityRows /\ BadgeRows /\ SlotsFilled /\ BadgeRequests
        /\ Len(hooks) \in Nat /\ Len(inquiries) \in Nat
        /\ UNCHANGED <<profiles, queued>>
    BY DEF IdentityRows, badgeRowVars
  <1>0. SUFFICES IdentityRows' /\ BadgeRows' /\ SlotsFilled' /\ BadgeRequests' /\ TableStep
    OBVIOUS
  <1>b. ASSUME \A u \in Users : Approved(u) => Approved(u)',
               Len(hooks') \in Nat, Len(hooks) <= Len(hooks')
        PROVE  BadgeRows' /\ TableStep /\ BadgeGrows
    BY <1>a, <1>b, BadgeRowsStay DEF BadgeGrows
  <1>1. ASSUME NEW c \in Slots, NEW u \in Users, StartInquiry(c, u)
        PROVE  IdentityRows' /\ BadgeRows' /\ SlotsFilled' /\ BadgeRequests' /\ TableStep
    <2>1. PICK r : /\ r = [op |-> "inquiry", u |-> u, loaded |-> verif[u], inq |-> Len(inquiries) + 1]
                   /\ work' = [work EXCEPT ![c] = r]
      BY <1>1 DEF StartInquiry, Begin
    <2>2. /\ UNCHANGED <<hooks, handled, outbox>> /\ inquiries' = Append(inquiries, u)
          /\ inquiries' \in Seq(Users) /\ Len(inquiries') = Len(inquiries) + 1
          /\ \A i \in 1..Len(inquiries) : inquiries'[i] = inquiries[i]
      BY <1>1, <1>a DEF StartInquiry, CreateInquiry, IdentityRows
    <2>3. \A v : Approved(v) => Approved(v)'
      BY <1>a, <2>2, ApprovalStays
    <2>4. IdentityRows'
      BY <1>a, <2>2, <2>3 DEF IdentityRows
    <2>5. CarriesBadge(r)'
      BY <2>1 DEF CarriesBadge, Writes
    <2>6. BadgeRows' /\ TableStep /\ BadgeGrows
      BY <1>a, <1>b, <2>2, <2>3
    <2> QED
      BY <1>a, <2>1, <2>4, <2>5, <2>6, BadgeMoveCarries
  <1>2. ASSUME NEW c \in Slots, NEW h \in DOMAIN hooks, LoadHook(c, h)
        PROVE  IdentityRows' /\ BadgeRows' /\ SlotsFilled' /\ BadgeRequests' /\ TableStep
    <2>1. PICK r : /\ r = [op |-> "hook", h |-> h, loaded |-> verif[inquiries[hooks[h].inq]]]
                   /\ work' = [work EXCEPT ![c] = r]
      BY <1>2 DEF LoadHook, Take
    <2>2. UNCHANGED <<inquiries, hooks, handled, outbox>>
      BY <1>2 DEF LoadHook, identityVars
    <2>3. IdentityRows' /\ \A v : Approved(v) => Approved(v)'
      BY <1>a, <2>2, SameApprovals DEF IdentityRows
    <2>4. CarriesBadge(r)'
      BY <1>a, <2>1, <2>2 DEF CarriesBadge, Writes, IdentityRows
    <2>5. BadgeRows' /\ TableStep /\ BadgeGrows
      BY <1>a, <1>b, <2>2, <2>3
    <2> QED
      BY <1>a, <2>1, <2>3, <2>4, <2>5, BadgeMoveCarries
  <1>3. ASSUME NEW c \in Slots, SaveInquiry(c) \/ IdentityFails(c)
        PROVE  IdentityRows' /\ BadgeRows' /\ SlotsFilled' /\ BadgeRequests' /\ TableStep
    <2>1. work' = [work EXCEPT ![c] = None] /\ UNCHANGED <<inquiries, hooks, handled, outbox>>
      BY <1>3 DEF SaveInquiry, IdentityFails, End, identityVars
    <2>2. IdentityRows' /\ \A v : Approved(v) => Approved(v)'
      BY <1>a, <2>1, SameApprovals DEF IdentityRows
    <2>3. BadgeRows' /\ TableStep /\ BadgeGrows
      BY <1>a, <1>b, <2>1, <2>2
    <2> QED
      BY <1>a, <2>1, <2>2, <2>3, BadgeMoveCarries, EndCarriesNothing
  <1>4. ASSUME NEW c \in Slots, CommitHook(c)
        PROVE  IdentityRows' /\ BadgeRows' /\ SlotsFilled' /\ BadgeRequests' /\ TableStep
    <2>1. PICK n : n = work[c].h
      OBVIOUS
    <2>2. n \in 1..Len(hooks)
      BY <1>4, <1>a, <2>1 DEF CommitHook, Doing, BadgeRequests, CarriesBadge
    <2>3. /\ work' = [work EXCEPT ![c] = None] /\ UNCHANGED <<inquiries, hooks>>
          /\ handled' = handled \cup {n}
      BY <1>4, <2>1 DEF CommitHook, End
    <2>4. \A v : Approved(v) => Approved(v)'
      BY <1>a, <2>3, ApprovalStays
    <2>5. PICK hook \in HookRow : hook = hooks[n]
      BY <1>a, <2>2 DEF IdentityRows
    <2>6. PICK u : u = inquiries[hook.inq]
      OBVIOUS
    <2>7. PICK event : event = EventFor(HookStatus(hook))
      OBVIOUS
    <2>8. \A o \in outbox' : o \in outbox \/ (event # None /\ o = <<event, hook.inq, u>>)
      BY <1>4, <2>1, <2>5, <2>6, <2>7 DEF CommitHook, EnqueueOutbox
    <2>9. event # None /\ event = "identity.verified" => Approved(u)'
      <3>1. event # None /\ event = "identity.verified" => hook.status = "approved" /\ ~hook.minor
        BY <2>7 DEF EventFor, HookStatus
      <3> QED
        BY <2>3, <2>5, <2>6, <3>1 DEF Approved
    <2>u. u \in Users
      BY <1>a, <2>2, <2>5, <2>6 DEF IdentityRows
    <2>10. \A o \in outbox' : o[3] \in Users /\ (o[1] = "identity.verified" => Approved(o[3])')
      BY <1>a, <2>4, <2>8, <2>9, <2>u DEF IdentityRows
    <2>11. IdentityRows'
      BY <1>a, <2>2, <2>3, <2>10 DEF IdentityRows
    <2>12. BadgeRows' /\ TableStep /\ BadgeGrows
      BY <1>a, <1>b, <2>3, <2>4
    <2> QED
      BY <1>a, <2>3, <2>11, <2>12, BadgeMoveCarries, EndCarriesNothing
  <1>5. ASSUME NEW i \in DOMAIN inquiries, NEW status \in Statuses, NEW minor \in BOOLEAN,
               PersonaDecides(i, status, minor)
        PROVE  IdentityRows' /\ BadgeRows' /\ SlotsFilled' /\ BadgeRequests' /\ TableStep
    <2>1. PICK hook : hook = [inq |-> i, status |-> status, minor |-> minor]
      OBVIOUS
    <2>2. i \in 1..Len(inquiries) /\ hook \in HookRow /\ hook.inq = i
      BY <1>a, <2>1 DEF IdentityRows, HookRow
    <2>3. hooks' = Append(hooks, hook) /\ UNCHANGED <<work, inquiries, handled, outbox>>
      BY <1>5, <2>1 DEF PersonaDecides, slotVars
    <2>4. /\ hooks' \in Seq(HookRow) /\ Len(hooks') = Len(hooks) + 1
          /\ hooks'[Len(hooks) + 1] = hook
          /\ \A h \in 1..Len(hooks) : hooks'[h] = hooks[h]
      BY <1>a, <2>2, <2>3 DEF IdentityRows
    <2>5. \A v : Approved(v) => Approved(v)'
      BY <1>a, <2>3, <2>4, ApprovalStays
    <2>6. \A h \in 1..Len(hooks') : h \in 1..Len(hooks) \/ h = Len(hooks) + 1
      BY <1>a, <2>4
    <2>7. 1..Len(hooks) \subseteq 1..Len(hooks')
      BY <1>a, <2>4
    <2>8. IdentityRows'
      BY <1>a, <2>2, <2>3, <2>4, <2>5, <2>6, <2>7 DEF IdentityRows
    <2> QED
      BY <1>a, <1>b, <2>3, <2>4, <2>5, <2>8, BadgeIdle
  <1> QED
    BY <1>1, <1>2, <1>3, <1>4, <1>5 DEF IdentityNext
-----------------------------------------------------------------------------
LEMMA BadgeRowStep ==
    ASSUME BadgeInv, area = "badge", BadgeRowNext, UNCHANGED <<area, identityVars>>
    PROVE  BadgeInv' /\ TableStep
  <1> USE DEF BadgeInv
  <1>a. /\ IdentityRows /\ BadgeRows /\ SlotsFilled /\ BadgeRequests /\ Len(hooks) \in Nat
        /\ UNCHANGED <<hooks, inquiries, handled, outbox>>
    BY DEF IdentityRows, identityVars
  <1>b. /\ IdentityRows' /\ \A u \in Users : Approved(u) => Approved(u)'
    BY <1>a, SameApprovals DEF IdentityRows
  <1>0. SUFFICES BadgeRows' /\ SlotsFilled' /\ BadgeRequests' /\ TableStep
    BY <1>b
  \* What does not write a badge: only the queue of reviews may change.
  <1>c. ASSUME UNCHANGED profiles, queued' \in [Users -> Nat],
               \A v \in Users : queued'[v] > 0 => queued[v] > 0 \/ profiles[v] # None
        PROVE  BadgeRows' /\ TableStep /\ BadgeGrows
    <2>1. BadgeRows'
      BY <1>a, <1>b, <1>c DEF BadgeRows, BadgeOf
    <2>2. TableStep
      BY <1>c DEF TableStep, BadgeOf
    <2> QED
      BY <1>a, <1>b, <1>c, <2>1, <2>2 DEF BadgeGrows
  <1>d. ASSUME UNCHANGED queued \/ (\E u \in Users : profiles[u] # None /\ Fire(u))
        PROVE  /\ queued' \in [Users -> Nat]
               /\ \A v \in Users : queued'[v] > 0 => queued[v] > 0 \/ profiles[v] # None
    BY <1>a, <1>d DEF BadgeRows, Fire
  <1>1. ASSUME ADayPasses PROVE BadgeRows' /\ SlotsFilled' /\ BadgeRequests' /\ TableStep
    <2>1. UNCHANGED <<work, profiles, queued>>
      BY <1>1 DEF ADayPasses, slotVars
    <2>2. BadgeRows' /\ TableStep /\ BadgeGrows
      BY <1>c, <1>d, <2>1
    <2> QED
      BY <1>a, <2>1, <2>2, BadgeIdle
  <1>2. ASSUME NEW u \in Users, CreateProfile(u)
        PROVE  BadgeRows' /\ SlotsFilled' /\ BadgeRequests' /\ TableStep
    <2>1. /\ UNCHANGED <<work, queued>> /\ profiles[u] = None
          /\ profiles' = [profiles EXCEPT ![u] = [badge |-> "unverified"]]
      BY <1>2 DEF CreateProfile, slotVars
    <2>2. [badge |-> "unverified"] \in ProfileRow
      BY DEF ProfileRow
    <2>3. [badge |-> "unverified"] # None
      BY <2>2, NoneIsNoProfile
    <2>4. \A v \in Users : profiles'[v] = (IF v = u THEN [badge |-> "unverified"] ELSE profiles[v])
      BY <1>a, <2>1 DEF BadgeRows
    <2>5. \A v \in Users : BadgeOf(v)' = BadgeOf(v)
      BY <2>1, <2>3, <2>4 DEF BadgeOf
    <2>6. BadgeRows'
      BY <1>a, <1>b, <2>1, <2>2, <2>3, <2>4, <2>5 DEF BadgeRows
    <2>7. TableStep
      BY <2>5 DEF TableStep
    <2>8. BadgeGrows
      BY <1>a, <1>b, <2>1, <2>3, <2>4 DEF BadgeGrows
    <2> QED
      BY <1>a, <2>1, <2>6, <2>7, <2>8, BadgeIdle
  <1>3. ASSUME NEW u \in Users, ItemAdded(u)
        PROVE  BadgeRows' /\ SlotsFilled' /\ BadgeRequests' /\ TableStep
    <2>1. UNCHANGED <<work, profiles>> /\ profiles[u] # None /\ Fire(u)
      BY <1>3 DEF ItemAdded, AtOnce
    <2>2. BadgeRows' /\ TableStep /\ BadgeGrows
      BY <1>c, <1>d, <2>1
    <2> QED
      BY <1>a, <2>1, <2>2, BadgeIdle
  <1>4. ASSUME NEW c \in Slots, NEW u, NEW event, LoadEvent(c, u, event), u \in Users,
               UNCHANGED <<profiles, queued>>, event = "identity.verified" => Approved(u)
        PROVE  BadgeRows' /\ SlotsFilled' /\ BadgeRequests' /\ TableStep
    <2>1. PICK r : /\ r = [op |-> "event", u |-> u, event |-> event, loaded |-> profiles[u].badge]
                   /\ work' = [work EXCEPT ![c] = r]
      BY <1>4 DEF LoadEvent, Take
    <2>2. BadgeRows' /\ TableStep /\ BadgeGrows
      BY <1>c, <1>d, <1>4
    <2>3. /\ profiles[u] # None /\ Readable(u, profiles[u].badge)
          /\ Transition(profiles[u].badge, event) # None
      BY <1>a, <1>4 DEF LoadEvent, BadgeRows, BadgeOf, Readable
    <2>4. CarriesBadge(r)'
      BY <1>4, <1>b, <2>1, <2>3 DEF CarriesBadge, Writes, Readable
    <2> QED
      BY <1>a, <2>1, <2>2, <2>4, BadgeMoveCarries
  <1>5. ASSUME NEW c \in Slots, NEW o \in outbox, IdentityEvent(c, o)
        PROVE  BadgeRows' /\ SlotsFilled' /\ BadgeRequests' /\ TableStep
    <2>1. LoadEvent(c, o[3], o[1]) /\ UNCHANGED <<profiles, queued>>
      BY <1>5 DEF IdentityEvent, badgeRowVars
    <2>2. o[3] \in Users /\ (o[1] = "identity.verified" => Approved(o[3]))
      BY <1>a DEF IdentityRows
    <2> QED
      BY <1>4, <2>1, <2>2
  <1>6. ASSUME NEW c \in Slots, NEW u \in Users,
               EmailVerified(c, u) \/ (\E event \in OtherEvents : OtherEvent(c, u, event))
        PROVE  BadgeRows' /\ SlotsFilled' /\ BadgeRequests' /\ TableStep
    <2>1. PICK event : /\ event # "identity.verified" /\ LoadEvent(c, u, event)
                       /\ UNCHANGED <<profiles, queued>>
      BY <1>6 DEF EmailVerified, OtherEvent, OtherEvents, badgeRowVars
    <2> QED
      BY <1>4, <2>1
  <1>7. ASSUME NEW c \in Slots, NEW u \in Users, LoadRecheck(c, u) \/ LoadPatch(c, u)
        PROVE  BadgeRows' /\ SlotsFilled' /\ BadgeRequests' /\ TableStep
    <2>1. PICK r : /\ r.op \in {"recheck", "patch"} /\ r.u = u /\ r.loaded = profiles[u].badge
                   /\ work' = [work EXCEPT ![c] = r]
      BY <1>7 DEF LoadRecheck, LoadPatch, Begin
    <2>2. profiles[u] # None /\ profiles[u].badge = "badge_granted" /\ UNCHANGED <<profiles, queued>>
      BY <1>7, NamedTransitions DEF LoadRecheck, LoadPatch, badgeRowVars
    <2>3. BadgeRows' /\ TableStep /\ BadgeGrows
      BY <1>c, <1>d, <2>2
    <2>4. CarriesBadge(r)'
      BY <1>a, <1>b, <2>1, <2>2 DEF CarriesBadge, Writes, BadgeRows, BadgeOf, Readable
    <2> QED
      BY <1>a, <2>1, <2>3, <2>4, BadgeMoveCarries
  <1>8. ASSUME NEW c \in Slots, NEW u \in Users, LoadReview(c, u)
        PROVE  BadgeRows' /\ SlotsFilled' /\ BadgeRequests' /\ TableStep
    <2>1. PICK r : /\ r = [op |-> IF profiles[u].badge = "identity_approved" THEN "start"
                                  ELSE "review", u |-> u, loaded |-> profiles[u].badge]
                   /\ work' = [work EXCEPT ![c] = r]
      BY <1>8 DEF LoadReview, Take
    <2>2. /\ queued[u] > 0 /\ queued' = [queued EXCEPT ![u] = queued[u] - 1]
          /\ UNCHANGED profiles
      BY <1>8 DEF LoadReview
    <2>3. BadgeRows' /\ TableStep /\ BadgeGrows
      BY <1>a, <1>c, <2>2 DEF BadgeRows
    <2>4. profiles[u] # None
      BY <1>a, <2>2 DEF BadgeRows
    <2>5. CarriesBadge(r)'
      BY <1>a, <1>b, <2>1, <2>2, <2>4 DEF CarriesBadge, Writes, BadgeRows, BadgeOf, Readable
    <2> QED
      BY <1>a, <2>1, <2>3, <2>5, BadgeMoveCarries
  \* What writes a badge.
  <1>e. ASSUME NEW c \in Slots, work[c] # None, Writes(work[c]), work'[c] # work[c],
               NEW u, u = work[c].u, NEW loaded, loaded = work[c].loaded, NEW event, NEW wanted,
               SaveBadge(u, loaded, wanted),
               \/ wanted = loaded
               \/ /\ <<loaded, event, wanted>> \in Promise!Table
                  /\ Beyond(wanted) => Beyond(loaded) \/ Approved(u),
               UNCHANGED queued \/ Fire(u)
        PROVE  /\ BadgeRows' /\ TableStep /\ BadgeGrows /\ Readable(u, wanted)
               /\ u \in Users /\ profiles'[u] # None
    <2>1. u \in Users /\ profiles[u] # None /\ Readable(u, loaded)
      BY <1>a, <1>e DEF BadgeRequests, CarriesBadge
    <2>3. wanted = loaded \/ (Beyond(wanted) => Approved(u))
      BY <1>e, <2>1 DEF Readable
    <2>4. /\ queued' \in [Users -> Nat]
          /\ \A v \in Users : queued'[v] > 0 => queued[v] > 0 \/ profiles[v] # None
      BY <1>d, <1>e, <2>1
    <2>5. /\ BadgeRows' /\ TableStep /\ Readable(u, wanted)
          /\ \A v \in Users : profiles[v] # None => profiles'[v] # None
      BY <1>a, <1>e, <2>1, <2>3, <2>4, SaveFollows
    <2> QED
      BY <1>a, <1>b, <2>1, <2>5 DEF BadgeGrows
  <1>9. ASSUME NEW c \in Slots, CommitEvent(c)
        PROVE  BadgeRows' /\ SlotsFilled' /\ BadgeRequests' /\ TableStep
    <2>1. PICK u, loaded, event : u = work[c].u /\ loaded = work[c].loaded /\ event = work[c].event
      OBVIOUS
    <2>2. /\ work[c] # None /\ Writes(work[c]) /\ work[c].op = "event"
          /\ SaveBadge(u, loaded, Transition(loaded, event))
          /\ (UNCHANGED queued \/ Fire(u)) /\ work' = [work EXCEPT ![c] = None]
      BY <1>9, <2>1 DEF CommitEvent, Doing, Writes, NotFired, End
    <2>w. work'[c] # work[c]
      BY <1>a, <2>2, SlotMove
    <2>3. Transition(loaded, event) # None /\ (event = "identity.verified" => Approved(u))
      BY <1>a, <2>1, <2>2 DEF BadgeRequests, CarriesBadge
    <2>t. PICK wanted : wanted = Transition(loaded, event)
      OBVIOUS
    <2>4. /\ <<loaded, event, wanted>> \in Promise!Table
          /\ Beyond(wanted) => Beyond(loaded) \/ Approved(u)
      BY <2>3, <2>t, TransitionIsInTable
    <2>5. BadgeRows' /\ TableStep /\ BadgeGrows
      BY <1>e, <2>1, <2>2, <2>4, <2>t, <2>w
    <2> QED
      BY <1>a, <2>2, <2>5, BadgeMoveCarries, EndCarriesNothing
  <1>10. ASSUME NEW c \in Slots, CommitRecheck(c)
         PROVE  BadgeRows' /\ SlotsFilled' /\ BadgeRequests' /\ TableStep
    <2>1. PICK u, loaded : u = work[c].u /\ loaded = work[c].loaded
      OBVIOUS
    <2>2. /\ work[c] # None /\ Writes(work[c]) /\ work[c].op = "recheck"
          /\ SaveBadge(u, loaded, "ai_review_pending")
          /\ UNCHANGED queued \/ Fire(u)
          /\ work' = [work EXCEPT ![c] = None]
      BY <1>10, <2>1 DEF CommitRecheck, Doing, Writes, NotFired, End
    <2>w. work'[c] # work[c]
      BY <1>a, <2>2, SlotMove
    <2>3. loaded = "badge_granted"
      BY <1>a, <2>1, <2>2 DEF BadgeRequests, CarriesBadge
    <2>4. /\ <<loaded, "badge.recheck.requested", "ai_review_pending">> \in Promise!Table
          /\ Beyond(loaded)
      BY <2>3, NamedTransitions DEF Beyond
    <2>5. BadgeRows' /\ TableStep /\ BadgeGrows
      BY <1>e, <2>1, <2>2, <2>4, <2>w
    <2> QED
      BY <1>a, <2>2, <2>5, BadgeMoveCarries, EndCarriesNothing
  <1>11. ASSUME NEW c \in Slots, CommitPatch(c)
         PROVE  BadgeRows' /\ SlotsFilled' /\ BadgeRequests' /\ TableStep
    <2>1. PICK u, loaded : u = work[c].u /\ loaded = work[c].loaded
      OBVIOUS
    <2>2. /\ work[c] # None /\ Writes(work[c]) /\ work[c].op = "patch"
          /\ SaveBadge(u, loaded, Transition(loaded, "profile.updated.material"))
          /\ UNCHANGED queued \/ Fire(u)
          /\ work' = [work EXCEPT ![c] = None]
      BY <1>11, <2>1 DEF CommitPatch, Doing, Writes, NotFired, End
    <2>w. work'[c] # work[c]
      BY <1>a, <2>2, SlotMove
    <2>3. loaded = "badge_granted"
      BY <1>a, <2>1, <2>2 DEF BadgeRequests, CarriesBadge
    <2>4. /\ Transition(loaded, "profile.updated.material") = "ai_review_pending"
          /\ <<loaded, "profile.updated.material", "ai_review_pending">> \in Promise!Table
          /\ Beyond(loaded)
      BY <2>3, NamedTransitions DEF Beyond
    <2>a. SaveBadge(u, loaded, "ai_review_pending")
      BY <2>2, <2>4
    <2>5. BadgeRows' /\ TableStep /\ BadgeGrows
      BY <1>e, <2>1, <2>2, <2>4, <2>a, <2>w
    <2> QED
      BY <1>a, <2>2, <2>5, BadgeMoveCarries, EndCarriesNothing
  <1>12. ASSUME NEW c \in Slots, StartReview(c)
         PROVE  BadgeRows' /\ SlotsFilled' /\ BadgeRequests' /\ TableStep
    <2>1. PICK u, loaded : u = work[c].u /\ loaded = work[c].loaded
      OBVIOUS
    <2>2. PICK r : r = [op |-> "review", u |-> u, loaded |-> "ai_review_pending"]
      OBVIOUS
    <2>3. /\ work[c] # None /\ Writes(work[c]) /\ work[c].op = "start"
          /\ SaveBadge(u, loaded, Transition(loaded, "ai.review.started"))
          /\ UNCHANGED queued /\ work' = [work EXCEPT ![c] = r]
      BY <1>12, <2>1, <2>2 DEF StartReview, Doing, Writes, Step
    <2>w. work'[c] # work[c]
      <3>1. work'[c] = r
        BY <1>a, <2>3, SlotMove
      <3>2. r.op = "review" /\ work[c].op = "start"
        BY <2>2, <2>3
      <3>3. r # work[c]
        BY <3>2
      <3> QED
        BY <3>1, <3>3
    <2>4. loaded = "identity_approved"
      BY <1>a, <2>1, <2>3 DEF BadgeRequests, CarriesBadge
    <2>5. /\ SaveBadge(u, loaded, "ai_review_pending") /\ Beyond(loaded)
          /\ <<loaded, "ai.review.started", "ai_review_pending">> \in Promise!Table
      BY <2>3, <2>4, NamedTransitions DEF Beyond
    <2>6. /\ BadgeRows' /\ TableStep /\ BadgeGrows /\ Readable(u, "ai_review_pending")
          /\ u \in Users /\ profiles'[u] # None
      BY <1>e, <2>1, <2>3, <2>5, <2>w
    <2>7. CarriesBadge(r)'
      BY <1>b, <2>2, <2>6 DEF CarriesBadge, Writes, Readable
    <2> QED
      BY <1>a, <2>3, <2>6, <2>7, BadgeMoveCarries
  <1>13. ASSUME NEW c \in Slots, NEW text, NEW image, NEW dup, FinishReview(c, text, image, dup)
         PROVE  BadgeRows' /\ SlotsFilled' /\ BadgeRequests' /\ TableStep
    <2>1. PICK u, loaded, event : /\ u = work[c].u /\ loaded = work[c].loaded
                                  /\ event = ScoreToEvent(AggregateRisk(text, image, dup))
      OBVIOUS
    <2>2. PICK wanted : wanted = (IF Transition(loaded, event) = None THEN loaded
                                  ELSE Transition(loaded, event))
      OBVIOUS
    <2>3. /\ work[c] # None /\ Writes(work[c]) /\ SaveBadge(u, loaded, wanted)
          /\ UNCHANGED queued /\ work' = [work EXCEPT ![c] = None]
      BY <1>13, <2>1, <2>2 DEF FinishReview, Doing, Writes, End
    <2>w. work'[c] # work[c]
      BY <1>a, <2>3, SlotMove
    <2>4. \/ wanted = loaded
          \/ /\ <<loaded, event, wanted>> \in Promise!Table
             /\ Beyond(wanted) => Beyond(loaded) \/ Approved(u)
      BY <2>1, <2>2, ScoreIsNoApproval, TransitionIsInTable
    <2>5. BadgeRows' /\ TableStep /\ BadgeGrows
      BY <1>e, <2>1, <2>3, <2>4, <2>w
    <2> QED
      BY <1>a, <2>3, <2>5, BadgeMoveCarries, EndCarriesNothing
  <1>14. ASSUME NEW c \in Slots, ReviewFails(c)
         PROVE  BadgeRows' /\ SlotsFilled' /\ BadgeRequests' /\ TableStep
    <2>1. PICK u : u = work[c].u
      OBVIOUS
    <2>2. /\ work[c] # None /\ Writes(work[c]) /\ UNCHANGED profiles
          /\ queued' = [queued EXCEPT ![u] = queued[u] + 1] /\ work' = [work EXCEPT ![c] = None]
      BY <1>14, <2>1 DEF ReviewFails, Doing, Writes, End
    <2>3. u \in Users /\ profiles[u] # None
      BY <1>a, <2>1, <2>2 DEF BadgeRequests, CarriesBadge
    <2>4. BadgeRows' /\ TableStep /\ BadgeGrows
      BY <1>a, <1>c, <2>2, <2>3 DEF BadgeRows
    <2> QED
      BY <1>a, <2>2, <2>4, BadgeMoveCarries, EndCarriesNothing
  <1>15. ASSUME NEW c \in Slots, BadgeFails(c)
         PROVE  BadgeRows' /\ SlotsFilled' /\ BadgeRequests' /\ TableStep
    <2>1. UNCHANGED <<profiles, queued>> /\ work' = [work EXCEPT ![c] = None]
      BY <1>15 DEF BadgeFails, badgeRowVars, End
    <2>2. BadgeRows' /\ TableStep /\ BadgeGrows
      BY <1>c, <1>d, <2>1
    <2> QED
      BY <1>a, <2>1, <2>2, BadgeMoveCarries, EndCarriesNothing
  <1> QED
    BY <1>1, <1>2, <1>3, <1>5, <1>6, <1>7, <1>8, <1>9, <1>10, <1>11, <1>12, <1>13, <1>14, <1>15
    DEF BadgeRowNext

-----------------------------------------------------------------------------
(* The whole *)

PeopleInv == /\ SessionInv /\ TokensInv /\ AccountInv /\ PortfolioInv /\ LinksInv /\ ScoresInv
             /\ BadgeInv

LEMMA InitPeople == Init => PeopleInv
  <1> SUFFICES ASSUME Init PROVE PeopleInv
    OBVIOUS
  <1>1. /\ SlotsInit /\ IdentityInit /\ BadgeRowInit /\ SessionInit /\ AccountInit
        /\ PortfolioInit /\ RankingInit
    BY DEF Init
  <1>2. SlotsFilled /\ \A c \in Slots : work[c] = None
    BY <1>1 DEF SlotsInit, SlotsFilled
  <1>3. SessionInv
    BY <1>1, <1>2 DEF SessionInit, SessionInv, SessionRows, RevokedForGood, SessionRequests,
       CarriesSession
  <1>t. TokensInv
    BY <1>1, <1>2 DEF SessionInit, TokensInv, ToldIsDead, TokensApart, Doing
  <1>4. AccountInv
    BY <1>1, <1>2 DEF AccountInit, AccountInv, AccountRows, MailsSettled, VerifiedWasAnswered,
       AccountRequests, CarriesAccount
  <1>5. PortfolioInv
    BY <1>1 DEF PortfolioInit, PortfolioInv, Distinct, Held
  <1>l. LinksInv
    BY <1>1, <1>2 DEF PortfolioInit, LinksInv, LinksRows, LinkRequests, CarriesLink
  <1>6. ScoresInv
    BY <1>1 DEF RankingInit, ScoresInv
  <1>7. BadgeInv
    <2>1. IdentityRows
      BY <1>1 DEF IdentityInit, IdentityRows
    <2>2. \A u \in Users : BadgeOf(u) = "unverified"
      BY <1>1 DEF BadgeRowInit, BadgeOf
    <2>3. BadgeRows
      BY <1>1, <2>2 DEF BadgeRowInit, BadgeRows, Badges, Promise!BadgeStates, Beyond
    <2>4. BadgeRequests
      BY <1>2 DEF BadgeRequests, CarriesBadge
    <2> QED
      BY <1>2, <2>1, <2>3, <2>4 DEF BadgeInv
  <1> QED
    BY <1>3, <1>4, <1>5, <1>6, <1>7, <1>l, <1>t DEF PeopleInv

\* What an area that is not running holds, and what of the running one a step
\* of another component leaves.
LEMMA SessionsStay ==
    ASSUME SessionInv, TokensInv, area # "sessions", UNCHANGED <<area, sessionVars>>
    PROVE  SessionInv' /\ TokensInv'
  BY DEF SessionInv, SessionRows, RevokedForGood, TokensInv, ToldIsDead, sessionVars

LEMMA AccountsStay ==
    ASSUME AccountInv, area # "accounts", UNCHANGED <<area, accountVars>> PROVE AccountInv'
  BY DEF AccountInv, AccountRows, MailsSettled, Settled, VerifiedWasAnswered, accountVars

LEMMA PortfolioStays ==
    ASSUME PortfolioInv, UNCHANGED portfolioVars PROVE PortfolioInv'
  BY DEF PortfolioInv, Distinct, Held, portfolioVars

LEMMA LinksStay ==
    ASSUME LinksInv, area # "portfolio", UNCHANGED <<area, portfolioVars>> PROVE LinksInv'
  BY DEF LinksInv, LinksRows, portfolioVars

LEMMA ScoresStay ==
    ASSUME ScoresInv, UNCHANGED rankingVars PROVE ScoresInv' /\ NewScoreNewVersion
  BY DEF ScoresInv, NewScoreNewVersion, rankingVars

LEMMA BadgesStay ==
    ASSUME BadgeInv, area # "badge", UNCHANGED <<area, identityVars, badgeRowVars>>
    PROVE  BadgeInv' /\ TableStep
  BY DEF BadgeInv, IdentityRows, BadgeRows, Approved, BadgeOf, identityVars, badgeRowVars,
     TableStep

LEMMA PeopleStep ==
    ASSUME PeopleInv, [Next]_vars
    PROVE  PeopleInv' /\ NewScoreNewVersion /\ TableStep
  <1> USE DEF PeopleInv, discoveryVars
  <1>1. CASE area = "badge" /\ BadgeArea /\ UNCHANGED area
    <2>1. /\ UNCHANGED <<sessionVars, accountVars, portfolioVars, rankingVars>>
          /\ \/ IdentityNext /\ UNCHANGED badgeRowVars
             \/ BadgeRowNext /\ UNCHANGED identityVars
      BY <1>1 DEF BadgeArea
    <2>2. BadgeInv' /\ TableStep
      BY <1>1, <2>1, IdentityStep, BadgeRowStep
    <2> QED
      BY <1>1, <2>1, <2>2, SessionsStay, AccountsStay, PortfolioStays, LinksStay, ScoresStay
  <1>2. CASE /\ area = "sessions" /\ SessionNext
             /\ UNCHANGED <<area, identityVars, badgeRowVars, accountVars, portfolioVars, rankingVars>>
    BY <1>2, SessionStep, TokenStep, AccountsStay, PortfolioStays, LinksStay, ScoresStay, BadgesStay
  <1>3. CASE /\ area = "accounts" /\ AccountNext
             /\ UNCHANGED <<area, identityVars, badgeRowVars, sessionVars, portfolioVars, rankingVars>>
    BY <1>3, AccountStep, SessionsStay, PortfolioStays, LinksStay, ScoresStay, BadgesStay
  <1>4. CASE /\ area = "portfolio" /\ PortfolioNext
             /\ UNCHANGED <<area, identityVars, badgeRowVars, sessionVars, accountVars, rankingVars>>
    BY <1>4, PortfolioStep, LinksStep, SessionsStay, AccountsStay, ScoresStay, BadgesStay
  <1>5. CASE area = "discovery" /\ DiscoveryArea /\ UNCHANGED area
    <2>1. /\ UNCHANGED <<identityVars, badgeRowVars, sessionVars, accountVars, portfolioVars>>
          /\ RankingNext \/ FeedNext
      BY <1>5 DEF DiscoveryArea
    <2> QED
      BY <1>5, <2>1, ScoresStep, SessionsStay, AccountsStay, PortfolioStays, LinksStay,
         BadgesStay
  <1>6. CASE UNCHANGED vars
    <2>1. UNCHANGED <<area, identityVars, badgeRowVars, sessionVars, accountVars, portfolioVars,
                      rankingVars, work>>
      BY <1>6 DEF vars, slotVars
    <2>2. SessionInv' /\ TokensInv'
      <3>1. SessionInv'
        BY <2>1 DEF SessionInv, SessionRows, RevokedForGood, sessionVars, SlotsFilled,
           SessionRequests, CarriesSession
      <3>2. TokensInv'
        BY <2>1 DEF TokensInv, ToldIsDead, TokensApart, Doing, sessionVars
      <3> QED
        BY <3>1, <3>2
    <2>3. AccountInv'
      BY <2>1 DEF AccountInv, AccountRows, MailsSettled, Settled, VerifiedWasAnswered, accountVars,
         SlotsFilled, AccountRequests, CarriesAccount
    <2>4. BadgeInv' /\ TableStep
      BY <2>1 DEF BadgeInv, IdentityRows, BadgeRows, Approved, BadgeOf, identityVars, badgeRowVars,
         SlotsFilled, BadgeRequests, CarriesBadge, Writes, Readable, TableStep
    <2>5. LinksInv'
      BY <2>1 DEF LinksInv, LinksRows, portfolioVars, SlotsFilled, LinkRequests
    <2> QED
      BY <2>1, <2>2, <2>3, <2>4, <2>5, PortfolioStays, ScoresStay
  <1> QED
    BY <1>1, <1>2, <1>3, <1>4, <1>5, <1>6 DEF Next

LEMMA PeopleInvariance == Spec => []PeopleInv
  BY InitPeople, PeopleStep, PTL DEF Spec

\* A logout that has marked its sessions in Redis and not yet committed, refreshes
\* that read the row before, and a logout that comes after a refresh and finds
\* nothing: a session that was found is never usable again, and a token that was
\* not is never current again (token.py, sessions.py).
THEOREM LogoutIsFinal == Spec => []LoggedOutStaysOut
  <1>1. SessionInv /\ TokensInv => LoggedOutStaysOut
    BY DEF SessionInv, TokensInv, LoggedOutStaysOut
  <1> QED
    BY <1>1, PeopleInvariance, PTL DEF PeopleInv

\* Links of several purposes may be open for one account while its address
\* changes: an address counts as verified only if a mail that was sent there for
\* that account was answered (email_verify.py, account.py, signup.py).
THEOREM VerifiedAddressWasAnswered == Spec => []VerifiedWasAnswered
  BY PeopleInvariance, PTL DEF PeopleInv, AccountInv

\* Uploads count the items before they insert one and reorders write row by
\* row: still no profile has more than PORTFOLIO_ITEM_LIMIT items, nor two at
\* one place (request_upload_url, reorder_portfolio).
THEOREM PortfolioIsBounded == Spec => []PortfolioFits
  BY PeopleInvariance, PortfolioInvFits, PTL DEF PeopleInv

\* A provider is connected again while the daily refresh has its row in hand:
\* the token and the data key are written together or not at all, and a token
\* can be opened with the key next to it (oauth_callback,
\* refresh_expiring_oauth_tokens).
THEOREM TokensCanBeOpened == Spec => []KeyOpensAccess
  <1>1. LinksInv => KeyOpensAccess
    BY DEF LinksInv, LinksRows, LinkGood, KeyOpensAccess
  <1> QED
    BY <1>1, PeopleInvariance, PTL DEF PeopleInv

\* Webhooks and events come late, twice or out of order and no handler locks
\* the profile: a badge past the identity check still belongs to a user whom
\* Persona approved as an adult (persona_webhook, _handle_event).
THEOREM BadgeNeedsPersona == Spec => []ApprovedByPersona
  <1>1. BadgeInv => ApprovedByPersona
    BY DEF BadgeInv, BadgeRows, Beyond, Approved, ApprovedByPersona
  <1> QED
    BY <1>1, PeopleInvariance, PTL DEF PeopleInv

\* Events, checks on request, edits and reviews read a badge and write it back
\* without a lock: a badge changes only by a transition of badge_fsm.py from what
\* it is or, by a handler that was overtaken, from what that one had read.
THEOREM HandlersFollowTable == Spec => BadgeFollowsTable
  <1>1. PeopleInv /\ [Next]_vars => [TableStep]_<<profiles, work>>
    BY PeopleStep
  <1> QED
    BY <1>1, PeopleInvariance, PTL DEF Spec, BadgeFollowsTable

\* The nightly chunk and the rerank on demand may write the same pair: a score
\* that comes from another state of the viewer always has a higher version
\* (rerank_chunk, rerank_profile).
THEOREM NewScoreHasNewVersion == Spec => VersionNamesOneScore
  <1>1. PeopleInv /\ [Next]_vars => [NewScoreNewVersion]_scores
    BY PeopleStep
  <1> QED
    BY <1>1, PeopleInvariance, PTL DEF Spec, VersionNamesOneScore, NewScoreNewVersion
===============================================================================
