----------------------------- MODULE AuthAccounts -----------------------------
(***************************************************************************)
(* auth-svc: accounts and the addresses they are reached at                *)
(* (routers/signup.py, login.py, email_verify.py, account.py,              *)
(* password_reset.py, services/otp.py), and their sessions (routers/       *)
(* token.py, sessions.py, services/tokens.py).  A link that was mailed, or *)
(* its six digits, is found by the hash; a phone's code is in Redis.       *)
(* Columns users.email and users.phone and the pair (provider, subject)    *)
(* are UNIQUE, and a transaction that would repeat one is lost.  Of the    *)
(* sessions the row is in PostgreSQL, the spent refresh tokens and the     *)
(* sessions the gateway turns away are in Redis; no handler locks a row.   *)
(* A token is the number of the mint.  Passwords, legal acceptances,       *)
(* signatures, expiry and rate limits are left out, and so are wrong       *)
(* codes that match nothing, which are never counted, and is_active, which *)
(* no code sets to false.                                                  *)
(***************************************************************************)
EXTENDS RequestSlots, Sequences, FiniteSets

CONSTANTS Emails, Numbers, MaxAccounts, MaxMails

VARIABLES
    accounts,   \* users: [email, emailOk (email_verified_at), phone]
    identities, \* identities: <<provider, subject, account>>
    mails,      \* magic_links: [account, purpose, to, consumed]
    otp,        \* Redis otp:phone:{phone}: numbers a code is valid for
    answered    \* history: <<account, email>> for which a mail sent there was answered

accountVars == <<accounts, identities, mails, otp, answered>>

AccountRow == [email : {None} \cup Emails, emailOk : BOOLEAN, phone : {None} \cup Numbers]
IdentityRow == {"google", "phone"} \X (Emails \cup Numbers) \X Nat
MailRow    == [account : Nat, purpose : {"email_verify", "email_change", "password_reset"},
               to : Emails, consumed : BOOLEAN]

AccountInit == accounts = <<>> /\ identities = {} /\ mails = <<>> /\ otp = {} /\ answered = {}

EmailTaken(e)       == \E a \in DOMAIN accounts : accounts[a].email = e
NumberTaken(p)      == \E a \in DOMAIN accounts : accounts[a].phone = p
IdentityOf(prov, s) == {i \in identities : i[1] = prov /\ i[2] = s}
Open(m)             == ~mails[m].consumed

NewAccount(row) == /\ Len(accounts) < MaxAccounts
                   /\ accounts' = Append(accounts, row)
NewMail(base, a, purpose, to) ==
    /\ Len(base) < MaxMails
    /\ mails' = Append(base, [account |-> a, purpose |-> purpose, to |-> to, consumed |-> FALSE])

\* POST /signup/email: one transaction up to the mail, which may fail unseen.
SignupEmail(e) ==
    /\ ~EmailTaken(e) /\ AtOnce
    /\ NewAccount([email |-> e, emailOk |-> FALSE, phone |-> None])
    /\ NewMail(mails, Len(accounts) + 1, "email_verify", e)
    /\ UNCHANGED <<identities, otp, answered>>

\* POST /signup/oauth: the provider says which address and whether it was
\* verified there; a verified address joins the account that has it.
SignupOauth(e, verified) ==
    LET joined == {a \in DOMAIN accounts : verified /\ accounts[a].email = e}
    IN
    /\ IdentityOf("google", e) = {} /\ AtOnce
    /\ \/ \E a \in joined : /\ identities' = identities \cup {<<"google", e, a>>}
                            /\ UNCHANGED <<accounts, answered>>
       \/ /\ joined = {} /\ ~EmailTaken(e)
          /\ NewAccount([email |-> e, emailOk |-> verified, phone |-> None])
          /\ identities' = identities \cup {<<"google", e, Len(accounts) + 1>>}
          /\ answered' = answered \cup (IF verified THEN {<<Len(accounts) + 1, e>>} ELSE {})
    /\ UNCHANGED <<mails, otp>>

\* The code of a signup, a login or a change of number; a live one is reused.
SendPhoneOtp(p) == p \notin otp /\ otp' = otp \cup {p}
SendOtp(p) == AtOnce /\ SendPhoneOtp(p) /\ UNCHANGED <<accounts, identities, mails, answered>>
\* verify_phone_otp reads, compares and then deletes: two requests that read
\* the code before either deletes it both pass.
MatchOtp(c, p, a) == /\ p \in otp /\ Begin(c, [op |-> "code", p |-> p, a |-> a])
                     /\ UNCHANGED accountVars
UseOtp(c) == /\ Doing(c, "code") /\ otp' = otp \ {work[c].p}
             /\ Step(c, [op |-> "phone", p |-> work[c].p, a |-> work[c].a])
             /\ UNCHANGED <<accounts, identities, mails, answered>>
SignupPhoneVerify(c) ==
    LET p == work[c].p
    IN
    /\ Doing(c, "phone") /\ work[c].a = None
    /\ ~NumberTaken(p) /\ IdentityOf("phone", p) = {}
    /\ NewAccount([email |-> None, emailOk |-> FALSE, phone |-> p])
    /\ identities' = identities \cup {<<"phone", p, Len(accounts) + 1>>}
    /\ End(c) /\ UNCHANGED <<mails, otp, answered>>
\* The identity of the old number stays, the new number gets none.
PhoneChangeFinish(c) ==
    LET q == work[c]
    IN
    /\ Doing(c, "phone") /\ q.a # None
    /\ \A a \in DOMAIN accounts \ {q.a} : accounts[a].phone # q.p
    /\ accounts' = [accounts EXCEPT ![q.a].phone = q.p]
    /\ End(c) /\ UNCHANGED <<identities, mails, otp, answered>>

\* Faulty variant: the new address is in place before its mail is answered.
LoadMailEarly(c, a, purpose, to) ==
    /\ Begin(c, [op |-> "mail", a |-> a, purpose |-> purpose, to |-> to, old |-> {}])
    /\ accounts' = [accounts EXCEPT ![a].email = to]
    /\ UNCHANGED <<identities, mails, otp, answered>>
\* verify/start, email/change/start and reset/start: the open links of the
\* purpose that were read are closed and a new one is mailed.
LoadMail(c, a, purpose, to) ==
    /\ Begin(c, [op |-> "mail", a |-> a, purpose |-> purpose, to |-> to,
                 old |-> {m \in DOMAIN mails : /\ mails[m].account = a /\ Open(m)
                                               /\ mails[m].purpose = purpose}])
    /\ UNCHANGED accountVars
VerifyStart(c, a) == /\ accounts[a].email # None /\ ~accounts[a].emailOk
                     /\ LoadMail(c, a, "email_verify", accounts[a].email)
ResetStart(c, a)  == /\ accounts[a].email # None
                     /\ LoadMail(c, a, "password_reset", accounts[a].email)
ChangeStart(c, a, e) == ~EmailTaken(e) /\ LoadMail(c, a, "email_change", e)
CommitMail(c) ==
    LET q == work[c]
    IN
    /\ Doing(c, "mail")
    /\ NewMail([m \in DOMAIN mails |-> IF m \in q.old THEN [mails[m] EXCEPT !.consumed = TRUE]
                                       ELSE mails[m]], q.a, q.purpose, q.to)
    /\ End(c) /\ UNCHANGED <<accounts, identities, otp, answered>>

\* verify/finish, email/change/finish and reset/finish: a link is found open, the
\* account is read, both are committed.  Whoever asks shows its token or, for the
\* two purposes of an address, its six digits: those are not unique, verify/finish
\* looks them up without the account, and no attempt is counted, so that any open
\* link may be found and nothing says that its mail was read.
LoadLink(c, m) ==
    /\ Open(m)
    /\ Begin(c, [op |-> mails[m].purpose, m |-> m, loaded |-> accounts[mails[m].account]])
    /\ UNCHANGED accountVars
Consumed(m) == mails' = [mails EXCEPT ![m].consumed = TRUE]
VerifyFinish(c) ==
    LET m == work[c].m
        a == mails[m].account
    IN
    /\ Doing(c, "email_verify")
    /\ accounts' = [accounts EXCEPT ![a] = Flush(@, work[c].loaded, [work[c].loaded EXCEPT !.emailOk = TRUE])]
    /\ answered' = answered \cup {<<a, mails[m].to>>}
    /\ Consumed(m) /\ End(c) /\ UNCHANGED <<identities, otp>>
\* The check that the address is free is made again; the UNIQUE column has
\* the last word, and then the link stays open.
ChangeFinish(c) ==
    LET m == work[c].m
        a == mails[m].account
        row == [work[c].loaded EXCEPT !.email = mails[m].to, !.emailOk = TRUE]
    IN
    /\ Doing(c, "email_change") /\ ~EmailTaken(mails[m].to)
    /\ accounts' = [accounts EXCEPT ![a] = Flush(@, work[c].loaded, row)]
    /\ answered' = answered \cup {<<a, mails[m].to>>}
    /\ Consumed(m) /\ End(c) /\ UNCHANGED <<identities, otp>>
ResetFinish(c) ==
    /\ Doing(c, "password_reset") /\ Consumed(work[c].m)
    /\ End(c) /\ UNCHANGED <<accounts, identities, otp, answered>>

\* Refused, or the transaction is lost; a code that was used stays used.
AccountFails(c) == ~Free(c) /\ work[c].op # "code" /\ End(c) /\ UNCHANGED accountVars

AccountNext ==
    \/ \E e \in Emails : SignupEmail(e) \/ \E verified \in BOOLEAN : SignupOauth(e, verified)
    \/ \E p \in Numbers : SendOtp(p)
    \/ \E c \in Slots :
          \/ \E p \in Numbers, a \in DOMAIN accounts \cup {None} : MatchOtp(c, p, a)
          \/ UseOtp(c) \/ SignupPhoneVerify(c) \/ PhoneChangeFinish(c)
          \/ \E a \in DOMAIN accounts :
                \/ VerifyStart(c, a) \/ ResetStart(c, a)
                \/ \E e \in Emails : ChangeStart(c, a, e)
          \/ CommitMail(c)
          \/ \E m \in DOMAIN mails : LoadLink(c, m)
          \/ VerifyFinish(c) \/ ChangeFinish(c) \/ ResetFinish(c) \/ AccountFails(c)

-----------------------------------------------------------------------------
(* Sessions, the rotation of their refresh tokens and the ways out of them *)

CONSTANTS Holders, MaxSessions, MaxTokens

VARIABLES
    sessions,   \* sessions: [user, token (refresh_token_hash), revoked (revoked_at)]
    mint,       \* the session of each refresh token minted so far
    usedJti,    \* Redis revoked:jti:{jti}
    marks,      \* Redis revoked:session:{id}, which the gateway reads
    held,       \* refresh tokens a client was answered with
    out,        \* history: sessions that a request found and revoked, with a 200
    told        \* history: tokens whose logout found nothing to revoke, with a 200

sessionVars == <<sessions, mint, usedJti, marks, held, out, told>>

SessionRow == [user : Holders, token : Nat, revoked : BOOLEAN]
SessionInit == /\ sessions = <<>> /\ mint = <<>> /\ usedJti = {} /\ marks = {}
               /\ held = {} /\ out = {} /\ told = {}

\* services/tokens.py: what a handler writes at the mint and in Redis.
MintRefreshToken(s)    == Len(mint) < MaxTokens /\ mint' = Append(mint, s)
MarkJtiRevoked(ts)     == usedJti' = usedJti \cup ts
MarkSessionRevoked(ss) == marks' = marks \cup ss

\* _issue_token_pair, at the end of every signup and login.
IssueTokenPair(u) ==
    /\ Len(sessions) < MaxSessions /\ AtOnce
    /\ MintRefreshToken(Len(sessions) + 1)
    /\ sessions' = Append(sessions, [user |-> u, token |-> Len(mint) + 1, revoked |-> FALSE])
    /\ held' = held \cup {Len(mint) + 1}
    /\ UNCHANGED <<usedJti, marks, out, told>>

\* A spent token comes again: its session is marked in Redis; the row's
\* revoked_at is rolled back with the exception that follows.
ReplayToken(t) ==
    /\ t \in usedJti /\ AtOnce
    /\ MarkSessionRevoked({mint[t]})
    /\ UNCHANGED <<sessions, mint, usedJti, held, out, told>>

\* The row is looked up by the token's hash and must not be revoked.
LoadRefresh(c, t) ==
    /\ t \notin usedJti /\ sessions[mint[t]].token = t /\ ~sessions[mint[t]].revoked
    /\ Begin(c, [op |-> "refresh", t |-> t, loaded |-> sessions[mint[t]]])
    /\ UNCHANGED sessionVars
SpendToken(c) ==
    /\ Doing(c, "refresh")
    /\ MarkJtiRevoked({work[c].t}) /\ MintRefreshToken(mint[work[c].t])
    /\ Step(c, [op |-> "rotate", t |-> Len(mint) + 1, loaded |-> work[c].loaded])
    /\ UNCHANGED <<sessions, marks, held, out, told>>
\* Faulty variant: the row is written as it was read.
RotatedWhole(s, loaded, t) == [loaded EXCEPT !.token = t]
Rotated(s, loaded, t) == Flush(sessions[s], loaded, [loaded EXCEPT !.token = t])
RotateToken(c) ==
    LET q == work[c]
        s == mint[q.t]
    IN
    /\ Doing(c, "rotate")
    /\ sessions' = [sessions EXCEPT ![s] = Rotated(s, q.loaded, q.t)]
    /\ held' = held \cup {q.t}
    /\ End(c) /\ UNCHANGED <<mint, usedJti, marks, out, told>>

\* logout, logout_all and revoke_session: the rows are read, each session is
\* marked in Redis, then revoked_at is committed.  A call to Redis that fails
\* takes the transaction with it and leaves the marks made before.
LoadOut(c, targets, spent) ==
    /\ targets # {}
    /\ Begin(c, [op |-> "out", targets |-> targets, spent |-> spent])
    /\ UNCHANGED sessionVars
Logout(c, t) == /\ sessions[mint[t]].token = t /\ ~sessions[mint[t]].revoked
                /\ LoadOut(c, {mint[t]}, {t})
\* No row has the token any more, or the one that has it is revoked: 200, and
\* nothing is changed, not even when the session lives on with a newer token.
LogoutMissed(t) ==
    /\ t \in held /\ AtOnce
    /\ sessions[mint[t]].token # t \/ sessions[mint[t]].revoked
    /\ told' = told \cup {t}
    /\ UNCHANGED <<sessions, mint, usedJti, marks, held, out>>
LogoutAll(c, u) ==
    LoadOut(c, {s \in DOMAIN sessions : sessions[s].user = u /\ ~sessions[s].revoked}, {})
RevokeSession(c, s) == LoadOut(c, {s}, {})
MarkOut(c) ==
    LET q == work[c]
    IN
    /\ Doing(c, "out")
    /\ \E marked \in SUBSET q.targets :
          /\ MarkSessionRevoked(marked)
          /\ IF marked = q.targets
             THEN Step(c, [op |-> "revoke", targets |-> q.targets])
                  /\ MarkJtiRevoked(q.spent)
             ELSE End(c) /\ UNCHANGED usedJti
    /\ UNCHANGED <<sessions, mint, held, out, told>>
CommitOut(c) ==
    LET targets == work[c].targets
    IN
    /\ Doing(c, "revoke")
    /\ sessions' = [s \in DOMAIN sessions |->
                      IF s \in targets THEN [sessions[s] EXCEPT !.revoked = TRUE] ELSE sessions[s]]
    /\ out' = out \cup targets
    /\ End(c) /\ UNCHANGED <<mint, usedJti, marks, held, told>>

SessionFails(c) == /\ Doing(c, "refresh") \/ Doing(c, "rotate") \/ Doing(c, "revoke")
                   /\ End(c) /\ UNCHANGED sessionVars

SessionNext ==
    \/ \E u \in Holders : IssueTokenPair(u)
    \/ \E t \in DOMAIN mint : ReplayToken(t) \/ LogoutMissed(t)
    \/ \E c \in Slots :
          \/ \E t \in DOMAIN mint : LoadRefresh(c, t) \/ Logout(c, t)
          \/ \E u \in Holders : LogoutAll(c, u)
          \/ \E s \in DOMAIN sessions : RevokeSession(c, s)
          \/ SpendToken(c) \/ RotateToken(c) \/ MarkOut(c) \/ CommitOut(c) \/ SessionFails(c)
===============================================================================
