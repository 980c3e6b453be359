--------------------------- MODULE CareSystemProofs ---------------------------
(***************************************************************************)
(* TLAPS proofs about CareSystem, for any users, phones, sessions, cases   *)
(* and limits and any number of overlapping requests and tasks.  A         *)
(* behaviour is one area of the system, so what a request carries is       *)
(* stated under the area it belongs to; an area that is not running never  *)
(* changes.                                                                *)
(***************************************************************************)
EXTENDS CareSystem, FiniteSetTheorems, SequenceTheorems, TLAPS

\* A sequence, whatever its elements.
IsSeq(s) == Len(s) \in Nat /\ s = [i \in 1..Len(s) |-> s[i]]

\* Every slot has its request, or none.
SlotsFilled == work = [c \in Slots |-> work[c]] /\ used \in Nat

-----------------------------------------------------------------------------
(* The chatbot: a session's turns are its owner's.                          *)

TurnsBy(turns, u) == turns \in Seq(Turn) /\ \A i \in 1..Len(turns) : turns[i].by = u

ChatRows == /\ chats \in Seq(ChatSessionRow) /\ history \in Seq(Seq(Turn))
            /\ Len(history) = Len(chats)
            /\ \A s \in 1..Len(chats) : TurnsBy(history[s], chats[s].by)

\* A request that has a session has one of its user's, and what it read of
\* the turns is the user's too.
Asks(r) == /\ r.op \in {"expire", "refused", "session"}
           /\ r \in [op : {"expire", "refused", "session"}, u : Askers,
                     asked : {None} \cup Nat, n : Nat]
Owns(r) == /\ r.op \in {"answer", "get", "set"}
           /\ r.u \in Askers /\ r.n \in Nat
           /\ r.s \in 1..Len(chats) /\ chats[r.s].by = r.u
           /\ r.op = "set" => TurnsBy(r.turns, r.u)
ChatRequests == \A c \in Slots : work[c] # None => Asks(work[c]) \/ Owns(work[c])

ChatbotInv == /\ ChatRows /\ ContextIsOwn
              /\ area = "chatbot" => SlotsFilled /\ ChatRequests

-----------------------------------------------------------------------------
(* Notifications: one task at most has an event and a user in hand.         *)

MsgRow == [event : Nat, to : Users, state : {"queued", "taken", "done"}, tries : Nat]

NotifyRows == /\ events \in Seq(EventRow) /\ Len(events) <= MaxEvents
              /\ msgs \in Seq(MsgRow)
              /\ \A m \in 1..Len(msgs) : msgs[m].event \in 1..Len(events)
              /\ pushes \in [1..MaxEvents -> [Users -> [Phones -> Nat]]]

Nudge(e)    == Route[events[e].kind] # None /\ Route[events[e].kind].guard = "48h"
Routed(e)   == Route[events[e].kind] # None
HasTask(e, u) == \E m \in 1..Len(msgs) : msgs[m].event = e /\ msgs[m].to = u
HasTasks(e) == \A i \in 1..Len(events[e].to) : HasTask(e, events[e].to[i])
HandedOn    == \A e \in 1..Len(events) : events[e].acked /\ Routed(e) => HasTasks(e)

\* A task of an unguarded kind that ended has left its row, unless its
\* retries are used up.
Unguarded(e)   == Routed(e) /\ Route[events[e].kind].guard = None
Notified(e, u) == \E n \in 1..Len(notifs) : notifs[n].event = e /\ notifs[n].to = u
Informed ==
    /\ IsSeq(notifs)
    /\ \A m \in 1..Len(msgs) : msgs[m].state = "done" /\ Unguarded(msgs[m].event) =>
           msgs[m].tries > MaxRetries \/ Notified(msgs[m].event, msgs[m].to)

\* A push was made under a key that is still set, by a task that has ended;
\* a task that is under way set the key, and is the only one to have it.
NudgeOf(m) == Nudge(msgs[m].event)
PushedUnderKey ==
    \A e \in 1..MaxEvents, u \in Users, p \in Phones : pushes[e][u][p] # 0 =>
        /\ e <= Len(events)
        /\ Nudge(e) => /\ pushes[e][u][p] = 1 /\ <<e, u>> \in guards
                       /\ \A m \in 1..Len(msgs) :
                             msgs[m].state = "taken" => KeyOf(m) # <<e, u>>
TakenHasKey ==
    \A m \in 1..Len(msgs) : msgs[m].state = "taken" /\ NudgeOf(m) =>
        /\ KeyOf(m) \in guards
        /\ \A n \in 1..Len(msgs) : msgs[n].state = "taken" /\ KeyOf(n) = KeyOf(m) => n = m

\* A worker has a task in hand that nobody else has.
NotifyRequests ==
    \A c \in Slots : work[c] # None =>
        /\ work[c].op = "dispatch"
        /\ work[c].m \in 1..Len(msgs) /\ msgs[work[c].m].state = "taken"
        /\ \A d \in Slots : work[d] # None /\ work[d].m = work[c].m => d = c

NotifyInv == /\ NotifyRows /\ HandedOn /\ Informed /\ PushedUnderKey /\ TakenHasKey
             /\ area = "notify" => SlotsFilled /\ NotifyRequests

-----------------------------------------------------------------------------
(* The desk: the day's counter of reports.                                  *)

DeskRows == /\ IsSeq(actions) /\ IsSeq(reports) /\ IsSeq(notices)
            /\ \A w \in BeatWorkers : IsFiniteSet(hiding[w])
            /\ hiding = [w \in BeatWorkers |-> hiding[w]]
            /\ throttle = [u \in Reporters |-> throttle[u]]
            /\ filing = [c \in Reporters \X Slots |-> filing[c]]

\* The count a request loaded leaves room for one more, and is backed.
LoadedIsBacked ==
    \A c \in Reporters \X Slots : filing[c].at = "commit" /\ filing[c].count # None =>
        /\ filing[c].count \in 1..(ReportLimit - 1)
        /\ filing[c].count <= Cardinality(MadeBy(c[1]))

DeskInv == DeskRows /\ CounterIsBacked /\ LoadedIsBacked

CareInv == ChatbotInv /\ NotifyInv /\ DeskInv

\* A request that moves on or ends changes its own slot and no other.
LEMMA SlotMove ==
    ASSUME SlotsFilled, NEW c \in Slots, NEW r, work' = [work EXCEPT ![c] = r], used' \in Nat
    PROVE  /\ SlotsFilled' /\ work'[c] = r
           /\ \A d \in Slots \ {c} : work'[d] = work[d]
  BY DEF SlotsFilled

\* Appending to a sequence, and taking its last elements.
LEMMA SeqAppend ==
    ASSUME NEW S, NEW s \in Seq(S), NEW x \in S
    PROVE  /\ Append(s, x) \in Seq(S) /\ Len(Append(s, x)) = Len(s) + 1
           /\ Append(s, x)[Len(s) + 1] = x
           /\ \A i \in 1..Len(s) : Append(s, x)[i] = s[i]
  OBVIOUS

LEMMA FunIsSeq == ASSUME NEW S, NEW n \in Nat, NEW s \in [1..n -> S] PROVE s \in Seq(S) /\ Len(s) = n
  OBVIOUS

LEMMA SeqConcat ==
    ASSUME NEW S, NEW s \in Seq(S), NEW t \in Seq(S)
    PROVE  /\ s \o t \in Seq(S) /\ Len(s \o t) = Len(s) + Len(t)
           /\ \A i \in 1..Len(s) : (s \o t)[i] = s[i]
           /\ \A i \in 1..Len(t) : (s \o t)[Len(s) + i] = t[i]
  <1>1. Len(s) \in Nat /\ Len(t) \in Nat
    OBVIOUS
  <1>2. \A i \in 1..(Len(s) + Len(t)) : (s \o t)[i] = IF i <= Len(s) THEN s[i] ELSE t[i - Len(s)]
    BY ConcatProperties
  <1>3. ASSUME NEW i \in 1..Len(t) PROVE (s \o t)[Len(s) + i] = t[i]
    BY <1>1, <1>2
  <1> QED
    BY <1>1, <1>2, <1>3, ConcatProperties

LEMMA SeqExcept ==
    ASSUME NEW S, NEW s \in Seq(S), NEW i \in 1..Len(s), NEW x \in S, NEW t,
           t = [s EXCEPT ![i] = x]
    PROVE  /\ t \in Seq(S) /\ Len(t) = Len(s)
           /\ \A j \in 1..Len(s) : t[j] = IF j = i THEN x ELSE s[j]
  BY ExceptSeq

-----------------------------------------------------------------------------
(* The chatbot keeps sessions apart.                                        *)

\* What the model is shown and what is kept are the last of a user's turns.
LEMMA LatestBy == ASSUME NEW u, NEW turns, TurnsBy(turns, u) PROVE TurnsBy(Latest(turns), u)
  <1>1. CASE Len(turns) <= HistoryTurns
    BY <1>1 DEF Latest
  <1>2. CASE ~(Len(turns) <= HistoryTurns)
    <2>1. turns \in Seq(Turn) /\ HistoryTurns \in Nat /\ Len(turns) \in Nat
      BY ChatbotAssumption DEF TurnsBy
    <2>2. PICK k \in Nat : k = Len(turns) - HistoryTurns + 1 /\ k \in 1..(Len(turns) + 1)
      BY <1>2, <2>1
    <2>3. Latest(turns) = SubSeq(turns, k, Len(turns))
      BY <1>2, <2>2 DEF Latest
    <2>4. SubSeq(turns, k, Len(turns)) \in Seq(Turn)
      BY <2>1, <2>2
    <2>5. /\ Len(SubSeq(turns, k, Len(turns))) = Len(turns) - k + 1
          /\ \A i \in 1..(Len(turns) - k + 1) : SubSeq(turns, k, Len(turns))[i] = turns[k + i - 1]
      BY <2>1, <2>2
    <2> QED
      BY <2>1, <2>2, <2>3, <2>4, <2>5 DEF TurnsBy
  <1> QED
    BY <1>1, <1>2

LEMMA AppendBy ==
    ASSUME NEW u, NEW turns, TurnsBy(turns, u), NEW t \in Turn, t.by = u
    PROVE  TurnsBy(Append(turns, t), u)
  BY SeqAppend DEF TurnsBy

\* Sessions are only added, and keep their owner.
SessionsStay == /\ chats' \in Seq(ChatSessionRow) /\ Len(chats) <= Len(chats')
                /\ \A s \in 1..Len(chats) : chats'[s].by = chats[s].by

LEMMA OwnsStays ==
    ASSUME ChatRows, SessionsStay, NEW CONSTANT r, Owns(r)
    PROVE  Owns(r)'
  BY DEF ChatRows, SessionsStay, Owns

LEMMA ChatMove ==
    ASSUME ChatRows, SlotsFilled, ChatRequests, SessionsStay,
           NEW CONSTANT c \in Slots, NEW CONSTANT r,
           work' = [work EXCEPT ![c] = r], used' \in Nat,
           r # None => Asks(r) \/ Owns(r)'
    PROVE  SlotsFilled' /\ ChatRequests'
  <1>1. /\ SlotsFilled' /\ work'[c] = r
        /\ \A d \in Slots \ {c} : work'[d] = work[d]
    BY SlotMove
  <1>2. ASSUME NEW CONSTANT d \in Slots, work'[d] # None
        PROVE  Asks(work'[d]) \/ Owns(work[d])'
    <2>1. PICK q : q = work'[d]
      OBVIOUS
    <2>2. CASE d = c
      <3>1. Asks(q) \/ Owns(q)'
        BY <1>1, <1>2, <2>1, <2>2
      <3> QED
        BY <2>1, <3>1 DEF Owns
    <2>3. CASE d # c
      <3>1. Asks(q) \/ Owns(q)
        BY <1>1, <1>2, <2>1, <2>3 DEF ChatRequests
      <3>2. Asks(q) \/ Owns(q)'
        BY <3>1, OwnsStays
      <3> QED
        BY <2>1, <3>2 DEF Owns
    <2> QED
      BY <2>2, <2>3
  <1> QED
    BY <1>1, <1>2 DEF ChatRequests, Asks

\* A step that leaves the sessions and their turns alone.
LEMMA RowsStay ==
    ASSUME ChatRows, UNCHANGED <<chats, history>>
    PROVE  ChatRows' /\ SessionsStay
  BY DEF ChatRows, SessionsStay

\* What a request at one of its steps carries.
LEMMA AtSession ==
    ASSUME ChatRequests, NEW c \in Slots, Doing(c, "session") \/ Doing(c, "expire")
    PROVE  /\ work[c] \in [op : {"expire", "refused", "session"}, u : Askers,
                           asked : {None} \cup Nat, n : Nat]
  BY DEF Doing, ChatRequests, Asks, Owns

LEMMA AtAnswer ==
    ASSUME ChatRequests, NEW c \in Slots,
           Doing(c, "answer") \/ Doing(c, "get") \/ Doing(c, "set")
    PROVE  Owns(work[c])
  BY DEF Doing, ChatRequests, Asks

ChatHyps == ChatRows /\ ContextIsOwn /\ SlotsFilled /\ ChatRequests
ChatKept == ChatRows' /\ ContextIsOwn' /\ SlotsFilled' /\ ChatRequests'

LEMMA CountTurnStep ==
    ASSUME ChatHyps, NEW c \in Slots, NEW u \in Askers, NEW asked \in {None} \cup DOMAIN chats,
           CountTurn(c, u, asked)
    PROVE  ChatKept
  <1> USE DEF ChatHyps
  <1>1. /\ UNCHANGED <<chats, history, prompts>> /\ used' = used + 1
        /\ \E op \in {"expire", "refused", "session"} :
              work' = [work EXCEPT ![c] = [op |-> op, u |-> u, asked |-> asked, n |-> used + 1]]
    BY DEF CountTurn, Begin
  <1>2. PICK r : /\ work' = [work EXCEPT ![c] = r]
                 /\ \E op \in {"expire", "refused", "session"} :
                       r = [op |-> op, u |-> u, asked |-> asked, n |-> used + 1]
    BY <1>1
  <1>3. asked \in {None} \cup Nat /\ used + 1 \in Nat /\ used' \in Nat
    BY <1>1 DEF ChatRows, SlotsFilled
  <1>4. Asks(r)
    BY <1>2, <1>3 DEF Asks
  <1>5. ChatRows' /\ SessionsStay
    BY <1>1, RowsStay
  <1>6. SlotsFilled' /\ ChatRequests'
    BY <1>2, <1>3, <1>4, <1>5, ChatMove
  <1> QED
    BY <1>1, <1>5, <1>6 DEF ContextIsOwn, ChatKept

LEMMA SetExpiryStep == ASSUME ChatHyps, NEW c \in Slots, SetExpiry(c) PROVE ChatKept
  <1> USE DEF ChatHyps
  <1>1. /\ UNCHANGED <<chats, history, prompts, used>>
        /\ work' = [work EXCEPT ![c] = [work[c] EXCEPT !.op = "session"]]
    BY DEF SetExpiry, Step
  <1>2. PICK r : r = [work[c] EXCEPT !.op = "session"]
    OBVIOUS
  <1>3. Asks(r)
    BY <1>2, AtSession DEF SetExpiry, Asks
  <1>4. ChatRows' /\ SessionsStay
    BY <1>1, RowsStay
  <1>5. SlotsFilled' /\ ChatRequests'
    BY <1>1, <1>2, <1>3, <1>4, ChatMove DEF SlotsFilled
  <1> QED
    BY <1>1, <1>4, <1>5 DEF ContextIsOwn, ChatKept

LEMMA ChatEnds ==
    ASSUME ChatHyps, NEW c \in Slots, End(c), UNCHANGED <<chats, history, prompts>>
    PROVE  ChatKept
  <1> USE DEF ChatHyps
  <1>1. work' = [work EXCEPT ![c] = None] /\ used' = used
    BY DEF End
  <1>2. ChatRows' /\ SessionsStay
    BY RowsStay
  <1>3. SlotsFilled' /\ ChatRequests'
    BY <1>1, <1>2, ChatMove DEF SlotsFilled
  <1> QED
    BY <1>2, <1>3 DEF ContextIsOwn, ChatKept

\* The session the client names is taken up only when it is the user's own.
LEMMA GetSessionStep == ASSUME ChatHyps, NEW c \in Slots, GetSession(c) PROVE ChatKept
  <1> USE DEF ChatHyps
  <1>1. PICK q : q = work[c]
    OBVIOUS
  <1>2. q.u \in Askers /\ q.n \in Nat
    BY <1>1, AtSession DEF GetSession
  <1>3. PICK r : r = [op |-> "answer", u |-> q.u, n |-> q.n,
                      s |-> IF ~OwnSession(q.u, q.asked) THEN Len(chats) + 1 ELSE q.asked]
    OBVIOUS
  <1>4. work' = [work EXCEPT ![c] = r] /\ used' = used /\ prompts' = prompts
    BY <1>1, <1>3 DEF GetSession, Step
  <1>5. CASE OwnSession(q.u, q.asked)
    <2>1. UNCHANGED <<chats, history>>
      BY <1>1, <1>5 DEF GetSession
    <2>2. ChatRows' /\ SessionsStay
      BY <2>1, RowsStay
    <2>3. r.s = q.asked /\ q.asked \in 1..Len(chats) /\ chats[q.asked].by = q.u
      BY <1>3, <1>5 DEF OwnSession, ChatRows
    <2>4. Owns(r)
      BY <1>2, <1>3, <2>3 DEF Owns
    <2>5. Owns(r)'
      BY <2>2, <2>4, OwnsStays
    <2>6. SlotsFilled' /\ ChatRequests'
      BY <1>4, <2>2, <2>5, ChatMove DEF SlotsFilled
    <2> QED
      BY <1>4, <2>2, <2>6 DEF ContextIsOwn, ChatKept
  <1>6. CASE ~OwnSession(q.u, q.asked)
    <2>1. PICK row : row = [by |-> q.u, open |-> TRUE]
      OBVIOUS
    <2>2. chats' = Append(chats, row) /\ history' = Append(history, <<>>)
      BY <1>1, <1>6, <2>1 DEF GetSession
    <2>3. row \in ChatSessionRow /\ row.by = q.u /\ <<>> \in Seq(Turn)
      BY <1>2, <2>1 DEF ChatSessionRow
    <2>4. /\ chats' \in Seq(ChatSessionRow) /\ Len(chats') = Len(chats) + 1
          /\ chats'[Len(chats) + 1] = row
          /\ \A s \in 1..Len(chats) : chats'[s] = chats[s]
      BY <2>2, <2>3, SeqAppend DEF ChatRows
    <2>5. /\ history' \in Seq(Seq(Turn)) /\ Len(history') = Len(history) + 1
          /\ history'[Len(history) + 1] = <<>>
          /\ \A s \in 1..Len(history) : history'[s] = history[s]
      BY <2>2, <2>3, SeqAppend DEF ChatRows
    <2>6. SessionsStay /\ Len(chats) \in Nat /\ Len(history) = Len(chats)
      BY <2>4 DEF SessionsStay, ChatRows
    <2>7. ASSUME NEW s \in 1..(Len(chats) + 1) PROVE TurnsBy(history'[s], chats'[s].by)
      <3>1. CASE s \in 1..Len(chats)
        BY <2>4, <2>5, <2>6, <3>1 DEF ChatRows
      <3>2. CASE s = Len(chats) + 1
        BY <2>3, <2>4, <2>5, <2>6, <3>2 DEF TurnsBy
      <3> QED
        BY <2>6, <3>1, <3>2
    <2>8. ChatRows'
      BY <2>4, <2>5, <2>6, <2>7 DEF ChatRows, TurnsBy
    <2>9. Owns(r)'
      BY <1>2, <1>3, <1>6, <2>3, <2>4, <2>6 DEF Owns
    <2>10. SlotsFilled' /\ ChatRequests'
      BY <1>4, <2>6, <2>9, ChatMove DEF SlotsFilled
    <2> QED
      BY <1>4, <2>8, <2>10 DEF ContextIsOwn, ChatKept
  <1> QED
    BY <1>5, <1>6

\* The model is shown turns of a session that belongs to the user.
LEMMA AnswerStep == ASSUME ChatHyps, NEW c \in Slots, Answer(c) PROVE ChatKept
  <1> USE DEF ChatHyps
  <1>1. PICK q : q = work[c]
    OBVIOUS
  <1>2. Owns(q)
    BY <1>1, AtAnswer DEF Answer
  <1>3. PICK r : r = [op |-> "get", u |-> q.u, n |-> q.n, s |-> q.s]
    OBVIOUS
  <1>4. /\ work' = [work EXCEPT ![c] = r] /\ used' = used /\ UNCHANGED <<chats, history>>
        /\ prompts' = prompts \cup {<<q.u, Latest(history[q.s])>>}
    BY <1>1, <1>3 DEF Answer, Step
  <1>5. ChatRows' /\ SessionsStay
    BY <1>4, RowsStay
  <1>6. Owns(r)
    BY <1>2, <1>3 DEF Owns
  <1>7. Owns(r)'
    BY <1>5, <1>6, OwnsStays
  <1>8. SlotsFilled' /\ ChatRequests'
    BY <1>4, <1>5, <1>7, ChatMove DEF SlotsFilled
  <1>9. TurnsBy(history[q.s], q.u)
    BY <1>2 DEF ChatRows, Owns
  <1>10. TurnsBy(Latest(history[q.s]), q.u)
    BY <1>9, LatestBy
  <1>11. ASSUME NEW p \in prompts', NEW i \in DOMAIN p[2] PROVE p[2][i].by = p[1]
    <2>1. CASE p \in prompts
      BY <1>11, <2>1 DEF ContextIsOwn
    <2>2. CASE p = <<q.u, Latest(history[q.s])>>
      BY <1>10, <1>11, <2>2 DEF TurnsBy
    <2> QED
      BY <1>4, <2>1, <2>2
  <1> QED
    BY <1>5, <1>8, <1>11 DEF ContextIsOwn, ChatKept

LEMMA GetTurnsStep == ASSUME ChatHyps, NEW c \in Slots, GetTurns(c) PROVE ChatKept
  <1> USE DEF ChatHyps
  <1>1. PICK q : q = work[c]
    OBVIOUS
  <1>2. Owns(q)
    BY <1>1, AtAnswer DEF GetTurns
  <1>3. PICK r : r = [op |-> "set", u |-> q.u, n |-> q.n, s |-> q.s, turns |-> history[q.s]]
    OBVIOUS
  <1>4. work' = [work EXCEPT ![c] = r] /\ used' = used /\ UNCHANGED <<chats, history, prompts>>
    BY <1>1, <1>3 DEF GetTurns, Step, chatbotVars
  <1>5. ChatRows' /\ SessionsStay
    BY <1>4, RowsStay
  <1>6. Owns(r)
    BY <1>2, <1>3 DEF Owns, ChatRows
  <1>7. Owns(r)'
    BY <1>5, <1>6, OwnsStays
  <1>8. SlotsFilled' /\ ChatRequests'
    BY <1>4, <1>5, <1>7, ChatMove DEF SlotsFilled
  <1> QED
    BY <1>4, <1>5, <1>8 DEF ContextIsOwn, ChatKept

\* The list that is written back was read in the same session, however many
\* turns were added in between.
LEMMA SaveTurnStep == ASSUME ChatHyps, NEW c \in Slots, SaveTurn(c) PROVE ChatKept
  <1> USE DEF ChatHyps
  <1>1. PICK q : q = work[c]
    OBVIOUS
  <1>2. Owns(q) /\ q.op = "set"
    BY <1>1, AtAnswer DEF SaveTurn, Doing
  <1>3. PICK t : t = [by |-> q.u, n |-> q.n]
    OBVIOUS
  <1>4. PICK new : new = Latest(Append(q.turns, t))
    OBVIOUS
  <1>5. /\ work' = [work EXCEPT ![c] = None] /\ UNCHANGED <<used, chats, prompts>>
        /\ history' = [history EXCEPT ![q.s] = new]
    BY <1>1, <1>3, <1>4 DEF SaveTurn, End
  <1>6. t \in Turn /\ t.by = q.u
    BY <1>2, <1>3 DEF Owns, Turn
  <1>7. TurnsBy(new, q.u)
    BY <1>2, <1>4, <1>6, AppendBy, LatestBy DEF Owns
  <1>8. new \in Seq(Turn) /\ q.s \in 1..Len(history) /\ chats[q.s].by = q.u
    BY <1>2, <1>7 DEF TurnsBy, Owns, ChatRows
  <1>9. /\ history' \in Seq(Seq(Turn)) /\ Len(history') = Len(history)
        /\ \A s \in 1..Len(history) : history'[s] = IF s = q.s THEN new ELSE history[s]
    BY <1>5, <1>8, SeqExcept DEF ChatRows
  <1>10. ASSUME NEW s \in 1..Len(chats) PROVE TurnsBy(history'[s], chats[s].by)
    BY <1>7, <1>8, <1>9 DEF ChatRows
  <1>11. ChatRows'
    <2>1. \A i \in 1..Len(chats') : TurnsBy(history'[i], chats'[i].by)
      BY <1>5, <1>10
    <2>2. /\ chats' \in Seq(ChatSessionRow) /\ history' \in Seq(Seq(Turn))
          /\ Len(history') = Len(chats')
      BY <1>5, <1>9 DEF ChatRows
    <2> QED
      BY <2>1, <2>2 DEF ChatRows, TurnsBy
  <1>12. SessionsStay
    BY <1>5 DEF ChatRows, SessionsStay
  <1>13. SlotsFilled' /\ ChatRequests'
    BY <1>5, <1>12, ChatMove DEF SlotsFilled
  <1> QED
    BY <1>5, <1>11, <1>13 DEF ContextIsOwn, ChatKept

LEMMA SessionEndsStep == ASSUME ChatHyps, NEW s \in DOMAIN chats, SessionEnds(s) PROVE ChatKept
  <1> USE DEF ChatHyps
  <1>1. s \in 1..Len(chats) /\ chats \in Seq(ChatSessionRow)
    BY DEF ChatRows
  <1>2. PICK row : row = [chats[s] EXCEPT !.open = FALSE]
    OBVIOUS
  <1>3. row \in ChatSessionRow /\ row.by = chats[s].by
    <2>1. chats[s] \in ChatSessionRow
      BY <1>1
    <2> QED
      BY <1>2, <2>1 DEF ChatSessionRow
  <1>4. chats' = [chats EXCEPT ![s] = row] /\ UNCHANGED <<work, used, history, prompts>>
    BY <1>2 DEF SessionEnds, slotVars
  <1>5. /\ chats' \in Seq(ChatSessionRow) /\ Len(chats') = Len(chats)
        /\ \A i \in 1..Len(chats) : chats'[i] = IF i = s THEN row ELSE chats[i]
    BY <1>1, <1>3, <1>4, SeqExcept
  <1>6. \A i \in 1..Len(chats) : chats'[i].by = chats[i].by
    BY <1>3, <1>5
  <1>7. ChatRows' /\ SessionsStay
    BY <1>4, <1>5, <1>6 DEF ChatRows, SessionsStay, TurnsBy
  <1>8. ASSUME NEW CONSTANT d \in Slots, work[d] # None PROVE Asks(work[d]) \/ Owns(work[d])'
    <2>1. PICK q : q = work[d]
      OBVIOUS
    <2>2. Asks(q) \/ Owns(q)'
      BY <1>7, <1>8, <2>1, OwnsStays DEF ChatRequests
    <2> QED
      BY <1>4, <2>1, <2>2 DEF Owns
  <1>9. ChatRequests'
    BY <1>4, <1>8 DEF ChatRequests, Asks, Owns
  <1> QED
    BY <1>4, <1>7, <1>9 DEF ContextIsOwn, SlotsFilled, ChatKept

LEMMA ChatbotStep == ASSUME ChatHyps, ChatbotNext PROVE ChatKept
  <1>1. ASSUME NEW c \in Slots, NEW u \in Askers, NEW asked \in {None} \cup DOMAIN chats,
               CountTurn(c, u, asked)
        PROVE  ChatKept
    BY <1>1, CountTurnStep
  <1>2. ASSUME NEW c \in Slots,
               SetExpiry(c) \/ GetSession(c) \/ Answer(c) \/ GetTurns(c) \/ SaveTurn(c)
        PROVE  ChatKept
    BY <1>2, SetExpiryStep, GetSessionStep, AnswerStep, GetTurnsStep, SaveTurnStep
  <1>3. ASSUME NEW c \in Slots, Refuse(c) \/ RequestDies(c) \/ HandOff(c) PROVE ChatKept
    BY <1>3, ChatEnds DEF Refuse, RequestDies, HandOff, chatbotVars
  <1>4. ASSUME NEW u \in Askers, WindowEnds(u) PROVE ChatKept
    <2>1. UNCHANGED <<work, used, chats, history, prompts>>
      BY <1>4 DEF WindowEnds, slotVars
    <2> QED
      BY <2>1 DEF ChatHyps, ChatKept, ChatRows, TurnsBy, ContextIsOwn, SlotsFilled,
                  ChatRequests, Asks, Owns
  <1>5. ASSUME NEW s \in DOMAIN chats, SessionEnds(s) PROVE ChatKept
    BY <1>5, SessionEndsStep
  <1> QED
    BY <1>1, <1>2, <1>3, <1>4, <1>5 DEF ChatbotNext

-----------------------------------------------------------------------------
(* Notifications keep their tasks, and a nudge its key.                     *)

\* Events and tasks are only added, and keep what they are about.
EventsStay == /\ events' \in Seq(EventRow) /\ Len(events) <= Len(events')
              /\ Len(events') <= MaxEvents
              /\ \A e \in 1..Len(events) : /\ events'[e].kind = events[e].kind
                                           /\ events'[e].to = events[e].to
TasksStay  == /\ msgs' \in Seq(MsgRow) /\ Len(msgs) <= Len(msgs')
              /\ \A m \in 1..Len(msgs) : KeyOf(m)' = KeyOf(m)

LEMMA KeyParts ==
    ASSUME NotifyRows, EventsStay, TasksStay
    PROVE  /\ \A m \in 1..Len(msgs) : /\ msgs'[m].event = msgs[m].event
                                      /\ msgs'[m].to = msgs[m].to
           /\ \A e \in 1..Len(events) : Nudge(e)' = Nudge(e) /\ Routed(e)' = Routed(e)
           /\ \A m \in 1..Len(msgs) : NudgeOf(m)' = NudgeOf(m)
  <1>1. ASSUME NEW m \in 1..Len(msgs)
        PROVE  msgs'[m].event = msgs[m].event /\ msgs'[m].to = msgs[m].to
    BY DEF TasksStay, KeyOf
  <1>2. ASSUME NEW e \in 1..Len(events) PROVE Nudge(e)' = Nudge(e) /\ Routed(e)' = Routed(e)
    BY DEF EventsStay, Nudge, Routed
  <1>3. ASSUME NEW m \in 1..Len(msgs) PROVE NudgeOf(m)' = NudgeOf(m)
    <2>1. msgs[m].event \in 1..Len(events)
      BY DEF NotifyRows
    <2> QED
      BY <1>1, <1>2, <2>1 DEF NudgeOf
  <1> QED
    BY <1>1, <1>2, <1>3

\* A function on 1..n is a sequence of length n.
LEMMA IsSeqFun ==
    ASSUME NEW n \in Nat, NEW s, s = [i \in 1..n |-> s[i]]
    PROVE  IsSeq(s) /\ Len(s) = n
  <1>1. PICK S : S = {s[i] : i \in 1..n}
    OBVIOUS
  <1>2. s \in [1..n -> S]
    BY <1>1
  <1>3. Len(s) = n
    BY <1>2, FunIsSeq
  <1> QED
    BY <1>3 DEF IsSeq

LEMMA IsSeqAppend ==
    ASSUME NEW s, IsSeq(s), NEW x
    PROVE  /\ IsSeq(Append(s, x)) /\ Len(Append(s, x)) = Len(s) + 1 /\ Append(s, x)[Len(s) + 1] = x
           /\ \A i \in 1..Len(s) : Append(s, x)[i] = s[i]
  <1>1. PICK S : S = {s[i] : i \in 1..Len(s)} \cup {x}
    OBVIOUS
  <1>2. s \in [1..Len(s) -> S] /\ Len(s) \in Nat /\ x \in S
    BY <1>1 DEF IsSeq
  <1>3. s \in Seq(S)
    BY <1>2, FunIsSeq
  <1>4. PICK t : t = Append(s, x)
    OBVIOUS
  <1>5. /\ t \in Seq(S) /\ Len(t) = Len(s) + 1 /\ t[Len(s) + 1] = x
        /\ \A i \in 1..Len(s) : t[i] = s[i]
    BY <1>2, <1>3, <1>4, SeqAppend
  <1>6. t = [i \in 1..Len(t) |-> t[i]] /\ Len(t) \in Nat
    BY <1>5
  <1> QED
    BY <1>4, <1>5, <1>6 DEF IsSeq

LEMMA IsSeqConcat ==
    ASSUME NEW s, IsSeq(s), NEW t, IsSeq(t)
    PROVE  /\ IsSeq(s \o t) /\ Len(s \o t) = Len(s) + Len(t)
           /\ \A i \in 1..Len(s) : (s \o t)[i] = s[i]
           /\ \A i \in 1..Len(t) : (s \o t)[Len(s) + i] = t[i]
  <1>1. PICK S : S = {s[i] : i \in 1..Len(s)} \cup {t[i] : i \in 1..Len(t)}
    OBVIOUS
  <1>2. s \in [1..Len(s) -> S] /\ Len(s) \in Nat /\ t \in [1..Len(t) -> S] /\ Len(t) \in Nat
    BY <1>1 DEF IsSeq
  <1>3. s \in Seq(S) /\ t \in Seq(S)
    BY <1>2, FunIsSeq
  <1>4. PICK st : st = s \o t
    OBVIOUS
  <1>5. st \in Seq(S) /\ Len(st) = Len(s) + Len(t)
    BY <1>3, <1>4, SeqConcat
  <1>6. /\ \A i \in 1..Len(s) : st[i] = s[i]
        /\ \A i \in 1..Len(t) : st[Len(s) + i] = t[i]
    BY <1>3, <1>4, SeqConcat
  <1>7. st = [i \in 1..Len(st) |-> st[i]] /\ Len(st) \in Nat
    BY <1>5
  <1> QED
    BY <1>4, <1>5, <1>6, <1>7 DEF IsSeq

LEMMA UnguardedStays ==
    ASSUME NotifyRows, EventsStay, NEW e \in 1..Len(events)
    PROVE  Unguarded(e)' <=> Unguarded(e)
  BY DEF EventsStay, Unguarded, Routed

\* Rows stay, and a task that ends leaves one or has used up its retries.
NotifsStay == /\ IsSeq(notifs') /\ Len(notifs) <= Len(notifs')
              /\ \A n \in 1..Len(notifs) : /\ notifs'[n].event = notifs[n].event
                                            /\ notifs'[n].to = notifs[n].to

LEMMA StaysInformed ==
    ASSUME NotifyRows, Informed, EventsStay, TasksStay, NotifsStay,
           \A m \in 1..Len(msgs') : msgs'[m].state = "done" /\ Unguarded(msgs[m].event)' =>
               \/ m \in 1..Len(msgs) /\ msgs[m].state = "done" /\ msgs'[m].tries = msgs[m].tries
               \/ msgs'[m].tries > MaxRetries
               \/ Notified(msgs[m].event, msgs[m].to)'
    PROVE  Informed'
  <1> SUFFICES ASSUME NEW CONSTANT m \in 1..Len(msgs'), msgs'[m].state = "done",
                      Unguarded(msgs[m].event)'
               PROVE  msgs'[m].tries > MaxRetries \/ Notified(msgs[m].event, msgs[m].to)'
    BY DEF Informed, NotifsStay
  <1>1. CASE m \in 1..Len(msgs) /\ msgs[m].state = "done" /\ msgs'[m].tries = msgs[m].tries
    <2>1. PICK e, u : e \in 1..Len(events) /\ e = msgs[m].event /\ u = msgs[m].to
      BY <1>1 DEF NotifyRows
    <2>2. msgs'[m].event = e /\ msgs'[m].to = u
      BY <1>1, <2>1, KeyParts
    <2>3. Unguarded(msgs[m].event)
      BY <2>1, <2>2, UnguardedStays DEF Unguarded, Routed
    <2>4. msgs[m].tries > MaxRetries \/ Notified(e, u)
      BY <1>1, <2>1, <2>3 DEF Informed
    <2>5. ASSUME Notified(e, u) PROVE \E n \in 1..Len(notifs') : notifs'[n].event = e /\ notifs'[n].to = u
      BY <2>5 DEF Notified, NotifsStay, Informed, IsSeq
    <2> QED
      BY <1>1, <2>2, <2>4, <2>5 DEF Notified
  <1> QED
    BY <1>1

\* What is acknowledged stays handed on.
LEMMA StaysHandedOn ==
    ASSUME NotifyRows, HandedOn, EventsStay, TasksStay,
           \A e \in 1..Len(events') : events'[e].acked /\ Routed(e)' =>
               (e \in 1..Len(events) /\ events[e].acked) \/ HasTasks(e)'
    PROVE  HandedOn'
  <1> SUFFICES ASSUME NEW CONSTANT e \in 1..Len(events'), events'[e].acked, Routed(e)'
               PROVE  HasTasks(e)'
    BY DEF HandedOn
  <1>1. CASE e \in 1..Len(events) /\ events[e].acked
    <2>1. Routed(e) /\ events'[e].to = events[e].to
      BY <1>1, KeyParts DEF EventsStay
    <2>2. ASSUME NEW CONSTANT i \in 1..Len(events[e].to)
          PROVE  \E m \in 1..Len(msgs') : msgs'[m].event = e /\ msgs'[m].to = events[e].to[i]
      <3>1. PICK m \in 1..Len(msgs) : msgs[m].event = e /\ msgs[m].to = events[e].to[i]
        <4>1. HasTasks(e)
          BY <1>1, <2>1 DEF HandedOn
        <4> QED
          BY <4>1 DEF HasTasks, HasTask
      <3>2. msgs'[m].event = e /\ msgs'[m].to = events[e].to[i]
        BY <3>1, KeyParts
      <3>3. m \in 1..Len(msgs')
        BY DEF TasksStay, NotifyRows
      <3> QED
        BY <3>2, <3>3
    <2> QED
      BY <2>1, <2>2 DEF HasTasks, HasTask
  <1> QED
    BY <1>1

\* A step that takes no task and pushes nothing, and lets no nudge's key go.
LEMMA NudgesStay ==
    ASSUME NotifyRows, PushedUnderKey, TakenHasKey, EventsStay, TasksStay, pushes' = pushes,
           \A m \in 1..Len(msgs') : msgs'[m].state = "taken" =>
               m \in 1..Len(msgs) /\ msgs[m].state = "taken",
           \A e \in 1..Len(events), u \in Users :
               Nudge(e) /\ <<e, u>> \in guards => <<e, u>> \in guards'
    PROVE  PushedUnderKey' /\ TakenHasKey'
  <1>1. ASSUME NEW CONSTANT e \in 1..MaxEvents, NEW CONSTANT u \in Users,
               NEW CONSTANT p \in Phones, pushes[e][u][p] # 0
        PROVE  /\ e <= Len(events')
               /\ Nudge(e)' => /\ pushes[e][u][p] = 1 /\ <<e, u>> \in guards'
                               /\ \A m \in 1..Len(msgs') :
                                     msgs'[m].state = "taken" => KeyOf(m)' # <<e, u>>
    <2>1. e \in 1..Len(events) /\ e <= Len(events')
      <3>1. e <= Len(events)
        BY <1>1 DEF PushedUnderKey
      <3>2. Len(events) \in Nat /\ Len(events') \in Nat /\ Len(events) <= Len(events')
        BY DEF EventsStay, NotifyRows
      <3>3. MaxEvents \in Nat
        BY NotifyAssumption
      <3> QED
        BY <3>1, <3>2, <3>3
    <2>2. CASE Nudge(e)'
      <3>1. Nudge(e)
        BY <2>1, <2>2, KeyParts
      <3>2. /\ pushes[e][u][p] = 1 /\ <<e, u>> \in guards
            /\ \A m \in 1..Len(msgs) : msgs[m].state = "taken" => KeyOf(m) # <<e, u>>
        BY <1>1, <3>1 DEF PushedUnderKey
      <3>3. <<e, u>> \in guards'
        BY <2>1, <3>1, <3>2
      <3>4. ASSUME NEW CONSTANT m \in 1..Len(msgs'), msgs'[m].state = "taken"
            PROVE  KeyOf(m)' # <<e, u>>
        <4>1. m \in 1..Len(msgs) /\ msgs[m].state = "taken"
          BY <3>4
        <4>2. KeyOf(m)' = KeyOf(m)
          BY <4>1 DEF TasksStay
        <4> QED
          BY <3>2, <4>1, <4>2
      <3> QED
        BY <2>1, <3>2, <3>3, <3>4
    <2> QED
      BY <2>1, <2>2
  <1>2. ASSUME NEW CONSTANT m \in 1..Len(msgs'), msgs'[m].state = "taken", NudgeOf(m)'
        PROVE  /\ KeyOf(m)' \in guards'
               /\ \A n \in 1..Len(msgs') : msgs'[n].state = "taken" /\ KeyOf(n)' = KeyOf(m)'
                                               => n = m
    <2>1. m \in 1..Len(msgs) /\ msgs[m].state = "taken"
      BY <1>2
    <2>2. KeyOf(m)' = KeyOf(m) /\ NudgeOf(m)
      BY <1>2, <2>1, KeyParts DEF TasksStay
    <2>3. KeyOf(m) \in guards
      BY <2>1, <2>2 DEF TakenHasKey
    <2>4. msgs[m].event \in 1..Len(events) /\ msgs[m].to \in Users
      <3>1. msgs[m] \in MsgRow
        BY <2>1 DEF NotifyRows
      <3> QED
        BY <2>1, <3>1 DEF NotifyRows, MsgRow
    <2>5. KeyOf(m) \in guards'
      BY <2>2, <2>3, <2>4 DEF KeyOf, NudgeOf
    <2>6. ASSUME NEW CONSTANT n \in 1..Len(msgs'), msgs'[n].state = "taken",
                 KeyOf(n)' = KeyOf(m)'
          PROVE  n = m
      <3>1. n \in 1..Len(msgs) /\ msgs[n].state = "taken"
        BY <2>6
      <3>2. KeyOf(n) = KeyOf(m)
        BY <2>2, <2>6, <3>1 DEF TasksStay
      <3> QED
        BY <2>1, <2>2, <3>1, <3>2 DEF TakenHasKey
    <2> QED
      BY <2>2, <2>5, <2>6
  <1> QED
    BY <1>1, <1>2 DEF PushedUnderKey, TakenHasKey

\* Workers that are not concerned keep the tasks they have in hand.
LEMMA HandsStay ==
    ASSUME NotifyRows, SlotsFilled, NotifyRequests, TasksStay, UNCHANGED work, used' \in Nat,
           \A m \in 1..Len(msgs) : msgs[m].state = "taken" => msgs'[m].state = "taken"
    PROVE  SlotsFilled' /\ NotifyRequests'
  BY DEF NotifyRows, SlotsFilled, NotifyRequests, TasksStay

NotifyHyps == /\ NotifyRows /\ HandedOn /\ Informed /\ PushedUnderKey /\ TakenHasKey
              /\ SlotsFilled /\ NotifyRequests
NotifyKept == /\ NotifyRows' /\ HandedOn' /\ Informed' /\ PushedUnderKey' /\ TakenHasKey'
              /\ SlotsFilled' /\ NotifyRequests'

\* Settings, marks and everything else that is about neither events nor tasks.
LEMMA NotifyIdle ==
    ASSUME NotifyHyps, UNCHANGED <<events, msgs, guards, pushes, work>>, used' \in Nat, NotifsStay
    PROVE  NotifyKept
  <1>1. EventsStay /\ TasksStay
    BY DEF NotifyHyps, EventsStay, TasksStay, KeyOf, NotifyRows
  <1>2. Informed'
    BY <1>1, StaysInformed DEF NotifyHyps
  <1> QED
    BY <1>2 DEF NotifyHyps, NotifyKept, NotifyRows, HandedOn, HasTasks, HasTask, Routed,
                PushedUnderKey, Nudge, KeyOf, TakenHasKey, NudgeOf, SlotsFilled, NotifyRequests

LEMMA SettingsStep ==
    ASSUME NotifyHyps, SettingsNext, UNCHANGED <<events, msgs, guards, notifs, pushes, faults>>
    PROVE  NotifyKept
  <1>1. Change
    BY DEF SettingsNext, Choose, Unsubscribe, Register, Deregister, EndpointDies
  <1>2. UNCHANGED work /\ used' \in Nat
    BY <1>1 DEF Change, AtOnce, NotifyHyps, SlotsFilled
  <1>3. NotifsStay
    BY DEF NotifsStay, NotifyHyps, Informed, IsSeq
  <1> QED
    BY <1>2, <1>3, NotifyIdle

LEMMA MarkReadStep == ASSUME NotifyHyps, NEW ns, MarkRead(ns) PROVE NotifyKept
  <1>1. UNCHANGED <<events, msgs, guards, pushes, work>> /\ used' \in Nat
    BY DEF MarkRead, Change, AtOnce, NotifyHyps, SlotsFilled
  <1>2. IsSeq(notifs)
    BY DEF NotifyHyps, Informed
  <1>3. DOMAIN notifs = 1..Len(notifs) /\ Len(notifs) \in Nat
    BY <1>2 DEF IsSeq
  <1>4. notifs' = [n \in 1..Len(notifs) |->
                     IF n \in ns THEN [notifs[n] EXCEPT !.read = TRUE] ELSE notifs[n]]
    BY <1>3 DEF MarkRead
  <1>5. IsSeq(notifs') /\ Len(notifs') = Len(notifs)
    BY <1>3, <1>4, IsSeqFun
  <1>6. NotifsStay
    BY <1>3, <1>4, <1>5 DEF NotifsStay
  <1> QED
    BY <1>1, <1>6, NotifyIdle

LEMMA PublishStep ==
    ASSUME NotifyHyps, NEW kind \in Kinds, NEW to \in [1..1 -> Users] \cup [1..2 -> Users],
           Publish(kind, to)
    PROVE  NotifyKept
  <1> USE DEF NotifyHyps
  <1>1. PICK row : row = [kind |-> kind, to |-> to, acked |-> FALSE, seen |-> 0]
    OBVIOUS
  <1>2. /\ Len(events) < MaxEvents /\ events' = Append(events, row)
        /\ UNCHANGED <<work, used, msgs, guards, pushes>>
    BY <1>1 DEF Publish, slotVars
  <1>3. to \in Seq(Users)
    <2>1. CASE to \in [1..1 -> Users]
      BY <2>1, FunIsSeq, 1 \in Nat
    <2>2. CASE to \in [1..2 -> Users]
      BY <2>2, FunIsSeq, 2 \in Nat
    <2> QED
      BY <2>1, <2>2
  <1>4. row \in EventRow /\ row.acked = FALSE
    BY <1>1, <1>3 DEF EventRow
  <1>5. events \in Seq(EventRow) /\ Len(events) \in Nat /\ MaxEvents \in Nat
    BY NotifyAssumption DEF NotifyRows
  <1>6. /\ events' \in Seq(EventRow) /\ Len(events') = Len(events) + 1
        /\ events'[Len(events) + 1] = row
        /\ \A e \in 1..Len(events) : events'[e] = events[e]
    BY <1>2, <1>4, <1>5, SeqAppend
  <1>7. EventsStay /\ TasksStay
    BY <1>2, <1>5, <1>6 DEF EventsStay, TasksStay, KeyOf, NotifyRows
  <1>8. NotifyRows'
    BY <1>2, <1>5, <1>6 DEF NotifyRows
  <1>9. ASSUME NEW e \in 1..Len(events'), events'[e].acked
        PROVE  e \in 1..Len(events) /\ events[e].acked
    BY <1>4, <1>5, <1>6, <1>9
  <1>10. HandedOn'
    BY <1>7, <1>9, StaysHandedOn
  <1>11. PushedUnderKey' /\ TakenHasKey'
    BY <1>2, <1>7, NudgesStay
  <1>12. SlotsFilled' /\ NotifyRequests'
    BY <1>2, <1>7, HandsStay DEF SlotsFilled
  <1>13. Informed'
    <2>1. NotifsStay
      BY DEF Publish, NotifsStay, Informed, IsSeq
    <2> QED
      BY <1>2, <1>7, <2>1, StaysInformed
  <1> QED
    BY <1>8, <1>10, <1>11, <1>12, <1>13 DEF NotifyKept

\* A delivery changes one event, and what it is about stays.
LEMMA Delivered ==
    ASSUME NotifyRows, NEW e \in 1..Len(events), NEW ack \in BOOLEAN,
           events' = [events EXCEPT ![e].acked = ack, ![e].seen = @ + 1]
    PROVE  /\ EventsStay /\ Len(events') = Len(events)
           /\ events'[e].acked = ack
           /\ \A d \in 1..Len(events) \ {e} : events'[d] = events[d]
  <1>1. PICK row : row = [events[e] EXCEPT !.acked = ack, !.seen = @ + 1]
    OBVIOUS
  <1>2. events \in Seq(EventRow) /\ events[e] \in EventRow /\ Len(events) <= MaxEvents
    BY DEF NotifyRows
  <1>3. /\ row \in EventRow /\ row.acked = ack
        /\ row.kind = events[e].kind /\ row.to = events[e].to
    <2>1. PICK old \in EventRow : old = events[e]
      BY <1>2
    <2>2. row = [kind |-> old.kind, to |-> old.to, acked |-> ack, seen |-> old.seen + 1]
      BY <1>1, <2>1 DEF EventRow
    <2> QED
      BY <2>1, <2>2 DEF EventRow
  <1>4. events' = [events EXCEPT ![e] = row]
    BY <1>1
  <1>5. /\ events' \in Seq(EventRow) /\ Len(events') = Len(events)
        /\ \A d \in 1..Len(events) : events'[d] = IF d = e THEN row ELSE events[d]
    <2>1. events \in Seq(EventRow) /\ row \in EventRow
      BY <1>2, <1>3
    <2>2. events' \in Seq(EventRow)
      BY <1>4, <2>1, SeqExcept
    <2>3. Len(events') = Len(events)
      BY <1>4, <2>1, SeqExcept
    <2>4. ASSUME NEW d \in 1..Len(events)
          PROVE  events'[d] = IF d = e THEN row ELSE events[d]
      <3>1. [events EXCEPT ![e] = row][d] = IF d = e THEN row ELSE events[d]
        BY <2>1, SeqExcept
      <3> QED
        BY <1>4, <3>1
    <2> QED
      BY <2>2, <2>3, <2>4
  <1> QED
    BY <1>2, <1>3, <1>5 DEF EventsStay

\* The tasks are queued before the event is acknowledged.
LEMMA ConsumeStep ==
    ASSUME NotifyHyps, NEW e \in 1..Len(events), NEW queued \in Nat, Consume(e, queued)
    PROVE  NotifyKept
  <1> USE DEF NotifyHyps
  <1>1. PICK more : more = [i \in 1..queued |->
                  [event |-> e, to |-> events[e].to[i], state |-> "queued", tries |-> 0]]
    OBVIOUS
  <1>2. PICK ack \in BOOLEAN : /\ ack => AckedAfter(events[e], queued)
                               /\ events' = [events EXCEPT ![e].acked = ack, ![e].seen = @ + 1]
    BY DEF Consume
  <1>3. /\ queued \in 0..Len(events[e].to) /\ msgs' = msgs \o more
        /\ UNCHANGED <<work, used, guards, pushes>>
    BY <1>1 DEF Consume, slotVars
  <1>4. /\ EventsStay /\ Len(events') = Len(events) /\ events'[e].acked = ack
        /\ \A d \in 1..Len(events) \ {e} : events'[d] = events[d]
    BY <1>2, Delivered
  <1>5. events[e] \in EventRow /\ events[e].to \in Seq(Users)
    <2>1. events[e] \in EventRow
      BY DEF NotifyRows
    <2> QED
      BY <2>1 DEF EventRow
  <1>6. \A i \in 1..queued : events[e].to[i] \in Users
    BY <1>3, <1>5
  <1>7. more \in Seq(MsgRow) /\ Len(more) = queued
    <2>1. \A i \in 1..queued : more[i] \in MsgRow
      BY SMTT(20), <1>1, <1>6 DEF MsgRow
    <2>2. more \in [1..queued -> MsgRow]
      BY <1>1, <2>1
    <2> QED
      BY <2>2
  <1>8. /\ msgs' \in Seq(MsgRow) /\ Len(msgs') = Len(msgs) + queued
        /\ \A m \in 1..Len(msgs) : msgs'[m] = msgs[m]
        /\ \A i \in 1..queued : msgs'[Len(msgs) + i] = more[i]
    <2>1. msgs \in Seq(MsgRow) /\ more \in Seq(MsgRow) /\ msgs' = msgs \o more
      BY <1>3, <1>7 DEF NotifyRows
    <2>2. msgs' \in Seq(MsgRow) /\ Len(msgs') = Len(msgs) + Len(more)
      BY <2>1, SeqConcat
    <2>3. \A m \in 1..Len(msgs) : msgs'[m] = msgs[m]
      BY <2>1, SeqConcat
    <2>4. \A i \in 1..Len(more) : msgs'[Len(msgs) + i] = more[i]
      BY <2>1, SeqConcat
    <2> QED
      BY <1>7, <2>2, <2>3, <2>4
  <1>9. Len(msgs) \in Nat
    BY DEF NotifyRows
  <1>10. ASSUME NEW m \in 1..Len(msgs'), m \notin 1..Len(msgs)
         PROVE  msgs'[m].state = "queued" /\ msgs'[m].event = e
    <2>1. PICK i \in 1..queued : m = Len(msgs) + i
      <3>1. m - Len(msgs) \in 1..queued /\ m = Len(msgs) + (m - Len(msgs))
        BY <1>8, <1>9, <1>10
      <3> QED
        BY <3>1
    <2>2. msgs'[m] = more[i]
      BY <1>8, <2>1
    <2> QED
      BY <1>1, <2>2
  <1>11. TasksStay
    BY <1>8, <1>9 DEF TasksStay, KeyOf
  <1>12. \A m \in 1..Len(msgs') : msgs'[m].event \in 1..Len(events)
    BY <1>8, <1>10 DEF NotifyRows
  <1>13. NotifyRows'
    BY <1>3, <1>4, <1>8, <1>12 DEF NotifyRows, EventsStay
  <1>14. ASSUME ack PROVE HasTasks(e)'
    <2>1. queued = Len(events[e].to) /\ events'[e].to = events[e].to
      BY <1>2, <1>4, <1>14 DEF AckedAfter, EventsStay
    <2>2. ASSUME NEW i \in 1..queued
          PROVE  \E m \in 1..Len(msgs') : msgs'[m].event = e /\ msgs'[m].to = events[e].to[i]
      <3>1. Len(msgs) + i \in 1..Len(msgs')
        BY <1>8, <1>9
      <3>2. msgs'[Len(msgs) + i].event = e /\ msgs'[Len(msgs) + i].to = events[e].to[i]
        BY <1>1, <1>8
      <3> QED
        BY <3>1, <3>2
    <2> QED
      BY <2>1, <2>2 DEF HasTasks, HasTask
  <1>15. HandedOn'
    <2>1. ASSUME NEW d \in 1..Len(events'), events'[d].acked
          PROVE  (d \in 1..Len(events) /\ events[d].acked) \/ HasTasks(d)'
      BY <1>4, <1>14, <2>1
    <2> QED
      BY <1>4, <1>11, <2>1, StaysHandedOn
  <1>16. \A m \in 1..Len(msgs') : msgs'[m].state = "taken" =>
             m \in 1..Len(msgs) /\ msgs[m].state = "taken"
    BY <1>8, <1>10
  <1>17. PushedUnderKey' /\ TakenHasKey'
    BY <1>3, <1>4, <1>11, <1>16, NudgesStay
  <1>18. SlotsFilled' /\ NotifyRequests'
    BY <1>3, <1>8, <1>11, HandsStay DEF SlotsFilled
  <1>19. Informed'
    <2>1. NotifsStay
      BY DEF Consume, NotifsStay, Informed, IsSeq
    <2>2. ASSUME NEW CONSTANT m \in 1..Len(msgs'), msgs'[m].state = "done"
          PROVE  m \in 1..Len(msgs) /\ msgs[m].state = "done" /\ msgs'[m].tries = msgs[m].tries
      BY <1>8, <1>10, <2>2
    <2> QED
      BY <1>4, <1>11, <2>1, <2>2, StaysInformed
  <1> QED
    BY <1>13, <1>15, <1>17, <1>18, <1>19 DEF NotifyKept

LEMMA ConsumeCreatedStep ==
    ASSUME NotifyHyps, NEW e \in 1..Len(events), ConsumeCreated(e)
    PROVE  NotifyKept
  <1> USE DEF NotifyHyps
  <1>1. PICK ack \in BOOLEAN : events' = [events EXCEPT ![e].acked = ack, ![e].seen = @ + 1]
    BY DEF ConsumeCreated
  <1>2. UNCHANGED <<work, used, msgs, guards, pushes>> /\ events[e].kind = "user.created"
    BY DEF ConsumeCreated, slotVars
  <1>3. /\ EventsStay /\ Len(events') = Len(events)
        /\ \A d \in 1..Len(events) \ {e} : events'[d] = events[d]
    BY <1>1, Delivered
  <1>4. TasksStay
    BY <1>2 DEF TasksStay, KeyOf, NotifyRows
  <1>5. NotifyRows'
    BY <1>2, <1>3 DEF NotifyRows, EventsStay
  <1>6. ~Routed(e)'
    <2>1. events[e].kind \in Kinds
      <3>1. events[e] \in EventRow
        BY DEF NotifyRows
      <3> QED
        BY <3>1 DEF EventRow
    <2>2. Route["user.created"] = None
      BY <1>2, <2>1 DEF Route
    <2>3. events'[e].kind = "user.created"
      BY <1>2, <1>3 DEF EventsStay
    <2> QED
      BY <2>2, <2>3 DEF Routed
  <1>7. ASSUME NEW d \in 1..Len(events'), events'[d].acked, Routed(d)'
        PROVE  d \in 1..Len(events) /\ events[d].acked
    BY <1>3, <1>6, <1>7
  <1>8. HandedOn'
    BY <1>3, <1>4, <1>7, StaysHandedOn
  <1>9. PushedUnderKey' /\ TakenHasKey'
    BY <1>2, <1>3, <1>4, NudgesStay
  <1>10. SlotsFilled' /\ NotifyRequests'
    BY <1>2, <1>4, HandsStay DEF SlotsFilled
  <1>11. Informed'
    <2>1. NotifsStay
      BY DEF ConsumeCreated, NotifsStay, Informed, IsSeq
    <2> QED
      BY <1>2, <1>3, <1>4, <2>1, StaysInformed
  <1> QED
    BY <1>5, <1>8, <1>9, <1>10, <1>11 DEF NotifyKept

\* The key of a nudge is never among those that expire.
LEMMA KeyExpiresStep == ASSUME NotifyHyps, NEW key \in guards, KeyExpires(key) PROVE NotifyKept
  <1> USE DEF NotifyHyps
  <1>1. /\ UNCHANGED <<work, used, events, msgs, pushes>> /\ guards' = guards \ {key}
        /\ Route[events[key[1]].kind].guard = "30s"
    BY DEF KeyExpires, slotVars
  <1>2. EventsStay /\ TasksStay /\ NotifyRows'
    BY <1>1 DEF EventsStay, TasksStay, KeyOf, NotifyRows
  <1>3. HandedOn'
    BY <1>1 DEF HandedOn, HasTasks, HasTask, Routed
  <1>4. ASSUME NEW e \in 1..Len(events), NEW u \in Users, Nudge(e), <<e, u>> \in guards
        PROVE  <<e, u>> \in guards'
    BY <1>1, <1>4 DEF Nudge
  <1>5. PushedUnderKey' /\ TakenHasKey'
    BY <1>1, <1>2, <1>4, NudgesStay
  <1>6. SlotsFilled' /\ NotifyRequests'
    BY <1>1, <1>2, HandsStay DEF SlotsFilled
  <1>7. Informed'
    <2>1. NotifsStay
      BY DEF KeyExpires, NotifsStay, Informed, IsSeq
    <2> QED
      BY <1>1, <1>2, <2>1, StaysInformed
  <1> QED
    BY <1>2, <1>3, <1>5, <1>6, <1>7 DEF NotifyKept

\* A step of a task changes its state and its tries, never its event or user.
LEMMA TaskMoves ==
    ASSUME NotifyRows, NEW m \in 1..Len(msgs), NEW r \in MsgRow,
           r.event = msgs[m].event, r.to = msgs[m].to, msgs' = [msgs EXCEPT ![m] = r]
    PROVE  /\ TasksStay /\ Len(msgs') = Len(msgs) /\ msgs'[m] = r
           /\ \A n \in 1..Len(msgs) \ {m} : msgs'[n] = msgs[n]
           /\ \A n \in 1..Len(msgs) : msgs'[n].event = msgs[n].event
  <1>1. msgs \in Seq(MsgRow)
    BY DEF NotifyRows
  <1>2. msgs' \in Seq(MsgRow)
    BY <1>1, SeqExcept
  <1>3. Len(msgs') = Len(msgs)
    BY <1>1, SeqExcept
  <1>4. \A n \in 1..Len(msgs) : msgs'[n] = IF n = m THEN r ELSE msgs[n]
    BY <1>1, SeqExcept
  <1>5. \A n \in 1..Len(msgs) : msgs'[n].event = msgs[n].event /\ msgs'[n].to = msgs[n].to
    BY <1>4
  <1>6. Len(msgs) \in Nat
    BY <1>1
  <1> QED
    BY <1>2, <1>3, <1>4, <1>5, <1>6 DEF TasksStay, KeyOf

\* The task of a message that was queued or is under way.
LEMMA MsgIsRow ==
    ASSUME NotifyRows, NEW m \in 1..Len(msgs)
    PROVE  /\ msgs[m] \in MsgRow /\ msgs[m].event \in 1..Len(events) /\ msgs[m].to \in Users
           /\ msgs[m].event \in 1..MaxEvents
  <1>1. msgs[m] \in MsgRow
    BY DEF NotifyRows
  <1>2. msgs[m].event \in 1..Len(events) /\ Len(events) <= MaxEvents /\ Len(events) \in Nat
    BY DEF NotifyRows
  <1> QED
    BY <1>1, <1>2, NotifyAssumption DEF MsgRow

\* A task starts: when another of the same key has been taken or has pushed,
\* the key is set and it returns; else it takes the key.
LEMMA RunTaskStep ==
    ASSUME NotifyHyps, NEW c \in Slots, NEW m \in 1..Len(msgs), RunNotifyTask(c, m)
    PROVE  NotifyKept
  <1> USE DEF NotifyHyps
  <1>1. PICK guarded : guarded = (Task(m).guard # None)
    OBVIOUS
  <1>2. PICK twice : twice = (guarded /\ KeyOf(m) \in guards)
    OBVIOUS
  <1>3. PICK r : r = [msgs[m] EXCEPT !.state = IF twice THEN "done" ELSE "taken"]
    OBVIOUS
  <1>4. /\ msgs[m].state = "queued" /\ UNCHANGED <<events, pushes>>
        /\ msgs' = [msgs EXCEPT ![m] = r]
        /\ guards' = IF guarded THEN guards \cup {KeyOf(m)} ELSE guards
        /\ twice => UNCHANGED <<work, used>>
        /\ ~twice => /\ work' = [work EXCEPT ![c] = [op |-> "dispatch", m |-> m]]
                     /\ used' = used
    BY <1>1, <1>2, <1>3 DEF RunNotifyTask, Start, Take, slotVars
  <1>5. msgs[m] \in MsgRow /\ msgs[m].event \in 1..Len(events) /\ msgs[m].to \in Users
    BY MsgIsRow
  <1>6. /\ r \in MsgRow /\ r.event = msgs[m].event /\ r.to = msgs[m].to
        /\ r.state = IF twice THEN "done" ELSE "taken"
    BY <1>3, <1>5 DEF MsgRow
  <1>7. /\ TasksStay /\ Len(msgs') = Len(msgs) /\ msgs'[m] = r
        /\ \A n \in 1..Len(msgs) \ {m} : msgs'[n] = msgs[n]
        /\ \A n \in 1..Len(msgs) : msgs'[n].event = msgs[n].event
    BY <1>4, <1>6, TaskMoves
  <1>8. EventsStay
    BY <1>4 DEF EventsStay, NotifyRows
  <1>9. NotifyRows'
    BY <1>4, <1>7 DEF NotifyRows, TasksStay
  <1>10. HandedOn' /\ Informed'
    <2>1. HandedOn'
      BY <1>4, <1>7, <1>8, StaysHandedOn
    <2>2. NotifsStay
      BY DEF RunNotifyTask, NotifsStay, Informed, IsSeq
    <2>3. ASSUME NEW CONSTANT n \in 1..Len(msgs'), msgs'[n].state = "done",
                 Unguarded(msgs[n].event)'
          PROVE  n \in 1..Len(msgs) /\ msgs[n].state = "done" /\ msgs'[n].tries = msgs[n].tries
      <3>1. CASE n = m
        <4>1. guarded
          BY <1>2, <1>6, <1>7, <2>3, <3>1
        <4>2. ~Unguarded(msgs[m].event)
          BY <1>1, <4>1 DEF Unguarded, Task
        <4>3. msgs'[m].event = msgs[m].event
          BY <1>7
        <4>4. Unguarded(msgs[m].event)' <=> Unguarded(msgs[m].event)
          BY <1>5, <1>8, <4>3, UnguardedStays DEF Unguarded, Routed
        <4> QED
          BY <2>3, <3>1, <4>2, <4>4
      <3>2. CASE n # m
        BY <1>7, <2>3, <3>2
      <3> QED
        BY <3>1, <3>2
    <2> QED
      BY <1>7, <1>8, <2>1, <2>2, <2>3, StaysInformed
  <1>11. CASE twice
    <2>1. \A n \in 1..Len(msgs') : msgs'[n].state = "taken" =>
              n \in 1..Len(msgs) /\ msgs[n].state = "taken"
      BY <1>6, <1>7, <1>11
    <2>2. PushedUnderKey' /\ TakenHasKey'
      BY <1>4, <1>7, <1>8, <2>1, NudgesStay
    <2>3. \A n \in 1..Len(msgs) : msgs[n].state = "taken" => msgs'[n].state = "taken"
      BY <1>4, <1>7
    <2>4. SlotsFilled' /\ NotifyRequests'
      BY <1>4, <1>7, <1>11, <2>3, HandsStay DEF SlotsFilled
    <2> QED
      BY <1>9, <1>10, <2>2, <2>4 DEF NotifyKept
  <1>12. CASE ~twice
    <2>1. NudgeOf(m) => guarded /\ KeyOf(m) \notin guards /\ KeyOf(m) \in guards'
      BY <1>1, <1>2, <1>4, <1>12, NotifyAssumption DEF NudgeOf, Nudge, Task
    <2>2. guards \subseteq guards'
      BY <1>4
    <2>3. \A n \in 1..Len(msgs) : KeyOf(n)' = KeyOf(n) /\ NudgeOf(n)' = NudgeOf(n)
      BY <1>7, <1>8, KeyParts DEF TasksStay
    <2>4. \A e \in 1..Len(events) : Nudge(e)' = Nudge(e)
      BY <1>7, <1>8, KeyParts
    <2>5. ASSUME NEW CONSTANT e \in 1..MaxEvents, NEW CONSTANT u \in Users,
                 NEW CONSTANT p \in Phones, pushes[e][u][p] # 0
          PROVE  /\ e <= Len(events)
                 /\ Nudge(e)' => /\ pushes[e][u][p] = 1 /\ <<e, u>> \in guards'
                                 /\ \A n \in 1..Len(msgs) :
                                       msgs'[n].state = "taken" => KeyOf(n)' # <<e, u>>
      <3>1. e <= Len(events)
        BY <2>5 DEF PushedUnderKey
      <3>2. e \in 1..Len(events)
        BY <3>1, NotifyAssumption DEF NotifyRows
      <3>3. CASE Nudge(e)'
        <4>1. Nudge(e)
          BY <2>4, <3>2, <3>3
        <4>2. /\ pushes[e][u][p] = 1 /\ <<e, u>> \in guards
              /\ \A n \in 1..Len(msgs) : msgs[n].state = "taken" => KeyOf(n) # <<e, u>>
          BY <2>5, <4>1 DEF PushedUnderKey
        <4>3. KeyOf(m) # <<e, u>>
          BY <2>1, <4>1, <4>2 DEF NudgeOf, KeyOf
        <4>4. ASSUME NEW CONSTANT n \in 1..Len(msgs), msgs'[n].state = "taken"
              PROVE  KeyOf(n)' # <<e, u>>
          <5>1. CASE n = m
            BY <2>3, <4>3, <5>1
          <5>2. CASE n # m
            <6>1. msgs[n].state = "taken"
              BY <1>7, <4>4, <5>2
            <6> QED
              BY <2>3, <4>2, <6>1
          <5> QED
            BY <5>1, <5>2
        <4> QED
          BY <2>2, <3>1, <4>2, <4>4
      <3> QED
        BY <3>1, <3>3
    <2>6. PushedUnderKey'
      BY <1>4, <1>7, <2>5 DEF PushedUnderKey
    <2>7. \A n \in 1..Len(msgs) : msgs'[n].state = "taken" => n = m \/ msgs[n].state = "taken"
      BY <1>7
    <2>8. ASSUME NEW CONSTANT n \in 1..Len(msgs), msgs'[n].state = "taken", NudgeOf(n)'
          PROVE  /\ KeyOf(n)' \in guards'
                 /\ \A o \in 1..Len(msgs) : msgs'[o].state = "taken" /\ KeyOf(o)' = KeyOf(n)'
                                                => o = n
      <3>1. NudgeOf(n) /\ KeyOf(n)' = KeyOf(n)
        BY <2>3, <2>8
      <3>2. KeyOf(n) \in guards'
        BY <2>1, <2>2, <2>7, <2>8, <3>1 DEF TakenHasKey
      <3>3. ASSUME NEW CONSTANT o \in 1..Len(msgs), msgs'[o].state = "taken",
                   KeyOf(o) = KeyOf(n)
            PROVE  o = n
        <4>1. NudgeOf(o)
          BY <3>1, <3>3 DEF NudgeOf, KeyOf
        <4>2. \A q \in 1..Len(msgs) : NudgeOf(q) /\ msgs[q].state = "taken" => KeyOf(q) \in guards
          BY DEF TakenHasKey
        <4>3. CASE o = m \/ n = m
          BY <2>1, <2>7, <2>8, <3>1, <3>3, <4>1, <4>2, <4>3
        <4>4. CASE o # m /\ n # m
          <5>1. msgs[o].state = "taken" /\ msgs[n].state = "taken"
            BY <2>7, <2>8, <3>3, <4>4
          <5> QED
            BY <3>1, <3>3, <5>1 DEF TakenHasKey
        <4> QED
          BY <4>3, <4>4
      <3> QED
        BY <2>3, <3>1, <3>2, <3>3
    <2>9. TakenHasKey'
      BY <1>7, <2>8 DEF TakenHasKey
    <2>10. PICK w : w = [op |-> "dispatch", m |-> m]
      OBVIOUS
    <2>11. work' = [work EXCEPT ![c] = w] /\ used' = used /\ w.op = "dispatch" /\ w.m = m
      BY <1>4, <1>12, <2>10
    <2>12. /\ SlotsFilled' /\ work'[c] = w
           /\ \A d \in Slots \ {c} : work'[d] = work[d]
      BY <2>11, SlotMove DEF SlotsFilled
    <2>13. \A d \in Slots \ {c} : work[d] # None => work[d].m # m
      BY <1>4 DEF NotifyRequests
    <2>14. ASSUME NEW d \in Slots, work'[d] # None
           PROVE  /\ work'[d].op = "dispatch"
                  /\ work'[d].m \in 1..Len(msgs) /\ msgs'[work'[d].m].state = "taken"
                  /\ \A f \in Slots : work'[f] # None /\ work'[f].m = work'[d].m => f = d
      <3>1. CASE d = c
        BY <1>6, <1>7, <1>12, <2>11, <2>12, <2>13, <3>1
      <3>2. CASE d # c
        <4>1. /\ work[d] # None /\ work[d].op = "dispatch" /\ work[d].m \in 1..Len(msgs)
              /\ msgs[work[d].m].state = "taken" /\ work[d].m # m
          BY <2>12, <2>13, <2>14, <3>2 DEF NotifyRequests
        <4>2. msgs'[work[d].m].state = "taken"
          BY <1>7, <4>1
        <4>3. \A f \in Slots : work'[f] # None /\ work'[f].m = work[d].m => f = d
          BY <2>11, <2>12, <4>1 DEF NotifyRequests
        <4> QED
          BY <2>12, <3>2, <4>1, <4>2, <4>3
      <3> QED
        BY <3>1, <3>2
    <2>15. NotifyRequests'
      BY <1>7, <2>14 DEF NotifyRequests
    <2> QED
      BY <1>9, <1>10, <2>6, <2>9, <2>12, <2>15 DEF NotifyKept
  <1> QED
    BY <1>11, <1>12

\* The task ends, done or queued again, under a key that stays; a nudge has
\* not been pushed before, as it is this task that took the key.
LEMMA DispatchStep ==
    ASSUME NotifyHyps, NEW c \in Slots, NEW ends \in {"commits", "unacked", "raises", "dies"},
           Dispatch(c, ends)
    PROVE  NotifyKept
  <1> USE DEF NotifyHyps
  <1>1. PICK m : m = work[c].m
    OBVIOUS
  <1>2. work[c] # None
    BY DEF Dispatch, Doing
  <1>3. /\ m \in 1..Len(msgs) /\ msgs[m].state = "taken"
        /\ \A d \in Slots : work[d] # None /\ work[d].m = m => d = c
    BY <1>1, <1>2 DEF NotifyRequests
  <1>4. /\ msgs[m] \in MsgRow /\ msgs[m].event \in 1..Len(events) /\ msgs[m].to \in Users
        /\ msgs[m].event \in 1..MaxEvents
    BY <1>3, MsgIsRow
  <1>5. PICK ev \in 1..MaxEvents, u \in Users : ev = msgs[m].event /\ u = msgs[m].to
    BY <1>4
  <1>6. ev \in 1..Len(events)
    BY <1>4, <1>5
  <1>7. /\ work' = [work EXCEPT ![c] = None] /\ used' = used
        /\ UNCHANGED <<events, guards>>
    BY DEF Dispatch, End, KeyStays
  <1>8. PICK r : /\ r \in MsgRow /\ r.event = msgs[m].event /\ r.to = msgs[m].to
                 /\ r.state # "taken" /\ msgs' = [msgs EXCEPT ![m] = r]
                 /\ ends \in {"raises", "dies"} /\ r.state = "done" => r.tries > MaxRetries
    <2>1. CASE ends \in {"commits", "unacked"}
      <3>1. PICK state \in {"queued", "done"} :
              msgs' = [msgs EXCEPT ![m] = [msgs[m] EXCEPT !.state = state]]
        BY <1>1, <2>1 DEF Dispatch
      <3>2. [msgs[m] EXCEPT !.state = state] \in MsgRow
        BY <1>4 DEF MsgRow
      <3> QED
        BY <1>4, <2>1, <3>1, <3>2 DEF MsgRow
    <2>2. CASE ends \in {"raises", "dies"}
      <3>1. PICK state \in {"queued", "done"}, tries \in {msgs[m].tries, msgs[m].tries + 1} :
              /\ msgs' = [msgs EXCEPT ![m].state = state, ![m].tries = tries]
              /\ state = "done" => tries = msgs[m].tries + 1 /\ ~(msgs[m].tries < MaxRetries)
        BY <1>1, <2>2 DEF Dispatch, RunsAgain
      <3>2. PICK new : new = [msgs[m] EXCEPT !.state = state, !.tries = tries]
        OBVIOUS
      <3>3. msgs' = [msgs EXCEPT ![m] = new]
        BY <3>1, <3>2
      <3>4. tries \in Nat
        BY <1>4 DEF MsgRow
      <3>5. /\ new \in MsgRow /\ new.event = msgs[m].event /\ new.to = msgs[m].to
            /\ new.state # "taken" /\ new.state = state /\ new.tries = tries
        BY <1>4, <3>2, <3>4 DEF MsgRow
      <3>6. state = "done" => tries > MaxRetries
        BY <1>4, <3>1, NotifyAssumption DEF MsgRow
      <3> QED
        BY <3>3, <3>5, <3>6
    <2> QED
      BY <2>1, <2>2
  <1>9. PICK row, answered :
          /\ pushes' = [pushes EXCEPT ![ev][u] = row]
          /\ row = [p \in Phones |-> row[p]]
          /\ \A p \in Phones : row[p] = IF p \in answered THEN pushes[ev][u][p] + 1
                                        ELSE pushes[ev][u][p]
    <2>1. PICK answer : pushes' =
            [pushes EXCEPT ![msgs[work[c].m].event][msgs[work[c].m].to] =
               [p \in Phones |-> IF p \in DOMAIN answer /\ answer[p] = "ok"
                                 THEN @[p] + 1 ELSE @[p]]]
      BY Zenon DEF Dispatch
    <2>2. PICK set : set = {p \in Phones : p \in DOMAIN answer /\ answer[p] = "ok"}
      OBVIOUS
    <2>3. PICK old : old = pushes[msgs[work[c].m].event][msgs[work[c].m].to]
      OBVIOUS
    <2>4. PICK new : new = [p \in Phones |-> IF p \in DOMAIN answer /\ answer[p] = "ok"
                                             THEN old[p] + 1 ELSE old[p]]
      OBVIOUS
    <2>5. pushes' = [pushes EXCEPT ![msgs[work[c].m].event][msgs[work[c].m].to] = new]
      BY <2>1, <2>3, <2>4
    <2>6. msgs[work[c].m].event = ev /\ msgs[work[c].m].to = u
      BY <1>1, <1>5
    <2>7. pushes' = [pushes EXCEPT ![ev][u] = new] /\ old = pushes[ev][u]
      BY <2>3, <2>5, <2>6
    <2>8. new = [p \in Phones |-> new[p]]
      BY <2>4
    <2>9. \A p \in Phones : new[p] = IF p \in set THEN pushes[ev][u][p] + 1
                                      ELSE pushes[ev][u][p]
      BY <2>2, <2>4, <2>7
    <2>10. /\ pushes' = [pushes EXCEPT ![ev][u] = new]
           /\ new = [p \in Phones |-> new[p]]
           /\ \A p \in Phones : new[p] = IF p \in set THEN pushes[ev][u][p] + 1
                                         ELSE pushes[ev][u][p]
      BY <2>7, <2>8, <2>9
    <2> QED
      BY <2>10, ZenonT(40)
  <1>10. pushes \in [1..MaxEvents -> [Users -> [Phones -> Nat]]]
    BY DEF NotifyRows
  <1>11. /\ pushes' \in [1..MaxEvents -> [Users -> [Phones -> Nat]]]
         /\ \A e \in 1..MaxEvents, v \in Users, p \in Phones :
              pushes'[e][v][p] = IF e = ev /\ v = u /\ p \in answered THEN pushes[e][v][p] + 1
                                 ELSE pushes[e][v][p]
    <2>2. row \in [Phones -> Nat]
      <3>1. \A p \in Phones : pushes[ev][u][p] \in Nat
        BY <1>10
      <3>2. \A p \in Phones : row[p] \in Nat
        BY <1>9, <3>1
      <3> QED
        BY <1>9, <3>2
    <2>3. pushes' = [pushes EXCEPT ![ev] = [pushes[ev] EXCEPT ![u] = row]]
      BY <1>9
    <2>4. [pushes[ev] EXCEPT ![u] = row] \in [Users -> [Phones -> Nat]]
      BY <1>10, <2>2
    <2>5. pushes' \in [1..MaxEvents -> [Users -> [Phones -> Nat]]]
      BY <1>10, <2>3, <2>4
    <2>6. ASSUME NEW e \in 1..MaxEvents, NEW v \in Users, NEW p \in Phones
          PROVE  pushes'[e][v][p] = IF e = ev /\ v = u /\ p \in answered
                                    THEN pushes[e][v][p] + 1 ELSE pushes[e][v][p]
      <3>1. CASE e = ev /\ v = u
        BY <1>9, <1>10, <2>3, <3>1
      <3>2. CASE ~(e = ev /\ v = u)
        BY <1>10, <2>3, <3>2
      <3> QED
        BY <3>1, <3>2
    <2> QED
      BY <2>5, <2>6
  <1>12. /\ TasksStay /\ Len(msgs') = Len(msgs) /\ msgs'[m] = r
         /\ \A n \in 1..Len(msgs) \ {m} : msgs'[n] = msgs[n]
         /\ \A n \in 1..Len(msgs) : msgs'[n].event = msgs[n].event
    BY <1>3, <1>8, TaskMoves
  <1>13. EventsStay
    BY <1>7 DEF EventsStay, NotifyRows
  <1>14. NotifyRows'
    BY <1>7, <1>11, <1>12 DEF NotifyRows, TasksStay
  <1>15. HandedOn'
    BY <1>7, <1>12, <1>13, StaysHandedOn
  <1>16. \A n \in 1..Len(msgs) : KeyOf(n)' = KeyOf(n) /\ NudgeOf(n)' = NudgeOf(n)
    BY <1>12, <1>13, KeyParts DEF TasksStay
  <1>17. \A e \in 1..Len(events) : Nudge(e)' = Nudge(e)
    BY <1>12, <1>13, KeyParts
  <1>18. ASSUME NEW n \in 1..Len(msgs), msgs'[n].state = "taken"
         PROVE  n # m /\ msgs[n].state = "taken"
    BY <1>8, <1>12, <1>18
  <1>19. ASSUME NEW CONSTANT e \in 1..MaxEvents, NEW CONSTANT v \in Users,
                NEW CONSTANT p \in Phones, pushes'[e][v][p] # 0
         PROVE  /\ e <= Len(events)
                /\ Nudge(e) => /\ pushes'[e][v][p] = 1 /\ <<e, v>> \in guards
                               /\ \A n \in 1..Len(msgs) :
                                     msgs'[n].state = "taken" => KeyOf(n) # <<e, v>>
    <2>1. CASE e = ev /\ v = u
      <3>1. KeyOf(m) = <<e, v>> /\ e <= Len(events)
        BY <1>5, <1>6, <2>1 DEF KeyOf
      <3>2. CASE Nudge(e)
        <4>1. NudgeOf(m)
          BY <1>5, <2>1, <3>2 DEF NudgeOf
        <4>2. /\ <<e, v>> \in guards
              /\ \A n \in 1..Len(msgs) : msgs[n].state = "taken" /\ KeyOf(n) = <<e, v>> => n = m
          BY <1>3, <3>1, <4>1 DEF TakenHasKey
        <4>3. pushes[e][v][p] = 0
          BY <1>3, <3>1, <3>2 DEF PushedUnderKey
        <4>4. pushes'[e][v][p] = 1
          BY <1>11, <1>19, <4>3
        <4> QED
          BY <1>18, <3>1, <4>2, <4>4
      <3> QED
        BY <3>1, <3>2
    <2>2. CASE ~(e = ev /\ v = u)
      <3>1. pushes'[e][v][p] = pushes[e][v][p]
        BY <1>11, <2>2
      <3> QED
        BY <1>18, <1>19, <3>1 DEF PushedUnderKey
    <2> QED
      BY <2>1, <2>2
  <1>20. PushedUnderKey'
    <2>1. ASSUME NEW CONSTANT e \in 1..MaxEvents, NEW CONSTANT v \in Users,
                 NEW CONSTANT p \in Phones, pushes'[e][v][p] # 0
          PROVE  /\ e <= Len(events')
                 /\ Nudge(e)' => /\ pushes'[e][v][p] = 1 /\ <<e, v>> \in guards'
                                 /\ \A n \in 1..Len(msgs') :
                                       msgs'[n].state = "taken" => KeyOf(n)' # <<e, v>>
      <3>1. e <= Len(events)
        BY <1>19, <2>1
      <3>2. e \in 1..Len(events)
        BY <3>1, NotifyAssumption DEF NotifyRows
      <3>3. Nudge(e)' = Nudge(e)
        BY <1>17, <3>2
      <3> QED
        BY <1>7, <1>12, <1>16, <1>19, <2>1, <3>3
    <2> QED
      BY <2>1 DEF PushedUnderKey
  <1>21. TakenHasKey'
    <2>1. ASSUME NEW CONSTANT n \in 1..Len(msgs'), msgs'[n].state = "taken", NudgeOf(n)'
          PROVE  /\ KeyOf(n)' \in guards'
                 /\ \A o \in 1..Len(msgs') : msgs'[o].state = "taken" /\ KeyOf(o)' = KeyOf(n)'
                                                => o = n
      <3>1. n \in 1..Len(msgs) /\ msgs[n].state = "taken" /\ NudgeOf(n) /\ KeyOf(n)' = KeyOf(n)
        BY <1>12, <1>16, <1>18, <2>1
      <3>2. KeyOf(n) \in guards'
        BY <1>7, <3>1 DEF TakenHasKey
      <3>3. ASSUME NEW CONSTANT o \in 1..Len(msgs), msgs'[o].state = "taken", KeyOf(o) = KeyOf(n)
            PROVE  o = n
        BY <1>18, <3>1, <3>3 DEF TakenHasKey
      <3> QED
        BY <1>12, <1>16, <3>1, <3>2, <3>3
    <2> QED
      BY <2>1 DEF TakenHasKey
  <1>22. /\ SlotsFilled' /\ work'[c] = None
         /\ \A d \in Slots \ {c} : work'[d] = work[d]
    BY <1>7, SlotMove DEF SlotsFilled
  <1>23. ASSUME NEW d \in Slots, work'[d] # None
         PROVE  /\ work'[d].op = "dispatch"
                /\ work'[d].m \in 1..Len(msgs) /\ msgs'[work'[d].m].state = "taken"
                /\ \A f \in Slots : work'[f] # None /\ work'[f].m = work'[d].m => f = d
    <2>1. d # c /\ work'[d] = work[d] /\ work[d] # None
      BY <1>22, <1>23
    <2>2. /\ work[d].op = "dispatch" /\ work[d].m \in 1..Len(msgs)
          /\ msgs[work[d].m].state = "taken" /\ work[d].m # m
      BY <1>3, <2>1 DEF NotifyRequests
    <2>3. msgs'[work[d].m].state = "taken"
      BY <1>12, <2>2
    <2>4. ASSUME NEW f \in Slots, work'[f] # None, work'[f].m = work'[d].m PROVE f = d
      BY <1>22, <2>1, <2>4 DEF NotifyRequests
    <2> QED
      BY <2>1, <2>2, <2>3, <2>4
  <1>24. NotifyRequests'
    BY <1>12, <1>23 DEF NotifyRequests
  <1>25. Informed'
    <2>1. CASE ends \in {"commits", "unacked"}
      <3>1. PICK new : new.event = ev /\ new.to = u /\ notifs' = Append(notifs, new)
        BY <1>1, <1>5, <2>1 DEF Dispatch, Row
      <3>2. /\ IsSeq(notifs') /\ Len(notifs') = Len(notifs) + 1
            /\ notifs'[Len(notifs) + 1] = new
            /\ \A n \in 1..Len(notifs) : notifs'[n] = notifs[n]
        BY <3>1, IsSeqAppend DEF Informed
      <3>3. Len(notifs) \in Nat
        BY DEF Informed, IsSeq
      <3>4. NotifsStay
        BY <3>2, <3>3 DEF NotifsStay
      <3>5. Notified(msgs[m].event, msgs[m].to)'
        <4>1. msgs'[m].event = ev /\ msgs'[m].to = u
          BY <1>5, <1>8, <1>12
        <4>2. Len(notifs) + 1 \in 1..Len(notifs')
          BY <3>2, <3>3
        <4> QED
          BY <3>1, <3>2, <4>1, <4>2 DEF Notified
      <3>6. ASSUME NEW CONSTANT n \in 1..Len(msgs'), msgs'[n].state = "done"
            PROVE  \/ n \in 1..Len(msgs) /\ msgs[n].state = "done" /\ msgs'[n].tries = msgs[n].tries
                   \/ Notified(msgs[n].event, msgs[n].to)'
        <4>1. CASE n = m
          BY <3>5, <4>1
        <4>2. CASE n # m
          BY <1>12, <3>6, <4>2
        <4> QED
          BY <4>1, <4>2
      <3> QED
        BY <1>12, <1>13, <3>4, <3>5, <3>6, StaysInformed
    <2>2. CASE ends \in {"raises", "dies"}
      <3>1. NotifsStay
        <4>1. notifs' = notifs
          BY <2>2 DEF Dispatch
        <4> QED
          BY <4>1 DEF NotifsStay, Informed, IsSeq
      <3>2. ASSUME NEW CONSTANT n \in 1..Len(msgs'), msgs'[n].state = "done"
            PROVE  \/ n \in 1..Len(msgs) /\ msgs[n].state = "done" /\ msgs'[n].tries = msgs[n].tries
                   \/ msgs'[n].tries > MaxRetries
        <4>1. CASE n = m
          BY <1>8, <1>12, <2>2, <3>2, <4>1
        <4>2. CASE n # m
          BY <1>12, <3>2, <4>2
        <4> QED
          BY <4>1, <4>2
      <3> QED
        BY <1>12, <1>13, <3>1, <3>2, StaysInformed
    <2> QED
      BY <2>1, <2>2
  <1> QED
    BY <1>14, <1>15, <1>20, <1>21, <1>22, <1>24, <1>25 DEF NotifyKept

LEMMA NotifyStep == ASSUME NotifyHyps, NotifyNext PROVE NotifyKept
  <1>1. ASSUME SettingsNext, UNCHANGED <<events, msgs, guards, notifs, pushes, faults>>
        PROVE  NotifyKept
    BY <1>1, SettingsStep
  <1>2. ASSUME NEW kind \in Kinds, NEW to \in [1..1 -> Users] \cup [1..2 -> Users],
               Publish(kind, to)
        PROVE  NotifyKept
    BY <1>2, PublishStep
  <1>3. ASSUME NEW e \in DOMAIN events, NEW n \in 0..2, Consume(e, n) PROVE NotifyKept
    <2>1. e \in 1..Len(events) /\ n \in Nat
      BY DEF NotifyHyps, NotifyRows
    <2> QED
      BY <1>3, <2>1, ConsumeStep
  <1>4. ASSUME NEW e \in DOMAIN events, ConsumeCreated(e) PROVE NotifyKept
    <2>1. e \in 1..Len(events)
      BY DEF NotifyHyps, NotifyRows
    <2> QED
      BY <1>4, <2>1, ConsumeCreatedStep
  <1>5. ASSUME NEW c \in Slots, NEW m \in DOMAIN msgs, RunNotifyTask(c, m) PROVE NotifyKept
    <2>1. m \in 1..Len(msgs)
      BY DEF NotifyHyps, NotifyRows
    <2> QED
      BY <1>5, <2>1, RunTaskStep
  <1>6. ASSUME NEW c \in Slots, NEW ends \in {"commits", "unacked", "raises", "dies"},
               Dispatch(c, ends)
        PROVE  NotifyKept
    BY <1>6, DispatchStep
  <1>7. ASSUME NEW key \in guards, KeyExpires(key) PROVE NotifyKept
    BY <1>7, KeyExpiresStep
  <1>8. ASSUME NEW n \in DOMAIN notifs, MarkRead({n}) PROVE NotifyKept
    BY <1>8, MarkReadStep
  <1>9. ASSUME NEW u \in Users, ReadAll(u) PROVE NotifyKept
    BY <1>9, MarkReadStep DEF ReadAll
  <1> QED
    BY <1>1, <1>2, <1>3, <1>4, <1>5, <1>6, <1>7, <1>8, <1>9 DEF NotifyNext

-----------------------------------------------------------------------------
(* The desk counts its reports.                                             *)

NoticeRows == /\ IsSeq(notices) /\ \A w \in BeatWorkers : IsFiniteSet(hiding[w])
              /\ hiding = [w \in BeatWorkers |-> hiding[w]]
CounterPart == <<reports, throttle, filing>>

\* What is counted stays when neither reports nor their requests move.
LEMMA CounterIdle ==
    ASSUME CounterIsBacked, LoadedIsBacked, UNCHANGED CounterPart
    PROVE  CounterIsBacked' /\ LoadedIsBacked'
  BY DEF CounterIsBacked, LoadedIsBacked, CounterPart, MadeBy

\* More actions.
LEMMA ActionsGrow ==
    ASSUME DeskInv, IsSeq(actions'), NoticeRows', UNCHANGED CounterPart
    PROVE  DeskInv'
  <1>1. CounterIsBacked' /\ LoadedIsBacked'
    BY CounterIdle DEF DeskInv
  <1>2. DeskRows'
    BY DEF DeskInv, DeskRows, NoticeRows, CounterPart, IsSeq
  <1> QED
    BY <1>1, <1>2 DEF DeskInv

\* A step that is about none of this.
LEMMA DeskIdle ==
    ASSUME DeskInv, UNCHANGED <<actions, notices, hiding>>, UNCHANGED CounterPart
    PROVE  DeskInv'
  <1>1. NoticeRows' /\ IsSeq(actions')
    BY DEF DeskInv, DeskRows, NoticeRows, IsSeq
  <1> QED
    BY <1>1, ActionsGrow

\* A report is loaded with a count that leaves room for it.
LEMMA LoadReportStep ==
    ASSUME DeskInv, NEW c \in Reporters \X Slots, NEW s, LoadReport(c, s),
           UNCHANGED <<notices, hiding>>
    PROVE  DeskInv'
  <1>1. PICK r : r = [at |-> "commit", subject |-> s, count |-> throttle[c[1]],
                      found |-> ReportCases(s)]
    OBVIOUS
  <1>2. /\ filing' = [filing EXCEPT ![c] = r]
        /\ UNCHANGED <<actions, reports, throttle>>
        /\ throttle[c[1]] # None => throttle[c[1]] < ReportLimit
    BY <1>1 DEF LoadReport
  <1>3. c[1] \in Reporters
    OBVIOUS
  <1>4. DeskRows'
    BY <1>2 DEF DeskInv, DeskRows, IsSeq
  <1>5. \A d \in Reporters \X Slots : filing'[d] = IF d = c THEN r ELSE filing[d]
    BY <1>2 DEF DeskInv, DeskRows
  <1>6. r.count # None => /\ r.count \in 1..(ReportLimit - 1)
                          /\ r.count <= Cardinality(MadeBy(c[1]))
    BY <1>1, <1>2, <1>3, DeskAssumption DEF DeskInv, CounterIsBacked
  <1>7. CounterIsBacked'
    BY <1>2 DEF DeskInv, CounterIsBacked, MadeBy
  <1>8. ASSUME NEW d \in Reporters \X Slots, filing'[d].at = "commit", filing'[d].count # None
        PROVE  /\ filing'[d].count \in 1..(ReportLimit - 1)
               /\ filing'[d].count <= Cardinality(MadeBy(d[1]))
    BY <1>5, <1>6, <1>8 DEF DeskInv, LoadedIsBacked
  <1>9. LoadedIsBacked'
    BY <1>2, <1>8 DEF LoadedIsBacked, MadeBy
  <1> QED
    BY <1>4, <1>7, <1>9 DEF DeskInv

\* One more report by u is one more for u and none for anybody else.
LEMMA ReportCounts ==
    ASSUME IsSeq(reports), NEW CONSTANT row, reports' = Append(reports, row), NEW v
    PROVE  /\ Cardinality(MadeBy(v)) \in Nat /\ Cardinality(MadeBy(v)') \in Nat
           /\ Cardinality(MadeBy(v)') = Cardinality(MadeBy(v)) + (IF row.by = v THEN 1 ELSE 0)
  <1>1. /\ Len(reports) \in Nat /\ Len(reports') = Len(reports) + 1
        /\ reports'[Len(reports) + 1] = row
        /\ \A k \in 1..Len(reports) : reports'[k] = reports[k]
    BY IsSeqAppend DEF IsSeq
  <1>2. IsFiniteSet(MadeBy(v)) /\ Len(reports) + 1 \notin MadeBy(v)
    <2>1. IsFiniteSet(1..Len(reports))
      BY <1>1, FS_Interval, 1 \in Int, Len(reports) \in Int
    <2>2. MadeBy(v) \subseteq 1..Len(reports)
      BY DEF MadeBy
    <2> QED
      BY <1>1, <2>1, <2>2, FS_Subset
  <1>3. MadeBy(v)' = {k \in 1..Len(reports') : reports'[k].by = v}
    BY DEF MadeBy
  <1>4. Cardinality(MadeBy(v)) \in Nat
    BY <1>2, FS_CardinalityType
  <1>5. CASE row.by = v
    <2>1. MadeBy(v)' = MadeBy(v) \cup {Len(reports) + 1}
      BY <1>1, <1>3, <1>5 DEF MadeBy
    <2>2. Cardinality(MadeBy(v) \cup {Len(reports) + 1}) = Cardinality(MadeBy(v)) + 1
      BY <1>2, FS_AddElement
    <2> QED
      BY <1>4, <1>5, <2>1, <2>2
  <1>6. CASE row.by # v
    <2>1. MadeBy(v)' = MadeBy(v)
      BY <1>1, <1>3, <1>6 DEF MadeBy
    <2> QED
      BY <1>4, <1>6, <2>1
  <1> QED
    BY <1>5, <1>6

\* The counter is written with the report it counts: one more than what the
\* request loaded, however often it was written in between.
LEMMA CommitReportStep ==
    ASSUME DeskInv, NEW c \in Reporters \X Slots, CommitReport(c), UNCHANGED <<notices, hiding>>
    PROVE  DeskInv'
  <1>1. PICK u \in Reporters : u = c[1]
    OBVIOUS
  <1>2. /\ filing[c].at = "commit" /\ filing' = [filing EXCEPT ![c] = Idle]
        /\ actions' = actions
    BY DEF CommitReport
  <1>3. \A d \in Reporters \X Slots : filing'[d] = IF d = c THEN Idle ELSE filing[d]
    BY <1>2 DEF DeskInv, DeskRows
  <1>5. Idle.at # "commit"
    BY DEF Idle
  <1>6. CASE UNCHANGED <<reports, throttle>>
    <2>1. DeskRows'
      BY <1>2, <1>6 DEF DeskInv, DeskRows, IsSeq
    <2>2. CounterIsBacked'
      BY <1>6 DEF DeskInv, CounterIsBacked, MadeBy
    <2>3. LoadedIsBacked'
      BY <1>3, <1>5, <1>6 DEF DeskInv, LoadedIsBacked, MadeBy
    <2> QED
      BY <2>1, <2>2, <2>3 DEF DeskInv
  <1>7. CASE ~(UNCHANGED <<reports, throttle>>)
    <2>1. PICK n : n = IF filing[c].count = None THEN 1 ELSE filing[c].count + 1
      OBVIOUS
    <2>2. PICK row : row.by = u /\ reports' = Append(reports, row)
      BY <1>1, <1>7 DEF CommitReport
    <2>3. throttle' = [throttle EXCEPT ![u] = n]
      BY <1>1, <1>7, <2>1 DEF CommitReport, CountedReport
    <2>4. \A v \in Reporters : throttle'[v] = IF v = u THEN n ELSE throttle[v]
      BY <2>3 DEF DeskInv, DeskRows
    <2>5. IsSeq(reports)
      BY DEF DeskInv, DeskRows
    <2>6. \A v : /\ Cardinality(MadeBy(v)) \in Nat /\ Cardinality(MadeBy(v)') \in Nat
                 /\ Cardinality(MadeBy(v)') = Cardinality(MadeBy(v)) + (IF row.by = v THEN 1 ELSE 0)
      BY <2>2, <2>5, ReportCounts
    <2>7. n \in 1..ReportLimit /\ n <= Cardinality(MadeBy(u)')
      <3>1. CASE filing[c].count = None
        BY <2>1, <2>2, <2>6, <3>1, DeskAssumption
      <3>2. CASE filing[c].count # None
        <4>1. /\ filing[c].count \in 1..(ReportLimit - 1)
              /\ filing[c].count <= Cardinality(MadeBy(u))
          BY <1>1, <1>2, <3>2 DEF DeskInv, LoadedIsBacked
        <4>2. /\ Cardinality(MadeBy(u)) \in Nat
              /\ Cardinality(MadeBy(u)') = Cardinality(MadeBy(u)) + 1
          BY <2>2, <2>6
        <4>3. n = filing[c].count + 1 /\ ReportLimit \in Nat
          BY <2>1, <3>2, DeskAssumption
        <4> QED
          BY <4>1, <4>2, <4>3
      <3> QED
        BY <3>1, <3>2
    <2>8. CounterIsBacked'
      <3>1. ASSUME NEW v \in Reporters, throttle'[v] # None
            PROVE  throttle'[v] \in 1..ReportLimit /\ throttle'[v] <= Cardinality(MadeBy(v)')
        <4>1. CASE v = u
          BY <2>4, <2>7, <4>1
        <4>2. CASE v # u
          <5>1. throttle[v] \in 1..ReportLimit /\ throttle[v] <= Cardinality(MadeBy(v))
            BY <2>4, <3>1, <4>2 DEF DeskInv, CounterIsBacked
          <5> QED
            BY <2>2, <2>4, <2>6, <4>2, <5>1
        <4> QED
          BY <4>1, <4>2
      <3> QED
        BY <3>1 DEF CounterIsBacked
    <2>9. LoadedIsBacked'
      <3>1. ASSUME NEW d \in Reporters \X Slots, filing'[d].at = "commit", filing'[d].count # None
            PROVE  /\ filing'[d].count \in 1..(ReportLimit - 1)
                   /\ filing'[d].count <= Cardinality(MadeBy(d[1])')
        <4>1. filing'[d] = filing[d]
          BY <1>3, <1>5, <3>1
        <4>2. /\ filing[d].count \in 1..(ReportLimit - 1)
              /\ filing[d].count <= Cardinality(MadeBy(d[1]))
          BY <3>1, <4>1 DEF DeskInv, LoadedIsBacked
        <4>3. PICK v : v = d[1]
          OBVIOUS
        <4> QED
          BY <2>6, <4>1, <4>2, <4>3, DeskAssumption
      <3> QED
        BY <3>1 DEF LoadedIsBacked, MadeBy
    <2>10. DeskRows'
      <3>1. throttle' = [v \in Reporters |-> throttle'[v]]
        BY <2>3 DEF DeskInv, DeskRows
      <3>2. filing' = [d \in Reporters \X Slots |-> filing'[d]]
        BY <1>2 DEF DeskInv, DeskRows
      <3>3. IsSeq(reports')
        BY <2>2, <2>5, IsSeqAppend
      <3>4. IsSeq(actions') /\ IsSeq(notices')
        BY <1>2 DEF DeskInv, DeskRows
      <3>5. /\ \A w \in BeatWorkers : IsFiniteSet(hiding'[w])
            /\ hiding' = [w \in BeatWorkers |-> hiding'[w]]
        BY DEF DeskInv, DeskRows
      <3> QED
        BY <3>1, <3>2, <3>3, <3>4, <3>5 DEF DeskRows, IsSeq
    <2> QED
      BY <2>8, <2>9, <2>10 DEF DeskInv
  <1> QED
    BY <1>6, <1>7

\* A decision is written with its action row.
LEMMA CommitCaseStep ==
    ASSUME DeskInv, NEW m \in Moderators, CommitCase(m), UNCHANGED <<notices, hiding>>
    PROVE  DeskInv'
  <1>1. UNCHANGED CounterPart
    BY DEF CommitCase, CounterPart
  <1>2. CASE actions' = actions
    BY <1>1, <1>2, DeskIdle
  <1>3. CASE actions' # actions
    <2>1. PICK row : actions' = Append(actions, row)
      BY <1>3 DEF CommitCase
    <2>2. IsSeq(actions)
      BY DEF DeskInv, DeskRows
    <2>3. IsSeq(actions')
      BY <2>1, <2>2, IsSeqAppend
    <2>4. NoticeRows'
      BY DEF DeskInv, DeskRows, NoticeRows, IsSeq
    <2> QED
      BY <1>1, <2>3, <2>4, ActionsGrow
  <1> QED
    BY <1>2, <1>3

LEMMA DeskStep == ASSUME DeskInv, DeskNext, UNCHANGED <<notices, hiding>> PROVE DeskInv'
  <1>1. ASSUME NEW c \in Reporters \X Slots, CommitReport(c) PROVE DeskInv'
    BY <1>1, CommitReportStep
  <1>2. ASSUME NEW c \in Reporters \X Slots, NEW s \in Subjects, LoadReport(c, s) PROVE DeskInv'
    BY <1>2, LoadReportStep
  <1>3. ASSUME NEW m \in Moderators, CommitCase(m) PROVE DeskInv'
    BY <1>3, CommitCaseStep
  <1>4. ASSUME NEW m \in Moderators, NEW sent \in BOOLEAN, QueueDispatch(m, sent) PROVE DeskInv'
    BY <1>4, DeskIdle DEF QueueDispatch, CounterPart
  <1>5. ASSUME NEW m \in Moderators, NEW k, LoadCase(m, k) PROVE DeskInv'
    BY <1>5, DeskIdle DEF LoadCase, CounterPart
  <1>6. ASSUME NEW m \in Moderators, NEW k, NEW t, NEW s, LoadAction(m, k, t, s) PROVE DeskInv'
    BY <1>6, DeskIdle DEF LoadAction, CounterPart
  <1>7. ASSUME NEW k, Reopen(k) PROVE DeskInv'
    BY <1>7, DeskIdle DEF Reopen, CounterPart
  <1>8. ASSUME ScanQueries \/ ScanCommit \/ Tick PROVE DeskInv'
    BY <1>8, DeskIdle DEF ScanQueries, ScanCommit, Tick, CounterPart
  <1>9. ASSUME NEW a \in 1..Len(actions), NEW sent \in SUBSET Services, RunDispatch(a, sent)
        PROVE  DeskInv'
    BY <1>9, DeskIdle DEF RunDispatch, CounterPart
  <1>10. ASSUME NEW a \in 1..Len(actions), NEW s \in Services, RunPropagate(a, s) PROVE DeskInv'
    BY <1>10, DeskIdle DEF RunPropagate, CounterPart
  <1> QED
    BY <1>1, <1>2, <1>3, <1>4, <1>5, <1>6, <1>7, <1>8, <1>9, <1>10 DEF DeskNext, ReportNext

\* The takedown task appends its action rows.
LEMMA HideCommitStep == ASSUME DeskInv, NEW w \in BeatWorkers, HideCommit(w) PROVE DeskInv'
  <1>1. IsSeq(actions) /\ IsSeq(notices) /\ IsFiniteSet(hiding[w])
    BY DEF DeskInv, DeskRows
  <1>2. PICK n \in Nat : n = Cardinality(hiding[w])
    BY <1>1, FS_CardinalityType
  <1>3. PICK rows : rows = [i \in 1..n |-> rows[i]] /\ actions' = actions \o rows
    BY <1>2 DEF HideCommit
  <1>4. IsSeq(rows) /\ Len(rows) = n
    BY <1>3, IsSeqFun
  <1>5. IsSeq(actions')
    BY <1>1, <1>3, <1>4, IsSeqConcat
  <1>7. notices' = [k \in 1..Len(notices) |-> notices'[k]]
    BY DEF HideCommit
  <1>8. IsSeq(notices')
    BY <1>1, <1>7, IsSeqFun DEF IsSeq
  <1>9. hiding' = [hiding EXCEPT ![w] = {}]
    BY DEF HideCommit
  <1>10. \A v \in BeatWorkers : hiding'[v] = IF v = w THEN {} ELSE hiding[v]
    BY <1>9 DEF DeskInv, DeskRows
  <1>11. \A v \in BeatWorkers : IsFiniteSet(hiding'[v])
    BY <1>10, FS_EmptySet DEF DeskInv, DeskRows
  <1>12. NoticeRows'
    BY <1>8, <1>9, <1>11 DEF DeskInv, DeskRows, NoticeRows, IsSeq
  <1>13. UNCHANGED CounterPart
    BY DEF HideCommit, CounterPart
  <1> QED
    BY <1>5, <1>12, <1>13, ActionsGrow

\* A step of a notice that leaves actions alone.
LEMMA NoticeIdle ==
    ASSUME DeskInv, NoticeRows', UNCHANGED actions, UNCHANGED CounterPart
    PROVE  DeskInv'
  <1>1. IsSeq(actions')
    BY DEF DeskInv, DeskRows, IsSeq
  <1> QED
    BY <1>1, ActionsGrow

LEMMA DmcaStep == ASSUME DeskInv, DmcaNext PROVE DeskInv'
  <1>1. IsSeq(notices) /\ Len(notices) \in Nat
    BY DEF DeskInv, DeskRows, IsSeq
  <1>2. ASSUME NEW s \in Subjects, FileNotice(s) PROVE DeskInv'
    <2>1. PICK row : notices' = Append(notices, row)
      BY <1>2 DEF FileNotice
    <2>2. IsSeq(notices')
      BY <1>1, <2>1, IsSeqAppend
    <2>3. /\ UNCHANGED <<actions, hiding>> /\ UNCHANGED CounterPart
      BY <1>2 DEF FileNotice, CounterPart
    <2>4. NoticeRows'
      BY <2>2, <2>3 DEF DeskInv, DeskRows, NoticeRows, IsSeq
    <2> QED
      BY <2>3, <2>4, NoticeIdle
  <1>3. ASSUME NEW c \in Slots, CommitNotice(c) PROVE DeskInv'
    <2>1. UNCHANGED <<actions, hiding>> /\ UNCHANGED CounterPart
      BY <1>3 DEF CommitNotice, deskVars, CounterPart
    <2>2. notices' = [k \in 1..Len(notices) |-> notices'[k]]
      <3>1. CASE notices' = notices
        BY <1>1, <3>1 DEF IsSeq
      <3>2. CASE notices' # notices
        <4>1. PICK id, row : notices' = [notices EXCEPT ![id] = row]
          BY <1>3, <3>2 DEF CommitNotice
        <4> QED
          BY <1>1, <4>1 DEF IsSeq
      <3> QED
        BY <3>1, <3>2
    <2>3. IsSeq(notices')
      BY <1>1, <2>2, IsSeqFun
    <2>4. NoticeRows'
      BY <2>1, <2>3 DEF DeskInv, DeskRows, NoticeRows, IsSeq
    <2> QED
      BY <2>1, <2>4, NoticeIdle
  <1>4. ASSUME NEW c \in Slots, NEW k, LoadNotice(c, k) PROVE DeskInv'
    BY <1>4, DeskIdle DEF LoadNotice, CounterPart
  <1>5. ASSUME NEW w \in BeatWorkers, HideQuery(w) PROVE DeskInv'
    <2>1. /\ UNCHANGED <<actions, tasks, handled, notices>> /\ UNCHANGED CounterPart
          /\ hiding' = [hiding EXCEPT ![w] = DueNotices]
      BY <1>5 DEF HideQuery, deskVars, CounterPart
    <2>2. IsFiniteSet(DueNotices)
      <3>1. IsFiniteSet(1..Len(notices))
        BY <1>1, FS_Interval, 1 \in Int, Len(notices) \in Int
      <3>2. DueNotices \subseteq 1..Len(notices)
        BY DEF DueNotices
      <3> QED
        BY <3>1, <3>2, FS_Subset
    <2>3. \A v \in BeatWorkers : hiding'[v] = IF v = w THEN DueNotices ELSE hiding[v]
      BY <2>1 DEF DeskInv, DeskRows
    <2>4. \A v \in BeatWorkers : IsFiniteSet(hiding'[v])
      BY <2>2, <2>3 DEF DeskInv, DeskRows
    <2>5. NoticeRows'
      BY <2>1, <2>4 DEF DeskInv, DeskRows, NoticeRows, IsSeq
    <2> QED
      BY <2>1, <2>5, NoticeIdle
  <1>6. ASSUME NEW w \in BeatWorkers, HideCommit(w) PROVE DeskInv'
    BY <1>6, HideCommitStep
  <1>7. ASSUME ScanCounterWindow PROVE DeskInv'
    BY <1>7, DeskIdle DEF ScanCounterWindow, deskVars, dmcaVars, CounterPart
  <1> QED
    BY <1>2, <1>3, <1>4, <1>5, <1>6, <1>7 DEF DmcaNext

LEMMA ScanStep == ASSUME DeskInv, ScanNext, UNCHANGED dmcaVars PROVE DeskInv'
  <1>1. UNCHANGED <<notices, hiding>>
    BY DEF dmcaVars
  <1>2. ASSUME NEW s \in Subjects, RunTools(s) PROVE DeskInv'
    BY <1>1, <1>2, DeskIdle DEF RunTools, CounterPart
  <1>3. ASSUME NEW s \in Subjects, ScanCase(s) PROVE DeskInv'
    BY <1>1, <1>3, DeskIdle DEF ScanCase, CounterPart
  <1>4. ASSUME NEW s \in Subjects, Decide(s) PROVE DeskInv'
    BY <1>1, <1>4, DeskIdle DEF Decide, deskVars, CounterPart
  <1>5. ASSUME NEW s \in Subjects, PassThrough(s) PROVE DeskInv'
    BY <1>1, <1>5, DeskIdle DEF PassThrough, CounterPart
  <1>6. ASSUME NEW s \in Subjects, Again(s) PROVE DeskInv'
    BY <1>1, <1>6, DeskIdle DEF Again, deskVars, CounterPart
  <1> QED
    BY <1>2, <1>3, <1>4, <1>5, <1>6 DEF ScanNext

LEMMA ModerationStep == ASSUME DeskInv, ModerationNext PROVE DeskInv'
  <1>1. CASE DeskNext /\ UNCHANGED <<dmcaVars, scanVars>>
    BY <1>1, DeskStep DEF dmcaVars
  <1>2. CASE DmcaNext
    BY <1>2, DmcaStep
  <1>3. CASE ScanNext /\ UNCHANGED dmcaVars
    BY <1>3, ScanStep
  <1> QED
    BY <1>1, <1>2, <1>3 DEF ModerationNext

-----------------------------------------------------------------------------
(* The areas together.                                                      *)

LEMMA InitCare == Init => CareInv
  <1> SUFFICES ASSUME Init PROVE CareInv
    OBVIOUS
  <1>1. work = [c \in Slots |-> None] /\ used = 0
    BY DEF Init, SlotsInit
  <1>2. chats = <<>> /\ history = <<>> /\ prompts = {}
    BY DEF Init, ChatbotInit
  <1>3. ChatbotInv
    BY <1>1, <1>2 DEF ChatbotInv, ChatRows, ContextIsOwn, SlotsFilled, ChatRequests
  <1>4. /\ events = <<>> /\ msgs = <<>> /\ notifs = <<>>
        /\ pushes = [e \in 1..MaxEvents |-> [u \in Users |-> [p \in Phones |-> 0]]]
    BY DEF Init, NotifyInit
  <1>5. NotifyRows
    BY <1>4, NotifyAssumption DEF NotifyRows
  <1>6. HandedOn /\ Informed /\ PushedUnderKey /\ TakenHasKey
    BY <1>4 DEF HandedOn, Informed, IsSeq, PushedUnderKey, TakenHasKey
  <1>7. NotifyInv
    BY <1>1, <1>5, <1>6 DEF NotifyInv, SlotsFilled, NotifyRequests
  <1>8. /\ actions = <<>> /\ reports = <<>>
        /\ throttle = [u \in Reporters |-> None]
        /\ filing = [c \in Reporters \X Slots |-> Idle]
        /\ notices = <<>> /\ hiding = [w \in BeatWorkers |-> {}]
    BY DEF Init, ModerationInit, DeskInit, DmcaInit
  <1>9. IsSeq(<<>>) /\ IsFiniteSet({})
    BY FS_EmptySet DEF IsSeq
  <1>10. DeskRows
    BY <1>8, <1>9 DEF DeskRows
  <1>11. CounterIsBacked /\ LoadedIsBacked
    BY <1>8 DEF CounterIsBacked, LoadedIsBacked, Idle
  <1> QED
    BY <1>3, <1>7, <1>10, <1>11 DEF CareInv, DeskInv

\* An area that is not running never changes.
LEMMA CareStep == CareInv /\ [Next]_vars => CareInv'
  <1> SUFFICES ASSUME CareInv, [Next]_vars PROVE CareInv'
    OBVIOUS
  <1>1. area' = area
    BY DEF Next, vars
  <1>2. ChatbotInv'
    <2>1. CASE area = "chatbot" /\ ChatbotNext
      BY <1>1, <2>1, ChatbotStep DEF CareInv, ChatbotInv, ChatHyps, ChatKept
    <2>2. CASE UNCHANGED <<slotVars, chatbotVars>>
      BY <1>1, <2>2 DEF CareInv, ChatbotInv, ChatRows, TurnsBy, ContextIsOwn, SlotsFilled,
                        ChatRequests, Asks, Owns, slotVars, chatbotVars
    <2>3. CASE area # "chatbot" /\ UNCHANGED chatbotVars
      BY <1>1, <2>3 DEF CareInv, ChatbotInv, ChatRows, TurnsBy, ContextIsOwn, chatbotVars
    <2> QED
      BY <2>1, <2>2, <2>3 DEF Next, vars
  <1>3. NotifyInv'
    <2>1. CASE area = "notify" /\ NotifyNext
      BY <1>1, <2>1, NotifyStep DEF CareInv, NotifyInv, NotifyHyps, NotifyKept
    <2>2. CASE UNCHANGED <<slotVars, notifyVars>>
      BY SMTT(20), <1>1, <2>2 DEF CareInv, NotifyInv, NotifyRows, HandedOn, HasTasks, HasTask, Routed,
                        Informed, IsSeq, Notified, Unguarded, PushedUnderKey, Nudge, KeyOf,
                        TakenHasKey, NudgeOf, SlotsFilled, NotifyRequests, slotVars, notifyVars
    <2>3. CASE area # "notify" /\ UNCHANGED notifyVars
      BY <1>1, <2>3 DEF CareInv, NotifyInv, NotifyRows, HandedOn, HasTasks, HasTask, Routed,
                        Informed, IsSeq, Notified, Unguarded, PushedUnderKey, Nudge, KeyOf,
                        TakenHasKey, NudgeOf, notifyVars
    <2> QED
      BY <2>1, <2>2, <2>3 DEF Next, vars
  <1>4. DeskInv'
    <2>1. CASE ModerationNext
      BY <2>1, ModerationStep DEF CareInv
    <2>2. CASE ReportNext /\ UNCHANGED <<dmcaVars, scanVars>>
      BY <2>2, DeskStep DEF CareInv, DeskNext, dmcaVars
    <2>3. CASE UNCHANGED moderationVars
      BY <2>3, DeskIdle DEF CareInv, moderationVars, deskVars, dmcaVars, CounterPart
    <2> QED
      BY <2>1, <2>2, <2>3 DEF Next, vars
  <1> QED
    BY <1>2, <1>3, <1>4 DEF CareInv

\* Support, notifications and moderation keep their three invariants through
\* every step of the handlers, workers and services that share the system
\* (ask, handle_message, create_report, dispatch_action).
THEOREM CareInvariance == Spec => []CareInv
  <1> QED
    BY InitCare, CareStep, PTL DEF Spec

-----------------------------------------------------------------------------
(* What follows.                                                            *)

\* The client names the session and the turns of a session overlap: the model
\* is still shown no turn of another user (_get_or_create_session,
\* _get_turn_history, _save_turn).
THEOREM ContextsAreOwn == Spec => []ContextIsOwn
  BY CareInvariance, PTL DEF CareInv, ChatbotInv

\* An event that was acknowledged is on its way to each of its users, or has
\* its row, or its retries are used up, although its tasks are queued twice,
\* raise or lose their workers (handle_message, _create_and_dispatch).
THEOREM NoEventIsLost == Spec => []EventReachesUser
  <1>1. NotifyInv => EventReachesUser
    <2> SUFFICES ASSUME NotifyInv, NEW e \in DOMAIN events, events[e].acked, Unguarded(e),
                        NEW i \in DOMAIN events[e].to
                 PROVE  \/ Awaited(e, events[e].to[i])
                        \/ \E n \in DOMAIN notifs : notifs[n].event = e /\ notifs[n].to = events[e].to[i]
      BY DEF EventReachesUser, Unguarded, Routed
    <2>1. e \in 1..Len(events) /\ DOMAIN msgs = 1..Len(msgs) /\ events[e] \in EventRow
      BY DEF NotifyInv, NotifyRows
    <2>2. i \in 1..Len(events[e].to)
      BY <2>1 DEF EventRow
    <2>3. HasTasks(e)
      BY <2>1 DEF NotifyInv, HandedOn, Unguarded
    <2>4. PICK m \in 1..Len(msgs) : msgs[m].event = e /\ msgs[m].to = events[e].to[i]
      BY <2>2, <2>3 DEF HasTasks, HasTask
    <2>5. CASE msgs[m].state # "done"
      BY <2>1, <2>4, <2>5 DEF Awaited
    <2>6. CASE msgs[m].state = "done"
      <3>1. msgs[m].tries > MaxRetries \/ Notified(e, events[e].to[i])
        BY <2>4, <2>6 DEF NotifyInv, Informed
      <3>2. DOMAIN notifs = 1..Len(notifs)
        BY DEF NotifyInv, Informed, IsSeq
      <3> QED
        BY <2>1, <2>4, <3>1, <3>2 DEF Awaited, Notified
    <2> QED
      BY <2>5, <2>6
  <1> QED
    BY <1>1, CareInvariance, PTL DEF CareInv

\* A nudge's event is delivered again, its task queued twice, retried, or
\* redelivered after a crash between the push and the commit: a phone still
\* hears of it once (task_collab_nudge).
THEOREM NudgedOnce == Spec => []NudgedOncePerDevice
  <1>1. NotifyInv => NudgedOncePerDevice
    <2> SUFFICES ASSUME NotifyInv, NEW e \in DOMAIN events, Nudge(e), NEW u \in Users, NEW p \in Phones
                 PROVE  pushes[e][u][p] <= 1
      BY DEF NudgedOncePerDevice, Nudge
    <2>1. e \in 1..MaxEvents
      BY NotifyAssumption DEF NotifyInv, NotifyRows
    <2>2. pushes[e][u][p] \in Nat
      BY <2>1 DEF NotifyInv, NotifyRows
    <2>3. ASSUME pushes[e][u][p] # 0 PROVE pushes[e][u][p] = 1
      <3>1. PushedUnderKey /\ Nudge(e)
        BY DEF NotifyInv
      <3>2. Nudge(e) => pushes[e][u][p] = 1
        BY <2>1, <2>3, <3>1 DEF PushedUnderKey
      <3> QED
        BY <3>1, <3>2
    <2> QED
      BY <2>2, <2>3
  <1> QED
    BY <1>1, CareInvariance, PTL DEF CareInv

\* However many requests lose each other's updates, the day's counter never
\* passes the limit nor the number of reports (_check_and_increment_throttle).
THEOREM CounterStaysBacked == Spec => []CounterIsBacked
  BY CareInvariance, PTL DEF CareInv, DeskInv

-----------------------------------------------------------------------------
(* Recursion on the natural numbers. *)

\* Whoever counts up reaches every number.
LEMMA Upward ==
    ASSUME NEW G, 0 \in G, \A n \in Nat : n \in G => n + 1 \in G
    PROVE  Nat \subseteq G
  <1>1. PICK T : T = Nat \ G
    OBVIOUS
  <1>2. SUFFICES ASSUME T # {} PROVE FALSE
    BY <1>1
  <1>3. T \subseteq Nat
    BY <1>1
  <1>4. PICK x \in T : \A y \in T : <<y, x>> \notin OpToRel(<, Nat)
    BY <1>2, <1>3, NatLessThanWellFounded, WFMin
  <1>5. \A y \in T : ~ (y < x)
    BY <1>3, <1>4 DEF OpToRel
  <1>6. x \in Nat /\ x # 0 /\ x - 1 \in Nat
    BY <1>1, <1>3
  <1>7. x - 1 \notin T
    BY <1>5, <1>6
  <1>8. (x - 1) + 1 \in G
    BY <1>1, <1>6, <1>7
  <1> QED
    BY <1>1, <1>6, <1>8

\* The values a recursion has taken up to n.
RunTo(f, n, V, v, step) ==
    /\ f \in [0..n -> V] /\ f[0] = v
    /\ \A i \in 0..(n - 1) : f[i + 1] = step[<<i, f[i]>>]

\* However far one wants to go, the recursion gets there.
LEMMA RunsExist ==
    ASSUME NEW V, NEW v \in V, NEW step \in [Nat \X V -> V], NEW m \in Nat
    PROVE  \E f : RunTo(f, m, V, v, step)
  <1> DEFINE Good == {n \in Nat : \E f : RunTo(f, n, V, v, step)}
  <1>0. PICK G : G = Good
    OBVIOUS
  <1>1. 0 \in G
    <2>1. RunTo([i \in 0..0 |-> v], 0, V, v, step)
      BY DEF RunTo
    <2> QED
      BY <1>0, <2>1
  <1>2. ASSUME NEW n \in Nat, n \in G PROVE n + 1 \in G
    <2>1. PICK f : RunTo(f, n, V, v, step)
      BY <1>0, <1>2
    <2>2. PICK w : w = step[<<n, f[n]>>]
      OBVIOUS
    <2>3. f[n] \in V /\ w \in V
      BY <2>1, <2>2 DEF RunTo
    <2>4. PICK g : g = [i \in 0..(n + 1) |-> IF i <= n THEN f[i] ELSE w]
      OBVIOUS
    <2>5. g \in [0..(n + 1) -> V] /\ g[0] = v
      BY <2>1, <2>3, <2>4 DEF RunTo
    <2>6. ASSUME NEW i \in 0..n PROVE g[i + 1] = step[<<i, g[i]>>]
      <3>1. CASE i = n
        <4>1. g[i + 1] = w /\ g[i] = f[i]
          BY <2>4, <3>1
        <4> QED
          BY <2>2, <3>1, <4>1
      <3>2. CASE i # n
        <4>1. i \in 0..(n - 1) /\ i + 1 \in 0..n
          BY <3>2
        <4>2. g[i + 1] = f[i + 1] /\ g[i] = f[i]
          BY <2>4, <4>1
        <4>3. f[i + 1] = step[<<i, f[i]>>]
          BY <2>1, <4>1 DEF RunTo
        <4> QED
          BY <4>2, <4>3
      <3> QED
        BY <3>1, <3>2
    <2>7. (n + 1) - 1 = n
      OBVIOUS
    <2>8. RunTo(g, n + 1, V, v, step)
      BY <2>5, <2>6, <2>7 DEF RunTo
    <2> QED
      BY <1>0, <2>8
  <1>3. Nat \subseteq G
    BY <1>1, <1>2, Upward
  <1> QED
    BY <1>0, <1>3

\* A longer recursion has taken the values of a shorter one.
LEMMA RunsMeet ==
    ASSUME NEW V, NEW v, NEW step, NEW n \in Nat, NEW m \in Nat, n <= m,
           NEW f, RunTo(f, n, V, v, step), NEW h, RunTo(h, m, V, v, step)
    PROVE  f[n] = h[n]
  <1> DEFINE Good == {i \in Nat : i <= n => f[i] = h[i]}
  <1>0. PICK G : G = Good
    OBVIOUS
  <1>1. 0 \in G
    BY <1>0 DEF RunTo
  <1>2. ASSUME NEW i \in Nat, i \in G PROVE i + 1 \in G
    <2>1. SUFFICES ASSUME i + 1 <= n PROVE f[i + 1] = h[i + 1]
      BY <1>0
    <2>2. f[i] = h[i]
      BY <1>0, <1>2, <2>1
    <2>3. i \in 0..(n - 1) /\ i \in 0..(m - 1)
      BY <2>1
    <2>4. f[i + 1] = step[<<i, f[i]>>] /\ h[i + 1] = step[<<i, h[i]>>]
      BY <2>3 DEF RunTo
    <2> QED
      BY <2>2, <2>4
  <1>3. Nat \subseteq G
    BY <1>1, <1>2, Upward
  <1> QED
    BY <1>0, <1>3

Recurs(f, V, v, step) ==
    f \in [Nat -> V] /\ f[0] = v /\ \A n \in Nat : f[n + 1] = step[<<n, f[n]>>]

\* A first value and a step define a function of the natural numbers.
LEMMA RecursionOnNat ==
    ASSUME NEW V, NEW v \in V, NEW step \in [Nat \X V -> V]
    PROVE  \E f : Recurs(f, V, v, step)
  <1>1. PICK run : run = [n \in Nat |-> CHOOSE f : RunTo(f, n, V, v, step)]
    OBVIOUS
  <1>2. ASSUME NEW n \in Nat PROVE RunTo(run[n], n, V, v, step)
    <2>1. \E f : RunTo(f, n, V, v, step)
      BY RunsExist
    <2> QED
      BY <1>1, <2>1
  <1>3. PICK g : g = [n \in Nat |-> run[n][n]]
    OBVIOUS
  <1>4. g \in [Nat -> V]
    <2>1. ASSUME NEW n \in Nat PROVE run[n][n] \in V
      BY <1>2 DEF RunTo
    <2> QED
      BY <1>3, <2>1
  <1>5. g[0] = v
    <2>1. run[0][0] = v
      BY <1>2 DEF RunTo
    <2> QED
      BY <1>3, <2>1
  <1>6. ASSUME NEW n \in Nat PROVE g[n + 1] = step[<<n, g[n]>>]
    <2>1. PICK m \in Nat : m = n + 1
      OBVIOUS
    <2>2. n <= m /\ n \in 0..(m - 1)
      BY <2>1
    <2>3. RunTo(run[n], n, V, v, step) /\ RunTo(run[m], m, V, v, step)
      BY <1>2
    <2>4. run[n][n] = run[m][n]
      BY <2>2, <2>3, RunsMeet
    <2>5. run[m][n + 1] = step[<<n, run[m][n]>>]
      BY <2>2, <2>3 DEF RunTo
    <2> QED
      BY <1>3, <2>1, <2>4, <2>5
  <1>7. Recurs(g, V, v, step)
    BY <1>4, <1>5, <1>6 DEF Recurs
  <1> QED
    BY <1>7

-----------------------------------------------------------------------------
(* What requests under way carry past the limit.                            *)

IsThrough(f) ==
    f = [p \in Nat \X Nat |-> IF p[1] = 0 \/ p[2] = 0 THEN 1
                              ELSE f[<<p[1] - 1, p[2]>>] + f[<<p[1], p[2] - 1>>]]
NextRow(a, b) == b \in [Nat -> Nat] /\ b[0] = 1 /\ \A n \in Nat : b[n + 1] = a[n + 1] + b[n]

\* Row after row, there is a function that Through's definition describes.
LEMMA ThroughExists == \E g : IsThrough(g)
  <1>1. ASSUME NEW a \in [Nat -> Nat] PROVE \E b \in [Nat -> Nat] : NextRow(a, b)
    <2>1. PICK step : step = [p \in Nat \X Nat |-> a[p[1] + 1] + p[2]]
      OBVIOUS
    <2>2. step \in [Nat \X Nat -> Nat]
      BY <2>1
    <2>3. PICK b : Recurs(b, Nat, 1, step)
      BY <2>2, RecursionOnNat, 1 \in Nat
    <2>4. b \in [Nat -> Nat] /\ b[0] = 1 /\ \A n \in Nat : b[n + 1] = step[<<n, b[n]>>]
      BY <2>3 DEF Recurs
    <2>5. \A n \in Nat : b[n + 1] = a[n + 1] + b[n]
      BY <2>1, <2>4
    <2> QED
      BY <2>4, <2>5 DEF NextRow
  <1>2. PICK step : step = [p \in Nat \X [Nat -> Nat] |-> CHOOSE b \in [Nat -> Nat] : NextRow(p[2], b)]
    OBVIOUS
  <1>3. ASSUME NEW k \in Nat, NEW a \in [Nat -> Nat]
        PROVE  step[<<k, a>>] \in [Nat -> Nat] /\ NextRow(a, step[<<k, a>>])
    <2>1. step[<<k, a>>] = CHOOSE b \in [Nat -> Nat] : NextRow(a, b)
      BY <1>2
    <2> QED
      BY <1>1, <2>1
  <1>4. step \in [Nat \X [Nat -> Nat] -> [Nat -> Nat]]
    <2>1. ASSUME NEW p \in Nat \X [Nat -> Nat] PROVE step[p] \in [Nat -> Nat]
      <3>1. PICK k \in Nat, a \in [Nat -> Nat] : p = <<k, a>>
        OBVIOUS
      <3> QED
        BY <1>3, <3>1
    <2> QED
      BY <1>2, <2>1
  <1>5. PICK ones : ones = [n \in Nat |-> 1]
    OBVIOUS
  <1>6. ones \in [Nat -> Nat]
    BY <1>5
  <1>7. PICK rows : Recurs(rows, [Nat -> Nat], ones, step)
    BY <1>4, <1>6, RecursionOnNat
  <1>12. /\ rows \in [Nat -> [Nat -> Nat]] /\ rows[0] = ones
         /\ \A k \in Nat : rows[k + 1] = step[<<k, rows[k]>>]
    BY <1>7 DEF Recurs
  <1>8. \A k \in Nat : NextRow(rows[k], rows[k + 1])
    BY <1>3, <1>12
  <1>9. PICK g : g = [p \in Nat \X Nat |-> rows[p[1]][p[2]]]
    OBVIOUS
  <1>10. ASSUME NEW p \in Nat \X Nat
         PROVE  g[p] = IF p[1] = 0 \/ p[2] = 0 THEN 1
                       ELSE g[<<p[1] - 1, p[2]>>] + g[<<p[1], p[2] - 1>>]
    <2>1. PICK k \in Nat, n \in Nat : p = <<k, n>>
      OBVIOUS
    <2>2. \A i \in Nat, j \in Nat : g[<<i, j>>] = rows[i][j]
      BY <1>9
    <2>3. CASE k = 0
      <3>1. rows[0][n] = 1
        BY <1>5, <1>12
      <3>2. g[p] = 1
        BY <2>1, <2>2, <2>3, <3>1
      <3> QED
        BY <2>1, <2>3, <3>2
    <2>4. CASE k # 0 /\ n = 0
      <3>1. PICK i \in Nat : k = i + 1
        BY <2>4
      <3>2. rows[k][0] = 1
        BY <1>8, <3>1 DEF NextRow
      <3> QED
        BY <2>1, <2>2, <2>4, <3>2
    <2>5. CASE k # 0 /\ n # 0
      <3>1. PICK i \in Nat, j \in Nat : k = i + 1 /\ n = j + 1
        <4>1. k - 1 \in Nat /\ n - 1 \in Nat /\ k = (k - 1) + 1 /\ n = (n - 1) + 1
          BY <2>5
        <4> QED
          BY <4>1
      <3>2. rows[i + 1][j + 1] = rows[i][j + 1] + rows[i + 1][j]
        BY <1>8 DEF NextRow
      <3>3. g[<<k, n>>] = g[<<i, n>>] + g[<<k, j>>]
        BY <2>2, <3>1, <3>2
      <3>4. k - 1 = i /\ n - 1 = j
        BY <3>1
      <3> QED
        BY <2>1, <2>5, <3>3, <3>4
    <2> QED
      BY <2>3, <2>4, <2>5
  <1>11. IsThrough(g)
    BY <1>9, <1>10 DEF IsThrough
  <1> QED
    BY <1>11

\* Through is what its definition says.
LEMMA ThroughValue ==
    ASSUME NEW k \in Nat, NEW n \in Nat
    PROVE  Through[<<k, n>>] = IF k = 0 \/ n = 0 THEN 1
                               ELSE Through[<<k - 1, n>>] + Through[<<k, n - 1>>]
  <1>1. Through = CHOOSE f : IsThrough(f)
    BY DEF Through, IsThrough
  <1>2. IsThrough(Through)
    BY <1>1, ThroughExists
  <1>3. PICK g : g = Through
    OBVIOUS
  <1>4. IsThrough(g)
    BY <1>2, <1>3
  <1>5. g[<<k, n>>] = IF k = 0 \/ n = 0 THEN 1 ELSE g[<<k - 1, n>>] + g[<<k, n - 1>>]
    BY <1>4 DEF IsThrough
  <1> QED
    BY <1>3, <1>5

\* At least one gets through.
LEMMA ThroughType == ASSUME NEW k \in Nat, NEW n \in Nat PROVE Through[<<k, n>>] \in Nat \ {0}
  <1> DEFINE Rows == {i \in Nat : \A j \in Nat : Through[<<i, j>>] \in Nat \ {0}}
  <1>0. PICK R : R = Rows
    OBVIOUS
  <1>1. 0 \in R
    <2>1. \A j \in Nat : Through[<<0, j>>] = 1
      BY ThroughValue, 0 \in Nat
    <2> QED
      BY <1>0, <2>1
  <1>2. ASSUME NEW i \in Nat, i \in R PROVE i + 1 \in R
    <2> DEFINE InRow == {j \in Nat : Through[<<i + 1, j>>] \in Nat \ {0}}
    <2>0. PICK S : S = InRow
      OBVIOUS
    <2>1. 0 \in S
      <3>1. Through[<<i + 1, 0>>] = 1
        BY ThroughValue, i + 1 \in Nat, 0 \in Nat
      <3> QED
        BY <2>0, <3>1
    <2>2. ASSUME NEW j \in Nat, j \in S PROVE j + 1 \in S
      <3>1. Through[<<i + 1, j>>] \in Nat \ {0}
        BY <2>0, <2>2
      <3>2. Through[<<i, j + 1>>] \in Nat \ {0}
        BY <1>0, <1>2
      <3>3. /\ i + 1 \in Nat /\ j + 1 \in Nat /\ i + 1 # 0 /\ j + 1 # 0
            /\ (i + 1) - 1 = i /\ (j + 1) - 1 = j
        OBVIOUS
      <3>4. Through[<<i + 1, j + 1>>] = Through[<<i, j + 1>>] + Through[<<i + 1, j>>]
        BY <3>3, ThroughValue
      <3> QED
        BY <2>0, <3>1, <3>2, <3>4
    <2>3. Nat \subseteq S
      BY <2>1, <2>2, Upward
    <2> QED
      BY <1>0, <2>0, <2>3
  <1>3. Nat \subseteq R
    BY <1>1, <1>2, Upward
  <1> QED
    BY <1>0, <1>3

\* More requests carry more through.
LEMMA ThroughGrows ==
    ASSUME NEW k \in Nat, NEW m \in Nat, k <= m, NEW n \in Nat
    PROVE  Through[<<k, n>>] <= Through[<<m, n>>]
  <1> DEFINE Good == {i \in Nat : k <= i => Through[<<k, n>>] <= Through[<<i, n>>]}
  <1>0. PICK G : G = Good
    OBVIOUS
  <1>1. 0 \in G
    BY <1>0, ThroughType
  <1>2. ASSUME NEW i \in Nat, i \in G PROVE i + 1 \in G
    <2>1. Through[<<i, n>>] \in Nat \ {0} /\ Through[<<i + 1, n>>] \in Nat \ {0}
          /\ Through[<<k, n>>] \in Nat \ {0}
      BY ThroughType
    <2>2. Through[<<i, n>>] <= Through[<<i + 1, n>>]
      <3>1. CASE n = 0
        <4>1. Through[<<i, n>>] = 1 /\ Through[<<i + 1, n>>] = 1
          BY <3>1, ThroughValue, i + 1 \in Nat
        <4> QED
          BY <4>1
      <3>2. CASE n # 0
        <4>1. n - 1 \in Nat /\ i + 1 \in Nat /\ i + 1 # 0 /\ (i + 1) - 1 = i
          BY <3>2
        <4>2. Through[<<i + 1, n>>] = Through[<<i, n>>] + Through[<<i + 1, n - 1>>]
          BY <3>2, <4>1, ThroughValue
        <4>3. Through[<<i + 1, n - 1>>] \in Nat
          BY <4>1, ThroughType
        <4> QED
          BY <2>1, <4>2, <4>3
      <3> QED
        BY <3>1, <3>2
    <2>3. CASE k <= i
      BY <1>0, <1>2, <2>1, <2>2, <2>3
    <2>4. CASE ~(k <= i)
      <3>1. k <= i + 1 => k = i + 1
        BY <2>4
      <3> QED
        BY <1>0, <2>1, <3>1
    <2> QED
      BY <2>3, <2>4
  <1>3. Nat \subseteq G
    BY <1>1, <1>2, Upward
  <1> QED
    BY <1>0, <1>3

\* What q requests with room for less than l add at that room.
Share(q, l) == IF q = 0 THEN 0 ELSE Through[<<q - 1, l>>]

\* Pascal's rule, in terms of what the requests add at one room.
LEMMA ShareFacts ==
    ASSUME NEW q \in Nat, NEW l \in Nat
    PROVE  /\ Share(q, l) \in Nat /\ Share(q + 1, l) = Through[<<q, l>>]
           /\ Through[<<q, l + 1>>] = Through[<<q, l>>] + Share(q, l + 1)
           /\ \A r \in Nat : q <= r => Share(q, l) <= Share(r, l)
  <1>1. Share(q, l) \in Nat
    <2>1. CASE q = 0
      BY <2>1 DEF Share
    <2>2. CASE q # 0
      BY <2>2, ThroughType, q - 1 \in Nat DEF Share
    <2> QED
      BY <2>1, <2>2
  <1>2. Share(q + 1, l) = Through[<<q, l>>]
    BY q + 1 # 0, (q + 1) - 1 = q DEF Share
  <1>3. Through[<<q, l + 1>>] = Through[<<q, l>>] + Share(q, l + 1)
    <2>1. l + 1 \in Nat /\ l + 1 # 0 /\ (l + 1) - 1 = l
      OBVIOUS
    <2>2. CASE q = 0
      <3>1. Through[<<q, l + 1>>] = 1 /\ Through[<<q, l>>] = 1
        BY <2>1, <2>2, ThroughValue
      <3>2. Share(q, l + 1) = 0
        BY <2>2 DEF Share
      <3> QED
        BY <3>1, <3>2
    <2>3. CASE q # 0
      <3>1. Through[<<q, l + 1>>] = Through[<<q - 1, l + 1>>] + Through[<<q, l>>]
        BY <2>1, <2>3, ThroughValue
      <3>2. Share(q, l + 1) = Through[<<q - 1, l + 1>>]
        BY <2>3 DEF Share
      <3>3. q - 1 \in Nat
        BY <2>3
      <3>4. Through[<<q - 1, l + 1>>] \in Nat /\ Through[<<q, l>>] \in Nat
        BY <2>1, <3>3, ThroughType
      <3> QED
        BY <3>1, <3>2, <3>4
    <2> QED
      BY <2>2, <2>3
  <1>4. ASSUME NEW r \in Nat, q <= r PROVE Share(q, l) <= Share(r, l)
    <2>1. CASE q = 0
      <3>1. Share(q, l) = 0
        BY <2>1 DEF Share
      <3>2. Share(r, l) \in Nat
        <4>1. CASE r = 0
          BY <4>1 DEF Share
        <4>2. CASE r # 0
          BY <4>2, ThroughType, r - 1 \in Nat DEF Share
        <4> QED
          BY <4>1, <4>2
      <3> QED
        BY <3>1, <3>2
    <2>2. CASE q # 0
      <3>1. q - 1 \in Nat /\ r - 1 \in Nat /\ q - 1 <= r - 1 /\ r # 0
        BY <1>4, <2>2
      <3> QED
        BY <2>2, <3>1, ThroughGrows DEF Share
    <2> QED
      BY <2>1, <2>2
  <1> QED
    BY <1>1, <1>2, <1>3, <1>4

\* How many reports are in when B[l] requests have room for less than l each:
\* one at no room, and what they add at every room up to theirs.
Levels(B, s) ==
    s \in [Nat -> Nat] /\ s[0] = 1 /\ \A l \in Nat : s[l + 1] = s[l] + Share(B[l + 1], l + 1)

\* Every number of requests at every room comes to something.
LEMMA LevelsExist == ASSUME NEW B \in [Nat -> Nat] PROVE \E s : Levels(B, s)
  <1>1. PICK step : step = [p \in Nat \X Nat |-> p[2] + Share(B[p[1] + 1], p[1] + 1)]
    OBVIOUS
  <1>2. ASSUME NEW l \in Nat, NEW v \in Nat
        PROVE  /\ step[<<l, v>>] = v + Share(B[l + 1], l + 1)
               /\ step[<<l, v>>] \in Nat
    <2>1. B[l + 1] \in Nat /\ l + 1 \in Nat
      OBVIOUS
    <2>2. Share(B[l + 1], l + 1) \in Nat
      BY <2>1, ShareFacts
    <2> QED
      BY <1>1, <2>2
  <1>3. step \in [Nat \X Nat -> Nat]
    <2>1. ASSUME NEW p \in Nat \X Nat PROVE step[p] \in Nat
      <3>1. PICK l \in Nat, v \in Nat : p = <<l, v>>
        OBVIOUS
      <3> QED
        BY <1>2, <3>1
    <2> QED
      BY <1>1, <2>1
  <1>4. PICK s : Recurs(s, Nat, 1, step)
    BY <1>3, RecursionOnNat, 1 \in Nat
  <1>5. s \in [Nat -> Nat] /\ s[0] = 1 /\ \A l \in Nat : s[l + 1] = step[<<l, s[l]>>]
    BY <1>4 DEF Recurs
  <1>6. \A l \in Nat : s[l + 1] = s[l] + Share(B[l + 1], l + 1)
    BY <1>2, <1>5
  <1> QED
    BY <1>5, <1>6 DEF Levels

\* The report that comes first is always in.
LEMMA LevelsPositive ==
    ASSUME NEW B \in [Nat -> Nat], NEW s, Levels(B, s), NEW n \in Nat
    PROVE  s[n] \in Nat /\ s[n] >= 1
  <1> DEFINE Good == {l \in Nat : s[l] >= 1}
  <1>0. PICK G : G = Good
    OBVIOUS
  <1>1. 0 \in G
    BY <1>0 DEF Levels
  <1>2. ASSUME NEW l \in Nat, l \in G PROVE l + 1 \in G
    <2>1. s[l] >= 1 /\ s[l] \in Nat
      BY <1>0, <1>2 DEF Levels
    <2>2. s[l + 1] = s[l] + Share(B[l + 1], l + 1)
      BY DEF Levels
    <2>3. Share(B[l + 1], l + 1) \in Nat
      BY ShareFacts, B[l + 1] \in Nat, l + 1 \in Nat
    <2> QED
      BY <1>0, <2>1, <2>2, <2>3
  <1>3. Nat \subseteq G
    BY <1>1, <1>2, Upward
  <1> QED
    BY <1>0, <1>3 DEF Levels

\* No more requests than b carry no more through than b requests.
LEMMA LevelsBound ==
    ASSUME NEW B \in [Nat -> Nat], NEW s, Levels(B, s), NEW n \in Nat, NEW b \in Nat,
           \A l \in 1..n : B[l] <= b
    PROVE  s[n] <= Through[<<b, n>>]
  <1> DEFINE Good == {l \in Nat : l <= n => s[l] <= Through[<<b, l>>]}
  <1>0. PICK G : G = Good
    OBVIOUS
  <1>1. 0 \in G
    <2>1. Through[<<b, 0>>] = 1 /\ s[0] = 1
      BY ThroughValue, 0 \in Nat DEF Levels
    <2> QED
      BY <1>0, <2>1
  <1>2. ASSUME NEW l \in Nat, l \in G PROVE l + 1 \in G
    <2>1. SUFFICES ASSUME l + 1 <= n PROVE s[l + 1] <= Through[<<b, l + 1>>]
      BY <1>0
    <2>2. PICK q \in Nat : q = B[l + 1]
      BY l + 1 \in Nat
    <2>3. q <= b
      BY <2>1, <2>2, l + 1 \in 1..n
    <2>4. s[l] <= Through[<<b, l>>]
      BY <1>0, <1>2, <2>1
    <2>5. s[l + 1] = s[l] + Share(q, l + 1)
      BY <2>2 DEF Levels
    <2>6. Share(q, l + 1) <= Share(b, l + 1) /\ Share(q, l + 1) \in Nat /\ Share(b, l + 1) \in Nat
      BY <2>3, ShareFacts, l + 1 \in Nat
    <2>7. Through[<<b, l + 1>>] = Through[<<b, l>>] + Share(b, l + 1)
      BY ShareFacts
    <2>8. s[l] \in Nat /\ Through[<<b, l>>] \in Nat
      BY ThroughType DEF Levels
    <2> QED
      BY <2>4, <2>5, <2>6, <2>7, <2>8
  <1>3. Nat \subseteq G
    BY <1>1, <1>2, Upward
  <1> QED
    BY <1>0, <1>3

\* A request that had room for r has room for one less and takes others down
\* or up to it: one more report is in.
LEMMA LevelsRise ==
    ASSUME NEW B \in [Nat -> Nat], NEW s, Levels(B, s), NEW C \in [Nat -> Nat], NEW t, Levels(C, t),
           NEW r \in Nat, r # 0, \A l \in 1..(r - 1) : B[l] <= B[r], B[r] + 1 <= C[r],
           NEW n \in Nat, r <= n, \A l \in (r + 1)..n : B[l] <= C[l]
    PROVE  s[n] + 1 <= t[n]
  <1>1. PICK b \in Nat, j \in Nat : b = B[r] /\ r = j + 1
    <2>1. r - 1 \in Nat /\ r = (r - 1) + 1
      OBVIOUS
    <2> QED
      BY <2>1
  <1>2. s[r] + 1 <= t[r]
    <2>1. s[j] <= Through[<<b, j>>]
      <3>1. \A l \in 1..j : B[l] <= b
        BY <1>1
      <3> QED
        BY <3>1, LevelsBound
    <2>2. s[r] = s[j] + Share(b, r) /\ s[j] \in Nat
      BY <1>1 DEF Levels
    <2>3. PICK q \in Nat : q = C[r]
      OBVIOUS
    <2>4. t[r] = t[j] + Share(q, r)
      BY <1>1, <2>3 DEF Levels
    <2>5. t[j] \in Nat /\ t[j] >= 1
      BY LevelsPositive
    <2>6. b + 1 <= q /\ b + 1 \in Nat
      BY <1>1, <2>3
    <2>7. Share(b + 1, r) <= Share(q, r) /\ Share(q, r) \in Nat
      BY <2>6, ShareFacts
    <2>8. Share(b + 1, r) = Through[<<b, r>>] /\ Share(b, r) \in Nat
      BY ShareFacts
    <2>9. Through[<<b, r>>] = Through[<<b, j>>] + Share(b, r)
      BY <1>1, ShareFacts
    <2>10. Through[<<b, j>>] \in Nat
      BY ThroughType
    <2> QED
      BY <2>1, <2>2, <2>4, <2>5, <2>7, <2>8, <2>9, <2>10
  <1> DEFINE Good == {l \in Nat : r <= l /\ l <= n => s[l] + 1 <= t[l]}
  <1>3. PICK G : G = Good
    OBVIOUS
  <1>4. 0 \in G
    BY <1>3
  <1>5. ASSUME NEW l \in Nat, l \in G PROVE l + 1 \in G
    <2>1. SUFFICES ASSUME r <= l + 1, l + 1 <= n PROVE s[l + 1] + 1 <= t[l + 1]
      BY <1>3
    <2>2. CASE r = l + 1
      BY <1>2, <2>2
    <2>3. CASE r # l + 1
      <3>1. r <= l
        BY <2>1, <2>3
      <3>2. s[l] + 1 <= t[l] /\ s[l] \in Nat /\ t[l] \in Nat
        BY <1>3, <1>5, <2>1, <3>1 DEF Levels
      <3>3. PICK p \in Nat, q \in Nat : p = B[l + 1] /\ q = C[l + 1]
        BY l + 1 \in Nat
      <3>4. p <= q
        BY <2>1, <3>1, <3>3, l + 1 \in (r + 1)..n
      <3>5. s[l + 1] = s[l] + Share(p, l + 1) /\ t[l + 1] = t[l] + Share(q, l + 1)
        BY <3>3 DEF Levels
      <3>6. /\ Share(p, l + 1) <= Share(q, l + 1)
            /\ Share(p, l + 1) \in Nat /\ Share(q, l + 1) \in Nat
        BY <3>4, ShareFacts, l + 1 \in Nat
      <3> QED
        BY <3>2, <3>5, <3>6
    <2> QED
      BY <2>2, <2>3
  <1>6. Nat \subseteq G
    BY <1>4, <1>5, Upward
  <1> QED
    BY <1>3, <1>6

-----------------------------------------------------------------------------
(* What each slot may still carry past the limit, in terms of the rows.     *)

\* A request between its SELECT and its COMMIT that loaded a count; any other
\* slot would load what the row says now.
Holds(u, c) == filing[<<u, c>>].at = "commit" /\ filing[<<u, c>>].count # None
Rooms(u) == [c \in Slots |->
                ReportLimit - (IF Holds(u, c) THEN filing[<<u, c>>].count ELSE throttle[u])]
Below(rooms) == [l \in Nat |-> Cardinality({c \in Slots : rooms[c] < l})]

\* Before the day's first report there is none; from then on there are no more
\* than the rooms of the slots account for.
Unused(u)  == Cardinality(MadeBy(u)) = 0 /\ \A c \in Slots : ~Holds(u, c)
Carried(rooms, k) == \E s : Levels(Below(rooms), s) /\ k <= s[ReportLimit - 1]
FiledInRoom == \A u \in Reporters :
    IF throttle[u] = None THEN Unused(u) ELSE Carried(Rooms(u), Cardinality(MadeBy(u)))

\* At every room there are so many slots, and no more than there are.
LEMMA BelowType ==
    ASSUME IsFiniteSet(Slots), NEW rooms
    PROVE  /\ Below(rooms) \in [Nat -> Nat]
           /\ \A l \in Nat : Below(rooms)[l] <= Cardinality(Slots)
  <1>1. ASSUME NEW l \in Nat
        PROVE  /\ Cardinality({c \in Slots : rooms[c] < l}) \in Nat
               /\ Cardinality({c \in Slots : rooms[c] < l}) <= Cardinality(Slots)
    <2>1. PICK S : S = {c \in Slots : rooms[c] < l}
      OBVIOUS
    <2>2. S \subseteq Slots
      BY <2>1
    <2>3. IsFiniteSet(S) /\ Cardinality(S) <= Cardinality(Slots)
      BY <2>2, FS_Subset
    <2> QED
      BY <2>1, <2>3, FS_CardinalityType
  <1> QED
    BY <1>1 DEF Below

\* Where no slot leaves, there are no fewer.
LEMMA BelowRises ==
    ASSUME IsFiniteSet(Slots), NEW a, NEW b, NEW l \in Nat, NEW m \in Nat,
           \A c \in Slots : a[c] < l => b[c] < m
    PROVE  Below(a)[l] <= Below(b)[m]
  <1>1. PICK S, T : S = {c \in Slots : a[c] < l} /\ T = {c \in Slots : b[c] < m}
    OBVIOUS
  <1>2. S \subseteq T /\ T \subseteq Slots
    BY <1>1
  <1>3. Cardinality(S) <= Cardinality(T)
    BY <1>2, FS_Subset
  <1> QED
    BY <1>1, <1>3 DEF Below

\* Where no slot leaves and one comes, there is one more.
LEMMA BelowAdds ==
    ASSUME IsFiniteSet(Slots), NEW a, NEW b, NEW l \in Nat, NEW c \in Slots,
           ~(a[c] < l), b[c] < l, \A d \in Slots : a[d] < l => b[d] < l
    PROVE  Below(a)[l] + 1 <= Below(b)[l]
  <1>1. PICK S, T : S = {d \in Slots : a[d] < l} /\ T = {d \in Slots : b[d] < l}
    OBVIOUS
  <1>2. S \cup {c} \subseteq T /\ T \subseteq Slots /\ S \subseteq Slots /\ c \notin S
    BY <1>1
  <1>3. IsFiniteSet(S) /\ IsFiniteSet(T)
    BY <1>2, FS_Subset
  <1>4. Cardinality(S \cup {c}) = Cardinality(S) + 1
    BY <1>2, <1>3, FS_AddElement
  <1>5. Cardinality(S \cup {c}) <= Cardinality(T)
    BY <1>2, <1>3, FS_Subset
  <1> QED
    BY <1>1, <1>4, <1>5 DEF Below

\* A request that had room for r commits: it has room for one less, and so has
\* every slot that loads the row it wrote.
LEMMA CommitCarries ==
    ASSUME IsFiniteSet(Slots), ReportLimit \in Nat, NEW a \in [Slots -> Int], NEW b \in [Slots -> Int],
           NEW r \in Nat, r # 0, r <= ReportLimit - 1, NEW c \in Slots, a[c] = r, b[c] = r - 1,
           \A d \in Slots : b[d] = a[d] \/ b[d] = r - 1,
           NEW k \in Nat, Carried(a, k)
    PROVE  Carried(b, k + 1)
  <1>1. PICK n \in Nat : n = ReportLimit - 1
    OBVIOUS
  <1>2. PICK B, C : B = Below(a) /\ C = Below(b)
    OBVIOUS
  <1>3. B \in [Nat -> Nat] /\ C \in [Nat -> Nat]
    BY <1>2, BelowType
  <1>4. PICK s : Levels(B, s) /\ k <= s[n]
    BY <1>1, <1>2 DEF Carried
  <1>5. PICK t : Levels(C, t)
    BY <1>3, LevelsExist
  <1>6. ASSUME NEW l \in 1..(r - 1) PROVE B[l] <= B[r]
    <2>1. l \in Nat /\ \A d \in Slots : a[d] < l => a[d] < r
      BY <1>6
    <2> QED
      BY <1>2, <2>1, BelowRises
  <1>7. B[r] + 1 <= C[r]
    <2>1. ~(a[c] < r) /\ b[c] < r /\ \A d \in Slots : a[d] < r => b[d] < r
      OBVIOUS
    <2> QED
      BY <1>2, <2>1, BelowAdds
  <1>8. ASSUME NEW l \in (r + 1)..n PROVE B[l] <= C[l]
    <2>1. l \in Nat /\ r <= l - 1 /\ \A d \in Slots : b[d] \in Int /\ a[d] \in Int
      BY <1>8
    <2>2. \A d \in Slots : a[d] < l => b[d] < l
      BY <2>1
    <2> QED
      BY <1>2, <2>1, <2>2, BelowRises
  <1>9. s[n] + 1 <= t[n]
    BY <1>1, <1>3, <1>4, <1>5, <1>6, <1>7, <1>8, LevelsRise
  <1>10. s[n] \in Nat /\ t[n] \in Nat
    BY <1>4, <1>5 DEF Levels
  <1>11. k + 1 <= t[n]
    BY <1>4, <1>9, <1>10
  <1> QED
    BY <1>1, <1>2, <1>5, <1>11 DEF Carried

\* Wherever the rooms stand, the first report is accounted for.
LEMMA FirstCarries ==
    ASSUME IsFiniteSet(Slots), ReportLimit \in Nat \ {0}, NEW rooms
    PROVE  Carried(rooms, 1)
  <1>1. PICK B : B = Below(rooms)
    OBVIOUS
  <1>2. B \in [Nat -> Nat]
    BY <1>1, BelowType
  <1>3. PICK s : Levels(B, s)
    BY <1>2, LevelsExist
  <1>4. 1 <= s[ReportLimit - 1]
    BY <1>2, <1>3, LevelsPositive, ReportLimit - 1 \in Nat
  <1> QED
    BY <1>1, <1>3, <1>4 DEF Carried

\* A user has made so many reports.
LEMMA MadeByType == ASSUME IsSeq(reports), NEW u PROVE Cardinality(MadeBy(u)) \in Nat
  <1>1. IsFiniteSet(1..Len(reports))
    BY FS_Interval, 1 \in Int, Len(reports) \in Int DEF IsSeq
  <1>2. MadeBy(u) \subseteq 1..Len(reports)
    BY DEF MadeBy
  <1>3. IsFiniteSet(MadeBy(u))
    BY <1>1, <1>2, FS_Subset
  <1> QED
    BY <1>3, FS_CardinalityType

\* A step that is not about reports.
LEMMA FiledIdle == ASSUME FiledInRoom, UNCHANGED CounterPart PROVE FiledInRoom'
  <1>1. \A u : MadeBy(u)' = MadeBy(u) /\ Rooms(u)' = Rooms(u)
    BY DEF CounterPart, MadeBy, Rooms, Holds
  <1>2. \A u : Unused(u) => Unused(u)'
    BY <1>1 DEF Unused, Holds, CounterPart
  <1> QED
    BY <1>1, <1>2 DEF FiledInRoom, CounterPart, Carried

\* What a slot may carry is a number.
LEMMA RoomsType ==
    ASSUME DeskInv, NEW u \in Reporters, throttle[u] # None
    PROVE  Rooms(u) \in [Slots -> Int]
  <1>1. throttle[u] \in 1..ReportLimit /\ ReportLimit \in Nat
    BY DeskAssumption DEF DeskInv, CounterIsBacked
  <1>2. ASSUME NEW c \in Slots, Holds(u, c) PROVE filing[<<u, c>>].count \in 1..(ReportLimit - 1)
    <2>1. PICK d \in Reporters \X Slots : d = <<u, c>>
      OBVIOUS
    <2>2. filing[d].count \in 1..(ReportLimit - 1)
      BY <1>2, <2>1 DEF DeskInv, LoadedIsBacked, Holds
    <2> QED
      BY <2>1, <2>2
  <1>3. ASSUME NEW c \in Slots
        PROVE  ReportLimit - (IF Holds(u, c) THEN filing[<<u, c>>].count ELSE throttle[u]) \in Int
    <2>1. CASE Holds(u, c)
      BY <1>1, <1>2, <2>1
    <2>2. CASE ~Holds(u, c)
      BY <1>1, <2>2
    <2> QED
      BY <2>1, <2>2
  <1> QED
    BY <1>3 DEF Rooms

\* Loading the counter leaves every room as it is.
LEMMA LoadFiled ==
    ASSUME DeskInv, FiledInRoom, NEW c \in Reporters \X Slots, NEW s, LoadReport(c, s)
    PROVE  FiledInRoom'
  <1>1. PICK r : r = [at |-> "commit", subject |-> s, count |-> throttle[c[1]],
                      found |-> ReportCases(s)]
    OBVIOUS
  <1>2. filing' = [filing EXCEPT ![c] = r] /\ UNCHANGED <<reports, throttle>> /\ filing[c].at = "idle"
    BY <1>1 DEF LoadReport
  <1>3. \A d \in Reporters \X Slots : filing'[d] = IF d = c THEN r ELSE filing[d]
    BY <1>2 DEF DeskInv, DeskRows
  <1>4. \A u : MadeBy(u)' = MadeBy(u)
    BY <1>2 DEF MadeBy
  <1>5. ASSUME NEW u \in Reporters
        PROVE  IF throttle'[u] = None THEN Unused(u)'
               ELSE Carried(Rooms(u)', Cardinality(MadeBy(u)'))
    <2>1. ASSUME NEW d \in Slots, <<u, d>> # c
          PROVE  Holds(u, d)' <=> Holds(u, d)
      BY <1>3, <2>1 DEF Holds
    <2>2. ASSUME NEW d \in Slots, <<u, d>> = c
          PROVE  /\ ~Holds(u, d) /\ Holds(u, d)' <=> throttle[u] # None
                 /\ filing'[<<u, d>>].count = throttle[u]
      <3>1. c[1] = u /\ filing'[c] = r
        BY <1>3, <2>2
      <3>2. r.at = "commit" /\ r.count = throttle[u]
        BY <1>1, <3>1
      <3> QED
        BY <1>2, <2>2, <3>1, <3>2 DEF Holds
    <2>3. CASE throttle[u] = None
      <3>1. Unused(u)
        BY <2>3 DEF FiledInRoom
      <3>2. Unused(u)'
        BY <1>4, <2>1, <2>2, <2>3, <3>1 DEF Unused
      <3> QED
        BY <1>2, <2>3, <3>2
    <2>4. CASE throttle[u] # None
      <3>1. ASSUME NEW d \in Slots
            PROVE  (IF Holds(u, d)' THEN filing'[<<u, d>>].count ELSE throttle'[u])
                       = (IF Holds(u, d) THEN filing[<<u, d>>].count ELSE throttle[u])
        <4>1. CASE <<u, d>> = c
          BY <1>2, <2>2, <2>4, <4>1
        <4>2. CASE <<u, d>> # c
          BY <1>2, <1>3, <2>1, <4>2
        <4> QED
          BY <4>1, <4>2
      <3>2. Rooms(u)' = Rooms(u)
        BY <3>1 DEF Rooms
      <3>3. Carried(Rooms(u), Cardinality(MadeBy(u)))
        BY <2>4 DEF FiledInRoom
      <3> QED
        BY <1>2, <1>4, <2>4, <3>2, <3>3
    <2> QED
      BY <2>3, <2>4
  <1> QED
    BY <1>5 DEF FiledInRoom, Carried

\* A commit that writes the counter writes one report, and takes one room.
LEMMA CommitFiled ==
    ASSUME IsFiniteSet(Slots), DeskInv, FiledInRoom, NEW c \in Reporters \X Slots, CommitReport(c)
    PROVE  FiledInRoom'
  <1>1. PICK u \in Reporters, x \in Slots : c = <<u, x>>
    OBVIOUS
  <1>2. /\ filing[c].at = "commit" /\ filing' = [filing EXCEPT ![c] = Idle]
    BY DEF CommitReport
  <1>3. \A d \in Reporters \X Slots : filing'[d] = IF d = c THEN Idle ELSE filing[d]
    BY <1>2 DEF DeskInv, DeskRows
  <1>4. Idle.at # "commit"
    BY DEF Idle
  <1>5. \A v \in Reporters, d \in Slots : <<v, d>> # c => (Holds(v, d)' <=> Holds(v, d))
                                                       /\ filing'[<<v, d>>] = filing[<<v, d>>]
    BY <1>3 DEF Holds
  <1>6. ~Holds(u, x)'
    BY <1>1, <1>3, <1>4 DEF Holds
  <1>7. CASE filing[c].count = None /\ UNCHANGED <<reports, throttle>>
    <2>1. ASSUME NEW v \in Reporters
          PROVE  IF throttle'[v] = None THEN Unused(v)'
                 ELSE Carried(Rooms(v)', Cardinality(MadeBy(v)'))
      <3>1. MadeBy(v)' = MadeBy(v)
        BY <1>7 DEF MadeBy
      <3>2. CASE throttle[v] = None
        <4>1. Unused(v)
          BY <3>2 DEF FiledInRoom
        <4>2. \A d \in Slots : ~Holds(v, d)'
          BY <1>1, <1>5, <1>6, <4>1 DEF Unused
        <4> QED
          BY <1>7, <3>1, <3>2, <4>1, <4>2 DEF Unused
      <3>3. CASE throttle[v] # None
        <4>1. ~Holds(u, x)
          BY <1>1, <1>7 DEF Holds
        <4>2. ASSUME NEW d \in Slots
              PROVE  (IF Holds(v, d)' THEN filing'[<<v, d>>].count ELSE throttle'[v])
                         = (IF Holds(v, d) THEN filing[<<v, d>>].count ELSE throttle[v])
          <5>1. CASE <<v, d>> = c
            <6>1. v = u /\ d = x
              BY <1>1, <5>1
            <6> QED
              BY <1>6, <1>7, <4>1, <6>1
          <5>2. CASE <<v, d>> # c
            BY <1>5, <1>7, <5>2
          <5> QED
            BY <5>1, <5>2
        <4>3. Rooms(v)' = Rooms(v)
          BY <4>2 DEF Rooms
        <4>4. Carried(Rooms(v), Cardinality(MadeBy(v)))
          BY <3>3 DEF FiledInRoom
        <4> QED
          BY <1>7, <3>1, <3>3, <4>3, <4>4
      <3> QED
        BY <3>2, <3>3
    <2> QED
      BY <2>1 DEF FiledInRoom, Carried
  <1>8. CASE ~(filing[c].count = None /\ UNCHANGED <<reports, throttle>>)
    <2>1. PICK n : n = IF filing[c].count = None THEN 1 ELSE filing[c].count + 1
      OBVIOUS
    <2>2. PICK row : row.by = u /\ reports' = Append(reports, row)
      BY <1>1, <1>8 DEF CommitReport
    <2>3. /\ throttle' = [throttle EXCEPT ![u] = n]
          /\ filing[c].count = None => throttle[u] = None
      BY <1>1, <1>8, <2>1 DEF CommitReport, CountedReport
    <2>4. \A v \in Reporters : throttle'[v] = IF v = u THEN n ELSE throttle[v]
      BY <2>3 DEF DeskInv, DeskRows
    <2>5. \A v : /\ Cardinality(MadeBy(v)) \in Nat /\ Cardinality(MadeBy(v)') \in Nat
                 /\ Cardinality(MadeBy(v)') = Cardinality(MadeBy(v)) + (IF row.by = v THEN 1 ELSE 0)
      BY <2>2, ReportCounts DEF DeskInv, DeskRows
    <2>6. filing[c].count # None => filing[c].count \in 1..(ReportLimit - 1)
      BY <1>2 DEF DeskInv, LoadedIsBacked
    <2>7. n \in Nat /\ n # None /\ ReportLimit \in Nat \ {0}
      BY <2>1, <2>6, DeskAssumption
    <2>8. ASSUME NEW v \in Reporters, v # u
          PROVE  IF throttle'[v] = None THEN Unused(v)'
                 ELSE Carried(Rooms(v)', Cardinality(MadeBy(v)'))
      <3>1. throttle'[v] = throttle[v] /\ Cardinality(MadeBy(v)') = Cardinality(MadeBy(v))
        BY <2>2, <2>4, <2>5, <2>8
      <3>2. \A d \in Slots : (Holds(v, d)' <=> Holds(v, d)) /\ filing'[<<v, d>>] = filing[<<v, d>>]
        <4>1. \A d \in Slots : <<v, d>> # c
          BY <1>1, <2>8
        <4> QED
          BY <1>5, <4>1
      <3>3. Rooms(v)' = Rooms(v)
        BY <3>1, <3>2 DEF Rooms
      <3>4. CASE throttle[v] = None
        <4>1. Unused(v)
          BY <3>4 DEF FiledInRoom
        <4>2. Unused(v)'
          BY <3>1, <3>2, <4>1 DEF Unused
        <4> QED
          BY <3>1, <3>4, <4>2
      <3>5. CASE throttle[v] # None
        <4>1. Carried(Rooms(v), Cardinality(MadeBy(v)))
          BY <3>5 DEF FiledInRoom
        <4> QED
          BY <3>1, <3>3, <3>5, <4>1
      <3> QED
        BY <3>4, <3>5
    <2>9. Carried(Rooms(u)', Cardinality(MadeBy(u)'))
      <3>1. PICK k \in Nat : k = Cardinality(MadeBy(u))
        BY <2>5
      <3>2. Cardinality(MadeBy(u)') = k + 1
        BY <2>2, <2>5, <3>1
      <3>3. PICK b : b = Rooms(u)'
        OBVIOUS
      <3>4. CASE throttle[u] = None
        <4>1. k = 0
          BY <3>1, <3>4 DEF FiledInRoom, Unused
        <4>2. Carried(b, 1)
          BY <2>7, FirstCarries
        <4> QED
          BY <3>2, <3>3, <4>1, <4>2
      <3>5. CASE throttle[u] # None
        <4>1. Holds(u, x) /\ filing[c].count \in 1..(ReportLimit - 1)
          BY <1>1, <1>2, <2>3, <2>6, <3>5 DEF Holds
        <4>2. PICK a : a = Rooms(u)
          OBVIOUS
        <4>3. PICK r \in Nat : r = ReportLimit - filing[c].count
          BY <2>7, <4>1
        <4>4. r # 0 /\ r <= ReportLimit - 1 /\ ReportLimit - n = r - 1
          BY <2>1, <2>7, <4>1, <4>3, DeskAssumption
        <4>5. a[x] = r
          BY <1>1, <4>1, <4>2, <4>3 DEF Rooms
        <4>6. throttle'[u] = n
          BY <2>4
        <4>7. b[x] = r - 1
          BY <1>6, <3>3, <4>4, <4>6 DEF Rooms
        <4>8. ASSUME NEW d \in Slots PROVE b[d] = a[d] \/ b[d] = r - 1
          <5>1. CASE d = x
            BY <4>7, <5>1
          <5>2. CASE d # x /\ Holds(u, d)
            <6>1. <<u, d>> # c
              BY <1>1, <5>2
            <6>2. Holds(u, d)' /\ filing'[<<u, d>>] = filing[<<u, d>>]
              BY <1>5, <5>2, <6>1
            <6>3. b[d] = ReportLimit - filing[<<u, d>>].count
              BY <3>3, <6>2 DEF Rooms
            <6>4. a[d] = ReportLimit - filing[<<u, d>>].count
              BY <4>2, <5>2 DEF Rooms
            <6> QED
              BY <6>3, <6>4
          <5>3. CASE d # x /\ ~Holds(u, d)
            <6>1. <<u, d>> # c
              BY <1>1, <5>3
            <6>2. ~Holds(u, d)'
              BY <1>5, <5>3, <6>1
            <6> QED
              BY <3>3, <4>4, <4>6, <6>2 DEF Rooms
          <5> QED
            BY <5>1, <5>2, <5>3
        <4>9. a \in [Slots -> Int]
          BY <3>5, <4>2, RoomsType
        <4>10. b \in [Slots -> Int]
          <5>1. \A d \in Slots : b[d] \in Int
            BY <4>8, <4>9
          <5>2. b = [d \in Slots |-> b[d]]
            BY <3>3 DEF Rooms
          <5> QED
            BY <5>1, <5>2
        <4>11. Carried(a, k)
          BY <3>1, <3>5, <4>2 DEF FiledInRoom
        <4>12. Carried(b, k + 1)
          BY <2>7, <4>4, <4>5, <4>7, <4>8, <4>9, <4>10, <4>11, CommitCarries
        <4> QED
          BY <3>2, <3>3, <4>12
      <3> QED
        BY <3>4, <3>5
    <2>10. ASSUME NEW v \in Reporters
           PROVE  IF throttle'[v] = None THEN Unused(v)'
                  ELSE Carried(Rooms(v)', Cardinality(MadeBy(v)'))
      <3>1. CASE v = u
        BY <2>4, <2>7, <2>9, <3>1
      <3>2. CASE v # u
        BY <2>8, <3>2
      <3> QED
        BY <3>1, <3>2
    <2> QED
      BY <2>10 DEF FiledInRoom, Carried
  <1> QED
    BY <1>7, <1>8

\* Nothing else of moderation-svc touches the reports, their counter or the
\* requests that file them.
LEMMA OnlyFiling ==
    ASSUME ModerationNext
    PROVE  \/ UNCHANGED CounterPart
           \/ \E c \in Reporters \X Slots : CommitReport(c) \/ \E s \in Subjects : LoadReport(c, s)
  <1>1. CASE DeskNext
    <2>1. ASSUME NEW m, CommitCase(m) PROVE UNCHANGED CounterPart
      BY <2>1 DEF CommitCase, CounterPart
    <2>2. ASSUME NEW m, NEW sent, QueueDispatch(m, sent) PROVE UNCHANGED CounterPart
      BY <2>2 DEF QueueDispatch, CounterPart
    <2>3. ASSUME NEW m, NEW k, LoadCase(m, k) PROVE UNCHANGED CounterPart
      BY <2>3 DEF LoadCase, CounterPart
    <2>4. ASSUME NEW m, NEW k, NEW t, NEW s, LoadAction(m, k, t, s) PROVE UNCHANGED CounterPart
      BY <2>4 DEF LoadAction, CounterPart
    <2>5. ASSUME NEW k, Reopen(k) PROVE UNCHANGED CounterPart
      BY <2>5 DEF Reopen, CounterPart
    <2>6. ASSUME ScanQueries \/ ScanCommit \/ Tick PROVE UNCHANGED CounterPart
      BY <2>6 DEF ScanQueries, ScanCommit, Tick, CounterPart
    <2>7. ASSUME NEW a, NEW sent, RunDispatch(a, sent) PROVE UNCHANGED CounterPart
      BY <2>7 DEF RunDispatch, CounterPart
    <2>8. ASSUME NEW a, NEW s, RunPropagate(a, s) PROVE UNCHANGED CounterPart
      BY <2>8 DEF RunPropagate, CounterPart
    <2> QED
      BY <1>1, <2>1, <2>2, <2>3, <2>4, <2>5, <2>6, <2>7, <2>8 DEF DeskNext, ReportNext
  <1>2. CASE DmcaNext
    BY <1>2 DEF DmcaNext, FileNotice, CommitNotice, LoadNotice, HideQuery, HideCommit,
                ScanCounterWindow, deskVars, dmcaVars, CounterPart
  <1>3. CASE ScanNext
    BY <1>3 DEF ScanNext, RunTools, ScanCase, Decide, PassThrough, Again, deskVars, CounterPart
  <1> QED
    BY <1>1, <1>2, <1>3 DEF ModerationNext

\* Every step of the system keeps the reports within the rooms.
LEMMA FiledStep == ASSUME CareInv, FiledInRoom, [Next]_vars PROVE FiledInRoom'
  <1>1. ASSUME NEW c \in Reporters \X Slots, CommitReport(c) PROVE FiledInRoom'
    BY <1>1, CommitFiled, DeskAssumption DEF CareInv
  <1>2. ASSUME NEW c \in Reporters \X Slots, NEW s, LoadReport(c, s) PROVE FiledInRoom'
    BY <1>2, LoadFiled DEF CareInv
  <1>3. CASE UNCHANGED CounterPart
    BY <1>3, FiledIdle
  <1>4. CASE ModerationNext
    BY <1>1, <1>2, <1>3, <1>4, OnlyFiling
  <1>5. CASE ReportNext
    BY <1>1, <1>2, <1>5 DEF ReportNext
  <1>6. CASE UNCHANGED moderationVars
    BY <1>3, <1>6 DEF moderationVars, deskVars, CounterPart
  <1> QED
    BY <1>4, <1>5, <1>6 DEF Next, vars

\* No report, no request, no counter.
LEMMA InitFiled == Init => FiledInRoom
  <1> SUFFICES ASSUME Init PROVE FiledInRoom
    OBVIOUS
  <1>1. /\ reports = <<>> /\ throttle = [u \in Reporters |-> None]
        /\ filing = [c \in Reporters \X Slots |-> Idle]
    BY DEF Init, ModerationInit, DeskInit
  <1>2. \A u : MadeBy(u) = {}
    BY <1>1 DEF MadeBy
  <1>3. \A u : Cardinality(MadeBy(u)) = 0
    BY <1>2, FS_EmptySet
  <1>4. \A u \in Reporters, c \in Slots : ~Holds(u, c)
    BY <1>1 DEF Holds, Idle
  <1> QED
    BY <1>1, <1>3, <1>4 DEF FiledInRoom, Unused

\* With every room that the slots have left, no more can have been filed.
LEMMA FiledWithin == CareInv /\ FiledInRoom => ThrottleIsBacked
  <1> SUFFICES ASSUME CareInv, FiledInRoom, NEW u \in Reporters
               PROVE  Cardinality(MadeBy(u)) <= Through[<<Cardinality(Slots), ReportLimit - 1>>]
    BY DEF ThrottleIsBacked, CareInv, DeskInv
  <1>1. PICK k \in Nat, n \in Nat : k = Cardinality(Slots) /\ n = ReportLimit - 1
    <2>1. Cardinality(Slots) \in Nat
      BY DeskAssumption, FS_CardinalityType
    <2>2. ReportLimit - 1 \in Nat
      BY DeskAssumption
    <2> QED
      BY <2>1, <2>2
  <1>2. Through[<<k, n>>] \in Nat \ {0}
    BY ThroughType
  <1>3. CASE throttle[u] = None
    <2>1. Cardinality(MadeBy(u)) = 0
      BY <1>3 DEF FiledInRoom, Unused
    <2> QED
      BY <1>1, <1>2, <2>1
  <1>4. CASE throttle[u] # None
    <2>1. PICK B : B = Below(Rooms(u))
      OBVIOUS
    <2>2. PICK s : Levels(B, s) /\ Cardinality(MadeBy(u)) <= s[n]
      BY <1>1, <1>4, <2>1 DEF FiledInRoom, Carried
    <2>3. B \in [Nat -> Nat] /\ \A l \in Nat : B[l] <= k
      BY <1>1, <2>1, BelowType, DeskAssumption
    <2>4. s[n] <= Through[<<k, n>>]
      BY <2>2, <2>3, LevelsBound
    <2>5. s[n] \in Nat /\ Cardinality(MadeBy(u)) \in Nat
      <3>1. s[n] \in Nat
        BY <2>2 DEF Levels
      <3>2. IsSeq(reports)
        BY DEF CareInv, DeskInv, DeskRows
      <3> QED
        BY <3>1, <3>2, MadeByType
    <2> QED
      BY <1>1, <1>2, <2>2, <2>4, <2>5
  <1> QED
    BY <1>3, <1>4

\* Requests of one user overlap between reading the day's counter and writing
\* it: the counter stays within the limit and the reports, and no more reports
\* get past it than the overlap can carry, whatever order the requests commit
\* in (create_report, _check_and_increment_throttle).
THEOREM ThrottleHolds == Spec => []ThrottleIsBacked
  <1>1. CareInv /\ FiledInRoom /\ [Next]_vars => FiledInRoom'
    BY FiledStep
  <1> QED
    BY <1>1, InitCare, CareStep, InitFiled, FiledWithin, PTL DEF Spec

-----------------------------------------------------------------------------
(* A case that ended has the action that ended it.                          *)

\* What ends a case, and what a row must have for a status to be written.
Ended == {"actioned", "dismissed"}
HasStatus(c) == c = [f \in DOMAIN c |-> c[f]] /\ "status" \in DOMAIN c

\* The action rows tell how the case came to its status.
Tells(acts, k, status) ==
    \E a \in 1..Len(acts) : acts[a].case = k /\ ((acts[a].type = "dismiss") <=> (status = "dismissed"))
Told(cs, acts) == \A k \in 1..Len(cs) : cs[k].status \in Ended => Tells(acts, k, cs[k].status)

\* A request that brings no action row with it sets no status that ends a case,
\* unless it found that status and so does not write it; one that decides found
\* the case undecided, and so writes its own.
Honest(q) ==
    IF q.type = None THEN q.row.status \in {q.loaded.status, "open", "in_review", "escalated"}
    ELSE /\ q.loaded.status \notin Ended
         /\ q.row.status = IF q.type = "dismiss" THEN "dismissed" ELSE "actioned"
HonestRequests == /\ req = [m \in Moderators |-> req[m]]
                  /\ \A m \in Moderators : req[m].at = "commit" => Honest(req[m])

CaseRows == IsSeq(cases) /\ \A k \in 1..Len(cases) : HasStatus(cases[k])
HidesNotices == \A w \in BeatWorkers : hiding[w] \subseteq Nat

TrailInv == CaseRows /\ HonestRequests /\ HidesNotices /\ Told(cases, actions)

\* What a flush leaves of the status.
LEMMA FlushStatus ==
    ASSUME NEW c, NEW l, NEW w, HasStatus(c)
    PROVE  /\ HasStatus(Flush(c, l, w))
           /\ Flush(c, l, w).status = IF w.status = l.status THEN c.status ELSE w.status
  <1>1. PICK x : x = Flush(c, l, w)
    OBVIOUS
  <1>2. x = [f \in DOMAIN c |-> IF w[f] = l[f] THEN c[f] ELSE w[f]]
    BY <1>1 DEF Flush
  <1>3. "status" \in DOMAIN c
    BY DEF HasStatus
  <1>4. x["status"] = IF w["status"] = l["status"] THEN c["status"] ELSE w["status"]
    BY <1>2, <1>3
  <1>5. HasStatus(x)
    BY <1>2, <1>3 DEF HasStatus
  <1> QED
    BY <1>1, <1>4, <1>5

\* More actions, and cases whose status is as it was, or ends nothing, or is told.
LEMMA StillTold ==
    ASSUME NEW cs, NEW acts, NEW cs2, NEW acts2, Told(cs, acts),
           Len(acts) \in Nat, Len(acts2) \in Nat, Len(acts) <= Len(acts2),
           \A a \in 1..Len(acts) : acts2[a] = acts[a],
           \A k \in 1..Len(cs2) : \/ cs2[k].status \notin Ended
                                  \/ k \in 1..Len(cs) /\ cs2[k].status = cs[k].status
                                  \/ Tells(acts2, k, cs2[k].status)
    PROVE  Told(cs2, acts2)
  <1>1. ASSUME NEW k, NEW st, Tells(acts, k, st) PROVE Tells(acts2, k, st)
    <2>1. PICK a \in 1..Len(acts) : acts[a].case = k /\ ((acts[a].type = "dismiss") <=> (st = "dismissed"))
      BY <1>1 DEF Tells
    <2>2. a \in 1..Len(acts2) /\ acts2[a] = acts[a]
      OBVIOUS
    <2> QED
      BY <2>1, <2>2 DEF Tells
  <1>2. ASSUME NEW k \in 1..Len(cs2), cs2[k].status \in Ended PROVE Tells(acts2, k, cs2[k].status)
    <2>1. CASE k \in 1..Len(cs) /\ cs2[k].status = cs[k].status
      <3>1. Tells(acts, k, cs[k].status)
        BY <1>2, <2>1 DEF Told
      <3> QED
        BY <1>1, <2>1, <3>1
    <2> QED
      BY <1>2, <2>1
  <1> QED
    BY <1>2 DEF Told

\* A step that is about neither cases nor decisions.
LEMMA TrailIdle ==
    ASSUME TrailInv, UNCHANGED <<cases, actions, req, hiding>>
    PROVE  TrailInv'
  BY DEF TrailInv, CaseRows, HonestRequests, HidesNotices, IsSeq

\* A case that is new is open.
LEMMA TrailNewCase ==
    ASSUME TrailInv, NEW CONSTANT row, HasStatus(row), row.status = "open",
           cases' = Append(cases, row), UNCHANGED <<actions, req, hiding>>, IsSeq(actions)
    PROVE  TrailInv'
  <1>1. IsSeq(cases)
    BY DEF TrailInv, CaseRows
  <1>2. /\ IsSeq(cases') /\ Len(cases') = Len(cases) + 1 /\ cases'[Len(cases) + 1] = row
        /\ \A k \in 1..Len(cases) : cases'[k] = cases[k]
    BY <1>1, IsSeqAppend
  <1>3. Len(cases) \in Nat /\ Len(actions) \in Nat
    BY <1>1 DEF IsSeq
  <1>4. \A k \in 1..Len(cases') : k \in 1..Len(cases) \/ k = Len(cases) + 1
    BY <1>2, <1>3
  <1>5. CaseRows'
    BY <1>2, <1>4 DEF TrailInv, CaseRows
  <1>6. \A k \in 1..Len(cases') : \/ cases'[k].status \notin Ended
                                  \/ k \in 1..Len(cases) /\ cases'[k].status = cases[k].status
    BY <1>2, <1>4 DEF Ended
  <1>7. Told(cases, actions)
    BY DEF TrailInv
  <1>9. Len(actions) <= Len(actions)
    BY <1>3
  <1>8. Told(cases', actions)
    BY <1>3, <1>6, <1>7, <1>9, StillTold
  <1> QED
    BY <1>5, <1>8 DEF TrailInv, HonestRequests, HidesNotices

\* A case has a status when it is made, and keeps it when its deadline or its
\* key is set.
LEMMA NewCaseOpen ==
    ASSUME NEW kind, NEW s, NEW tier, NEW forced, NEW c, c = NewCase(kind, s, tier, forced)
    PROVE  HasStatus(c) /\ c.status = "open"
  BY DEF NewCase, HasStatus
LEMMA StaysOpen ==
    ASSUME NEW c, HasStatus(c), c.status = "open", NEW x, NEW d,
           d = [c EXCEPT !.due = x] \/ d = [c EXCEPT !.key = x]
    PROVE  HasStatus(d) /\ d.status = "open"
  BY DEF HasStatus

\* Requests move, cases and actions do not.
LEMMA TrailRequest ==
    ASSUME TrailInv, NEW m \in Moderators, NEW q, req' = [req EXCEPT ![m] = q],
           q.at = "commit" => Honest(q), UNCHANGED <<cases, actions, hiding>>
    PROVE  TrailInv'
  <1>1. \A n \in Moderators : req'[n] = IF n = m THEN q ELSE req[n]
    BY DEF TrailInv, HonestRequests
  <1>2. HonestRequests'
    <2>1. req' = [n \in Moderators |-> req'[n]]
      BY DEF TrailInv, HonestRequests
    <2>2. ASSUME NEW n \in Moderators, req'[n].at = "commit" PROVE Honest(req'[n])
      BY <1>1, <2>2 DEF TrailInv, HonestRequests
    <2> QED
      BY <2>1, <2>2 DEF HonestRequests, Honest
  <1> QED
    BY <1>2 DEF TrailInv, CaseRows, IsSeq, HidesNotices

\* Claim, release and escalate end nothing.
LEMMA LoadCaseTrail ==
    ASSUME TrailInv, NEW m \in Moderators, NEW k \in 1..Len(cases), LoadCase(m, k), UNCHANGED hiding
    PROVE  TrailInv'
  <1>1. PICK c : c = cases[k]
    OBVIOUS
  <1>2. HasStatus(c)
    BY <1>1 DEF TrailInv, CaseRows
  <1>3. PICK op \in {Claim(m, c), Release(m, c), Escalate(m, c)} :
            req' = [req EXCEPT ![m] = [at |-> "commit", case |-> k, loaded |-> c,
                                       row |-> op.row, type |-> None]]
    BY <1>1 DEF LoadCase
  <1>4. op.row.status \in {"open", "in_review", "escalated"}
    <2>1. CASE op = Claim(m, c)
      BY <1>2, <2>1 DEF Claim, HasStatus
    <2>2. CASE op = Release(m, c)
      BY <1>2, <2>2 DEF Release, HasStatus
    <2>3. CASE op = Escalate(m, c)
      BY <1>2, <2>3 DEF Escalate, HasStatus
    <2> QED
      BY <1>3, <2>1, <2>2, <2>3
  <1>5. PICK q : q = [at |-> "commit", case |-> k, loaded |-> c, row |-> op.row, type |-> None]
    OBVIOUS
  <1>6. Honest(q)
    BY <1>4, <1>5 DEF Honest
  <1>7. UNCHANGED <<cases, actions>>
    BY DEF LoadCase
  <1> QED
    BY <1>3, <1>5, <1>6, <1>7, TrailRequest

\* A decision is taken on a case that has not ended.
LEMMA LoadActionTrail ==
    ASSUME TrailInv, NEW m \in Moderators, NEW k \in 1..Len(cases), NEW t \in Decisions, NEW s,
           LoadAction(m, k, t, s), UNCHANGED hiding
    PROVE  TrailInv'
  <1>1. PICK c : c = cases[k]
    OBVIOUS
  <1>2. HasStatus(c)
    BY <1>1 DEF TrailInv, CaseRows
  <1>3. PICK row : row = Decided(m, c, t, s)
    OBVIOUS
  <1>4. row.status = IF t = "dismiss" THEN "dismissed" ELSE "actioned"
    BY <1>2, <1>3 DEF Decided, HasStatus
  <1>5. PICK q : q = [at |-> "commit", case |-> k, loaded |-> c, row |-> row, type |-> t]
    OBVIOUS
  <1>6. c.status \in {"in_review", "escalated"}
    BY <1>1 DEF LoadAction, MayAct
  <1>7. t # None
    BY DeskAssumption
  <1>8. Honest(q)
    BY <1>4, <1>5, <1>6, <1>7 DEF Honest, Ended
  <1>9. req' = [req EXCEPT ![m] = q] /\ UNCHANGED <<cases, actions>>
    BY <1>1, <1>3, <1>5 DEF LoadAction
  <1> QED
    BY <1>8, <1>9, TrailRequest

\* The case and the action row of a decision are written together.
LEMMA CommitCaseTrail ==
    ASSUME TrailInv, IsSeq(actions), NEW m \in Moderators, CommitCase(m), UNCHANGED hiding
    PROVE  TrailInv'
  <1>1. PICK q : q = req[m]
    OBVIOUS
  <1>2. q.at = "commit" /\ Honest(q)
    BY <1>1 DEF TrailInv, HonestRequests, CommitCase
  <1>3. PICK x : x = Flush(cases[q.case], q.loaded, q.row)
    OBVIOUS
  <1>4. cases' = [cases EXCEPT ![q.case] = x]
    BY <1>1, <1>3 DEF CommitCase
  <1>5. IsSeq(cases) /\ Len(cases) \in Nat /\ Len(actions) \in Nat
    BY DEF TrailInv, CaseRows, IsSeq
  <1>6. cases' = [k \in 1..Len(cases) |-> cases'[k]]
    BY <1>4, <1>5 DEF IsSeq
  <1>7. IsSeq(cases') /\ Len(cases') = Len(cases)
    BY <1>5, <1>6, IsSeqFun
  <1>8. \A k \in 1..Len(cases) : cases'[k] = IF k = q.case THEN x ELSE cases[k]
    BY <1>4, <1>5 DEF IsSeq
  <1>9. ASSUME q.case \in 1..Len(cases)
        PROVE  /\ HasStatus(x)
               /\ x.status = IF q.row.status = q.loaded.status THEN cases[q.case].status
                             ELSE q.row.status
    <2>1. HasStatus(cases[q.case])
      BY <1>9 DEF TrailInv, CaseRows
    <2> QED
      BY <1>3, <2>1, FlushStatus
  <1>10. CaseRows'
    BY <1>7, <1>8, <1>9 DEF TrailInv, CaseRows
  <1>11. Told(cases, actions)
    BY DEF TrailInv
  <1>12. CASE q.type = None
    <2>1. actions' = actions /\ req' = [req EXCEPT ![m] = Idle]
      BY <1>1, <1>12 DEF CommitCase
    <2>2. ASSUME NEW k \in 1..Len(cases')
          PROVE  cases'[k].status \notin Ended \/ (k \in 1..Len(cases) /\ cases'[k].status = cases[k].status)
      <3>1. CASE k = q.case
        BY <1>2, <1>7, <1>8, <1>9, <1>12, <3>1 DEF Honest, Ended
      <3>2. CASE k # q.case
        BY <1>7, <1>8, <3>2
      <3> QED
        BY <3>1, <3>2
    <2>3. Told(cases', actions')
      BY <1>5, <1>11, <2>1, <2>2, StillTold
    <2>4. \A n \in Moderators : req'[n] = IF n = m THEN Idle ELSE req[n]
      BY <2>1 DEF TrailInv, HonestRequests
    <2>5. req' = [n \in Moderators |-> req'[n]]
      BY <2>1 DEF TrailInv, HonestRequests
    <2>6. ASSUME NEW n \in Moderators, req'[n].at = "commit" PROVE Honest(req'[n])
      BY <2>4, <2>6 DEF TrailInv, HonestRequests, Idle
    <2> QED
      BY <1>10, <2>3, <2>5, <2>6 DEF TrailInv, HonestRequests, Honest, HidesNotices
  <1>13. CASE q.type # None
    <2>1. PICK row, next : /\ row = [case |-> q.case, type |-> q.type, by |-> m]
                           /\ next = [at |-> "dispatch", action |-> Len(actions) + 1]
      OBVIOUS
    <2>2. actions' = Append(actions, row) /\ req' = [req EXCEPT ![m] = next]
      BY <1>1, <1>13, <2>1 DEF CommitCase
    <2>3. /\ IsSeq(actions') /\ Len(actions') = Len(actions) + 1 /\ actions'[Len(actions) + 1] = row
          /\ \A a \in 1..Len(actions) : actions'[a] = actions[a]
      BY <2>2, IsSeqAppend
    <2>4. ASSUME q.case \in 1..Len(cases) PROVE Tells(actions', q.case, x.status)
      <3>1. x.status = IF q.type = "dismiss" THEN "dismissed" ELSE "actioned"
        BY <1>2, <1>9, <1>13, <2>4 DEF Honest, Ended
      <3>2. Len(actions) + 1 \in 1..Len(actions')
        BY <1>5, <2>3
      <3>3. row.case = q.case /\ row.type = q.type
        BY <2>1
      <3>4. (row.type = "dismiss") <=> (x.status = "dismissed")
        BY <3>1, <3>3
      <3> QED
        BY <2>3, <3>2, <3>3, <3>4 DEF Tells
    <2>5. ASSUME NEW k \in 1..Len(cases')
          PROVE  Tells(actions', k, cases'[k].status)
                 \/ (k \in 1..Len(cases) /\ cases'[k].status = cases[k].status)
      <3>1. CASE k = q.case
        BY <1>7, <1>8, <2>4, <3>1
      <3>2. CASE k # q.case
        BY <1>7, <1>8, <3>2
      <3> QED
        BY <3>1, <3>2
    <2>6. Len(actions) <= Len(actions') /\ Len(actions') \in Nat
      BY <1>5, <2>3
    <2>7. Told(cases', actions')
      BY <1>5, <1>11, <2>3, <2>5, <2>6, StillTold
    <2>8. \A n \in Moderators : req'[n] = IF n = m THEN next ELSE req[n]
      BY <2>2 DEF TrailInv, HonestRequests
    <2>9. req' = [n \in Moderators |-> req'[n]]
      BY <2>2 DEF TrailInv, HonestRequests
    <2>10. next.at # "commit"
      BY <2>1
    <2>11. ASSUME NEW n \in Moderators, req'[n].at = "commit" PROVE Honest(req'[n])
      BY <2>8, <2>10, <2>11 DEF TrailInv, HonestRequests
    <2> QED
      BY <1>10, <2>7, <2>9, <2>11 DEF TrailInv, HonestRequests, Honest, HidesNotices
  <1> QED
    BY <1>12, <1>13

\* The scan marks and escalates what it found steps ago, and ends nothing.
LEMMA ScanCommitTrail ==
    ASSUME TrailInv, IsSeq(actions), ScanCommit, UNCHANGED hiding
    PROVE  TrailInv'
  <1>1. IsSeq(cases) /\ Len(cases) \in Nat /\ Len(actions) \in Nat
    BY DEF TrailInv, CaseRows, IsSeq
  <1>2. cases' = [k \in 1..Len(cases) |-> cases'[k]]
    BY DEF ScanCommit
  <1>3. IsSeq(cases') /\ Len(cases') = Len(cases)
    BY <1>1, <1>2, IsSeqFun
  <1>4. ASSUME NEW k \in 1..Len(cases)
        PROVE  /\ HasStatus(cases'[k])
               /\ cases'[k].status \notin Ended \/ cases'[k].status = cases[k].status
    <2>1. PICK c : c = cases[k]
      OBVIOUS
    <2>2. HasStatus(c)
      BY <2>1 DEF TrailInv, CaseRows
    <2>3. PICK breached, status :
              /\ cases'[k] = [c EXCEPT !.breached = breached, !.status = status]
              /\ status = "escalated" \/ status = c.status
      BY <2>1 DEF ScanCommit
    <2>4. HasStatus([c EXCEPT !.breached = breached, !.status = status])
          /\ [c EXCEPT !.breached = breached, !.status = status].status = status
      BY <2>2 DEF HasStatus
    <2> QED
      BY <2>1, <2>3, <2>4 DEF Ended
  <1>5. UNCHANGED <<actions, req>>
    BY DEF ScanCommit
  <1>6. Told(cases, actions)
    BY DEF TrailInv
  <1>7. Told(cases', actions)
    BY <1>1, <1>3, <1>4, <1>6, StillTold
  <1> QED
    BY <1>3, <1>4, <1>5, <1>7 DEF TrailInv, CaseRows, HonestRequests, HidesNotices

\* The elements of a finite set of numbers are told apart by how many are no
\* greater.
LEMMA Ranked ==
    ASSUME NEW S, S \subseteq Nat, IsFiniteSet(S), NEW d \in S
    PROVE  \E i \in 1..Cardinality(S) : (CHOOSE k \in S : Cardinality({j \in S : j <= k}) = i) = d
  <1>1. ASSUME NEW a \in S, NEW b \in S, a < b
        PROVE  Cardinality({j \in S : j <= a}) < Cardinality({j \in S : j <= b})
    <2>1. PICK A, B : A = {j \in S : j <= a} /\ B = {j \in S : j <= b}
      OBVIOUS
    <2>7. a \in Nat /\ b \in Nat /\ \A j \in S : j \in Nat /\ (j <= a => j <= b)
      BY <1>1
    <2>8. A \subseteq B /\ B \subseteq S /\ A \subseteq S
      BY <2>1, <2>7
    <2>9. b \in B /\ b \notin A
      BY <1>1, <2>1, <2>7
    <2>2. A \cup {b} \subseteq B /\ B \subseteq S /\ A \subseteq S /\ b \notin A
      BY <2>8, <2>9
    <2>3. IsFiniteSet(A) /\ IsFiniteSet(B)
      BY <2>2, FS_Subset
    <2>4. Cardinality(A \cup {b}) = Cardinality(A) + 1
      BY <2>2, <2>3, FS_AddElement
    <2>5. Cardinality(A \cup {b}) <= Cardinality(B)
      BY <2>2, <2>3, FS_Subset
    <2>6. Cardinality(A) \in Nat /\ Cardinality(B) \in Nat
      BY <2>3, FS_CardinalityType
    <2> QED
      BY <2>1, <2>4, <2>5, <2>6
  <1>2. PICK T : T = {j \in S : j <= d}
    OBVIOUS
  <1>3. T \subseteq S /\ d \in T
    BY <1>2
  <1>4. IsFiniteSet(T) /\ Cardinality(T) <= Cardinality(S)
    BY <1>3, FS_Subset
  <1>5. Cardinality(T) \in Nat /\ Cardinality(S) \in Nat
    BY <1>4, FS_CardinalityType
  <1>6. Cardinality(T) # 0
    BY <1>3, <1>4, FS_EmptySet
  <1>7. PICK i \in 1..Cardinality(S) : i = Cardinality(T)
    BY <1>4, <1>5, <1>6
  <1>8. ASSUME NEW k \in S, Cardinality({j \in S : j <= k}) = i PROVE k = d
    <2>1. Cardinality({j \in S : j <= d}) = i
      BY <1>2, <1>7
    <2>2. ~(k < d)
      BY <1>1, <1>8, <2>1
    <2>3. ~(d < k)
      BY <1>1, <1>8, <2>1
    <2> QED
      BY <2>2, <2>3
  <1>9. Cardinality({j \in S : j <= d}) = i
    BY <1>2, <1>7
  <1>10. (CHOOSE k \in S : Cardinality({j \in S : j <= k}) = i) = d
    BY <1>8, <1>9
  <1> QED
    BY <1>10

\* The takedown task writes an action row for every case it ends.
LEMMA HideCommitTrail ==
    ASSUME TrailInv, IsSeq(actions), NEW w \in BeatWorkers, IsFiniteSet(hiding[w]), HideCommit(w),
           hiding = [v \in BeatWorkers |-> hiding[v]]
    PROVE  TrailInv'
  <1>1. IsSeq(cases) /\ Len(cases) \in Nat /\ Len(actions) \in Nat
    BY DEF TrailInv, CaseRows, IsSeq
  <1>2. PICK due : due = hiding[w]
    OBVIOUS
  <1>3. due \subseteq Nat /\ IsFiniteSet(due)
    BY <1>2 DEF TrailInv, HidesNotices
  <1>4. PICK n \in Nat : n = Cardinality(due)
    BY <1>3, FS_CardinalityType
  <1>5. PICK rows : rows = [i \in 1..n |->
                       [case |-> notices[CHOOSE k \in due :
                            Cardinality({j \in due : j <= k}) = i].case,
                        type |-> "hide", by |-> "system"]]
    OBVIOUS
  <1>6. actions' = actions \o rows
    BY <1>2, <1>4, <1>5 DEF HideCommit
  <1>7. IsSeq(rows) /\ Len(rows) = n
    BY <1>5, IsSeqFun
  <1>8. /\ IsSeq(actions') /\ Len(actions') = Len(actions) + n
        /\ \A a \in 1..Len(actions) : actions'[a] = actions[a]
        /\ \A i \in 1..n : actions'[Len(actions) + i] = rows[i]
    <2>1. PICK s, t : s = actions /\ t = rows
      OBVIOUS
    <2>2. PICK st : st = s \o t
      OBVIOUS
    <2>3. IsSeq(s) /\ IsSeq(t) /\ Len(t) = n
      BY <1>7, <2>1
    <2>6. /\ IsSeq(s \o t) /\ Len(s \o t) = Len(s) + Len(t)
          /\ \A i \in 1..Len(s) : (s \o t)[i] = s[i]
          /\ \A i \in 1..Len(t) : (s \o t)[Len(s) + i] = t[i]
      <3>1. IsSeq(s) /\ IsSeq(t)
        BY <2>3
      <3>2. IsSeq(s \o t) /\ Len(s \o t) = Len(s) + Len(t)
        BY <3>1, IsSeqConcat
      <3>3. \A i \in 1..Len(s) : (s \o t)[i] = s[i]
        BY <3>1, IsSeqConcat
      <3>4. \A i \in 1..Len(t) : (s \o t)[Len(s) + i] = t[i]
        BY <3>1, IsSeqConcat
      <3> QED
        BY <3>2, <3>3, <3>4
    <2>4. /\ IsSeq(st) /\ Len(st) = Len(s) + Len(t)
          /\ \A i \in 1..Len(s) : st[i] = s[i]
          /\ \A i \in 1..Len(t) : st[Len(s) + i] = t[i]
      BY <2>2, <2>6, Zenon
    <2>5. actions' = st
      BY <1>6, <2>1, <2>2
    <2> QED
      BY <2>1, <2>3, <2>4, <2>5
  <1>9. ASSUME NEW d \in due PROVE Tells(actions', notices[d].case, "actioned")
    <2>1. PICK i \in 1..n : (CHOOSE k \in due : Cardinality({j \in due : j <= k}) = i) = d
      BY <1>3, <1>4, Ranked
    <2>2. rows[i] = [case |-> notices[d].case, type |-> "hide", by |-> "system"]
      BY <1>5, <2>1
    <2>3. PICK a : a = Len(actions) + i
      OBVIOUS
    <2>4. a \in 1..Len(actions') /\ actions'[a] = rows[i]
      BY <1>1, <1>8, <2>3
    <2>5. actions'[a].case = notices[d].case /\ actions'[a].type = "hide"
      BY <2>2, <2>4
    <2> QED
      BY <2>4, <2>5 DEF Tells
  <1>10. cases' = [k \in 1..Len(cases) |-> cases'[k]]
    BY DEF HideCommit
  <1>11. IsSeq(cases') /\ Len(cases') = Len(cases)
    BY <1>1, <1>10, IsSeqFun
  <1>12. ASSUME NEW k \in 1..Len(cases)
         PROVE  /\ HasStatus(cases'[k])
                /\ \/ cases'[k].status = cases[k].status
                   \/ cases'[k].status = "actioned" /\ \E d \in due : notices[d].case = k
    <2>1. HasStatus(cases[k])
      BY DEF TrailInv, CaseRows
    <2>2. cases'[k] = IF \E d \in due : notices[d].case = k
                      THEN [cases[k] EXCEPT !.status = "actioned", !.action = "hide"] ELSE cases[k]
      BY <1>2 DEF HideCommit
    <2>3. PICK c : c = cases[k]
      OBVIOUS
    <2>4. HasStatus([c EXCEPT !.status = "actioned", !.action = "hide"])
          /\ [c EXCEPT !.status = "actioned", !.action = "hide"].status = "actioned"
      BY <2>1, <2>3 DEF HasStatus
    <2> QED
      BY <2>1, <2>2, <2>3, <2>4
  <1>13. ASSUME NEW k \in 1..Len(cases')
         PROVE  \/ k \in 1..Len(cases) /\ cases'[k].status = cases[k].status
                \/ Tells(actions', k, cases'[k].status)
    <2>1. k \in 1..Len(cases)
      BY <1>11
    <2>2. CASE cases'[k].status = "actioned" /\ \E d \in due : notices[d].case = k
      BY <1>9, <2>2
    <2> QED
      BY <1>12, <2>1, <2>2
  <1>14. Told(cases', actions')
    <2>1. Len(actions') \in Nat /\ Len(actions) <= Len(actions')
      BY <1>1, <1>8
    <2>2. Told(cases, actions)
      BY DEF TrailInv
    <2> QED
      BY <1>1, <1>8, <1>13, <2>1, <2>2, StillTold
  <1>15. HidesNotices'
    <2>1. \A v \in BeatWorkers : hiding'[v] = IF v = w THEN {} ELSE hiding[v]
      BY DEF HideCommit
    <2> QED
      BY <2>1 DEF TrailInv, HidesNotices
  <1>16. req' = req
    BY DEF HideCommit
  <1> QED
    BY <1>11, <1>12, <1>14, <1>15, <1>16 DEF TrailInv, CaseRows, HonestRequests

LEMMA DeskTrail == ASSUME DeskInv, TrailInv, DeskNext, UNCHANGED hiding PROVE TrailInv'
  <1>0. IsSeq(actions)
    BY DEF DeskInv, DeskRows
  <1>1. ASSUME NEW c \in Reporters \X Slots, CommitReport(c) PROVE TrailInv'
    <2>1. UNCHANGED <<actions, req>>
      BY <1>1 DEF CommitReport
    <2>2. CASE cases' = cases
      BY <2>1, <2>2, TrailIdle
    <2>3. CASE cases' # cases
      <3>1. PICK row : row = NewCase("report", filing[c].subject, "tier_1_24h", FALSE)
        OBVIOUS
      <3>2. cases' = Append(cases, row)
        BY <1>1, <2>3, <3>1 DEF CommitReport
      <3>3. HasStatus(row) /\ row.status = "open"
        BY <3>1, NewCaseOpen
      <3> QED
        BY <1>0, <2>1, <3>2, <3>3, TrailNewCase
    <2> QED
      BY <2>2, <2>3
  <1>2. ASSUME NEW c \in Reporters \X Slots, NEW s \in Subjects, LoadReport(c, s) PROVE TrailInv'
    BY <1>2, TrailIdle DEF LoadReport
  <1>3. ASSUME NEW m \in Moderators, CommitCase(m) PROVE TrailInv'
    BY <1>0, <1>3, CommitCaseTrail
  <1>4. ASSUME NEW m \in Moderators, NEW sent \in BOOLEAN, QueueDispatch(m, sent) PROVE TrailInv'
    <2>1. req' = [req EXCEPT ![m] = Idle] /\ UNCHANGED <<cases, actions>>
      BY <1>4 DEF QueueDispatch
    <2>2. Idle.at # "commit"
      BY DEF Idle
    <2> QED
      BY <2>1, <2>2, TrailRequest
  <1>5. ASSUME NEW m \in Moderators, NEW k \in 1..Len(cases), LoadCase(m, k) PROVE TrailInv'
    BY <1>5, LoadCaseTrail
  <1>6. ASSUME NEW m \in Moderators, NEW k \in 1..Len(cases), NEW t \in Decisions, NEW s,
               LoadAction(m, k, t, s)
        PROVE  TrailInv'
    BY <1>6, LoadActionTrail
  <1>7. ASSUME NEW k \in 1..Len(cases), Reopen(k) PROVE TrailInv'
    <2>1. PICK c : c = NewCase(cases[k].kind, cases[k].subject, cases[k].tier, cases[k].forced)
      OBVIOUS
    <2>4. PICK row : row = [c EXCEPT !.due = cases[k].due]
      OBVIOUS
    <2>2. cases' = Append(cases, row) /\ UNCHANGED <<actions, req>>
      BY <1>7, <2>1, <2>4 DEF Reopen
    <2>5. HasStatus(c) /\ c.status = "open"
      BY <2>1, NewCaseOpen
    <2>3. HasStatus(row) /\ row.status = "open"
      BY <2>4, <2>5, StaysOpen
    <2> QED
      BY <1>0, <2>2, <2>3, TrailNewCase
  <1>8. ASSUME ScanQueries \/ Tick PROVE TrailInv'
    BY <1>8, TrailIdle DEF ScanQueries, Tick
  <1>9. ASSUME ScanCommit PROVE TrailInv'
    BY <1>0, <1>9, ScanCommitTrail
  <1>10. ASSUME NEW a, NEW sent, RunDispatch(a, sent) PROVE TrailInv'
    BY <1>10, TrailIdle DEF RunDispatch
  <1>11. ASSUME NEW a, NEW s, RunPropagate(a, s) PROVE TrailInv'
    BY <1>11, TrailIdle DEF RunPropagate
  <1> QED
    BY <1>1, <1>2, <1>3, <1>4, <1>5, <1>6, <1>7, <1>8, <1>9, <1>10, <1>11 DEF DeskNext, ReportNext

LEMMA DmcaTrail == ASSUME DeskInv, TrailInv, DmcaNext PROVE TrailInv'
  <1>0. /\ IsSeq(actions) /\ IsSeq(notices) /\ hiding = [v \in BeatWorkers |-> hiding[v]]
        /\ \A w \in BeatWorkers : IsFiniteSet(hiding[w])
    BY DEF DeskInv, DeskRows
  <1>1. ASSUME NEW s \in Subjects, FileNotice(s) PROVE TrailInv'
    <2>1. PICK row : row = NewCase("dmca", s, "tier_2_6h", TRUE)
      OBVIOUS
    <2>2. cases' = Append(cases, row) /\ UNCHANGED <<actions, req, hiding>>
      BY <1>1, <2>1 DEF FileNotice
    <2>3. HasStatus(row) /\ row.status = "open"
      BY <2>1, NewCaseOpen
    <2> QED
      BY <1>0, <2>2, <2>3, TrailNewCase
  <1>2. ASSUME NEW c, CommitNotice(c) PROVE TrailInv'
    BY <1>2, TrailIdle DEF CommitNotice, deskVars
  <1>3. ASSUME NEW c, NEW k, LoadNotice(c, k) PROVE TrailInv'
    BY <1>3, TrailIdle DEF LoadNotice
  <1>4. ASSUME NEW w \in BeatWorkers, HideQuery(w) PROVE TrailInv'
    <2>1. hiding' = [hiding EXCEPT ![w] = DueNotices] /\ UNCHANGED <<cases, actions, req>>
      BY <1>4 DEF HideQuery, deskVars
    <2>2. DueNotices \subseteq Nat
      <3>1. Len(notices) \in Nat
        BY <1>0 DEF IsSeq
      <3> QED
        BY <3>1 DEF DueNotices
    <2>3. \A v \in BeatWorkers : hiding'[v] = IF v = w THEN DueNotices ELSE hiding[v]
      BY <1>0, <2>1
    <2>4. HidesNotices'
      BY <2>2, <2>3 DEF TrailInv, HidesNotices
    <2> QED
      BY <2>1, <2>4 DEF TrailInv, CaseRows, IsSeq, HonestRequests
  <1>5. ASSUME NEW w \in BeatWorkers, HideCommit(w) PROVE TrailInv'
    BY <1>0, <1>5, HideCommitTrail
  <1>6. ASSUME ScanCounterWindow PROVE TrailInv'
    BY <1>6, TrailIdle DEF ScanCounterWindow, deskVars, dmcaVars
  <1> QED
    BY <1>1, <1>2, <1>3, <1>4, <1>5, <1>6 DEF DmcaNext

LEMMA ScanTrail == ASSUME DeskInv, TrailInv, ScanNext, UNCHANGED dmcaVars PROVE TrailInv'
  <1>0. IsSeq(actions) /\ UNCHANGED hiding
    BY DEF DeskInv, DeskRows, dmcaVars
  <1>1. ASSUME NEW s, RunTools(s) PROVE TrailInv'
    BY <1>0, <1>1, TrailIdle DEF RunTools
  <1>2. ASSUME NEW s, ScanCase(s) PROVE TrailInv'
    <2>1. UNCHANGED <<actions, req>>
      BY <1>2 DEF ScanCase
    <2>2. CASE cases' = cases
      BY <1>0, <2>1, <2>2, TrailIdle
    <2>3. CASE cases' # cases
      <3>1. PICK tier, forced :
                cases' = Append(cases, [NewCase("auto", s, tier, forced) EXCEPT !.key = s])
        BY <1>2, <2>3 DEF ScanCase
      <3>3. PICK c : c = NewCase("auto", s, tier, forced)
        OBVIOUS
      <3>4. PICK row : row = [c EXCEPT !.key = s]
        OBVIOUS
      <3>5. HasStatus(c) /\ c.status = "open"
        BY <3>3, NewCaseOpen
      <3>2. HasStatus(row) /\ row.status = "open"
        BY <3>4, <3>5, StaysOpen
      <3>6. cases' = Append(cases, row)
        BY <3>1, <3>3, <3>4
      <3> QED
        BY <1>0, <2>1, <3>2, <3>6, TrailNewCase
    <2> QED
      BY <2>2, <2>3
  <1>3. ASSUME NEW s, Decide(s) PROVE TrailInv'
    BY <1>0, <1>3, TrailIdle DEF Decide, deskVars
  <1>4. ASSUME NEW s, PassThrough(s) PROVE TrailInv'
    BY <1>0, <1>4, TrailIdle DEF PassThrough
  <1>5. ASSUME NEW s, Again(s) PROVE TrailInv'
    BY <1>0, <1>5, TrailIdle DEF Again, deskVars
  <1> QED
    BY <1>1, <1>2, <1>3, <1>4, <1>5 DEF ScanNext

\* Every step of the system leaves a trail of what it ends.
LEMMA TrailStep == ASSUME CareInv, TrailInv, [Next]_vars PROVE TrailInv'
  <1>1. DeskInv
    BY DEF CareInv
  <1>2. CASE ModerationNext
    <2>1. CASE DeskNext /\ UNCHANGED <<dmcaVars, scanVars>>
      BY <1>1, <2>1, DeskTrail DEF dmcaVars
    <2>2. CASE DmcaNext
      BY <1>1, <2>2, DmcaTrail
    <2>3. CASE ScanNext /\ UNCHANGED dmcaVars
      BY <1>1, <2>3, ScanTrail
    <2> QED
      BY <1>2, <2>1, <2>2, <2>3 DEF ModerationNext
  <1>3. CASE ReportNext /\ UNCHANGED <<dmcaVars, scanVars>>
    BY <1>1, <1>3, DeskTrail DEF DeskNext, dmcaVars
  <1>4. CASE UNCHANGED moderationVars
    BY <1>4, TrailIdle DEF moderationVars, deskVars, dmcaVars
  <1> QED
    BY <1>2, <1>3, <1>4 DEF Next, vars

\* No case yet, and no request.
LEMMA InitTrail == Init => TrailInv
  <1> SUFFICES ASSUME Init PROVE TrailInv
    OBVIOUS
  <1>1. /\ cases = <<>> /\ req = [m \in Moderators |-> Idle]
        /\ hiding = [w \in BeatWorkers |-> {}]
    BY DEF Init, ModerationInit, DeskInit, DmcaInit
  <1>2. CaseRows
    BY <1>1 DEF CaseRows, IsSeq
  <1>3. HonestRequests /\ HidesNotices /\ Told(cases, actions)
    BY <1>1 DEF HonestRequests, HidesNotices, Told, Idle
  <1> QED
    BY <1>2, <1>3 DEF TrailInv

\* Moderators, the takedown task and the SLA scan write what they read steps ago
\* over each other's rows: a case that stands as actioned or dismissed still has
\* an action row of that kind (take_action, enact_dmca_hide, sla_scan).
THEOREM DecisionsLeaveATrail == Spec => []EndedHasAction
  <1>1. CareInv /\ TrailInv /\ [Next]_vars => TrailInv'
    BY TrailStep
  <1>2. TrailInv => EndedHasAction
    BY DEF TrailInv, Told, Tells, Ended, EndedHasAction
  <1> QED
    BY <1>1, <1>2, InitCare, CareStep, InitTrail, PTL DEF Spec

=============================================================================
