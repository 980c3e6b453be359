---------------------------- MODULE ChatRoomProofs ----------------------------
(***************************************************************************)
(* TLAPS proofs about ChatRoom, for any number of profiles, connections,   *)
(* pods and REST requests, any page size and any number of messages.       *)
(***************************************************************************)
EXTENDS ChatRoom, TLAPS

Statuses == {"none"} \cup Shown \cup Hidden
ConnRow  == [at : {"closed", "ready", "scan", "commit", "publish", "refresh"},
             state : RoomStates, nonce : Nonces \cup {0}, reply : Nat, id : Nat,
             status : Statuses, replays : Nat, base : Nat, caughtUp : BOOLEAN]
RestRow  == [at : {"idle", "scan", "commit"}, from : Profiles \cup {"none"},
             nonce : Nonces \cup {0}, reply : Nat, id : Nat, status : Statuses]

\* Every id that is about, in a table, a subscription or a pointer, was handed
\* out; only stored messages were published.
ChatRows ==
    /\ state \in RoomStates /\ lastId \in Nat /\ Stored \subseteq 1..lastId
    /\ late \in [Writers -> Nat] /\ up \subseteq Conns /\ published \subseteq Stored
    /\ conn \in [Conns -> ConnRow] /\ rest \in [Requests -> RestRow]
    /\ sub \in [Conns -> Seq(Nat)] /\ known \in [Profiles -> SUBSET Nat]
    /\ quoted \in [Profiles -> SUBSET Nat] /\ \A m \in Stored : msgs[m].reply \in Nat
    /\ lastAck \in [Profiles -> Nat] /\ receipt \in [Profiles -> Nat]

\* The seam of one connection between its replay and live delivery.
NoGapOf(c, q) ==
    c \in up /\ q.caughtUp =>
        \A m \in Visible \cap published :
            \/ m \in known[Owner[c]] \/ m \in Range(sub[c]) \/ m <= q.base

\* What a connection's handler holds is good: an id nobody has stored yet, a
\* message that may be shown; and once it has stored a message in a frozen
\* room it has no way to another before it reads the state again.
ConnGood(c, q) ==
    /\ q.at = "commit" => q.id \in 1..lastId /\ q.id \notin Stored
    /\ q.at = "publish" => q.id \in Visible
    /\ late[c] > 0 => \/ q.at \in {"closed", "publish", "refresh"}
                      \/ q.at = "ready" /\ q.state = "read_only"
    /\ NoGapOf(c, q)
RestGood(r, q) ==
    /\ q.at = "commit" => q.id \in 1..lastId /\ q.id \notin Stored
    /\ late[r] > 0 => q.at = "idle"

\* No two handlers hold one id.
OneHolderEach ==
    /\ \A c, d \in Conns : conn[c].at = "commit" /\ conn[d].at = "commit"
                              /\ conn[c].id = conn[d].id => c = d
    /\ \A r, q \in Requests : rest[r].at = "commit" /\ rest[q].at = "commit"
                                 /\ rest[r].id = rest[q].id => r = q
    /\ \A c \in Conns, r \in Requests :
          conn[c].at = "commit" /\ rest[r].at = "commit" => conn[c].id # rest[r].id

LateOnlyFrozen == \A w \in Writers : late[w] <= 1 /\ (late[w] > 0 => state = "read_only")

ChatInv == /\ ChatRows /\ OneHolderEach /\ LateOnlyFrozen /\ HiddenNeverShown
           /\ \A c \in Conns : ConnGood(c, conn[c])
           /\ \A r \in Requests : RestGood(r, rest[r])

LEMMA IdleIsRow ==
    /\ Idle \in ConnRow /\ NoRest \in RestRow
    /\ \A st \in RoomStates : [Idle EXCEPT !.at = "ready", !.state = st] \in ConnRow
    /\ \A q \in ConnRow, st \in RoomStates : Ready(q, st) \in ConnRow
  BY DEF Idle, NoRest, Ready, ConnRow, RestRow, RoomStates, Statuses

\* Nothing is stored, published or frozen.
NothingStored == UNCHANGED <<state, msgs, lastId, late, published>>

\* What a step that stores nothing may do to the pointers of the clients.
PointersGood ==
    /\ known' \in [Profiles -> SUBSET Nat] /\ lastAck' \in [Profiles -> Nat]
    /\ quoted' \in [Profiles -> SUBSET Nat] /\ receipt' \in [Profiles -> Nat]
    /\ \A p \in Profiles : /\ known[p] \subseteq known'[p] /\ known'[p] \subseteq Visible \cup Own(p)
                           /\ \A m \in quoted'[p] : \E k \in Visible \cap known'[p] : msgs[k].reply = m

LEMMA StoredStays ==
    ASSUME NothingStored PROVE /\ Stored' = Stored /\ Visible' = Visible /\ msgs' = msgs
                               /\ \A p : Own(p)' = Own(p)
  BY DEF NothingStored, Stored, Visible, Own

LEMMA HiddenStays ==
    ASSUME HiddenNeverShown, UNCHANGED <<msgs, sub, known, quoted>> PROVE HiddenNeverShown'
  <1>1. Visible' = Visible /\ \A p : Own(p)' = Own(p)
    BY DEF Visible, Stored, Own
  <1> QED
    BY <1>1 DEF HiddenNeverShown

LEMMA ParentsAreIds == ASSUME ChatInv PROVE Parents \subseteq Nat
  BY DEF ChatInv, ChatRows, Parents

LEMMA PointersStay ==
    ASSUME ChatInv, UNCHANGED <<known, quoted, lastAck, receipt>> PROVE PointersGood
  BY DEF ChatInv, ChatRows, HiddenNeverShown, PointersGood

\* A connection no step has touched stays good.
LEMMA OtherStaysGood ==
    ASSUME ChatInv, NothingStored, PointersGood, NEW d \in Conns, ConnGood(d, conn[d]),
           d \in up' => d \in up, sub'[d] = sub[d], conn'[d] = conn[d]
    PROVE  ConnGood(d, conn[d])'
  <1>1. Owner[d] \in Profiles
    BY ChatAssumption
  <1> QED
    BY <1>1, StoredStays DEF ConnGood, NoGapOf, NothingStored, PointersGood, ChatInv

\* A frame that stores nothing: one connection moves, and may be left.
FrameTo(c, q) ==
    /\ conn' = [conn EXCEPT ![c] = q] /\ ConnGood(c, q)'
    /\ up' \subseteq up \cup {c} /\ (sub' = sub \/ sub' = [sub EXCEPT ![c] = <<>>])
    /\ q.at = "commit" => conn[c].at = "commit" /\ q.id = conn[c].id

LEMMA ConnMoves ==
    ASSUME ChatInv, NothingStored, PointersGood, UNCHANGED rest,
           NEW c \in Conns, NEW q \in ConnRow, FrameTo(c, q)
    PROVE  ChatInv'
  <1> USE DEF FrameTo
  <1>a. /\ conn' \in [Conns -> ConnRow] /\ conn'[c] = q
        /\ \A d \in Conns \ {c} : conn'[d] = conn[d]
    BY DEF ChatInv, ChatRows
  <1>b. /\ \A d \in Conns \ {c} : sub'[d] = sub[d]
        /\ \A d \in Conns : sub'[d] = sub[d] \/ sub'[d] = <<>>
    BY DEF ChatInv, ChatRows
  <1>c. sub' \in [Conns -> Seq(Nat)]
    <2>1. <<>> \in Seq(Nat) /\ sub \in [Conns -> Seq(Nat)]
      BY DEF ChatInv, ChatRows
    <2> QED
      BY <2>1
  <1>1. /\ conn' \in [Conns -> ConnRow] /\ conn'[c] = q
        /\ \A d \in Conns \ {c} : conn'[d] = conn[d]
        /\ sub' \in [Conns -> Seq(Nat)] /\ \A d \in Conns \ {c} : sub'[d] = sub[d]
        /\ \A d \in Conns : sub'[d] = sub[d] \/ sub'[d] = <<>>
    BY <1>a, <1>b, <1>c
  <1>2. ChatRows'
    BY <1>1, StoredStays DEF ChatInv, ChatRows, NothingStored, PointersGood
  <1>3. OneHolderEach'
    BY <1>1 DEF ChatInv, OneHolderEach
  <1>4. LateOnlyFrozen'
    BY DEF ChatInv, LateOnlyFrozen, NothingStored
  <1>5. HiddenNeverShown'
    BY <1>1, StoredStays DEF ChatInv, HiddenNeverShown, PointersGood
  <1>6. ASSUME NEW d \in Conns PROVE ConnGood(d, conn[d])'
    <2>1. CASE d = c
      BY <1>1, <2>1 DEF ConnGood, NoGapOf
    <2>2. CASE d # c
      BY <1>1, <2>2, OtherStaysGood DEF ChatInv
    <2> QED
      BY <2>1, <2>2
  <1>7. ASSUME NEW r \in Requests PROVE RestGood(r, rest[r])'
    BY <1>7, StoredStays DEF RestGood, NothingStored, ChatInv
  <1> QED
    BY <1>2, <1>3, <1>4, <1>5, <1>6, <1>7 DEF ChatInv

LEMMA FrameStep ==
    ASSUME ChatInv, NEW c \in Conns,
           Connect(c) \/ Disconnect(c) \/ RefreshRoom(c) \/ SendRefused(c)
             \/ \E n \in Nonces, t \in Parents : SendFrame(c, n, t)
    PROVE  ChatInv'
  <1>0. /\ conn[c] \in ConnRow /\ state \in RoomStates /\ c \in Conns /\ ConnGood(c, conn[c])
        /\ late[c] > 0 => state = "read_only"
    BY DEF ChatInv, ChatRows, LateOnlyFrozen, Writers
  <1>1. NothingStored /\ UNCHANGED <<rest, known, quoted, lastAck, receipt>>
    BY DEF NothingStored, Connect, Disconnect, RefreshRoom, SendRefused, SendFrame, roomVars,
       msgVars, clientVars, linkVars
  <1>2. PointersGood
    BY <1>1, PointersStay
  <1>3. PICK q \in ConnRow : FrameTo(c, q)
    <2>1. CASE Connect(c)
      <3>1. PICK q : q = [Idle EXCEPT !.at = "ready", !.state = state]
        OBVIOUS
      <3>2. /\ q \in ConnRow /\ q.at = "ready" /\ q.state = state /\ q.caughtUp = FALSE
        BY <1>0, <3>1, IdleIsRow DEF Idle
      <3>3. ConnGood(c, q)'
        BY <1>0, <1>1, <3>2 DEF ConnGood, NoGapOf, NothingStored
      <3> QED
        BY <2>1, <3>1, <3>2, <3>3 DEF Connect, FrameTo
    <2>i. ASSUME c \notin up', conn' = [conn EXCEPT ![c] = Idle], up' \subseteq up,
                 sub' = sub \/ sub' = [sub EXCEPT ![c] = <<>>]
          PROVE  \E q \in ConnRow : FrameTo(c, q)
      <3>1. PICK q : q = Idle
        OBVIOUS
      <3>2. q \in ConnRow /\ q.at = "closed" /\ q.caughtUp = FALSE
        BY <3>1, IdleIsRow DEF Idle
      <3>3. ConnGood(c, q)'
        BY <2>i, <3>2 DEF ConnGood, NoGapOf
      <3> QED
        BY <2>i, <3>1, <3>2, <3>3 DEF FrameTo
    <2>2. CASE Disconnect(c)
      <3>1. CASE conn[c].at = "ready"
        BY <2>2, <2>i, <3>1 DEF Disconnect
      <3>2. CASE conn[c].at # "ready"
        <4>1. PICK q : q = conn[c]
          OBVIOUS
        <4>2. conn' = [conn EXCEPT ![c] = q] /\ c \notin up' /\ up' \subseteq up
              /\ sub' = [sub EXCEPT ![c] = <<>>]
          BY <2>2, <3>2, <4>1 DEF Disconnect
        <4>3. ConnGood(c, q)'
          BY <1>0, <1>1, <4>1, <4>2, StoredStays DEF ConnGood, NoGapOf, NothingStored
        <4> QED
          BY <1>0, <4>1, <4>2, <4>3 DEF FrameTo
      <3> QED
        BY <3>1, <3>2
    <2>r. ASSUME c \in up, conn' = [conn EXCEPT ![c] = Ready(conn[c], state)], UNCHANGED <<up, sub>>
          PROVE  \E q \in ConnRow : FrameTo(c, q)
      <3>1. PICK q : q = Ready(conn[c], state)
        OBVIOUS
      <3>2. /\ q \in ConnRow /\ q.at = "ready" /\ q.state = state /\ q.base = conn[c].base
            /\ q.caughtUp = conn[c].caughtUp
        BY <1>0, <3>1, IdleIsRow DEF Ready, Idle
      <3>3. ConnGood(c, q)'
        BY <1>0, <1>1, <2>r, <3>2, StoredStays DEF ConnGood, NoGapOf, NothingStored
      <3> QED
        BY <2>r, <3>1, <3>2, <3>3 DEF FrameTo
    <2>3. CASE RefreshRoom(c)
      <3>1. CASE c \in up
        BY <2>3, <2>r, <3>1 DEF RefreshRoom, linkVars
      <3>2. CASE c \notin up
        BY <2>3, <2>i, <3>2 DEF RefreshRoom, linkVars
      <3> QED
        BY <3>1, <3>2
    <2>4. CASE SendRefused(c)
      BY <2>4, <2>r DEF SendRefused, linkVars
    <2>5. ASSUME NEW n \in Nonces, NEW t \in Parents, SendFrame(c, n, t)
          PROVE \E q \in ConnRow : FrameTo(c, q)
      <3>1. CASE \E m \in Stored : msgs[m].nonce = n
        BY <2>5, <2>i, <3>1 DEF SendFrame
      <3>2. CASE ~\E m \in Stored : msgs[m].nonce = n
        <4>1. PICK q : q = [conn[c] EXCEPT !.at = "scan", !.nonce = n, !.reply = t]
          OBVIOUS
        <4>2. conn' = [conn EXCEPT ![c] = q] /\ UNCHANGED <<up, sub>> /\ conn[c].at = "ready"
              /\ conn[c].state = "open"
          BY <2>5, <3>2, <4>1 DEF SendFrame, Handling, ChatInv, ChatRows
        <4>3. /\ q \in ConnRow /\ q.at = "scan" /\ q.base = conn[c].base
              /\ q.caughtUp = conn[c].caughtUp
          BY <1>0, <4>1, ParentsAreIds DEF ConnRow
        <4>4. ~(late[c] > 0)
          BY <1>0, <4>2 DEF ConnGood
        <4>5. ConnGood(c, q)'
          BY <1>0, <1>1, <4>2, <4>3, <4>4, StoredStays DEF ConnGood, NoGapOf, NothingStored
        <4> QED
          BY <4>2, <4>3, <4>5 DEF FrameTo
      <3> QED
        BY <3>1, <3>2
    <2> QED
      BY <2>1, <2>2, <2>3, <2>4, <2>5
  <1> QED
    BY <1>1, <1>2, <1>3, ConnMoves DEF FrameTo

LEMMA ResumeStep ==
    ASSUME ChatInv, NEW c \in Conns, Resume(c)
    PROVE  ChatInv'
  <1> DEFINE page == FirstOf(Replayable(lastAck[Owner[c]]), replay_page_size)
  <1>0. conn[c] \in ConnRow /\ ConnGood(c, conn[c]) /\ ChatRows /\ HiddenNeverShown
    BY DEF ChatInv, ChatRows
  <1>1. NothingStored /\ UNCHANGED <<up, sub, quoted, rest, receipt>>
    BY DEF NothingStored, Resume, roomVars, msgVars, linkVars
  <1>2. PICK p \in Profiles, since \in Nat : p = Owner[c] /\ since = lastAck[p]
    BY <1>0, ChatAssumption DEF ChatRows
  <1>3. PICK found : found = Replayable(since)
    OBVIOUS
  <1>4. PICK pg : pg = FirstOf(found, replay_page_size)
    OBVIOUS
  <1>5. found = {m \in Visible : m > since} /\ pg \subseteq found /\ Visible \subseteq Nat
    BY <1>0, <1>3, <1>4 DEF Replayable, FirstOf, Visible, Stored, ChatRows
  <1>6. /\ known' = [known EXCEPT ![p] = known[p] \cup pg]
        /\ lastAck' = lastAck \/ \E m \in pg : lastAck' = [lastAck EXCEPT ![p] = m]
        /\ conn' = [conn EXCEPT ![c].at = "refresh", ![c].replays = conn[c].replays + 1,
                                ![c].base = since, ![c].caughtUp = (pg = found)]
        /\ conn[c].at = "ready"
    BY <1>2, <1>3, <1>4 DEF Resume, Handling
  <1>7. PointersGood
    <2>1. known' \in [Profiles -> SUBSET Nat] /\ lastAck' \in [Profiles -> Nat]
      BY <1>0, <1>5, <1>6 DEF ChatRows
    <2>2. \A x \in Profiles : known[x] \subseteq known'[x] /\ known'[x] \subseteq Visible \cup Own(x)
      BY <1>0, <1>5, <1>6 DEF ChatRows, HiddenNeverShown
    <2>3. \A x \in Profiles : \A m \in quoted'[x] : \E k \in Visible \cap known'[x] : msgs[k].reply = m
      BY <1>0, <1>1, <2>2 DEF HiddenNeverShown
    <2> QED
      BY <1>0, <1>1, <2>1, <2>2, <2>3 DEF PointersGood, ChatRows
  <1>r. PICK n, all : n = conn[c].replays + 1 /\ all = (pg = found)
    OBVIOUS
  <1>8. PICK q : q = [conn[c] EXCEPT !.at = "refresh", !.replays = n, !.base = since,
                                     !.caughtUp = all]
    OBVIOUS
  <1>n. n \in Nat /\ all \in BOOLEAN
    BY <1>0, <1>r DEF ConnRow
  <1>9. /\ q \in ConnRow /\ q.at = "refresh" /\ q.base = since /\ q.caughtUp = all
    BY <1>0, <1>2, <1>8, <1>n DEF ConnRow
  <1>10. conn' = [conn EXCEPT ![c] = q]
    BY <1>0, <1>6, <1>8, <1>r DEF ChatRows
  <1>11. q.caughtUp => \A m \in Visible : m \in known'[p] \/ m <= since
    <2> SUFFICES ASSUME q.caughtUp, NEW m \in Visible, m > since
                 PROVE  m \in known'[p]
      BY <1>2, <1>5
    <2>1. m \in pg
      BY <1>5, <1>9, <1>r
    <2> QED
      BY <1>0, <1>2, <1>6, <2>1 DEF ChatRows
  <1>12. ConnGood(c, q)'
    BY <1>1, <1>2, <1>9, <1>11, StoredStays DEF ConnGood, NoGapOf, NothingStored
  <1>13. FrameTo(c, q)
    BY <1>1, <1>9, <1>10, <1>12 DEF FrameTo
  <1> QED
    BY <1>1, <1>7, <1>9, <1>13, ConnMoves

\* Two devices and REST move the receipt, to any id.
LEMMA ReceiptGood ==
    ASSUME ChatInv, NEW p \in Profiles, NEW m \in Nat, UpsertReceipt(p, m),
           UNCHANGED <<known, quoted, lastAck>>
    PROVE  PointersGood
  <1>1. receipt' \in [Profiles -> Nat]
    BY DEF UpsertReceipt, ChatInv, ChatRows
  <1> QED
    BY <1>1 DEF ChatInv, ChatRows, HiddenNeverShown, PointersGood

LEMMA ReadAckStep ==
    ASSUME ChatInv, NEW c \in Conns, NEW m \in Nat, ReadAck(c, m)
    PROVE  ChatInv'
  <1>0. conn[c] \in ConnRow /\ ConnGood(c, conn[c])
    BY DEF ChatInv, ChatRows
  <1>1. NothingStored /\ UNCHANGED <<up, sub, rest, known, quoted, lastAck>>
    BY DEF NothingStored, ReadAck, roomVars, msgVars, clientVars, linkVars
  <1>2. PointersGood
    BY <1>1, ReceiptGood, ChatAssumption DEF ReadAck
  <1>3. PICK q : q = [conn[c] EXCEPT !.at = "refresh"]
    OBVIOUS
  <1>4. conn' = [conn EXCEPT ![c] = q]
    BY <1>3 DEF ReadAck, Then, ChatInv, ChatRows
  <1>5. /\ q \in ConnRow /\ q.at = "refresh" /\ q.base = conn[c].base
        /\ q.caughtUp = conn[c].caughtUp
    BY <1>0, <1>3 DEF ConnRow
  <1>6. ConnGood(c, q)'
    BY <1>0, <1>1, <1>5, StoredStays DEF ConnGood, NoGapOf, NothingStored
  <1>7. FrameTo(c, q)
    BY <1>1, <1>4, <1>5, <1>6 DEF FrameTo
  <1> QED
    BY <1>1, <1>2, <1>5, <1>7, ConnMoves

\* No connection and no request under way has changed.
LEMMA HandlersIdle ==
    ASSUME ChatInv, NothingStored, PointersGood, UNCHANGED <<conn, up, sub, rest>>
    PROVE  ChatInv'
  <1>1. ChatRows'
    BY StoredStays DEF ChatInv, ChatRows, NothingStored, PointersGood
  <1>2. OneHolderEach' /\ LateOnlyFrozen'
    BY DEF ChatInv, OneHolderEach, LateOnlyFrozen, NothingStored
  <1>3. HiddenNeverShown'
    BY StoredStays DEF ChatInv, HiddenNeverShown, PointersGood
  <1>4. ASSUME NEW d \in Conns PROVE ConnGood(d, conn[d])'
    BY OtherStaysGood DEF ChatInv
  <1>5. ASSUME NEW r \in Requests PROVE RestGood(r, rest[r])'
    BY StoredStays DEF RestGood, NothingStored, ChatInv
  <1> QED
    BY <1>1, <1>2, <1>3, <1>4, <1>5 DEF ChatInv

LEMMA OutsideStep ==
    ASSUME ChatInv,
           \/ ToggleBlock \/ ThirtyDays \/ (\E k \in DOMAIN events : HandlerFails(k))
           \/ (\E p \in Profiles, m \in Ids : MarkRead(p, m))
           \/ (\E e \in Editors : EditCommit(e) \/ \E m \in Ids, t \in Texts : EditRead(e, m, t))
           \/ UNCHANGED vars
    PROVE  ChatInv'
  <1>1. NothingStored /\ UNCHANGED <<conn, up, sub, rest, known, quoted, lastAck>>
    <2>1. ASSUME ToggleBlock \/ ThirtyDays \/ (\E k \in DOMAIN events : HandlerFails(k))
                   \/ UNCHANGED vars
          PROVE  NothingStored /\ UNCHANGED <<conn, up, sub, rest, known, quoted, lastAck>>
      BY <2>1 DEF ToggleBlock, ThirtyDays, HandlerFails, vars, roomVars, msgVars, clientVars,
         linkVars, NothingStored
    <2>2. ASSUME NEW p \in Profiles, NEW m \in Ids, MarkRead(p, m)
          PROVE  NothingStored /\ UNCHANGED <<conn, up, sub, rest, known, quoted, lastAck>>
      BY <2>2 DEF MarkRead, roomVars, msgVars, clientVars, linkVars, NothingStored
    <2>3. ASSUME NEW e \in Editors, EditCommit(e) \/ \E m \in Ids, t \in Texts : EditRead(e, m, t)
          PROVE  NothingStored /\ UNCHANGED <<conn, up, sub, rest, known, quoted, lastAck>>
      BY <2>3 DEF EditCommit, EditRead, roomVars, msgVars, clientVars, linkVars, NothingStored
    <2> QED
      BY <2>1, <2>2, <2>3
  <1>2. PointersGood
    <2>1. CASE UNCHANGED receipt
      BY <1>1, <2>1, PointersStay
    <2>2. ASSUME NEW p \in Profiles, NEW m \in Ids, MarkRead(p, m) PROVE PointersGood
      BY <1>1, <2>2, ReceiptGood, ChatAssumption DEF MarkRead, Ids
    <2>3. ASSUME NEW e \in Editors, EditCommit(e) \/ \E m \in Ids, t \in Texts : EditRead(e, m, t)
          PROVE  UNCHANGED receipt
      BY <2>3 DEF EditCommit, EditRead
    <2>4. ASSUME ToggleBlock \/ ThirtyDays \/ (\E k \in DOMAIN events : HandlerFails(k))
                   \/ UNCHANGED vars
          PROVE  UNCHANGED receipt
      BY <2>4 DEF ToggleBlock, ThirtyDays, HandlerFails, vars
    <2> QED
      BY <2>1, <2>2, <2>3, <2>4
  <1> QED
    BY <1>1, <1>2, HandlersIdle

-----------------------------------------------------------------------------
(* Ids, rows and subscriptions *)

\* A pod dies: its connections are gone, the rest of them is as it was.
LEMMA PodStep ==
    ASSUME ChatInv, NEW pod, PodDies(pod)
    PROVE  ChatInv'
  <1>1. NothingStored /\ UNCHANGED <<rest, known, quoted, lastAck, receipt>>
    BY DEF NothingStored, PodDies, roomVars, msgVars, clientVars
  <1>2. PointersGood
    BY <1>1, PointersStay
  <1>3. /\ \A d \in Conns : \/ conn'[d] = Idle /\ d \notin up' /\ sub'[d] = <<>>
                            \/ conn'[d] = conn[d] /\ sub'[d] = sub[d] /\ (d \in up' <=> d \in up)
        /\ conn' = [d \in Conns |-> conn'[d]] /\ sub' = [d \in Conns |-> sub'[d]] /\ up' \subseteq up
    BY DEF PodDies
  <1>4. ChatRows'
    <2>1. conn' \in [Conns -> ConnRow]
      BY <1>3, IdleIsRow DEF ChatInv, ChatRows
    <2>2. sub' \in [Conns -> Seq(Nat)]
      <3>1. <<>> \in Seq(Nat) /\ \A d \in Conns : sub[d] \in Seq(Nat)
        BY DEF ChatInv, ChatRows
      <3> QED
        BY <1>3, <3>1
    <2> QED
      BY <1>1, <1>2, <1>3, <2>1, <2>2, StoredStays DEF ChatInv, ChatRows, NothingStored, PointersGood
  <1>5. OneHolderEach'
    BY <1>1, <1>3 DEF ChatInv, OneHolderEach, Idle
  <1>6. LateOnlyFrozen'
    BY <1>1 DEF ChatInv, LateOnlyFrozen, NothingStored
  <1>7. HiddenNeverShown'
    <2>1. Visible' = Visible /\ msgs' = msgs /\ \A p : Own(p)' = Own(p)
      BY <1>1, StoredStays
    <2>2. ASSUME NEW d \in Conns, NEW k \in 1..Len(sub'[d])
          PROVE  sub'[d][k] \in Visible
      <3>1. k \in 1..Len(sub[d]) /\ sub'[d][k] = sub[d][k]
        BY <1>3, <2>2
      <3> QED
        BY <3>1 DEF ChatInv, HiddenNeverShown
    <2> QED
      BY <1>2, <2>1, <2>2 DEF HiddenNeverShown, PointersGood
  <1>8. ASSUME NEW d \in Conns PROVE ConnGood(d, conn[d])'
    <2>1. CASE conn'[d] = Idle /\ d \notin up'
      BY <2>1 DEF ConnGood, NoGapOf, Idle
    <2>2. CASE conn'[d] = conn[d] /\ sub'[d] = sub[d] /\ (d \in up' <=> d \in up)
      BY <1>1, <1>2, <2>2, OtherStaysGood DEF ChatInv
    <2> QED
      BY <1>3, <2>1, <2>2
  <1>9. ASSUME NEW r \in Requests PROVE RestGood(r, rest[r])'
    BY <1>1, StoredStays DEF RestGood, NothingStored, ChatInv
  <1> QED
    BY <1>4, <1>5, <1>6, <1>7, <1>8, <1>9 DEF ChatInv

\* A block freezes the room; its removal opens it again and the count of late
\* messages starts anew, unless the room is old.
LEMMA BlockStep ==
    ASSUME ChatInv, HandleBlockCreated \/ HandleBlockRemoved
    PROVE  ChatInv'
  <1>1. UNCHANGED <<msgs, lastId, published, conn, up, sub, rest, known, quoted, lastAck, receipt>>
    BY DEF HandleBlockCreated, HandleBlockRemoved, msgVars, clientVars, linkVars
  <1>2. /\ state' \in RoomStates
        /\ \/ late' = late /\ (state' = state \/ state' = "read_only")
           \/ late' = [w \in Writers |-> 0]
    BY DEF HandleBlockCreated, HandleBlockRemoved, msgVars, RoomStates, ChatInv, ChatRows
  <1>3. /\ late' \in [Writers -> Nat]
        /\ \A w \in Writers : late'[w] = 0 \/ (late'[w] = late[w] /\ (state' = state \/ state' = "read_only"))
    BY <1>2 DEF ChatInv, ChatRows
  <1>4. Stored' = Stored /\ Visible' = Visible
    BY <1>1 DEF Stored, Visible
  <1>5. ChatRows' /\ OneHolderEach'
    BY <1>1, <1>2, <1>3, <1>4 DEF ChatInv, ChatRows, OneHolderEach
  <1>6. LateOnlyFrozen'
    BY <1>3 DEF ChatInv, LateOnlyFrozen
  <1>7. HiddenNeverShown'
    BY <1>1, HiddenStays DEF ChatInv
  <1>8. ASSUME NEW d \in Conns PROVE ConnGood(d, conn[d])'
    <2>1. late'[d] = 0 \/ late'[d] = late[d]
      BY <1>3 DEF Writers
    <2> QED
      BY <1>1, <1>4, <2>1 DEF ConnGood, NoGapOf, ChatInv
  <1>9. ASSUME NEW r \in Requests PROVE RestGood(r, rest[r])'
    <2>1. late'[r] = 0 \/ late'[r] = late[r]
      BY <1>3 DEF Writers
    <2> QED
      BY <1>1, <1>4, <2>1 DEF RestGood, ChatInv
  <1> QED
    BY <1>5, <1>6, <1>7, <1>8, <1>9 DEF ChatInv

\* An id is handed out after the scan: nobody has it, in a table or in hand.
LEMMA ScannedStep ==
    ASSUME ChatInv, NEW c \in Conns, NEW score, Scanned(c, score)
    PROVE  ChatInv'
  <1>0. conn[c] \in ConnRow /\ ConnGood(c, conn[c]) /\ ChatRows
    BY DEF ChatInv, ChatRows
  <1>1. /\ UNCHANGED <<state, msgs, late, up, sub, published, rest, known, quoted, lastAck, receipt>>
        /\ lastId' = lastId + 1 /\ conn[c].at = "scan"
    BY DEF Scanned, roomVars, clientVars, linkVars, Handling
  <1>2. PICK id \in Nat : id = lastId + 1 /\ lastId' = id
    BY <1>0, <1>1 DEF ChatRows
  <1>3. PICK q : q = [conn[c] EXCEPT !.at = "commit", !.id = id, !.status = Status(score)]
    OBVIOUS
  <1>4. Status(score) \in Statuses
    BY DEF Status, Statuses, Shown, Hidden
  <1>5. /\ q \in ConnRow /\ q.at = "commit" /\ q.id = id /\ q.base = conn[c].base
        /\ q.caughtUp = conn[c].caughtUp
    BY <1>0, <1>3, <1>4 DEF ConnRow
  <1>6. conn' = [conn EXCEPT ![c] = q]
    BY <1>0, <1>1, <1>2, <1>3 DEF Scanned, ChatRows
  <1>7. /\ conn' \in [Conns -> ConnRow] /\ conn'[c] = q
        /\ \A d \in Conns \ {c} : conn'[d] = conn[d]
    BY <1>0, <1>5, <1>6 DEF ChatRows
  <1>8. Stored' = Stored /\ Visible' = Visible
    BY <1>1 DEF Stored, Visible
  <1>9. /\ id \notin Stored /\ id \in 1..lastId' /\ 1..lastId \subseteq 1..lastId'
        /\ id \notin 1..lastId
    BY <1>0, <1>1, <1>2 DEF ChatRows
  <1>10. ChatRows'
    BY <1>0, <1>1, <1>2, <1>7, <1>8, <1>9 DEF ChatRows
  <1>11. OneHolderEach'
    <2>1. \A d \in Conns : conn[d].at = "commit" => conn[d].id # id
      BY <1>9 DEF ChatInv, ConnGood
    <2>2. \A r \in Requests : rest[r].at = "commit" => rest[r].id # id
      BY <1>9 DEF ChatInv, RestGood
    <2> QED
      BY <1>1, <1>5, <1>7, <2>1, <2>2 DEF ChatInv, OneHolderEach
  <1>12. LateOnlyFrozen' /\ HiddenNeverShown'
    BY <1>1, HiddenStays DEF ChatInv, LateOnlyFrozen
  <1>13. ASSUME NEW d \in Conns PROVE ConnGood(d, conn[d])'
    <2>1. CASE d = c
      BY <1>0, <1>1, <1>5, <1>7, <1>8, <1>9, <2>1 DEF ConnGood, NoGapOf
    <2>2. CASE d # c
      BY <1>1, <1>7, <1>8, <1>9, <2>2 DEF ConnGood, NoGapOf, ChatInv
    <2> QED
      BY <2>1, <2>2
  <1>14. ASSUME NEW r \in Requests PROVE RestGood(r, rest[r])'
    BY <1>1, <1>8, <1>9 DEF RestGood, ChatInv
  <1> QED
    BY <1>10, <1>11, <1>12, <1>13, <1>14 DEF ChatInv

LEMMA RestCheckStep ==
    ASSUME ChatInv, NEW r \in Requests, NEW p \in Profiles, NEW n \in Nonces,
           NEW t \in Parents, RestCheck(r, p, n, t)
    PROVE  ChatInv'
  <1>1. NothingStored /\ UNCHANGED <<conn, up, sub, known, quoted, lastAck, receipt>> /\ state = "open"
    BY DEF NothingStored, RestCheck, roomVars, msgVars, clientVars, linkVars
  <1>2. PointersGood
    BY <1>1, PointersStay
  <1>3. PICK q : q = [NoRest EXCEPT !.at = "scan", !.from = p, !.nonce = n, !.reply = t]
    OBVIOUS
  <1>4. q \in RestRow /\ q.at = "scan"
    BY <1>3, ParentsAreIds DEF NoRest, RestRow, Statuses
  <1>5. /\ rest' \in [Requests -> RestRow] /\ rest'[r] = q
        /\ \A x \in Requests \ {r} : rest'[x] = rest[x]
    BY <1>3, <1>4 DEF RestCheck, ChatInv, ChatRows
  <1>6. ChatRows'
    BY <1>1, <1>2, <1>5, StoredStays DEF ChatInv, ChatRows, NothingStored, PointersGood
  <1>7. OneHolderEach'
    BY <1>1, <1>4, <1>5 DEF ChatInv, OneHolderEach
  <1>8. LateOnlyFrozen' /\ HiddenNeverShown'
    BY <1>1, HiddenStays DEF ChatInv, LateOnlyFrozen, NothingStored
  <1>9. ASSUME NEW d \in Conns PROVE ConnGood(d, conn[d])'
    BY <1>1, <1>2, OtherStaysGood DEF ChatInv
  <1>10. ~(late[r] > 0)
    BY <1>1 DEF ChatInv, LateOnlyFrozen, Writers
  <1>11. ASSUME NEW x \in Requests PROVE RestGood(x, rest[x])'
    BY <1>1, <1>4, <1>5, <1>10, StoredStays DEF RestGood, NothingStored, ChatInv
  <1> QED
    BY <1>6, <1>7, <1>8, <1>9, <1>11 DEF ChatInv

LEMMA RestScannedStep ==
    ASSUME ChatInv, NEW r \in Requests, NEW score, RestScanned(r, score)
    PROVE  ChatInv'
  <1>0. rest[r] \in RestRow /\ RestGood(r, rest[r]) /\ ChatRows
    BY DEF ChatInv, ChatRows
  <1>1. /\ UNCHANGED <<state, msgs, late, up, sub, published, conn, known, quoted, lastAck, receipt>>
        /\ lastId' = lastId + 1 /\ rest[r].at = "scan"
    BY DEF RestScanned, roomVars, clientVars, linkVars
  <1>2. PICK id \in Nat : id = lastId + 1 /\ lastId' = id
    BY <1>0, <1>1 DEF ChatRows
  <1>3. PICK q : q = [rest[r] EXCEPT !.at = "commit", !.id = id, !.status = Status(score)]
    OBVIOUS
  <1>4. Status(score) \in Statuses
    BY DEF Status, Statuses, Shown, Hidden
  <1>5. q \in RestRow /\ q.at = "commit" /\ q.id = id
    BY <1>0, <1>3, <1>4 DEF RestRow
  <1>6. rest' = [rest EXCEPT ![r] = q]
    BY <1>0, <1>1, <1>2, <1>3 DEF RestScanned, ChatRows
  <1>7. /\ rest' \in [Requests -> RestRow] /\ rest'[r] = q
        /\ \A d \in Requests \ {r} : rest'[d] = rest[d]
    BY <1>0, <1>5, <1>6 DEF ChatRows
  <1>8. Stored' = Stored /\ Visible' = Visible
    BY <1>1 DEF Stored, Visible
  <1>9. /\ id \notin Stored /\ id \in 1..lastId' /\ 1..lastId \subseteq 1..lastId'
        /\ id \notin 1..lastId
    BY <1>0, <1>1, <1>2 DEF ChatRows
  <1>10. ChatRows'
    BY <1>0, <1>1, <1>2, <1>7, <1>8, <1>9 DEF ChatRows
  <1>11. OneHolderEach'
    <2>1. \A d \in Conns : conn[d].at = "commit" => conn[d].id # id
      BY <1>9 DEF ChatInv, ConnGood
    <2>2. \A x \in Requests : rest[x].at = "commit" => rest[x].id # id
      BY <1>9 DEF ChatInv, RestGood
    <2> QED
      BY <1>1, <1>5, <1>7, <2>1, <2>2 DEF ChatInv, OneHolderEach
  <1>12. LateOnlyFrozen' /\ HiddenNeverShown'
    BY <1>1, HiddenStays DEF ChatInv, LateOnlyFrozen
  <1>13. ASSUME NEW d \in Conns PROVE ConnGood(d, conn[d])'
    BY <1>1, <1>8, <1>9 DEF ConnGood, NoGapOf, ChatInv
  <1>14. ASSUME NEW x \in Requests PROVE RestGood(x, rest[x])'
    BY <1>0, <1>1, <1>5, <1>7, <1>8, <1>9 DEF RestGood, ChatInv
  <1> QED
    BY <1>10, <1>11, <1>12, <1>13, <1>14 DEF ChatInv

-----------------------------------------------------------------------------
(* A row is stored *)

LEMMA AddedRow ==
    ASSUME ChatInv, NEW w \in Writers, NEW m \in 1..lastId, m \notin Stored, NEW p, NEW q,
           AddRow(w, m, p, q), UNCHANGED <<state, lastId>>
    PROVE  /\ Stored' = Stored \cup {m} /\ Stored' \subseteq 1..lastId
           /\ Visible \subseteq Visible' /\ Visible' \subseteq Visible \cup {m}
           /\ q.status \in Shown => m \in Visible'
           /\ msgs'[m].reply = q.reply /\ \A k \in Stored : msgs'[k] = msgs[k]
           /\ m \in Own(p)' /\ \A x : Own(x) \subseteq Own(x)'
           /\ late' \in [Writers -> Nat]
           /\ \A x \in Writers : x # w => late'[x] = late[x]
           /\ state = "open" => late'[w] = late[w]
           /\ state # "open" => late'[w] = late[w] + 1
  <1>1. Stored' = Stored \cup {m} /\ msgs'[m].status = q.status /\ msgs'[m].from = p
        /\ msgs'[m].reply = q.reply /\ \A k \in Stored : msgs'[k] = msgs[k]
    BY DEF AddRow, Stored
  <1>2. Visible \subseteq Visible' /\ Visible' \subseteq Visible \cup {m} /\ (q.status \in Shown => m \in Visible')
    BY <1>1 DEF Visible
  <1>3. /\ late' \in [Writers -> Nat]
        /\ \A x \in Writers : x # w => late'[x] = late[x]
        /\ state = "open" => late'[w] = late[w]
        /\ state # "open" => late'[w] = late[w] + 1
    BY DEF AddRow, ChatInv, ChatRows
  <1>4. Stored' \subseteq 1..lastId
    BY <1>1 DEF ChatInv, ChatRows
  <1>5. m \in Own(p)' /\ \A x : Own(x) \subseteq Own(x)'
    BY <1>1 DEF Own
  <1> QED
    BY <1>1, <1>2, <1>3, <1>4, <1>5

\* What stays good beside the writer of a row.
LEMMA OthersAtStore ==
    ASSUME ChatInv, NEW w \in Writers, NEW m \in 1..lastId, m \notin Stored, NEW p, NEW q,
           AddRow(w, m, p, q), UNCHANGED <<state, lastId, published, up, sub>>,
           \A x \in Profiles : known[x] \subseteq known'[x]
    PROVE  /\ \A d \in Conns : d # w /\ conn'[d] = conn[d]
                                  /\ (conn[d].at = "commit" => conn[d].id # m) => ConnGood(d, conn[d])'
           /\ \A r \in Requests : r # w /\ rest'[r] = rest[r]
                                  /\ (rest[r].at = "commit" => rest[r].id # m) => RestGood(r, rest[r])'
  <1>1. /\ Stored' = Stored \cup {m} /\ Visible \subseteq Visible' /\ Visible' \subseteq Visible \cup {m}
        /\ \A x \in Writers : x # w => late'[x] = late[x]
    BY AddedRow
  <1>2. m \notin published
    BY DEF ChatInv, ChatRows
  <1>3. ASSUME NEW d \in Conns, d # w, conn'[d] = conn[d], conn[d].at = "commit" => conn[d].id # m
        PROVE  ConnGood(d, conn[d])'
    <2>1. Owner[d] \in Profiles /\ d \in Writers
      BY ChatAssumption DEF Writers
    <2>2. ConnGood(d, conn[d])
      BY DEF ChatInv
    <2>3. NoGapOf(d, conn[d])'
      BY <1>1, <1>2, <1>3, <2>1, <2>2 DEF ConnGood, NoGapOf
    <2> QED
      BY <1>1, <1>3, <2>1, <2>2, <2>3 DEF ConnGood
  <1>4. ASSUME NEW r \in Requests, r # w, rest'[r] = rest[r], rest[r].at = "commit" => rest[r].id # m
        PROVE  RestGood(r, rest[r])'
    <2>1. r \in Writers /\ RestGood(r, rest[r])
      BY DEF ChatInv, Writers
    <2> QED
      BY <1>1, <1>4, <2>1 DEF RestGood
  <1> QED
    BY <1>3, <1>4

\* A row stored without being published is known to its sender at most.
LEMMA HiddenAtStore ==
    ASSUME ChatInv, NEW w \in Writers, NEW m \in 1..lastId, m \notin Stored, NEW p, NEW q,
           AddRow(w, m, p, q), UNCHANGED <<state, lastId, sub, quoted>>,
           \A x \in Profiles : /\ known[x] \subseteq known'[x]
                               /\ known'[x] \subseteq known[x] \cup (IF x = p THEN {m} ELSE {})
    PROVE  HiddenNeverShown'
  <1>1. /\ Visible \subseteq Visible' /\ \A k \in Stored : msgs'[k] = msgs[k]
        /\ m \in Own(p)' /\ \A x : Own(x) \subseteq Own(x)'
    BY AddedRow
  <1>2. \A c \in Conns : \A k \in 1..Len(sub'[c]) : sub'[c][k] \in Visible'
    BY <1>1 DEF ChatInv, HiddenNeverShown
  <1>3. ASSUME NEW x \in Profiles PROVE known'[x] \subseteq Visible' \cup Own(x)'
    <2>1. known[x] \subseteq Visible' \cup Own(x)'
      BY <1>1 DEF ChatInv, HiddenNeverShown
    <2>2. x = p => m \in Own(x)'
      BY <1>1
    <2> QED
      BY <2>1, <2>2
  <1>4. ASSUME NEW x \in Profiles, NEW i \in quoted'[x]
        PROVE  \E k \in Visible' \cap known'[x] : msgs'[k].reply = i
    <2>1. PICK k \in Visible \cap known[x] : msgs[k].reply = i
      BY <1>4 DEF ChatInv, HiddenNeverShown
    <2>2. k \in Stored
      BY <2>1 DEF Visible
    <2> QED
      BY <1>1, <2>1, <2>2
  <1> QED
    BY <1>2, <1>3, <1>4 DEF HiddenNeverShown

LEMMA StoreStep ==
    ASSUME ChatInv, NEW c \in Conns, Store(c)
    PROVE  ChatInv'
  <1>0. /\ conn[c] \in ConnRow /\ ConnGood(c, conn[c]) /\ ChatRows /\ OneHolderEach
        /\ c \in Writers /\ c \notin Requests
    BY ChatAssumption DEF ChatInv, ChatRows, Writers
  <1>1. /\ UNCHANGED <<state, lastId, published, up, sub, rest, known, quoted, lastAck, receipt>>
        /\ conn[c].at = "commit"
    BY DEF Store, roomVars, clientVars, linkVars, Handling
  <1>2. PICK m, st : m = conn[c].id /\ st = conn[c].status
    OBVIOUS
  <1>3. m \in 1..lastId /\ m \notin Stored
    BY <1>0, <1>1, <1>2 DEF ConnGood
  <1>4. AddRow(c, m, Owner[c], conn[c])
    BY <1>2 DEF Store
  <1>5. PICK q : q = [conn[c] EXCEPT !.at = IF st \in Shown THEN "publish" ELSE "refresh"]
    OBVIOUS
  <1>6. /\ q \in ConnRow /\ q.at = (IF st \in Shown THEN "publish" ELSE "refresh")
        /\ q.id = m /\ q.base = conn[c].base /\ q.caughtUp = conn[c].caughtUp
    BY <1>0, <1>2, <1>5 DEF ConnRow
  <1>7. conn' = [conn EXCEPT ![c] = q]
    BY <1>0, <1>2, <1>5 DEF Store, Then, ChatRows
  <1>8. /\ conn' \in [Conns -> ConnRow] /\ conn'[c] = q
        /\ \A d \in Conns \ {c} : conn'[d] = conn[d]
    BY <1>0, <1>6, <1>7 DEF ChatRows
  <1>n. conn[c].reply \in Nat
    BY <1>0 DEF ConnRow
  <1>9. /\ Stored' = Stored \cup {m} /\ Stored' \subseteq 1..lastId
        /\ Visible \subseteq Visible' /\ Visible' \subseteq Visible \cup {m}
        /\ st \in Shown => m \in Visible'
        /\ msgs'[m].reply \in Nat /\ \A k \in Stored : msgs'[k] = msgs[k]
        /\ late' \in [Writers -> Nat]
        /\ \A x \in Writers : x # c => late'[x] = late[x]
        /\ state = "open" => late'[c] = late[c]
        /\ state # "open" => late'[c] = late[c] + 1
    BY <1>0, <1>1, <1>2, <1>3, <1>4, <1>n, AddedRow
  <1>10. ChatRows'
    BY <1>0, <1>1, <1>8, <1>9 DEF ChatRows
  <1>11. OneHolderEach'
    BY <1>0, <1>1, <1>6, <1>8 DEF OneHolderEach
  <1>12. late[c] = 0
    BY <1>0, <1>1 DEF ConnGood, ChatRows
  <1>13. LateOnlyFrozen'
    <2> SUFFICES ASSUME NEW x \in Writers
                 PROVE  late'[x] <= 1 /\ (late'[x] > 0 => state' = "read_only")
      BY DEF LateOnlyFrozen
    <2>1. CASE x = c
      <3>1. CASE state = "open"
        BY <1>9, <1>12, <2>1, <3>1
      <3>2. CASE state # "open"
        BY <1>0, <1>1, <1>9, <1>12, <2>1, <3>2 DEF ChatRows, RoomStates
      <3> QED
        BY <3>1, <3>2
    <2>2. CASE x # c
      BY <1>1, <1>9, <2>2 DEF ChatInv, LateOnlyFrozen
    <2> QED
      BY <2>1, <2>2
  <1>14. HiddenNeverShown'
    BY <1>0, <1>1, <1>3, <1>4, HiddenAtStore
  <1>15. /\ \A d \in Conns : d # c /\ conn'[d] = conn[d]
                               /\ (conn[d].at = "commit" => conn[d].id # m) => ConnGood(d, conn[d])'
         /\ \A r \in Requests : r # c /\ rest'[r] = rest[r]
                               /\ (rest[r].at = "commit" => rest[r].id # m) => RestGood(r, rest[r])'
    BY <1>0, <1>1, <1>3, <1>4, OthersAtStore
  <1>16. ASSUME NEW d \in Conns PROVE ConnGood(d, conn[d])'
    <2>1. CASE d = c
      <3>1. m \notin published
        BY <1>0, <1>3 DEF ChatRows
      <3>2. NoGapOf(c, q)'
        BY <1>0, <1>1, <1>6, <1>9, <3>1 DEF ConnGood, NoGapOf
      <3>3. ConnGood(c, q)'
        BY <1>6, <1>9, <3>2 DEF ConnGood
      <3> QED
        BY <1>8, <2>1, <3>3 DEF ConnGood, NoGapOf
    <2>2. CASE d # c
      BY <1>0, <1>1, <1>2, <1>8, <1>15, <2>2 DEF OneHolderEach
    <2> QED
      BY <2>1, <2>2
  <1>17. ASSUME NEW r \in Requests PROVE RestGood(r, rest[r])'
    BY <1>0, <1>1, <1>2, <1>15 DEF OneHolderEach
  <1> QED
    BY <1>10, <1>11, <1>13, <1>14, <1>16, <1>17 DEF ChatInv

LEMMA RestStoreStep ==
    ASSUME ChatInv, NEW r \in Requests, RestStore(r)
    PROVE  ChatInv'
  <1>0. /\ rest[r] \in RestRow /\ RestGood(r, rest[r]) /\ ChatRows /\ OneHolderEach
        /\ r \in Writers /\ r \notin Conns
    BY ChatAssumption DEF ChatInv, ChatRows, Writers
  <1>1. /\ UNCHANGED <<state, lastId, published, up, sub, conn, quoted, lastAck, receipt>>
        /\ rest[r].at = "commit"
    BY DEF RestStore, roomVars, linkVars
  <1>2. PICK m, st, p : m = rest[r].id /\ st = rest[r].status /\ p = rest[r].from
    OBVIOUS
  <1>3. m \in 1..lastId /\ m \notin Stored /\ m \in Nat
    BY <1>0, <1>1, <1>2 DEF RestGood, ChatRows
  <1>4. AddRow(r, m, p, rest[r])
    BY <1>2 DEF RestStore
  <1>7. /\ rest' \in [Requests -> RestRow] /\ rest'[r] = NoRest
        /\ \A d \in Requests \ {r} : rest'[d] = rest[d]
    BY <1>0, IdleIsRow DEF RestStore, ChatRows
  <1>n. rest[r].reply \in Nat
    BY <1>0 DEF RestRow
  <1>9. /\ Stored' = Stored \cup {m} /\ Stored' \subseteq 1..lastId
        /\ Visible \subseteq Visible' /\ Visible' \subseteq Visible \cup {m}
        /\ st \in Shown => m \in Visible'
        /\ msgs'[m].reply \in Nat /\ \A k \in Stored : msgs'[k] = msgs[k]
        /\ late' \in [Writers -> Nat]
        /\ \A x \in Writers : x # r => late'[x] = late[x]
        /\ state = "open" => late'[r] = late[r]
        /\ state # "open" => late'[r] = late[r] + 1
    BY <1>0, <1>1, <1>2, <1>3, <1>4, <1>n, AddedRow
  <1>k. /\ known' \in [Profiles -> SUBSET Nat]
        /\ \A x \in Profiles : /\ known[x] \subseteq known'[x]
                               /\ known'[x] \subseteq known[x] \cup (IF x = p THEN {m} ELSE {})
    BY <1>0, <1>2, <1>3 DEF RestStore, ChatRows
  <1>10. ChatRows'
    BY <1>0, <1>1, <1>7, <1>9, <1>k DEF ChatRows
  <1>11. OneHolderEach'
    BY <1>0, <1>1, <1>7 DEF OneHolderEach, NoRest
  <1>12. late[r] = 0
    BY <1>0, <1>1 DEF RestGood, ChatRows
  <1>13. LateOnlyFrozen'
    <2> SUFFICES ASSUME NEW x \in Writers
                 PROVE  late'[x] <= 1 /\ (late'[x] > 0 => state' = "read_only")
      BY DEF LateOnlyFrozen
    <2>1. CASE x = r
      <3>1. CASE state = "open"
        BY <1>9, <1>12, <2>1, <3>1
      <3>2. CASE state # "open"
        BY <1>0, <1>1, <1>9, <1>12, <2>1, <3>2 DEF ChatRows, RoomStates
      <3> QED
        BY <3>1, <3>2
    <2>2. CASE x # r
      BY <1>1, <1>9, <2>2 DEF ChatInv, LateOnlyFrozen
    <2> QED
      BY <2>1, <2>2
  <1>14. HiddenNeverShown'
    BY <1>0, <1>1, <1>3, <1>4, <1>k, HiddenAtStore
  <1>15. /\ \A d \in Conns : d # r /\ conn'[d] = conn[d]
                               /\ (conn[d].at = "commit" => conn[d].id # m) => ConnGood(d, conn[d])'
         /\ \A x \in Requests : x # r /\ rest'[x] = rest[x]
                               /\ (rest[x].at = "commit" => rest[x].id # m) => RestGood(x, rest[x])'
    BY <1>0, <1>1, <1>3, <1>4, <1>k, OthersAtStore
  <1>16. ASSUME NEW d \in Conns PROVE ConnGood(d, conn[d])'
    BY <1>0, <1>1, <1>2, <1>15 DEF OneHolderEach
  <1>17. ASSUME NEW x \in Requests PROVE RestGood(x, rest[x])'
    <2>1. CASE x = r
      BY <1>7, <2>1 DEF RestGood, NoRest
    <2>2. CASE x # r
      BY <1>0, <1>1, <1>2, <1>7, <1>15, <2>2 DEF OneHolderEach
    <2> QED
      BY <2>1, <2>2
  <1> QED
    BY <1>10, <1>11, <1>13, <1>14, <1>16, <1>17 DEF ChatInv

-----------------------------------------------------------------------------
(* Fan-out *)

\* What is published goes to every connection that is on.
LEMMA PublishStep ==
    ASSUME ChatInv, NEW c \in Conns, Publish(c)
    PROVE  ChatInv'
  <1>0. /\ conn[c] \in ConnRow /\ ConnGood(c, conn[c]) /\ ChatRows /\ Owner[c] \in Profiles
    BY ChatAssumption DEF ChatInv, ChatRows
  <1>1. /\ UNCHANGED <<state, msgs, lastId, late, up, rest, receipt>>
        /\ conn[c].at = "publish"
    BY DEF Publish, roomVars, msgVars, Handling
  <1>2. PICK m : m = conn[c].id
    OBVIOUS
  <1>3. m \in Visible /\ m \in Stored /\ m \in Nat
    <2>1. m \in Visible
      BY <1>0, <1>1, <1>2 DEF ConnGood
    <2>2. m \in Stored
      BY <2>1 DEF Visible
    <2> QED
      BY <1>0, <2>1, <2>2 DEF ChatRows
  <1>4. /\ \A d \in Conns : sub'[d] = (IF d \in up THEN Append(sub[d], m) ELSE sub[d])
        /\ sub' = [d \in Conns |-> sub'[d]] /\ published' = published \cup {m}
    BY <1>2 DEF Publish
  <1>5. \A d \in Conns : /\ sub'[d] \in Seq(Nat) /\ Range(sub[d]) \subseteq Range(sub'[d])
                         /\ d \in up => m \in Range(sub'[d])
                         /\ \A i \in 1..Len(sub'[d]) : \/ sub'[d][i] = m
                                                       \/ i \in 1..Len(sub[d]) /\ sub'[d][i] = sub[d][i]
    <2> SUFFICES ASSUME NEW d \in Conns
                 PROVE  /\ sub'[d] \in Seq(Nat) /\ Range(sub[d]) \subseteq Range(sub'[d])
                        /\ d \in up => m \in Range(sub'[d])
                        /\ \A i \in 1..Len(sub'[d]) : \/ sub'[d][i] = m
                                                      \/ i \in 1..Len(sub[d]) /\ sub'[d][i] = sub[d][i]
      OBVIOUS
    <2>1. PICK was \in Seq(Nat) : was = sub[d]
      BY <1>0 DEF ChatRows
    <2>2. PICK now : now = Append(was, m)
      OBVIOUS
    <2>3. /\ now \in Seq(Nat) /\ Len(now) = Len(was) + 1 /\ now[Len(was) + 1] = m
          /\ \A i \in 1..Len(was) : now[i] = was[i]
          /\ DOMAIN now = 1..Len(now) /\ DOMAIN was = 1..Len(was) /\ Len(was) \in Nat
      BY <1>3, <2>1, <2>2
    <2>4. Range(was) \subseteq Range(now) /\ m \in Range(now)
      BY <2>3 DEF Range
    <2>5. \A i \in 1..Len(now) : now[i] = m \/ (i \in 1..Len(was) /\ now[i] = was[i])
      BY <2>3
    <2>6. CASE d \in up
      <3>1. sub'[d] = now
        BY <1>4, <2>1, <2>2, <2>6
      <3> QED
        BY <2>1, <2>3, <2>4, <2>5, <3>1
    <2>7. CASE d \notin up
      <3>1. sub'[d] = was
        BY <1>4, <2>1, <2>7
      <3> QED
        BY <2>1, <2>7, <3>1
    <2> QED
      BY <2>6, <2>7
  <1>p. Preview(m) \subseteq Nat /\ \A i \in Preview(m) : msgs[m].reply = i
    BY <1>0, <1>3 DEF ChatRows, Preview
  <1>6. /\ known' \in [Profiles -> SUBSET Nat] /\ lastAck' \in [Profiles -> Nat]
        /\ quoted' \in [Profiles -> SUBSET Nat]
        /\ \A x \in Profiles : known[x] \subseteq known'[x] /\ known'[x] \subseteq known[x] \cup {m}
        /\ \A x \in Profiles : \A i \in quoted'[x] : \/ i \in quoted[x]
                                                     \/ i \in Preview(m) /\ m \in known'[x]
    <2>1. CASE c \in up
      <3>1. known' = [known EXCEPT ![Owner[c]] = known[Owner[c]] \cup {m}]
        BY <1>2, <2>1 DEF Publish, AckToSender
      <3>2. lastAck' = lastAck \/ lastAck' = [lastAck EXCEPT ![Owner[c]] = m]
        BY <1>2, <2>1 DEF Publish, AckToSender
      <3>3. \/ quoted' = quoted
            \/ quoted' = [quoted EXCEPT ![Owner[c]] = quoted[Owner[c]] \cup Preview(m)]
        BY <1>2, <2>1 DEF Publish, AckToSender
      <3>4. known' \in [Profiles -> SUBSET Nat] /\ lastAck' \in [Profiles -> Nat]
        BY <1>0, <1>3, <3>1, <3>2 DEF ChatRows
      <3>5. quoted' \in [Profiles -> SUBSET Nat]
        BY <1>0, <1>p, <3>3 DEF ChatRows
      <3>6. \A x \in Profiles : known[x] \subseteq known'[x] /\ known'[x] \subseteq known[x] \cup {m}
        BY <1>0, <3>1 DEF ChatRows
      <3>7. \A x \in Profiles : \A i \in quoted'[x] : \/ i \in quoted[x]
                                                      \/ i \in Preview(m) /\ m \in known'[x]
        BY <1>0, <3>1, <3>3 DEF ChatRows
      <3> QED
        BY <3>4, <3>5, <3>6, <3>7
    <2>2. CASE c \notin up
      <3>1. known' = known /\ lastAck' = lastAck /\ quoted' = quoted
        BY <2>2 DEF Publish, clientVars
      <3> QED
        BY <1>0, <3>1 DEF ChatRows
    <2> QED
      BY <2>1, <2>2
  <1>7. PICK q : q = [conn[c] EXCEPT !.at = "refresh"]
    OBVIOUS
  <1>8. /\ q \in ConnRow /\ q.at = "refresh" /\ q.base = conn[c].base
        /\ q.caughtUp = conn[c].caughtUp
    BY <1>0, <1>7 DEF ConnRow
  <1>9. /\ conn' \in [Conns -> ConnRow] /\ conn'[c] = q
        /\ \A d \in Conns \ {c} : conn'[d] = conn[d]
    BY <1>0, <1>7, <1>8 DEF Publish, Then, ChatRows
  <1>10. Stored' = Stored /\ Visible' = Visible
    BY <1>1 DEF Stored, Visible
  <1>o. \A x : Own(x)' = Own(x)
    BY <1>1 DEF Own, Stored
  <1>11. ChatRows'
    <2>1. sub' \in [Conns -> Seq(Nat)]
      BY <1>4, <1>5
    <2> QED
      BY <1>0, <1>1, <1>3, <1>4, <1>6, <1>9, <1>10, <2>1 DEF ChatRows
  <1>12. OneHolderEach' /\ LateOnlyFrozen'
    BY <1>1, <1>8, <1>9 DEF ChatInv, OneHolderEach, LateOnlyFrozen
  <1>13. HiddenNeverShown'
    <2>1. \A d \in Conns : \A k \in 1..Len(sub'[d]) : sub'[d][k] \in Visible
      BY <1>3, <1>5 DEF ChatInv, HiddenNeverShown
    <2>2. \A x \in Profiles : known'[x] \subseteq Visible \cup Own(x)
      BY <1>3, <1>6 DEF ChatInv, HiddenNeverShown
    <2>3. \A x \in Profiles : \A i \in quoted'[x] : \E k \in Visible \cap known'[x] : msgs[k].reply = i
      BY <1>3, <1>6, <1>p DEF ChatInv, HiddenNeverShown
    <2> QED
      BY <1>1, <1>10, <1>o, <2>1, <2>2, <2>3 DEF HiddenNeverShown
  <1>14. ASSUME NEW d \in Conns PROVE ConnGood(d, conn[d])'
    <2>1. PICK k : k = conn'[d]
      OBVIOUS
    <2>2. /\ k.caughtUp = conn[d].caughtUp /\ k.base = conn[d].base
          /\ k = conn[d] \/ (d = c /\ k.at = "refresh")
      BY <1>8, <1>9, <2>1
    <2>3. NoGapOf(d, conn[d])
      BY DEF ChatInv, ConnGood
    <2>4. Owner[d] \in Profiles
      BY ChatAssumption
    <2>5. NoGapOf(d, k)'
      BY <1>1, <1>4, <1>5, <1>6, <1>10, <2>2, <2>3, <2>4 DEF NoGapOf
    <2>6. ConnGood(d, conn[d])
      BY DEF ChatInv
    <2>7. ConnGood(d, k)'
      BY <1>1, <1>10, <2>2, <2>5, <2>6 DEF ConnGood
    <2> QED
      BY <2>1, <2>7 DEF ConnGood, NoGapOf
  <1>15. ASSUME NEW r \in Requests PROVE RestGood(r, rest[r])'
    BY <1>1, <1>10 DEF RestGood, ChatInv
  <1> QED
    BY <1>11, <1>12, <1>13, <1>14, <1>15 DEF ChatInv

LEMMA SubscribedVisible ==
    ASSUME ChatInv
    PROVE  \A c \in Conns : \A k \in 1..Len(sub[c]) : sub[c][k] \in Visible
  BY DEF ChatInv, HiddenNeverShown

\* The head of a subscription goes to every client of the room on its pod, the
\* one behind the subscription among them.
LEMMA ForwardStep ==
    ASSUME ChatInv, NEW c \in Conns, Forward(c)
    PROVE  ChatInv'
  <1>0. ChatRows /\ Owner[c] \in Profiles
    BY ChatAssumption DEF ChatInv
  <1>1. /\ NothingStored /\ UNCHANGED <<up, conn, rest, receipt>>
        /\ c \in up /\ sub[c] # <<>>
    BY DEF Forward, roomVars, msgVars, NothingStored
  <1>2. PICK was \in Seq(Nat) : was = sub[c]
    BY <1>0 DEF ChatRows
  <1>3. PICK m, rem : m = Head(was) /\ rem = Tail(was)
    OBVIOUS
  <1>4. /\ Len(was) \in Nat /\ Len(was) > 0 /\ rem \in Seq(Nat) /\ Len(rem) = Len(was) - 1
        /\ m = was[1] /\ \A i \in 1..Len(rem) : rem[i] = was[i + 1]
        /\ DOMAIN was = 1..Len(was) /\ DOMAIN rem = 1..Len(rem)
    BY <1>1, <1>2, <1>3
  <1>5. Range(was) \subseteq Range(rem) \cup {m}
    <2>a. Range(was) = {was[i] : i \in 1..Len(was)}
      BY <1>4 DEF Range
    <2> SUFFICES ASSUME NEW i \in 1..Len(was), i # 1
                 PROVE  was[i] \in Range(rem)
      BY <1>4, <2>a
    <2>1. PICK j : j = i - 1
      OBVIOUS
    <2>2. j \in 1..Len(rem) /\ i = j + 1
      <3>1. i \in Nat /\ i > 1 /\ i <= Len(was) /\ Len(rem) = Len(was) - 1 /\ Len(was) \in Nat
        BY <1>4
      <3> QED
        BY <2>1, <3>1
    <2>3. rem[j] = was[i] /\ j \in DOMAIN rem
      BY <1>4, <2>2
    <2> QED
      BY <2>3 DEF Range
  <1>6. m \in Visible /\ m \in Nat
    <2>0. \A k \in 1..Len(sub[c]) : sub[c][k] \in Visible
      BY SubscribedVisible
    <2>1. m \in Visible
      <3>1. 1 \in 1..Len(was) /\ m = was[1]
        BY <1>4
      <3> QED
        BY <1>2, <2>0, <3>1
    <2>2. m \in Stored
      BY <2>1 DEF Visible
    <2> QED
      BY <1>0, <2>1, <2>2 DEF ChatRows
  <1>p. Preview(m) \subseteq Nat /\ \A i \in Preview(m) : msgs[m].reply = i
    <2>1. m \in Stored
      BY <1>6 DEF Visible
    <2> QED
      BY <1>0, <2>1 DEF ChatRows, Preview
  <1>7. PICK ps : /\ ps = {Owner[d] : d \in {d \in up : Pod[d] = Pod[c]}}
                  /\ known' = [p \in Profiles |-> IF p \in ps THEN known[p] \cup {m} ELSE known[p]]
                  /\ quoted' = [p \in Profiles |-> IF p \in ps THEN quoted[p] \cup Preview(m)
                                                   ELSE quoted[p]]
                  /\ lastAck' = [p \in Profiles |-> IF p \in ps THEN m ELSE lastAck[p]]
                  /\ sub' = [sub EXCEPT ![c] = rem]
    BY <1>2, <1>3 DEF Forward
  <1>q. /\ quoted' \in [Profiles -> SUBSET Nat]
        /\ \A x \in Profiles : \A i \in quoted'[x] : \/ i \in quoted[x]
                                                     \/ i \in Preview(m) /\ m \in known'[x]
    BY <1>0, <1>7, <1>p DEF ChatRows
  <1>8. /\ known' \in [Profiles -> SUBSET Nat] /\ lastAck' \in [Profiles -> Nat]
        /\ \A x \in Profiles : known[x] \subseteq known'[x] /\ known'[x] \subseteq known[x] \cup {m}
        /\ m \in known'[Owner[c]]
    <2>1. Owner[c] \in ps
      BY <1>1, <1>7
    <2> QED
      BY <1>0, <1>6, <1>7, <2>1 DEF ChatRows
  <1>9. /\ sub' \in [Conns -> Seq(Nat)] /\ sub'[c] = rem
        /\ \A d \in Conns \ {c} : sub'[d] = sub[d]
    BY <1>0, <1>4, <1>7 DEF ChatRows
  <1>10. PointersGood
    <2>1. \A x \in Profiles : known'[x] \subseteq Visible \cup Own(x)
      BY <1>6, <1>8 DEF ChatInv, HiddenNeverShown
    <2>2. \A x \in Profiles : \A i \in quoted'[x] : \E k \in Visible \cap known'[x] : msgs[k].reply = i
      BY <1>6, <1>8, <1>p, <1>q DEF ChatInv, HiddenNeverShown
    <2> QED
      BY <1>0, <1>1, <1>8, <1>q, <2>1, <2>2 DEF PointersGood, ChatRows
  <1>11. ChatRows'
    BY <1>0, <1>1, <1>8, <1>9, <1>q, StoredStays DEF ChatRows, NothingStored
  <1>12. OneHolderEach' /\ LateOnlyFrozen'
    BY <1>1 DEF ChatInv, OneHolderEach, LateOnlyFrozen, NothingStored
  <1>13. HiddenNeverShown'
    <2>1. \A d \in Conns : \A k \in 1..Len(sub'[d]) : sub'[d][k] \in Visible
      <3> SUFFICES ASSUME NEW d \in Conns, NEW k \in 1..Len(sub'[d])
                   PROVE  sub'[d][k] \in Visible
        OBVIOUS
      <3>1. CASE d = c
        <4>1. k + 1 \in 1..Len(was) /\ sub'[d][k] = was[k + 1]
          BY <1>4, <1>9, <3>1
        <4> QED
          BY <1>2, <4>1, SubscribedVisible
      <3>2. CASE d # c
        BY <1>9, <3>2, SubscribedVisible
      <3> QED
        BY <3>1, <3>2
    <2> QED
      BY <1>1, <1>10, <2>1, StoredStays DEF HiddenNeverShown, PointersGood
  <1>14. ASSUME NEW d \in Conns PROVE ConnGood(d, conn[d])'
    <2>1. CASE d = c
      <3>1. ConnGood(c, conn[c])
        BY DEF ChatInv
      <3>2. NoGapOf(c, conn[c])'
        BY <1>1, <1>2, <1>5, <1>8, <1>9, <1>0, <3>1, StoredStays DEF NoGapOf, ConnGood, NothingStored
      <3> QED
        BY <1>1, <2>1, <3>1, <3>2, StoredStays DEF ConnGood, NothingStored
    <2>2. CASE d # c
      BY <1>1, <1>9, <1>10, <2>2, OtherStaysGood DEF ChatInv
    <2> QED
      BY <2>1, <2>2
  <1>15. ASSUME NEW r \in Requests PROVE RestGood(r, rest[r])'
    BY <1>1, StoredStays DEF RestGood, NothingStored, ChatInv
  <1> QED
    BY <1>11, <1>12, <1>13, <1>14, <1>15 DEF ChatInv

-----------------------------------------------------------------------------
(* The invariant holds in every reachable state *)

LEMMA InitChat == Init => ChatInv
  <1> SUFFICES ASSUME Init PROVE ChatInv
    OBVIOUS
  <1>1. Stored = {} /\ Visible = {}
    BY DEF Init, Stored, Visible
  <1>2. /\ \A c \in Conns : conn[c].at = "closed" /\ late[c] = 0 /\ c \notin up
        /\ \A r \in Requests : rest[r].at = "idle" /\ late[r] = 0
    BY DEF Init, Idle, NoRest, Writers
  <1>3. ChatRows
    <2>1. sub \in [Conns -> Seq(Nat)]
      BY DEF Init
    <2> QED
      BY <1>1, <2>1, IdleIsRow DEF Init, ChatRows, RoomStates
  <1>4. HiddenNeverShown
    BY DEF Init, HiddenNeverShown
  <1>5. OneHolderEach /\ LateOnlyFrozen
    BY <1>2 DEF Init, OneHolderEach, LateOnlyFrozen
  <1>6. \A c \in Conns : ConnGood(c, conn[c])
    BY <1>2 DEF ConnGood, NoGapOf
  <1>7. \A r \in Requests : RestGood(r, rest[r])
    BY <1>2 DEF RestGood
  <1> QED
    BY <1>3, <1>4, <1>5, <1>6, <1>7 DEF ChatInv

LEMMA ChatStep == ChatInv /\ [Next]_vars => ChatInv'
  <1> SUFFICES ASSUME ChatInv, [Next]_vars PROVE ChatInv'
    OBVIOUS
  <1>1. ASSUME NEW c \in Conns,
               Connect(c) \/ Disconnect(c) \/ Frame(c) \/ Handler(c) \/ Forward(c)
        PROVE  ChatInv'
    <2>1. CASE Connect(c) \/ Disconnect(c) \/ RefreshRoom(c) \/ SendRefused(c)
                 \/ \E n \in Nonces, t \in Parents : SendFrame(c, n, t)
      BY <2>1, FrameStep
    <2>2. CASE Resume(c) \/ \E m \in Ids : ReadAck(c, m)
      BY <2>2, ResumeStep, ReadAckStep, ChatAssumption DEF Ids
    <2>3. CASE (\E s \in Scores : Scanned(c, s)) \/ Store(c)
      BY <2>3, ScannedStep, StoreStep
    <2>4. CASE Publish(c) \/ Forward(c)
      BY <2>4, PublishStep, ForwardStep
    <2> QED
      BY <1>1, <2>1, <2>2, <2>3, <2>4 DEF Frame, Handler
  <1>2. ASSUME NEW r \in Requests,
               \/ \E p \in Profiles, n \in Nonces, t \in Parents : RestCheck(r, p, n, t)
               \/ \E s \in Scores : RestScanned(r, s)
               \/ RestStore(r)
        PROVE  ChatInv'
    BY <1>2, RestCheckStep, RestScannedStep, RestStoreStep
  <1>3. CASE HandleBlockCreated \/ HandleBlockRemoved
    BY <1>3, BlockStep
  <1>4. CASE \E p \in Pods : PodDies(p)
    BY <1>4, PodStep
  <1>5. CASE \/ ToggleBlock \/ ThirtyDays \/ (\E k \in DOMAIN events : HandlerFails(k))
             \/ (\E p \in Profiles, m \in Ids : MarkRead(p, m))
             \/ (\E e \in Editors : EditCommit(e) \/ \E m \in Ids, t \in Texts : EditRead(e, m, t))
             \/ UNCHANGED vars
    BY <1>5, OutsideStep
  <1> QED
    BY <1>1, <1>2, <1>3, <1>4, <1>5 DEF Next

\* What each connection and request holds agrees with the stored messages and
\* the room's state, whatever sends, replays, crashes and blocks come between
\* (ws/handler.py, routers/rooms.py, workers/event_consumers.py).
THEOREM ChatInvariant == Spec => []ChatInv
  <1> QED
    BY InitChat, ChatStep, PTL DEF Spec

\* Whatever two sends, a replay, a lost connection, a dead pod and the REST
\* endpoints do together, a message that moderation held back goes out in no
\* fan-out and in no replay: its sender has it back from the REST endpoint, and
\* anyone else only as the preview of a reply that was let through.
THEOREM HiddenStaysHidden == Spec => []HiddenNeverShown
  <1>1. ChatInv => HiddenNeverShown
    BY DEF ChatInv
  <1> QED
    BY <1>1, ChatInvariant, PTL

\* A handler acts on the room's state as it was a frame ago, so a block does
\* not stop what is under way; but it stops each connection and each request
\* after one message.
THEOREM FreezeIsOneFrameLate == Spec => []OneLateMessageEach
  <1>1. ChatInv => OneLateMessageEach
    BY DEF ChatInv, LateOnlyFrozen, OneLateMessageEach
  <1> QED
    BY <1>1, ChatInvariant, PTL

\* Between the replay of a reconnection and the subscription opened before it
\* no published message falls, except one committed under an older id than
\* the one the client resumed from.
THEOREM ResumeLeavesNoGap == Spec => []NoGapAfterResume
  <1>1. ChatInv => NoGapAfterResume
    BY DEF ChatInv, ChatRows, ConnGood, NoGapOf, NoGapAfterResume
  <1> QED
    BY <1>1, ChatInvariant, PTL

===============================================================================
