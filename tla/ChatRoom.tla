------------------------------- MODULE ChatRoom -------------------------------
(***************************************************************************)
(* chat-svc: one room, its WebSocket connections (ws/handler.py), its REST *)
(* endpoints (routers/rooms.py), the block events that freeze it           *)
(* (workers/event_consumers.py) and the mobile client's reconnection       *)
(* (apps/mobile useChatSocket.ts).                                         *)
(*                                                                         *)
(* A message id is a UUIDv7: here a number, handed out in the order the    *)
(* handlers build their rows; the rows are committed in any order.  A      *)
(* connection handles one frame at a time and reads the room's state again *)
(* only after it.  Typing, presence, pings and rate limits are left out.   *)
(* The room exists and is empty at the start, so the client's first load   *)
(* of its history finds nothing.                                           *)
(***************************************************************************)
EXTENDS Integers, Sequences, FiniteSets, SequencesExt

CONSTANTS Profiles, Conns, Requests, Pods, Editors,
          Owner,                    \* the profile behind a connection
          Pod,                      \* the process a connection is held by
          Nonces,                   \* client_nonce values
          Scores,                   \* moderation scores, in tenths
          Texts,                    \* what a message is edited to
          replay_page_size, max_reconnect_frames,
          MaxMessages, MaxExtra     \* bounds

ASSUME ChatAssumption ==
    /\ Owner \in [Conns -> Profiles] /\ Pod \in [Conns -> Pods] /\ Conns \cap Requests = {}
    /\ Scores \subseteq 0..10
    /\ replay_page_size \in Nat \ {0} /\ max_reconnect_frames \in Nat
    /\ MaxMessages \in Nat /\ MaxExtra \in Nat

VARIABLES
    state,      \* chat_room.state
    old,        \* is the room more than 30 days old?
    blocked,    \* does a block between the two profiles exist (invite-svc)?
    events,     \* block.created and block.removed events not yet consumed
    msgs,       \* chat_message rows: id -> row
    lastId,     \* the newest id handed out
    revs,       \* chat_message_revision rows
    bodies,     \* the bodies a message has had; the last is the row's
    conn,       \* server side of a connection
    up,         \* connections the client is still on
    sub,        \* a connection's Redis subscription: ids not yet forwarded
    rest,       \* REST sends being served
    edit,       \* edits being served
    known,      \* messages a client has
    quoted,     \* messages it has the body of in the preview of a reply
    lastAck,    \* its chat:last_ack in AsyncStorage, 0 for none
    receipt,    \* chat_read_receipt.last_read_msg_id, 0 for none
    late,       \* history variable: messages stored since the room froze, by writer
    published,  \* history variable: messages that were published
    extra       \* what happened beside sends over WebSocket: blocks, lost
                \* connections, read receipts, REST sends, edits, 30 days

roomVars   == <<state, old, blocked, events>>
msgVars    == <<msgs, lastId, late>>
editVars   == <<revs, bodies, edit>>
clientVars == <<known, quoted, lastAck>>
linkVars   == <<up, sub, published>>
vars == <<roomVars, msgVars, editVars, clientVars, linkVars, conn, rest, receipt, extra>>

Ids     == 1..MaxMessages
Writers == Conns \cup Requests
Shown   == {"allowed", "soft_warn"}
Hidden  == {"hidden", "auto_hidden"}

\* The bands of the inline scan; a scan that times out scores 0.
Status(score) == IF score >= 9 THEN "auto_hidden" ELSE IF score >= 7 THEN "hidden"
                 ELSE IF score >= 4 THEN "soft_warn" ELSE "allowed"

Stored   == DOMAIN msgs
Visible  == {m \in Stored : msgs[m].status \in Shown}
Idle     == [at |-> "closed", state |-> "open", nonce |-> 0, reply |-> 0,
             id |-> 0, status |-> "none", replays |-> 0, base |-> 0, caughtUp |-> FALSE]
NoRest   == [at |-> "idle", from |-> "none", nonce |-> 0, reply |-> 0,
             id |-> 0, status |-> "none"]
NoEdit   == [at |-> "idle", id |-> 0, max |-> 0, body |-> "", text |-> ""]

Init ==
    /\ state = "open" /\ old = FALSE /\ blocked = FALSE
    /\ events = [k \in {"created", "removed"} |-> 0]
    /\ msgs = <<>> /\ lastId = 0 /\ late = [w \in Writers |-> 0]
    /\ revs = {} /\ bodies = [m \in Ids |-> <<>>]
    /\ edit = [e \in Editors |-> NoEdit]
    /\ conn = [c \in Conns |-> Idle] /\ up = {}
    /\ sub = [c \in Conns |-> <<>>] /\ published = {}
    /\ rest = [r \in Requests |-> NoRest]
    /\ known = [p \in Profiles |-> {}] /\ quoted = known /\ lastAck = [p \in Profiles |-> 0]
    /\ receipt = [p \in Profiles |-> 0] /\ extra = 0

\* Bounds: ids that handlers in their scan will take count as taken.
Scanning == Cardinality({c \in Conns : conn[c].at = "scan"})
            + Cardinality({r \in Requests : rest[r].at = "scan"})
IdLeft == lastId + Scanning < MaxMessages
Extra == extra < MaxExtra /\ extra' = extra + 1

-----------------------------------------------------------------------------
(* Blocks.  The two events come from two queues, so they may pass each      *)
(* other.  A handler's SELECT and UPDATE are one step: two handlers that    *)
(* overlap end as if one had come first.                                    *)

\* invite-svc
ToggleBlock ==
    /\ Extra /\ blocked' = ~blocked
    /\ events' = [events EXCEPT ![IF blocked THEN "removed" ELSE "created"] = @ + 1]
    /\ UNCHANGED <<state, old, msgVars, editVars, clientVars, linkVars, conn, rest, receipt>>

ThirtyDays ==
    /\ Extra /\ ~old /\ old' = TRUE
    /\ UNCHANGED <<state, blocked, events, msgVars, editVars, clientVars,
                   linkVars, conn, rest, receipt>>

Consume(k) == events[k] > 0 /\ events' = [events EXCEPT ![k] = @ - 1]

HandleBlockCreated ==
    /\ Consume("created")
    /\ state' = "read_only"
    /\ UNCHANGED <<old, blocked, msgVars, editVars, clientVars, linkVars,
                   conn, rest, receipt, extra>>

HandleBlockRemoved ==
    /\ Consume("removed")
    /\ state' = IF old THEN state ELSE "open"
    /\ late' = IF old THEN late ELSE [w \in Writers |-> 0]
    /\ UNCHANGED <<old, blocked, msgs, lastId, editVars, clientVars, linkVars,
                   conn, rest, receipt, extra>>

\* An exception is logged and the event acknowledged all the same.
HandlerFails(k) ==
    /\ Consume(k)
    /\ UNCHANGED <<state, old, blocked, msgVars, editVars, clientVars,
                   linkVars, conn, rest, receipt, extra>>

-----------------------------------------------------------------------------
(* A WebSocket connection *)

\* handle_room_ws: load the room, register, subscribe.
Connect(c) ==
    /\ conn[c].at = "closed"
    /\ conn' = [conn EXCEPT ![c] = [Idle EXCEPT !.at = "ready", !.state = state]]
    /\ up' = up \cup {c}
    /\ UNCHANGED <<roomVars, msgVars, editVars, clientVars, sub, published, rest, receipt, extra>>

\* The client goes away.  The handler of its current frame runs to its end.
Disconnect(c) ==
    /\ Extra
    /\ c \in up /\ up' = up \ {c}
    /\ sub' = [sub EXCEPT ![c] = <<>>]
    /\ conn' = [conn EXCEPT ![c] = IF @.at = "ready" THEN Idle ELSE @]
    /\ UNCHANGED <<roomVars, msgVars, editVars, clientVars, published, rest, receipt>>

\* A pod dies with everything it was doing.
PodDies(p) ==
    LET cs == {c \in Conns : Pod[c] = p} IN
    /\ Extra /\ \E c \in cs : conn[c].at # "closed"
    /\ conn' = [c \in Conns |-> IF c \in cs THEN Idle ELSE conn[c]]
    /\ up' = up \ cs
    /\ sub' = [c \in Conns |-> IF c \in cs THEN <<>> ELSE sub[c]]
    /\ UNCHANGED <<roomVars, msgVars, editVars, clientVars, published, rest, receipt>>

\* What a connection keeps from one frame to the next
Ready(q, st) == [Idle EXCEPT !.at = "ready", !.state = st, !.replays = q.replays,
                             !.base = q.base, !.caughtUp = q.caughtUp]
Handling(c, at) == conn[c].at = at
Then(c, at)     == conn' = [conn EXCEPT ![c].at = at]

\* Faulty variant: the state read at connection time is kept.
RefreshRoomKept(c) ==
    /\ Handling(c, "refresh")
    /\ conn' = [conn EXCEPT ![c] = IF c \in up THEN Ready(@, @.state) ELSE Idle]
    /\ UNCHANGED <<roomVars, msgVars, editVars, clientVars, linkVars, rest, receipt, extra>>

\* After every frame: db.refresh(room).
RefreshRoom(c) ==
    /\ Handling(c, "refresh")
    /\ conn' = [conn EXCEPT ![c] = IF c \in up THEN Ready(@, state) ELSE Idle]
    /\ UNCHANGED <<roomVars, msgVars, editVars, clientVars, linkVars, rest, receipt, extra>>

\* _handle_send, up to the scan.  A nonce that is already stored makes the
\* second read of the same result raise, which ends the connection.  reply_to
\* (0 for none) is not looked at: it may name any message.
SendFrame(c, n, parent) ==
    /\ Handling(c, "ready") /\ c \in up
    /\ conn[c].state = "open" /\ IdLeft
    /\ IF \E m \in Stored : msgs[m].nonce = n
       THEN /\ conn' = [conn EXCEPT ![c] = Idle]
            /\ up' = up \ {c} /\ sub' = [sub EXCEPT ![c] = <<>>]
       ELSE /\ conn' = [conn EXCEPT ![c].at = "scan", ![c].nonce = n, ![c].reply = parent]
            /\ UNCHANGED <<up, sub>>
    /\ UNCHANGED <<roomVars, msgVars, editVars, clientVars, published, rest, receipt, extra>>

\* ROOM_READ_ONLY, and the refresh after it.
SendRefused(c) ==
    /\ Handling(c, "ready") /\ c \in up
    /\ conn[c].state # "open"
    /\ conn' = [conn EXCEPT ![c] = Ready(@, state)]
    /\ UNCHANGED <<roomVars, msgVars, editVars, clientVars, linkVars, rest, receipt, extra>>

\* The scan's answer; the row gets its id before it is committed.
Scanned(c, score) ==
    /\ Handling(c, "scan")
    /\ lastId' = lastId + 1
    /\ conn' = [conn EXCEPT ![c].at = "commit", ![c].id = lastId', ![c].status = Status(score)]
    /\ UNCHANGED <<roomVars, msgs, late, editVars, clientVars, linkVars, rest, receipt, extra>>

AddRow(w, m, p, q) ==
    /\ msgs' = [k \in Stored \cup {m} |->
                  IF k = m THEN [from |-> p, nonce |-> q.nonce, reply |-> q.reply,
                                 status |-> q.status, by |-> w] ELSE msgs[k]]
    /\ late' = IF state = "open" THEN late ELSE [late EXCEPT ![w] = @ + 1]
    /\ bodies' = [bodies EXCEPT ![m] = <<"original">>]

\* A message that is hidden ends here, with an error frame to its sender.
Store(c) ==
    /\ Handling(c, "commit")
    /\ AddRow(c, conn[c].id, Owner[c], conn[c])
    /\ Then(c, IF conn[c].status \in Shown THEN "publish" ELSE "refresh")
    /\ UNCHANGED <<roomVars, lastId, revs, edit, clientVars, linkVars, rest, receipt, extra>>

\* _build_message_out: a message goes out with the body of the one it replies
\* to, whatever that one's status.
Preview(m) == {msgs[m].reply} \ {0}

\* The client keeps the id of an ack as its last one; the ack of a soft warning
\* is another frame, with the message in it.
AckToSender(c) ==
    LET m == conn[c].id
        p == Owner[c]
    IN
    /\ known' = [known EXCEPT ![p] = @ \cup {m}]
    /\ IF conn[c].status = "allowed"
       THEN lastAck' = [lastAck EXCEPT ![p] = m] /\ UNCHANGED quoted
       ELSE quoted' = [quoted EXCEPT ![p] = @ \cup Preview(m)] /\ UNCHANGED lastAck

\* Faulty variant: only the connections of this pod hear of it.
PublishLocal(c) ==
    LET m == conn[c].id IN
    /\ Handling(c, "publish")
    /\ sub' = [d \in Conns |-> IF d \in up /\ Pod[d] = Pod[c] THEN Append(sub[d], m) ELSE sub[d]]
    /\ published' = published \cup {m}
    /\ IF c \in up
       THEN AckToSender(c)
       ELSE UNCHANGED clientVars
    /\ Then(c, "refresh")
    /\ UNCHANGED <<roomVars, msgVars, editVars, up, rest, receipt, extra>>

\* presence.publish to every subscription, then the ack to the sender.
Publish(c) ==
    LET m == conn[c].id IN
    /\ Handling(c, "publish")
    /\ sub' = [d \in Conns |-> IF d \in up THEN Append(sub[d], m) ELSE sub[d]]
    /\ published' = published \cup {m}
    /\ IF c \in up
       THEN AckToSender(c)
       ELSE UNCHANGED clientVars
    /\ Then(c, "refresh")
    /\ UNCHANGED <<roomVars, msgVars, editVars, up, rest, receipt, extra>>

\* _redis_listener of connection c: local_broadcast to every connection of the
\* room on this pod, its own or not.
Forward(c) ==
    LET m  == Head(sub[c])
        ps == {Owner[d] : d \in {d \in up : Pod[d] = Pod[c]}}
    IN
    /\ c \in up /\ sub[c] # <<>>
    /\ sub' = [sub EXCEPT ![c] = Tail(@)]
    /\ known' = [p \in Profiles |-> IF p \in ps THEN known[p] \cup {m} ELSE known[p]]
    /\ quoted' = [p \in Profiles |-> IF p \in ps THEN quoted[p] \cup Preview(m) ELSE quoted[p]]
    /\ lastAck' = [p \in Profiles |-> IF p \in ps THEN m ELSE lastAck[p]]
    /\ UNCHANGED <<roomVars, msgVars, editVars, up, published, conn, rest, receipt, extra>>

\* Faulty variant: the replay does not look at moderation_status.
ReplayableUnfiltered(since) == {m \in Stored : m > since}

Replayable(since) == {m \in Visible : m > since}

\* The first n of a set of ids
FirstOf(S, n) == {m \in S : Cardinality({k \in S : k < m}) < n}

\* _handle_reconnect and the client's handling of the replay: one frame per
\* connection, no second page is asked for, and a reply comes without preview.
Resume(c) ==
    LET p     == Owner[c]
        since == lastAck[p]
        found == Replayable(since)
        page  == FirstOf(found, replay_page_size)
    IN
    /\ Handling(c, "ready") /\ c \in up
    /\ since > 0 /\ conn[c].replays < max_reconnect_frames
    /\ known' = [known EXCEPT ![p] = @ \cup page]
    /\ \/ page = {} /\ UNCHANGED lastAck
       \/ \E m \in page : /\ \A k \in page : k <= m
                          /\ lastAck' = [lastAck EXCEPT ![p] = m]
    /\ conn' = [conn EXCEPT ![c].at = "refresh", ![c].replays = @ + 1,
                            ![c].base = since, ![c].caughtUp = (page = found)]
    /\ UNCHANGED <<roomVars, msgVars, editVars, quoted, linkVars, rest, receipt, extra>>

\* INSERT ... ON CONFLICT DO UPDATE ... WHERE the new id is the greater one
UpsertReceipt(p, m) == receipt' = [receipt EXCEPT ![p] = IF m > @ THEN m ELSE @]

\* _handle_read_ack: up_to_msg_id may be any id.
ReadAck(c, m) ==
    /\ Extra
    /\ Handling(c, "ready") /\ c \in up
    /\ conn[c].state # "read_only"
    /\ UpsertReceipt(Owner[c], m)
    /\ Then(c, "refresh")
    /\ UNCHANGED <<roomVars, msgVars, editVars, clientVars, linkVars, rest>>

-----------------------------------------------------------------------------
(* REST *)

\* mark_read: any id too, and not frozen with the room.
MarkRead(p, m) ==
    /\ Extra
    /\ UpsertReceipt(p, m)
    /\ UNCHANGED <<roomVars, msgVars, editVars, clientVars, linkVars, conn, rest>>

\* send_message, up to the scan.  The nonce is stored and not compared.
RestCheck(r, p, n, parent) ==
    /\ Extra /\ IdLeft
    /\ rest[r].at = "idle" /\ state = "open"
    /\ rest' = [rest EXCEPT ![r] = [NoRest EXCEPT !.at = "scan", !.from = p, !.nonce = n,
                                                  !.reply = parent]]
    /\ UNCHANGED <<roomVars, msgVars, editVars, clientVars, linkVars, conn, receipt>>

RestScanned(r, score) ==
    /\ rest[r].at = "scan"
    /\ lastId' = lastId + 1
    /\ rest' = [rest EXCEPT ![r].at = "commit", ![r].id = lastId', ![r].status = Status(score)]
    /\ UNCHANGED <<roomVars, msgs, late, editVars, clientVars, linkVars, conn, receipt, extra>>

\* The row is stored and returned, whatever its status; nobody else is told.
RestStore(r) ==
    /\ rest[r].at = "commit"
    /\ AddRow(r, rest[r].id, rest[r].from, rest[r])
    /\ known' = [known EXCEPT ![rest[r].from] = @ \cup {rest[r].id}]
    /\ rest' = [rest EXCEPT ![r] = NoRest]
    /\ UNCHANGED <<roomVars, lastId, revs, edit, quoted, lastAck, linkVars, conn, receipt, extra>>

Revisions(m) == {v \in revs : v.id = m}
MaxVersion(m) == IF Revisions(m) = {} THEN 0
                 ELSE CHOOSE k \in {v.version : v \in Revisions(m)} :
                        \A v \in Revisions(m) : v.version <= k

\* edit_message reads the row and the newest version.
EditRead(e, m, t) ==
    /\ Extra /\ edit[e].at = "idle"
    /\ m \in Stored
    /\ edit' = [edit EXCEPT ![e] = [at |-> "commit", id |-> m, max |-> MaxVersion(m),
                                    body |-> Last(bodies[m]), text |-> t]]
    /\ UNCHANGED <<roomVars, msgVars, revs, bodies, clientVars, linkVars, conn, rest, receipt>>

\* The versions an edit inserts: the original as the first when there is none.
NewRevisions(q) ==
    {[id |-> q.id, version |-> (IF q.max = 0 THEN 2 ELSE q.max + 1), body |-> q.text]}
    \cup (IF q.max = 0 THEN {[id |-> q.id, version |-> 1, body |-> q.body]} ELSE {})

\* UNIQUE (msg_id, version)
VersionTaken(q) == \E v \in revs, w \in NewRevisions(q) : v.id = w.id /\ v.version = w.version

\* The revisions and the new body in one transaction, or a 500.
EditCommit(e) ==
    LET q == edit[e] IN
    /\ q.at = "commit"
    /\ IF VersionTaken(q) THEN UNCHANGED <<revs, bodies>>
       ELSE /\ revs' = revs \cup NewRevisions(q)
            /\ bodies' = [bodies EXCEPT ![q.id] = Append(@, q.text)]
    /\ edit' = [edit EXCEPT ![e] = NoEdit]
    /\ UNCHANGED <<roomVars, msgVars, clientVars, linkVars, conn, rest, receipt, extra>>

-----------------------------------------------------------------------------
\* What a client may name as reply_to
Parents == Stored \cup {0}

Frame(c) ==
    \/ \E n \in Nonces, t \in Parents : SendFrame(c, n, t)
    \/ SendRefused(c) \/ Resume(c)
    \/ \E m \in Ids : ReadAck(c, m)

Handler(c) ==
    \/ \E s \in Scores : Scanned(c, s)
    \/ Store(c) \/ Publish(c) \/ RefreshRoom(c)

Next ==
    \/ ToggleBlock \/ ThirtyDays \/ HandleBlockCreated \/ HandleBlockRemoved
    \/ \E k \in DOMAIN events : HandlerFails(k)
    \/ \E c \in Conns : Connect(c) \/ Disconnect(c) \/ Frame(c) \/ Handler(c) \/ Forward(c)
    \/ \E p \in Pods : PodDies(p)
    \/ \E p \in Profiles, m \in Ids : MarkRead(p, m)
    \/ \E r \in Requests : \/ \E p \in Profiles, n \in Nonces, t \in Parents : RestCheck(r, p, n, t)
                           \/ \E s \in Scores : RestScanned(r, s)
                           \/ RestStore(r)
    \/ \E e \in Editors : EditCommit(e) \/ \E m \in Ids, t \in Texts : EditRead(e, m, t)

Spec == Init /\ [][Next]_vars

-----------------------------------------------------------------------------
(* Properties *)

\* chat_room.state; a message with its sender and the writer that stored it;
\* the id up to which a profile says it has read, 0 without a receipt.
RoomStates == {"open", "read_only"}
Message    == [from : Profiles, nonce : Nonces, reply : Parents,
               status : Shown \cup Hidden, by : Writers]
Receipt    == Ids \cup {0}

ChatTypeOK ==
    /\ state \in RoomStates /\ old \in BOOLEAN /\ blocked \in BOOLEAN
    /\ events \in [{"created", "removed"} -> 0..MaxExtra]
    /\ Stored \subseteq 1..lastId /\ lastId \in 0..MaxMessages
    /\ \A m \in Stored : msgs[m] \in Message
    /\ \A c \in Conns :
         /\ conn[c].at \in {"closed", "ready", "scan", "commit", "publish", "refresh"}
         /\ conn[c].state \in RoomStates
         /\ c \in up => conn[c].at # "closed"
         /\ sub[c] # <<>> => c \in up
    /\ \A p \in Profiles : known[p] \cup quoted[p] \subseteq Stored /\ lastAck[p] \in Stored \cup {0}
    /\ receipt \in [Profiles -> Receipt]

Own(p) == {m \in Stored : msgs[m].from = p}

\* A message that moderation held back is in no fan-out and in no replay.  It
\* comes back to its sender, as the answer of the REST endpoint; anyone else
\* has its body only as the preview of a reply that was itself let through.
HiddenNeverShown ==
    /\ \A c \in Conns : \A k \in 1..Len(sub[c]) : sub[c][k] \in Visible
    /\ \A p \in Profiles :
          /\ known[p] \subseteq Visible \cup Own(p)
          /\ \A m \in quoted[p] : \E k \in Visible \cap known[p] : msgs[k].reply = m

\* A connection acts on a room state that is a frame old: once the room is
\* frozen, each connection and each REST request under way stores at most one
\* more message.
OneLateMessageEach == \A w \in Writers : late[w] <= 1

\* A client that has resumed misses nothing at the seam between replay and
\* live delivery: a published message it lacks is in its subscription, or was
\* committed with an id older than the one the client resumed from.
NoGapAfterResume ==
    \A c \in up : conn[c].caughtUp =>
        \A m \in Visible \cap published :
            \/ m \in known[Owner[c]] \/ m \in Range(sub[c]) \/ m <= conn[c].base

\* The bodies a message has had are its revisions, in order, each once:
\* "Original body preserved in revision v1", whatever edits race.
TrailIsComplete ==
    \A m \in Stored :
        \/ Revisions(m) = {} /\ Len(bodies[m]) = 1
        \/ /\ {v.version : v \in Revisions(m)} = 1..Len(bodies[m])
           /\ \A v \in Revisions(m) : v.body = bodies[m][v.version]

\* "Monotonic upsert - never move pointer backward", from two devices and REST.
ReceiptNeverMovesBack == [][\A p \in Profiles : receipt'[p] >= receipt[p]]_vars

\* "Message not delivered: community guidelines", "Message held for review":
\* nobody but its sender has the body of a message that was held back.
HeldBackStaysUnseen ==
    \A p \in Profiles : known[p] \cup quoted[p] \subseteq Visible \cup Own(p)

\* "This ensures zero message loss across the mandatory reconnect" (plan.md):
\* a client that has resumed has, or will get, every visible message.
ZeroMessageLoss ==
    \A c \in up : conn[c].caughtUp =>
        \A m \in Visible \cap published : m \in known[Owner[c]] \cup Range(sub[c])

\* Dedup check of _handle_send: a client_nonce makes one message.
OneMessagePerNonce ==
    \A m, k \in Stored : msgs[m].nonce = msgs[k].nonce => m = k

\* "block.removed: read_only -> open": once the events are consumed, the room
\* is frozen exactly when a block exists.
RoomFollowsBlock ==
    (\A k \in DOMAIN events : events[k] = 0) => ((state = "read_only") <=> blocked)
=============================================================================
