---------------------------- MODULE AiCreditsProofs ----------------------------
(***************************************************************************)
(* TLAPS proofs about AiCredits, for any users, interactions, predictions  *)
(* and webhook requests, any costs, any number of attempts and deliveries, *)
(* and every kind of fault.                                                *)
(***************************************************************************)
EXTENDS AiCredits, TLAPS

Locations == {"idle", "reserve", "record", "generate", "retry", "judge", "enqueue", "commit",
              "release", "done"}
HandlerAts == {"idle", "lookup", "asset", "process", "fail", "commit", "mark", "release_blocked",
               "release_failed"}
AssetRow   == [pred : Predictions \cup {"none", "pending"}, stored : BOOLEAN, active : BOOLEAN]
TaskRow    == [left : Nat, pred : Predictions \cup {"none", "written"}]
RowStatus  == {"none", "flushed", "queued", "processing", "completed", "failed",
               "moderation_blocked", "rejected"}
HandlerRow == [at : HandlerAts, pred : Predictions \cup {"none"},
               on : Interactions \cup {"none"}, status : RowStatus, has : BOOLEAN, active : BOOLEAN]
PredictionRow == [for : Interactions \cup {"none"}, state : {"none", "running", "succeeded", "failed"},
                  sent : Nat, kept : BOOLEAN]

AiTypes ==
    /\ ledger \in [LedgerKeys -> Transactions]
    /\ interaction \in [Interactions -> InteractionRow]
    /\ asset \in [Interactions -> AssetRow]
    /\ pc \in [Interactions -> Locations]
    /\ task \in [Interactions -> TaskRow]
    /\ prediction \in [Predictions -> PredictionRow]
    /\ handler \in [Handlers -> HandlerRow]

\* Where a request is says what its row and its reservation are.
RequestAgrees(i) ==
    /\ pc[i] = "idle" => interaction[i] = NoInteraction /\ ledger[i] = NoTx
    /\ pc[i] = "reserve" => /\ interaction[i].status = "flushed" /\ ledger[i] = NoTx
                            /\ interaction[i].cmd \in Commands
    /\ pc[i] = "record" => interaction[i].status = "flushed" /\ ledger[i].status = "reserved"
    /\ pc[i] \in {"generate", "retry", "judge", "enqueue"} =>
          interaction[i].status = "queued" /\ ledger[i].status = "reserved"
    /\ pc[i] \in {"retry", "judge"} => interaction[i].cmd = "palette"
    /\ pc[i] = "enqueue" => interaction[i].cmd = "mockup"
    /\ pc[i] = "commit" => /\ interaction[i].status = "completed" /\ interaction[i].cmd # "mockup"
                           /\ ledger[i].status = "reserved"
    /\ pc[i] = "release" => /\ interaction[i].status \in {"failed", "moderation_blocked"}
                            /\ ledger[i].status = "reserved"

\* Only a mockup whose request is over has a task, and only such a one has a
\* prediction for webhooks to find, in both of its rows.
OnlyMockupsWait(i) ==
    /\ task[i].left > 0 => pc[i] = "done" /\ interaction[i].cmd = "mockup"
    /\ interaction[i].pred \in Predictions =>
          pc[i] = "done" /\ interaction[i].cmd = "mockup" /\ asset[i].pred = interaction[i].pred

\* The verdict of a text command, and what a charge was for.
TextAgrees(i) ==
    interaction[i].cmd # "mockup" =>
        /\ interaction[i].status = "completed" => ledger[i].status \in {"reserved", "committed"}
        /\ interaction[i].status \in {"failed", "moderation_blocked"}
              => ledger[i].status \in {"reserved", "released"}
        /\ interaction[i].status = "rejected" => ledger[i] = NoTx
\* The artifact of a prediction that the rows of i do not name is in the bucket.
Replaced(i) == \E p \in Predictions :
    prediction[p].for = i /\ prediction[p].kept /\ interaction[i].pred # p
ChargeHasResult(i) ==
    ledger[i].status = "committed" =>
        IF interaction[i].cmd = "mockup" THEN asset[i].stored \/ Replaced(i)
        ELSE interaction[i].status = "completed"

RowGood(i) == RequestAgrees(i) /\ OnlyMockupsWait(i) /\ TextAgrees(i) /\ ChargeHasResult(i)

\* A prediction was made and no task still has to write it: nobody ever will.
Written(p) == prediction[p].state # "none" /\ \A j \in Interactions : task[j].pred # p

\* Predictions are of one interaction: in the hands of its task first, then in
\* its row.  Only what was written is ever uploaded.
CallsGood ==
    /\ \A i \in Interactions : task[i].pred \in Predictions =>
          prediction[task[i].pred].for = i /\ prediction[task[i].pred].state # "none"
    /\ \A i \in Interactions : interaction[i].pred \in Predictions =>
          prediction[interaction[i].pred].for = i /\ Written(interaction[i].pred)
    /\ \A p \in Predictions : prediction[p].kept => Written(p)

\* A webhook request past its look-up works on the interaction of its prediction.
\* It has the asset, or the rows name another prediction by now, and will do so
\* for good; it confirms the charge only once the artifact is kept.
HandlerGood(h) ==
    LET p == handler[h].pred
        i == handler[h].on
    IN  /\ handler[h].at # "idle" => p \in Predictions
        /\ handler[h].at \notin {"idle", "lookup"} =>
              /\ i \in Interactions /\ interaction[i].pred \in Predictions
              /\ prediction[p].for = i /\ Written(p)
        /\ handler[h].at \notin {"idle", "lookup", "asset"} =>
              handler[h].has \/ interaction[i].pred # p
        /\ handler[h].at = "commit" =>
              asset[i].stored \/ (prediction[p].kept /\ interaction[i].pred # p)

AiInv == /\ AiTypes
         /\ CallsGood
         /\ \A i \in Interactions : RowGood(i)
         /\ \A h \in Handlers : HandlerGood(h)

-----------------------------------------------------------------------------
(* What the ledger's operations do to the reservations *)

\* Reservation i may go from "reserved" to st; every other one stays.
Settles(i, st) ==
    /\ ledger' \in [LedgerKeys -> Transactions]
    /\ \A j \in Interactions \ {i} : ledger'[j] = ledger[j]
    /\ ledger'[i] = ledger[i] \/ (ledger[i].status = "reserved" /\ ledger'[i].status = st)

LEMMA ReserveKeysAreLedgerKeys ==
    /\ Interactions \subseteq LedgerKeys
    /\ \A k \in ReserveKeys : ReleaseKey(k) \in LedgerKeys /\ ReleaseKey(k) \notin ReserveKeys
    /\ PurchaseKeys \subseteq LedgerKeys /\ PurchaseKeys \cap ReserveKeys = {}
  <1>1. \A k \in ReserveKeys : ReleaseKey(k) \in ReleaseKeys
    BY DEF ReleaseKeys
  <1> QED
    BY <1>1, KeyAssumption DEF Interactions, LedgerKeys

LEMMA CommitSettles ==
    ASSUME AiTypes, NEW i \in Interactions, NEW r, BillingCommit(i, r)
    PROVE  Settles(i, "committed")
  <1>1. ledger \in [LedgerKeys -> Transactions] /\ i \in LedgerKeys
    BY ReserveKeysAreLedgerKeys DEF AiTypes
  <1>2. CASE UNCHANGED ledger
    BY <1>1, <1>2 DEF Settles
  <1>3. CASE ledger[i].status = "reserved" /\ CommitReservation(i)
    <2>1. PICK t : t = [ledger[i] EXCEPT !.status = "committed"]
      OBVIOUS
    <2>2. t \in Transactions /\ t.status = "committed"
      BY <1>1, <2>1 DEF Transactions, Statuses
    <2>3. ledger' = [ledger EXCEPT ![i] = t]
      BY <1>1, <1>3, <2>1 DEF CommitReservation
    <2> QED
      BY <1>1, <1>3, <2>2, <2>3 DEF Settles
  <1> QED
    BY <1>2, <1>3 DEF BillingCommit, ledgerVars

LEMMA ReleaseSettles ==
    ASSUME AiTypes, NEW i \in Interactions, NEW r, BillingRelease(i, r)
    PROVE  Settles(i, "released")
  <1>1. /\ ledger \in [LedgerKeys -> Transactions] /\ i \in LedgerKeys
        /\ ReleaseKey(i) \in LedgerKeys /\ ReleaseKey(i) \notin Interactions
    BY ReserveKeysAreLedgerKeys DEF AiTypes, Interactions
  <1>2. CASE UNCHANGED ledger
    BY <1>1, <1>2 DEF Settles
  <1>3. CASE ledger[i].status = "reserved" /\ ReleaseReservation(i)
    <2>1. PICK t : t = [ledger[i] EXCEPT !.status = "released"]
      OBVIOUS
    <2>2. PICK d : d = -ledger[i].delta
      OBVIOUS
    <2>3. PICK x : x = Tx(ledger[i].user, d, "committed")
      OBVIOUS
    <2>4. t \in Transactions /\ t.status = "released" /\ x \in Transactions
      BY <1>1, <2>1, <2>2, <2>3 DEF Transactions, Statuses, Tx
    <2>5. ledger' = [ledger EXCEPT ![i] = t, ![ReleaseKey(i)] = x]
      BY <1>1, <1>3, <2>1, <2>2, <2>3 DEF ReleaseReservation
    <2>6. PICK k \in LedgerKeys : k = ReleaseKey(i) /\ k \notin Interactions
      BY <1>1
    <2>7. ledger' = [ledger EXCEPT ![i] = t, ![k] = x]
      BY <2>5, <2>6
    <2>8. k # i
      BY <2>6
    <2> QED
      BY <1>1, <1>3, <2>4, <2>6, <2>7, <2>8, ReserveKeysAreLedgerKeys DEF Settles
  <1> QED
    BY <1>2, <1>3 DEF BillingRelease, ledgerVars

LEMMA ReserveOpens ==
    ASSUME AiTypes, NEW i \in Interactions, NEW u \in Users \cup {NoUser}, NEW a \in Nat, Reserve(u, i, a)
    PROVE  /\ ledger' \in [LedgerKeys -> Transactions]
           /\ \A j \in Interactions \ {i} : ledger'[j] = ledger[j]
           /\ ledger[i] = NoTx /\ ledger'[i].status = "reserved"
  <1>1. ledger \in [LedgerKeys -> Transactions] /\ i \in LedgerKeys
    BY ReserveKeysAreLedgerKeys DEF AiTypes
  <1>2. PICK t : t = Tx(u, -a, "reserved")
    OBVIOUS
  <1>3. t \in Transactions /\ t.status = "reserved"
    BY <1>2 DEF Tx, Transactions, Statuses
  <1>4. ledger' = [ledger EXCEPT ![i] = t] /\ ledger[i] = NoTx
    BY <1>2 DEF Reserve
  <1> QED
    BY <1>1, <1>3, <1>4

-----------------------------------------------------------------------------
(* One step moves one interaction, or one webhook request *)

\* What was written stays so, and what is kept stays kept.
Persists(p) ==
    Written(p) => /\ Written(p)' /\ prediction'[p].for = prediction[p].for
                  /\ prediction[p].kept => prediction'[p].kept

\* No prediction is made or written.
LEMMA CallsKept ==
    ASSUME CallsGood,
           \A p \in Predictions :
              /\ prediction'[p].for = prediction[p].for
              /\ prediction[p].state # "none" => prediction'[p].state # "none"
              /\ prediction[p].kept => prediction'[p].kept
              /\ prediction'[p].kept => prediction[p].kept \/ Written(p),
           \A j \in Interactions : task'[j].pred = task[j].pred \/ task'[j].pred \notin Predictions,
           \A j \in Interactions :
              interaction'[j].pred = interaction[j].pred \/ interaction'[j].pred \notin Predictions
    PROVE  CallsGood' /\ \A p \in Predictions : Persists(p)
  <1>1. \A p \in Predictions : Written(p) => Written(p)'
    BY DEF Written
  <1>2. \A p \in Predictions : Persists(p)
    BY <1>1 DEF Persists
  <1>3. \A i \in Interactions : task'[i].pred \in Predictions =>
          prediction'[task'[i].pred].for = i /\ prediction'[task'[i].pred].state # "none"
    BY DEF CallsGood
  <1>4. \A i \in Interactions : interaction'[i].pred \in Predictions =>
          prediction'[interaction'[i].pred].for = i /\ Written(interaction[i].pred)
            /\ interaction'[i].pred = interaction[i].pred
    BY DEF CallsGood
  <1>5. \A i \in Interactions : interaction'[i].pred \in Predictions =>
          (prediction[interaction[i].pred].for = i /\ Written(interaction[i].pred))'
    BY <1>1, <1>4
  <1>6. \A p \in Predictions : prediction'[p].kept => Written(p)'
    BY <1>1 DEF CallsGood
  <1> QED
    BY <1>2, <1>3, <1>5, <1>6 DEF CallsGood

\* The row of an interaction that does not move.
LEMMA RowStays ==
    ASSUME CallsGood, NEW j \in Interactions, RowGood(j),
           interaction'[j] = interaction[j], pc'[j] = pc[j], ledger'[j] = ledger[j],
           asset'[j] = asset[j], task'[j] = task[j], \A p \in Predictions : Persists(p)
    PROVE  RowGood(j)'
  <1>1. Replaced(j) => Replaced(j)'
    BY DEF Replaced, CallsGood, Persists
  <1>2. ChargeHasResult(j)'
    BY <1>1 DEF RowGood, ChargeHasResult
  <1> QED
    BY <1>2 DEF RowGood, RequestAgrees, OnlyMockupsWait, TextAgrees

\* A webhook request that does not move, on an interaction whose row may name
\* another prediction from now on.
LEMMA HandlerStays ==
    ASSUME NEW h \in Handlers, HandlerGood(h), handler'[h] = handler[h],
           \A p \in Predictions : Persists(p),
           \A j \in Interactions :
              /\ interaction[j].pred \in Predictions => interaction'[j].pred \in Predictions
              /\ interaction'[j].pred = interaction[j].pred \/ ~Written(interaction'[j].pred)
              /\ interaction[j].pred \in Predictions /\ asset[j].stored => asset'[j].stored
    PROVE  HandlerGood(h)'
  <1>1. CASE handler[h].at \in {"idle", "lookup"}
    BY <1>1 DEF HandlerGood
  <1>2. CASE handler[h].at \notin {"idle", "lookup"}
    <2>1. PICK p \in Predictions, i \in Interactions :
            /\ p = handler[h].pred /\ i = handler[h].on /\ Written(p) /\ prediction[p].for = i
            /\ interaction[i].pred \in Predictions
      BY <1>2 DEF HandlerGood
    <2>2. Written(p)' /\ prediction'[p].for = i /\ (prediction[p].kept => prediction'[p].kept)
      BY <2>1 DEF Persists
    <2>3. interaction[i].pred # p => interaction'[i].pred # p
      BY <2>1
    <2>4. interaction'[i].pred \in Predictions /\ (asset[i].stored => asset'[i].stored)
      BY <2>1
    <2>5. /\ handler[h].at \notin {"idle", "lookup", "asset"} => handler[h].has \/ interaction[i].pred # p
          /\ handler[h].at = "commit" => asset[i].stored \/ (prediction[p].kept /\ interaction[i].pred # p)
      BY <2>1 DEF HandlerGood
    <2>6. handler'[h].pred = p /\ handler'[h].on = i /\ handler'[h].at = handler[h].at
            /\ handler'[h].has = handler[h].has
      BY <2>1
    <2> HIDE DEF Written
    <2> QED
      BY <2>2, <2>3, <2>4, <2>5, <2>6 DEF HandlerGood
  <1> QED
    BY <1>1, <1>2

LEMMA OneMoves ==
    ASSUME AiInv, NEW i \in Interactions, AiTypes', RowGood(i)', CallsGood',
           \A p \in Predictions : Persists(p),
           \A j \in Interactions \ {i} :
              /\ interaction'[j] = interaction[j] /\ pc'[j] = pc[j] /\ ledger'[j] = ledger[j]
              /\ asset'[j] = asset[j] /\ task'[j] = task[j],
           interaction'[i].pred = interaction[i].pred \/ ~Written(interaction'[i].pred),
           interaction[i].pred \in Predictions =>
              interaction'[i].pred \in Predictions /\ (asset[i].stored => asset'[i].stored),
           \A h \in Handlers : handler'[h] = handler[h] \/ HandlerGood(h)'
    PROVE  AiInv'
  <1>1. ASSUME NEW j \in Interactions PROVE RowGood(j)'
    <2>1. CASE j = i
      BY <2>1
    <2>2. CASE j # i
      <3>1. RowGood(j) /\ CallsGood
        BY DEF AiInv
      <3> QED
        BY <2>2, <3>1, RowStays
    <2> QED
      BY <2>1, <2>2
  <1>2. ASSUME NEW h \in Handlers PROVE HandlerGood(h)'
    <2>1. CASE HandlerGood(h)'
      BY <2>1
    <2>2. CASE handler'[h] = handler[h]
      <3>1. HandlerGood(h)
        BY DEF AiInv
      <3> QED
        BY <2>2, <3>1, HandlerStays
    <2> QED
      BY <2>1, <2>2
  <1> QED
    BY <1>1, <1>2 DEF AiInv

\* No request, row or task has changed.
LEMMA HandlersMove ==
    ASSUME AiInv, UNCHANGED <<interaction, pc, asset, task>>, AiTypes',
           \A j \in Interactions : ledger'[j] = ledger[j],
           \A p \in Predictions :
              /\ prediction'[p].for = prediction[p].for /\ prediction'[p].kept = prediction[p].kept
              /\ prediction[p].state # "none" => prediction'[p].state # "none",
           \A h \in Handlers : handler'[h] = handler[h] \/ HandlerGood(h)'
    PROVE  AiInv'
  <1>1. CallsGood' /\ \A p \in Predictions : Persists(p)
    BY CallsKept DEF AiInv
  <1>2. ASSUME NEW j \in Interactions PROVE RowGood(j)'
    BY <1>1, RowStays DEF AiInv
  <1>3. ASSUME NEW h \in Handlers PROVE HandlerGood(h)'
    BY <1>1, HandlerStays DEF AiInv
  <1> QED
    BY <1>1, <1>2, <1>3 DEF AiInv

-----------------------------------------------------------------------------
(* The request *)

\* A request goes from one place to another with its row as q and its
\* reservation moved; neither asset nor task nor webhook is touched.
RequestTo(i, loc, q) ==
    /\ pc' = [pc EXCEPT ![i] = loc] /\ interaction' = [interaction EXCEPT ![i] = q]
    /\ ledger' \in [LedgerKeys -> Transactions]
    /\ \A j \in Interactions \ {i} : ledger'[j] = ledger[j]
    /\ UNCHANGED <<asset, task, prediction, handler>>

LEMMA NoPredictionYet ==
    ASSUME AiInv, NEW i \in Interactions, pc[i] # "done"
    PROVE  /\ interaction[i] \in InteractionRow /\ interaction[i].pred = "none"
           /\ interaction' = interaction => interaction' = [interaction EXCEPT ![i] = interaction[i]]
           /\ ledger' = ledger => ledger' \in [LedgerKeys -> Transactions]
  <1>1. interaction \in [Interactions -> InteractionRow] /\ interaction[i] \in InteractionRow
    BY DEF AiInv, AiTypes
  <1>2. interaction[i].pred \notin Predictions
    BY DEF AiInv, RowGood, OnlyMockupsWait
  <1> QED
    BY <1>1, <1>2 DEF InteractionRow, AiInv, AiTypes

LEMMA RequestMoved ==
    ASSUME AiInv, NEW i \in Interactions, NEW loc \in Locations, NEW q \in InteractionRow,
           pc[i] # "done", RequestTo(i, loc, q), q.pred = "none",
           loc # "idle" /\ (loc \in {"retry", "judge", "enqueue", "commit", "release"} =>
              ledger'[i].status = "reserved"),
           loc \in {"commit", "retry", "judge"} => q.cmd # "mockup",
           loc \in {"retry", "judge"} => q.cmd = "palette" /\ q.status = "queued",
           loc = "reserve" => q.status = "flushed" /\ q.cmd \in Commands /\ ledger'[i] = NoTx,
           loc = "record" => q.status = "flushed" /\ ledger'[i].status = "reserved",
           loc = "generate" => q.status = "queued" /\ ledger'[i].status = "reserved",
           loc = "commit" => q.status = "completed",
           loc = "release" => q.status \in {"failed", "moderation_blocked"},
           loc # "enqueue",
           q.status = "rejected" => ledger'[i] = NoTx,
           q.status = "completed" => ledger'[i].status \in {"reserved", "committed"} /\ q.cmd # "mockup",
           q.status \in {"failed", "moderation_blocked"} => ledger'[i].status \in {"reserved", "released"},
           ledger'[i].status = "committed" => q.status = "completed"
    PROVE  AiInv'
  <1>0. AiTypes /\ RowGood(i)
    BY DEF AiInv
  <1>1. /\ pc'[i] = loc /\ interaction'[i] = q
        /\ \A j \in Interactions \ {i} : pc'[j] = pc[j] /\ interaction'[j] = interaction[j]
        /\ asset'[i] = asset[i] /\ task'[i] = task[i]
    BY <1>0 DEF RequestTo, AiTypes
  <1>2. AiTypes'
    BY <1>0 DEF RequestTo, AiTypes
  <1>3. interaction[i].pred \notin Predictions /\ ~(task[i].left > 0) /\ q.pred \notin Predictions
    BY <1>0, AiAssumption DEF RowGood, OnlyMockupsWait
  <1>4. RequestAgrees(i)'
    BY <1>1 DEF RequestAgrees
  <1>5. OnlyMockupsWait(i)' /\ TextAgrees(i)' /\ ChargeHasResult(i)'
    BY <1>1, <1>3 DEF OnlyMockupsWait, TextAgrees, ChargeHasResult
  <1>6. RowGood(i)'
    BY <1>4, <1>5 DEF RowGood
  <1>7. interaction'[i].pred = interaction[i].pred
    BY <1>1, NoPredictionYet
  <1>8. CallsGood' /\ \A p \in Predictions : Persists(p)
    BY <1>1, <1>7, CallsKept DEF AiInv, RequestTo
  <1> QED
    BY <1>1, <1>2, <1>3, <1>6, <1>7, <1>8, OneMoves DEF RequestTo

LEMMA StatusSet ==
    ASSUME AiTypes, NEW i \in Interactions, NEW st \in RowStatus, SetStatus(i, st)
    PROVE  \E q \in InteractionRow :
              /\ interaction' = [interaction EXCEPT ![i] = q] /\ q.status = st
              /\ q.cmd = interaction[i].cmd /\ q.pred = interaction[i].pred
  <1>1. interaction[i] \in InteractionRow
    BY DEF AiTypes
  <1>2. PICK q : q = [interaction[i] EXCEPT !.status = st]
    OBVIOUS
  <1>3. q \in InteractionRow /\ q.status = st /\ q.cmd = interaction[i].cmd
          /\ q.pred = interaction[i].pred
    BY <1>1, <1>2 DEF InteractionRow, RowStatus
  <1> QED
    BY <1>2, <1>3 DEF SetStatus

\* A verdict that leaves the reservation alone.
LEMMA ConcludeKeeps ==
    ASSUME AiInv, NEW i \in Interactions, NEW st \in RowStatus, NEW loc \in {"commit", "release"},
           Conclude(i, st, loc), pc[i] \in {"generate", "judge"},
           loc = "commit" => st = "completed" /\ interaction[i].cmd # "mockup",
           loc = "release" => st \in {"failed", "moderation_blocked"}
    PROVE  AiInv'
  <1>1. AiTypes /\ RowGood(i) /\ loc \in Locations
    BY DEF AiInv, Locations
  <1>2. PICK q \in InteractionRow :
            /\ interaction' = [interaction EXCEPT ![i] = q] /\ q.status = st
            /\ q.cmd = interaction[i].cmd /\ q.pred = interaction[i].pred
    BY <1>1, StatusSet DEF Conclude
  <1>3. q.pred = "none" /\ ledger[i].status = "reserved" /\ pc[i] # "done"
    BY <1>1, <1>2, NoPredictionYet DEF RowGood, RequestAgrees
  <1>4. RequestTo(i, loc, q) /\ ledger' = ledger
    BY <1>1, <1>2 DEF RequestTo, Conclude, Goto, AiTypes, ledgerVars, workerVars, webhookVars
  <1> QED
    BY <1>1, <1>2, <1>3, <1>4, RequestMoved

LEMMA RequestConcludes ==
    ASSUME AiInv, NEW i \in Interactions,
           \/ Blocked(i) \/ InvalidInput(i) \/ TextGenerated(i) \/ TextFailed(i) \/ PaletteJudged(i)
    PROVE  AiInv'
  <1>0. {"completed", "failed", "moderation_blocked"} \subseteq RowStatus
    BY DEF RowStatus
  <1>1. CASE Blocked(i) \/ InvalidInput(i) \/ TextFailed(i)
    BY <1>0, <1>1, ConcludeKeeps DEF Blocked, InvalidInput, TextFailed
  <1>2. CASE TextGenerated(i)
    BY <1>0, <1>2, ConcludeKeeps DEF TextGenerated, OneCall
  <1>3. CASE PaletteJudged(i)
    <2>1. interaction[i].cmd = "palette"
      BY <1>3 DEF AiInv, RowGood, RequestAgrees, PaletteJudged
    <2> QED
      BY <1>0, <1>3, <2>1, ConcludeKeeps DEF PaletteJudged
  <1> QED
    BY <1>1, <1>2, <1>3

LEMMA RequestBegins ==
    ASSUME AiInv, NEW i \in Interactions,
           NotEntitled(i) \/ Submit(i)
    PROVE  AiInv'
  <1>1. AiTypes /\ RowGood(i) /\ {"done", "reserve"} \subseteq Locations
    BY DEF AiInv, Locations
  <1>2. pc[i] = "idle" /\ ledger[i] = NoTx /\ ledger' = ledger
    BY <1>1 DEF NotEntitled, Submit, RowGood, RequestAgrees, ledgerVars
  <1>3. CASE NotEntitled(i)
    <2>1. PICK u \in Users : \E c \in Commands :
            interaction' = [interaction EXCEPT ![i] =
              [user |-> u, cmd |-> c, status |-> "rejected", pred |-> "none"]]
      BY <1>3 DEF NotEntitled
    <2>2. PICK c \in Commands :
            interaction' = [interaction EXCEPT ![i] =
              [user |-> u, cmd |-> c, status |-> "rejected", pred |-> "none"]]
      BY <2>1
    <2>3. PICK q : q = [user |-> u, cmd |-> c, status |-> "rejected", pred |-> "none"]
      OBVIOUS
    <2>4. q \in InteractionRow /\ q.status = "rejected" /\ q.pred = "none"
      BY <2>3 DEF InteractionRow
    <2>5. RequestTo(i, "done", q)
      BY <1>1, <1>2, <1>3, <2>2, <2>3
      DEF RequestTo, NotEntitled, Goto, AiTypes, workerVars, webhookVars
    <2> QED
      BY <1>1, <1>2, <2>4, <2>5, RequestMoved DEF NoTx
  <1>4. CASE Submit(i)
    <2>1. PICK u \in Users : \E c \in Commands :
            interaction' = [interaction EXCEPT ![i] =
              [user |-> u, cmd |-> c, status |-> "flushed", pred |-> "none"]]
      BY <1>4 DEF Submit
    <2>2. PICK c \in Commands :
            interaction' = [interaction EXCEPT ![i] =
              [user |-> u, cmd |-> c, status |-> "flushed", pred |-> "none"]]
      BY <2>1
    <2>3. PICK q : q = [user |-> u, cmd |-> c, status |-> "flushed", pred |-> "none"]
      OBVIOUS
    <2>4. q \in InteractionRow /\ q.status = "flushed" /\ q.pred = "none" /\ q.cmd \in Commands
      BY <2>3 DEF InteractionRow
    <2>5. RequestTo(i, "reserve", q)
      BY <1>1, <1>2, <1>4, <2>2, <2>3
      DEF RequestTo, Submit, Goto, AiTypes, workerVars, webhookVars
    <2> QED
      BY <1>1, <1>2, <2>4, <2>5, RequestMoved DEF NoTx
  <1> QED
    BY <1>3, <1>4

LEMMA RequestReserves ==
    ASSUME AiInv, NEW i \in Interactions,
           ReserveCredits(i) \/ ReserveRejected(i) \/ ReserveFails(i)
    PROVE  AiInv'
  <1>1. AiTypes /\ RowGood(i) /\ {"done", "record"} \subseteq Locations /\ "rejected" \in RowStatus
    BY DEF AiInv, Locations, RowStatus
  <1>2. /\ pc[i] = "reserve" /\ ledger[i] = NoTx /\ interaction[i].status = "flushed"
        /\ interaction[i].user \in Users \cup {NoUser} /\ CostOf(i) \in Nat
    <2>1. pc[i] = "reserve"
      BY DEF ReserveCredits, ReserveRejected, ReserveFails
    <2>2. interaction[i].cmd \in AllCommands /\ interaction[i] \in InteractionRow
      BY <1>1, <2>1, AiAssumption DEF RowGood, RequestAgrees, AiTypes
    <2>3. Cost[interaction[i].cmd] \in Nat
      BY <2>2, AiAssumption
    <2> QED
      BY <1>1, <2>1, <2>2, <2>3 DEF CostOf, RowGood, RequestAgrees, InteractionRow
  <1>3. CASE ReserveCredits(i)
    <2>1. /\ ledger' \in [LedgerKeys -> Transactions]
          /\ \A j \in Interactions \ {i} : ledger'[j] = ledger[j]
          /\ ledger'[i].status = "reserved"
      BY <1>1, <1>2, <1>3, ReserveOpens DEF ReserveCredits
    <2>2. PICK q \in InteractionRow : q = interaction[i]
      BY <1>1 DEF AiTypes
    <2>3. RequestTo(i, "record", q) /\ q.pred = "none" /\ q.status = "flushed"
      BY <1>1, <1>2, <1>3, <2>1, <2>2, NoPredictionYet
      DEF RequestTo, ReserveCredits, Goto, AiTypes, workerVars, webhookVars
    <2> QED
      BY <1>1, <1>2, <2>1, <2>3, RequestMoved
  <1>4. CASE ReserveRejected(i)
    <2>1. PICK q \in InteractionRow :
              /\ interaction' = [interaction EXCEPT ![i] = q] /\ q.status = "rejected"
              /\ q.cmd = interaction[i].cmd /\ q.pred = interaction[i].pred
      BY <1>1, <1>4, StatusSet DEF ReserveRejected
    <2>2. RequestTo(i, "done", q) /\ q.pred = "none" /\ ledger' = ledger
      BY <1>1, <1>2, <1>4, <2>1, NoPredictionYet
      DEF RequestTo, ReserveRejected, Goto, AiTypes, ledgerVars, workerVars, webhookVars
    <2> QED
      BY <1>1, <1>2, <2>1, <2>2, RequestMoved DEF NoTx
  <1>5. CASE ReserveFails(i)
    <2>1. /\ ledger' \in [LedgerKeys -> Transactions]
          /\ \A j \in Interactions \ {i} : ledger'[j] = ledger[j]
          /\ ledger'[i].status # "committed"
      <3>1. PICK r \in Replies \ {"ok"} :
               IF Applied(r) THEN Reserve(interaction[i].user, i, CostOf(i))
                             ELSE UNCHANGED ledgerVars
        BY <1>5 DEF ReserveFails
      <3>2. CASE Applied(r)
        BY <1>1, <1>2, <3>1, <3>2, ReserveOpens
      <3>3. CASE ~Applied(r)
        BY <1>1, <1>2, <3>1, <3>3 DEF ledgerVars, AiTypes, NoTx
      <3> QED
        BY <3>2, <3>3
    <2>2. PICK q : q = NoInteraction
      OBVIOUS
    <2>3. q \in InteractionRow /\ q.pred = "none" /\ q.status = "none"
      BY <2>2 DEF NoInteraction, InteractionRow
    <2>4. RequestTo(i, "done", q)
      BY <1>1, <1>5, <2>1, <2>2 DEF RequestTo, ReserveFails, Goto, AiTypes, workerVars, webhookVars
    <2> QED
      BY <1>1, <1>2, <2>1, <2>3, <2>4, RequestMoved
  <1> QED
    BY <1>3, <1>4, <1>5

LEMMA RequestSettles ==
    ASSUME AiInv, NEW i \in Interactions, RequestCommits(i) \/ RequestReleases(i)
    PROVE  AiInv'
  <1>1. AiTypes /\ RowGood(i) /\ "done" \in Locations
    BY DEF AiInv, Locations
  <1>2. pc[i] \in {"commit", "release"} /\ interaction[i].pred = "none" /\ interaction[i] \in InteractionRow
    BY NoPredictionYet DEF RequestCommits, RequestReleases
  <1>3. PICK q \in InteractionRow : q = interaction[i]
    BY <1>2
  <1>4. CASE RequestCommits(i)
    <2>1. Settles(i, "committed")
      BY <1>1, <1>4, CommitSettles DEF RequestCommits
    <2>2. RequestTo(i, "done", q)
      BY <1>1, <1>3, <1>4, <2>1
      DEF RequestTo, RequestCommits, Settles, Goto, AiTypes, workerVars, webhookVars
    <2>3. pc[i] = "commit" /\ ledger'[i].status \in {"reserved", "committed"}
      BY <1>1, <1>4, <2>1 DEF RequestCommits, Settles, RowGood, RequestAgrees
    <2>4. q.status = "completed" /\ q.cmd # "mockup"
      BY <1>1, <1>3, <2>3 DEF RowGood, RequestAgrees
    <2> QED
      BY <1>1, <1>2, <1>3, <2>2, <2>3, <2>4, RequestMoved
  <1>5. CASE RequestReleases(i)
    <2>1. Settles(i, "released")
      BY <1>1, <1>5, ReleaseSettles DEF RequestReleases
    <2>2. RequestTo(i, "done", q)
      BY <1>1, <1>3, <1>5, <2>1
      DEF RequestTo, RequestReleases, Settles, Goto, AiTypes, workerVars, webhookVars
    <2>3. pc[i] = "release" /\ ledger'[i].status \in {"reserved", "released"}
      BY <1>1, <1>5, <2>1 DEF RequestReleases, Settles, RowGood, RequestAgrees
    <2>4. q.status \in {"failed", "moderation_blocked"}
      BY <1>1, <1>3, <2>3 DEF RowGood, RequestAgrees
    <2> QED
      BY <1>1, <1>2, <1>3, <2>2, <2>3, <2>4, RequestMoved
  <1> QED
    BY <1>4, <1>5

\* Steps of a request that holds a reservation and leaves it as it is.
LEMMA RequestHolds ==
    ASSUME AiInv, NEW i \in Interactions,
           \/ RecordReservation(i) \/ PaletteAnswer(i) \/ PaletteRaises(i) \/ AssetConflict(i)
           \/ RequestCrashes(i)
    PROVE  AiInv'
  <1>1. AiTypes /\ RowGood(i) /\ {"done", "generate", "retry", "judge"} \subseteq Locations
          /\ "queued" \in RowStatus
    BY DEF AiInv, Locations, RowStatus
  <1>2. pc[i] \notin {"idle", "done"} /\ interaction[i].pred = "none" /\ interaction[i] \in InteractionRow
          /\ ledger' = ledger /\ ledger' \in [LedgerKeys -> Transactions]
          /\ UNCHANGED <<asset, task, prediction, handler>>
    BY NoPredictionYet DEF RecordReservation, PaletteAnswer, PaletteRaises, AssetConflict,
       RequestCrashes, ledgerVars, workerVars, webhookVars
  <1>3. CASE RecordReservation(i)
    <2>1. PICK q \in InteractionRow :
              /\ interaction' = [interaction EXCEPT ![i] = q] /\ q.status = "queued"
              /\ q.cmd = interaction[i].cmd /\ q.pred = interaction[i].pred
      BY <1>1, <1>3, StatusSet DEF RecordReservation
    <2>2. RequestTo(i, "generate", q) /\ ledger'[i].status = "reserved"
      BY <1>1, <1>2, <1>3, <2>1 DEF RequestTo, RecordReservation, Goto, RowGood, RequestAgrees
    <2> QED
      BY <1>1, <1>2, <2>1, <2>2, RequestMoved
  <1>4. CASE PaletteAnswer(i) \/ PaletteRaises(i) \/ AssetConflict(i)
    <2>1. PICK q \in InteractionRow : q = interaction[i]
      BY <1>2
    <2>2. PICK loc \in {"done", "retry", "judge"} :
            /\ pc' = [pc EXCEPT ![i] = loc] /\ interaction' = interaction
            /\ loc # "done" => interaction[i].cmd = "palette"
      BY <1>4 DEF PaletteAnswer, PaletteRaises, AssetConflict, Goto
    <2>3. q.status = "queued" /\ ledger'[i].status = "reserved"
      BY <1>1, <1>2, <1>4, <2>1
      DEF PaletteAnswer, PaletteRaises, AssetConflict, RowGood, RequestAgrees
    <2>4. RequestTo(i, loc, q)
      BY <1>1, <1>2, <2>1, <2>2 DEF RequestTo, AiTypes
    <2> QED
      BY <1>1, <1>2, <2>1, <2>2, <2>3, <2>4, RequestMoved
  <1>5. CASE RequestCrashes(i)
    <2>1. PICK q : q = IF interaction[i].status = "flushed" THEN NoInteraction ELSE interaction[i]
      OBVIOUS
    <2>2. q \in InteractionRow /\ q.pred = "none"
      BY <1>2, <2>1 DEF InteractionRow, NoInteraction
    <2>3. RequestTo(i, "done", q)
      BY <1>1, <1>2, <1>5, <2>1 DEF RequestTo, RequestCrashes, Goto, AiTypes
    <2>4. \/ q.status = "none" /\ ledger'[i].status # "committed"
          \/ /\ ledger'[i].status = "reserved" /\ q.status # "rejected"
             /\ q.status = "completed" => q.cmd # "mockup"
      <3>1. interaction[i].status # "flushed" => q = interaction[i]
        BY <2>1
      <3>2. interaction[i].status = "flushed" => q.status = "none"
        BY <2>1 DEF NoInteraction
      <3>3. pc[i] \in Locations
        BY <1>1 DEF AiTypes
      <3> QED
        BY <1>1, <1>2, <3>1, <3>2, <3>3 DEF RowGood, RequestAgrees, NoTx, Locations
    <2> QED
      BY <1>1, <1>2, <2>2, <2>3, <2>4, RequestMoved
  <1> QED
    BY <1>3, <1>4, <1>5

-----------------------------------------------------------------------------
(* The mockup: its asset, its task and the webhook requests *)

LEMMA MockupStarts ==
    ASSUME AiInv, NEW i \in Interactions, CreateAsset(i) \/ Enqueue(i)
    PROVE  AiInv'
  <1>1. AiTypes /\ RowGood(i) /\ {"done", "enqueue"} \subseteq Locations /\ Attempts \in Nat
          /\ CallsGood
    BY AiAssumption DEF AiInv, Locations
  <1>2. pc[i] # "done" /\ interaction[i].pred \notin Predictions /\ ~(task[i].left > 0)
    BY <1>1 DEF CreateAsset, Enqueue, RowGood, OnlyMockupsWait
  <1>3. interaction' = interaction /\ ledger' = ledger /\ handler' = handler /\ prediction' = prediction
    BY DEF CreateAsset, Enqueue, ledgerVars, webhookVars, workerVars
  <1>4. interaction[i].cmd = "mockup" /\ ledger[i].status = "reserved" /\ interaction[i].status = "queued"
    BY <1>1 DEF CreateAsset, Enqueue, RowGood, RequestAgrees
  <1>5. CASE CreateAsset(i)
    <2>1. PICK a : a = [pred |-> "pending", stored |-> FALSE, active |-> TRUE]
      OBVIOUS
    <2>2. a \in AssetRow
      BY <2>1 DEF AssetRow
    <2>3. asset' = [asset EXCEPT ![i] = a] /\ pc' = [pc EXCEPT ![i] = "enqueue"] /\ task' = task
      BY <1>5, <2>1 DEF CreateAsset, Goto, workerVars
    <2>4. AiTypes'
      BY <1>1, <1>3, <2>2, <2>3 DEF AiTypes
    <2>5. RowGood(i)'
      BY <1>1, <1>2, <1>3, <1>4, <2>3
      DEF AiTypes, RowGood, RequestAgrees, OnlyMockupsWait, TextAgrees, ChargeHasResult
    <2>6. CallsGood' /\ \A p \in Predictions : Persists(p)
      BY <1>1, <1>3, <2>3, CallsKept
    <2> QED
      BY <1>1, <1>2, <1>3, <2>3, <2>4, <2>5, <2>6, OneMoves DEF AiTypes
  <1>6. CASE Enqueue(i)
    <2>1. PICK t : t = [task[i] EXCEPT !.left = Attempts]
      OBVIOUS
    <2>2. t \in TaskRow /\ t.pred = task[i].pred
      BY <1>1, <2>1 DEF TaskRow, AiTypes
    <2>3. asset' = asset /\ pc' = [pc EXCEPT ![i] = "done"] /\ task' = [task EXCEPT ![i] = t]
      BY <1>6, <2>1 DEF Enqueue, Goto
    <2>4. AiTypes'
      BY <1>1, <1>3, <2>2, <2>3 DEF AiTypes
    <2>5. RowGood(i)'
      BY <1>1, <1>2, <1>3, <1>4, <2>3
      DEF AiTypes, RowGood, RequestAgrees, OnlyMockupsWait, TextAgrees, ChargeHasResult
    <2>6. \A j \in Interactions : task'[j].pred = task[j].pred
      BY <1>1, <2>2, <2>3 DEF AiTypes
    <2>7. CallsGood' /\ \A p \in Predictions : Persists(p)
      BY <1>1, <1>3, <2>6, CallsKept
    <2> QED
      BY <1>1, <1>2, <1>3, <2>3, <2>4, <2>5, <2>7, OneMoves DEF AiTypes
  <1> QED
    BY <1>5, <1>6

\* The task ends, retries or is handed to another worker: what it had created
\* and not written is forgotten.
LEMMA TaskForgets ==
    ASSUME AiInv, NEW i \in Interactions, TaskDone(i) \/ TaskRetries(i) \/ WorkerLost(i)
    PROVE  AiInv'
  <1>1. /\ AiTypes /\ RowGood(i) /\ CallsGood /\ pc[i] = "done" /\ interaction[i].cmd = "mockup"
        /\ task[i] \in TaskRow /\ task[i].left > 0
    BY DEF AiInv, AiTypes, RowGood, OnlyMockupsWait, TaskDone, TaskRetries, WorkerLost
  <1>2. UNCHANGED <<ledger, pc, handler, interaction, asset, prediction>>
    BY DEF TaskDone, TaskRetries, WorkerLost, ledgerVars, requestVars, webhookVars
  <1>3. \E t \in TaskRow : task' = [task EXCEPT ![i] = t] /\ t.pred \in {"none", "written"}
    <2>1. CASE TaskDone(i)
      <3>1. [left |-> 0, pred |-> "none"] \in TaskRow
        BY DEF TaskRow
      <3> QED
        BY <2>1, <3>1 DEF TaskDone
    <2>2. CASE TaskRetries(i)
      <3>1. [left |-> task[i].left - 1, pred |-> "none"] \in TaskRow
        BY <1>1 DEF TaskRow
      <3> QED
        BY <1>1, <2>2, <3>1 DEF TaskRetries, AiTypes
    <2>3. CASE WorkerLost(i)
      <3>1. PICK t : t = [task[i] EXCEPT !.pred = "none"]
        OBVIOUS
      <3>2. t \in TaskRow /\ t.pred = "none"
        BY <1>1, <3>1 DEF TaskRow
      <3> QED
        BY <2>3, <3>1, <3>2 DEF WorkerLost
    <2> QED
      BY <2>1, <2>2, <2>3
  <1>4. PICK t \in TaskRow : task' = [task EXCEPT ![i] = t] /\ t.pred \in {"none", "written"}
    BY <1>3
  <1>5. \A j \in Interactions : task'[j].pred = task[j].pred \/ task'[j].pred \notin Predictions
    BY <1>1, <1>4, AiAssumption DEF AiTypes
  <1>6. CallsGood' /\ \A p \in Predictions : Persists(p)
    BY <1>1, <1>2, <1>5, CallsKept
  <1>7. AiTypes'
    BY <1>1, <1>2, <1>4 DEF AiTypes
  <1>8. RowGood(i)'
    BY <1>1, <1>2 DEF RowGood, RequestAgrees, OnlyMockupsWait, TextAgrees, ChargeHasResult, Replaced
  <1> QED
    BY <1>1, <1>2, <1>4, <1>6, <1>7, <1>8, OneMoves DEF AiTypes

LEMMA PredictionCreated ==
    ASSUME AiInv, NEW i \in Interactions, CreatePrediction(i)
    PROVE  AiInv'
  <1>1. /\ AiTypes /\ RowGood(i) /\ CallsGood /\ pc[i] = "done" /\ interaction[i].cmd = "mockup"
        /\ task[i] \in TaskRow /\ task[i].pred = "none"
    BY DEF AiInv, AiTypes, RowGood, OnlyMockupsWait, CreatePrediction
  <1>2. UNCHANGED <<ledger, pc, handler, interaction, asset>>
    BY DEF CreatePrediction, ledgerVars, requestVars, webhookVars
  <1>3. PICK p \in Predictions :
          /\ prediction[p].state = "none"
          /\ prediction' = [prediction EXCEPT ![p].for = i, ![p].state = "running"]
          /\ task' = [task EXCEPT ![i].pred = p]
    BY DEF CreatePrediction
  <1>4. PICK t : t = [task[i] EXCEPT !.pred = p]
    OBVIOUS
  <1>5. PICK c : c = [prediction[p] EXCEPT !.for = i, !.state = "running"]
    OBVIOUS
  <1>6. t \in TaskRow /\ t.pred = p
    BY <1>1, <1>4 DEF TaskRow
  <1>7. /\ c \in PredictionRow /\ c.for = i /\ c.state = "running" /\ c.kept = prediction[p].kept
    BY <1>1, <1>5 DEF AiTypes, PredictionRow
  <1>8. task' = [task EXCEPT ![i] = t] /\ prediction' = [prediction EXCEPT ![p] = c]
    BY <1>1, <1>3, <1>4, <1>5 DEF AiTypes
  <1>9. AiTypes'
    BY <1>1, <1>2, <1>6, <1>7, <1>8 DEF AiTypes
  <1>10. /\ task'[i] = t /\ \A j \in Interactions \ {i} : task'[j] = task[j]
         /\ prediction'[p] = c /\ \A x \in Predictions \ {p} : prediction'[x] = prediction[x]
    BY <1>1, <1>8 DEF AiTypes
  <1>11. ~Written(p) /\ ~prediction[p].kept
    BY <1>1, <1>3 DEF Written, CallsGood
  <1>12. ASSUME NEW x \in Predictions, Written(x) PROVE x # p /\ Written(x)'
    <2>1. x # p
      BY <1>11, <1>12
    <2> QED
      BY <1>6, <1>10, <1>12, <2>1 DEF Written
  <1>13. \A x \in Predictions : Persists(x)
    <2> SUFFICES ASSUME NEW x \in Predictions, Written(x)
                 PROVE  Written(x)' /\ prediction'[x] = prediction[x]
      BY DEF Persists
    <2> QED
      BY <1>10, <1>12
  <1>14. CallsGood'
    <2>1. ASSUME NEW j \in Interactions, task'[j].pred \in Predictions
          PROVE  prediction'[task'[j].pred].for = j /\ prediction'[task'[j].pred].state # "none"
      <3>1. CASE j = i
        BY <1>6, <1>7, <1>10, <3>1
      <3>2. CASE j # i
        <4>1. prediction[task[j].pred].for = j /\ prediction[task[j].pred].state # "none"
                /\ task'[j].pred = task[j].pred
          BY <1>1, <1>10, <2>1, <3>2 DEF CallsGood
        <4> QED
          BY <1>3, <1>10, <2>1, <4>1
      <3> QED
        BY <3>1, <3>2
    <2>2. ASSUME NEW j \in Interactions, interaction'[j].pred \in Predictions
          PROVE  prediction'[interaction'[j].pred].for = j /\ (Written(interaction[j].pred))'
      <3>1. prediction[interaction[j].pred].for = j /\ Written(interaction[j].pred)
        BY <1>1, <1>2, <2>2 DEF CallsGood
      <3>2. PICK x \in Predictions : x = interaction[j].pred /\ x = interaction'[j].pred
        BY <1>2, <2>2
      <3>3. Written(x)' /\ prediction'[x].for = j
        BY <1>10, <1>12, <3>1, <3>2
      <3> QED
        BY <3>2, <3>3
    <2>3. ASSUME NEW x \in Predictions, prediction'[x].kept PROVE Written(x)'
      <3>1. prediction[x].kept
        BY <1>7, <1>10, <2>3
      <3> QED
        BY <1>1, <1>12, <3>1 DEF CallsGood
    <2> QED
      BY <2>1, <2>2, <2>3 DEF CallsGood
  <1>15. RowGood(i)'
    <2>1. Replaced(i) => Replaced(i)'
      BY <1>1, <1>2, <1>13 DEF Replaced, CallsGood, Persists
    <2> QED
      BY <1>1, <1>2, <2>1 DEF RowGood, RequestAgrees, OnlyMockupsWait, TextAgrees, ChargeHasResult
  <1> QED
    BY <1>1, <1>2, <1>9, <1>10, <1>13, <1>14, <1>15, OneMoves

LEMMA PredictionWritten ==
    ASSUME AiInv, NEW i \in Interactions, WritePrediction(i)
    PROVE  AiInv'
  <1>1. /\ AiTypes /\ RowGood(i) /\ CallsGood /\ pc[i] = "done" /\ interaction[i].cmd = "mockup"
        /\ task[i] \in TaskRow
    BY DEF AiInv, AiTypes, RowGood, OnlyMockupsWait, WritePrediction
  <1>2. UNCHANGED <<ledger, pc, handler, prediction>>
    BY DEF WritePrediction, ledgerVars, requestVars, webhookVars
  <1>3. PICK p \in Predictions : p = task[i].pred
    BY DEF WritePrediction
  <1>4. PICK q : q = [interaction[i] EXCEPT !.pred = p, !.status = "processing"]
    OBVIOUS
  <1>5. PICK a : a = [asset[i] EXCEPT !.pred = p]
    OBVIOUS
  <1>6. PICK t : t = [task[i] EXCEPT !.pred = "written"]
    OBVIOUS
  <1>7. interaction[i] \in InteractionRow /\ asset[i] \in AssetRow
    BY <1>1 DEF AiTypes
  <1>8. q \in InteractionRow /\ q.cmd = "mockup" /\ q.pred = p
    BY <1>1, <1>3, <1>4, <1>7 DEF InteractionRow
  <1>9. a \in AssetRow /\ a.stored = asset[i].stored /\ a.pred = p
    BY <1>3, <1>5, <1>7 DEF AssetRow
  <1>10. t \in TaskRow /\ t.pred = "written"
    BY <1>1, <1>6 DEF TaskRow
  <1>11. interaction' = [interaction EXCEPT ![i] = q] /\ asset' = [asset EXCEPT ![i] = a]
           /\ task' = [task EXCEPT ![i] = t]
    BY <1>1, <1>3, <1>4, <1>5, <1>6 DEF WritePrediction, AiTypes
  <1>12. AiTypes'
    BY <1>1, <1>2, <1>8, <1>9, <1>10, <1>11 DEF AiTypes
  <1>13. /\ interaction'[i] = q /\ asset'[i] = a /\ task'[i] = t
         /\ \A j \in Interactions \ {i} : interaction'[j] = interaction[j] /\ asset'[j] = asset[j]
                                          /\ task'[j] = task[j]
    BY <1>1, <1>11 DEF AiTypes
  <1>14. "written" \notin Predictions
    BY AiAssumption
  <1>15. ~Written(p) /\ prediction[p].for = i /\ prediction[p].state # "none"
    BY <1>1, <1>3 DEF Written, CallsGood
  <1>16. ASSUME NEW x \in Predictions, Written(x) PROVE Written(x)'
    BY <1>2, <1>10, <1>13, <1>14, <1>16 DEF Written
  <1>17. \A x \in Predictions : Persists(x)
    BY <1>2, <1>16 DEF Persists
  <1>18. Written(p)'
    <2>1. ASSUME NEW j \in Interactions, j # i PROVE task[j].pred # p
      BY <1>1, <1>15, <2>1 DEF CallsGood
    <2> QED
      BY <1>2, <1>10, <1>13, <1>14, <1>15, <2>1 DEF Written
  <1>19. CallsGood'
    <2>1. ASSUME NEW j \in Interactions, task'[j].pred \in Predictions
          PROVE  prediction'[task'[j].pred].for = j /\ prediction'[task'[j].pred].state # "none"
      <3>1. task'[j] = task[j]
        BY <1>10, <1>13, <1>14, <2>1
      <3> QED
        BY <1>1, <1>2, <2>1, <3>1 DEF CallsGood
    <2>2. ASSUME NEW j \in Interactions, NEW x \in Predictions, interaction'[j].pred = x
          PROVE  prediction'[x].for = j /\ Written(x)'
      <3>1. CASE j = i
        BY <1>2, <1>8, <1>13, <1>15, <1>18, <2>2, <3>1
      <3>2. CASE j # i
        <4>1. interaction[j].pred = x
          BY <1>13, <2>2, <3>2
        <4>2. prediction[x].for = j /\ Written(x)
          BY <1>1, <4>1 DEF CallsGood
        <4> QED
          BY <1>2, <1>16, <4>2
      <3> QED
        BY <3>1, <3>2
    <2>3. ASSUME NEW x \in Predictions, prediction'[x].kept PROVE Written(x)'
      BY <1>1, <1>2, <1>16, <2>3 DEF CallsGood
    <2>4. ASSUME NEW j \in Interactions, interaction'[j].pred \in Predictions
          PROVE  prediction'[interaction'[j].pred].for = j /\ (Written(interaction[j].pred))'
      <3>1. PICK x \in Predictions : x = interaction'[j].pred
        BY <2>4
      <3> QED
        BY <2>2, <3>1
    <2> QED
      BY <2>1, <2>3, <2>4 DEF CallsGood
  <1>20. RowGood(i)'
    <2>1. Replaced(i) => Replaced(i)'
      <3>1. ASSUME NEW x \in Predictions, prediction[x].kept PROVE x # p
        BY <1>1, <1>15, <3>1 DEF CallsGood
      <3> QED
        BY <1>2, <1>8, <1>13, <3>1 DEF Replaced
    <2> QED
      BY <1>1, <1>2, <1>8, <1>9, <1>13, <2>1
      DEF RowGood, RequestAgrees, OnlyMockupsWait, TextAgrees, ChargeHasResult
  <1> QED
    BY <1>2, <1>8, <1>9, <1>12, <1>13, <1>15, <1>17, <1>19, <1>20, OneMoves

LEMMA TaskSteps ==
    ASSUME AiInv, NEW i \in Interactions, Worker(i) \/ WorkerLost(i)
    PROVE  AiInv'
  BY TaskForgets, PredictionCreated, PredictionWritten DEF Worker

\* A webhook request that has read both rows of interaction i works on them: i
\* is a mockup, and its row, its asset and its reservation may change, not its
\* prediction; the artifact may be kept.
LEMMA HandlerWrites ==
    ASSUME AiInv, NEW h \in Handlers, NEW i \in Interactions, NEW q \in InteractionRow,
           NEW a \in AssetRow, NEW r \in HandlerRow,
           handler[h].on = i, handler[h].at \notin {"idle", "lookup", "asset"},
           interaction' = [interaction EXCEPT ![i] = q], asset' = [asset EXCEPT ![i] = a],
           handler' = [handler EXCEPT ![h] = r], UNCHANGED <<pc, task>>,
           prediction' \in [Predictions -> PredictionRow],
           \A x \in Predictions :
              /\ prediction'[x].for = prediction[x].for /\ prediction'[x].state = prediction[x].state
              /\ prediction[x].kept => prediction'[x].kept
              /\ prediction'[x].kept => prediction[x].kept \/ x = handler[h].pred,
           q.cmd = interaction[i].cmd, q.pred = interaction[i].pred,
           asset[i].stored => a.stored, a.pred = asset[i].pred,
           Settles(i, "released") \/ (Settles(i, "committed") /\ (a.stored \/ Replaced(i))),
           r = IdleHandler \/ (r.on = i /\ r.pred = handler[h].pred /\ r.has = handler[h].has),
           r.at = "commit" => a.stored \/ (prediction'[r.pred].kept /\ q.pred # r.pred)
    PROVE  AiInv'
  <1>1. /\ AiTypes /\ RowGood(i) /\ CallsGood /\ HandlerGood(h)
    BY DEF AiInv
  <1>2. PICK p \in Predictions :
          /\ p = handler[h].pred /\ prediction[p].for = i /\ Written(p)
          /\ interaction[i].pred \in Predictions /\ (handler[h].has \/ interaction[i].pred # p)
    BY <1>1 DEF HandlerGood
  <1>3. /\ pc[i] = "done" /\ interaction[i].cmd = "mockup" /\ asset[i].pred = interaction[i].pred
    BY <1>1, <1>2 DEF RowGood, OnlyMockupsWait
  <1>4. /\ interaction'[i] = q /\ asset'[i] = a /\ handler'[h] = r
        /\ \A j \in Interactions \ {i} : interaction'[j] = interaction[j] /\ asset'[j] = asset[j]
        /\ \A g \in Handlers \ {h} : handler'[g] = handler[g]
    BY <1>1 DEF AiTypes
  <1>5. AiTypes'
    BY <1>1 DEF AiTypes, Settles
  <1>6. CallsGood' /\ \A x \in Predictions : Persists(x)
    BY <1>1, <1>2, <1>4, CallsKept
  <1>7. Replaced(i) => Replaced(i)'
    BY <1>4 DEF Replaced
  <1>8. ledger'[i].status = "committed" => a.stored \/ Replaced(i)'
    <2>1. ledger[i].status = "committed" => asset[i].stored \/ Replaced(i)
      BY <1>1, <1>3 DEF RowGood, ChargeHasResult
    <2> QED
      BY <1>7, <2>1 DEF Settles
  <1>9. RowGood(i)'
    BY <1>1, <1>3, <1>4, <1>8 DEF RowGood, RequestAgrees, OnlyMockupsWait, TextAgrees, ChargeHasResult
  <1>10. HandlerGood(h)'
    <2>1. CASE r = IdleHandler
      BY <1>4, <2>1 DEF HandlerGood, IdleHandler
    <2>2. CASE r.on = i /\ r.pred = handler[h].pred /\ r.has = handler[h].has
      <3>1. Written(p)' /\ prediction'[p].for = i
        BY <1>2, <1>6 DEF Persists
      <3>2. r.pred = p /\ r.on = i /\ (r.has \/ q.pred # p)
        BY <1>2, <2>2
      <3> HIDE DEF Written
      <3> QED
        BY <1>2, <1>4, <3>1, <3>2 DEF HandlerGood
    <2> QED
      BY <2>1, <2>2
  <1>11. \A j \in Interactions \ {i} : ledger'[j] = ledger[j]
    BY DEF Settles
  <1>12. \A g \in Handlers : handler'[g] = handler[g] \/ HandlerGood(g)'
    BY <1>4, <1>10
  <1> QED
    BY <1>2, <1>4, <1>5, <1>6, <1>9, <1>11, <1>12, OneMoves

LEMMA WriteBacks ==
    ASSUME AiInv, NEW h \in Handlers, Processed(h) \/ ProcessBlocked(h) \/ HandleFailure(h)
    PROVE  AiInv'
  <1>1. /\ AiTypes /\ handler[h].at \notin {"idle", "lookup", "asset"}
        /\ handler[h].on \in Interactions /\ handler[h].pred \in Predictions
        /\ handler[h].has \/ interaction[handler[h].on].pred # handler[h].pred
        /\ handler[h] \in HandlerRow /\ UNCHANGED <<pc, task, ledger>>
    BY DEF AiInv, AiTypes, HandlerGood, Processed, ProcessBlocked, HandleFailure, ledgerVars,
       requestVars, workerVars
  <1>2. PICK p \in Predictions : p = handler[h].pred
    BY <1>1
  <1>3. PICK st \in {"completed", "moderation_blocked", "failed"} :
           \E act \in BOOLEAN, stored \in BOOLEAN, loc \in {"commit", "release_blocked", "release_failed"} :
              /\ WriteBack(h, st, act, stored) /\ Continue(h, loc, st, act)
              /\ loc = "commit" => stored /\ prediction' = [prediction EXCEPT ![p].kept = TRUE]
              /\ loc # "commit" => prediction' = prediction
    BY <1>2 DEF Processed, ProcessBlocked, HandleFailure, workerVars
  <1>4. PICK act \in BOOLEAN, stored \in BOOLEAN, loc \in {"commit", "release_blocked", "release_failed"} :
              /\ WriteBack(h, st, act, stored) /\ Continue(h, loc, st, act)
              /\ loc = "commit" => stored /\ prediction' = [prediction EXCEPT ![p].kept = TRUE]
              /\ loc # "commit" => prediction' = prediction
    BY <1>3
  <1>5. PICK i \in Interactions : i = handler[h].on
    BY <1>1
  <1>6. interaction[i] \in InteractionRow /\ asset[i] \in AssetRow
    BY <1>1 DEF AiTypes
  <1>7. \E q \in InteractionRow :
          /\ interaction' = [interaction EXCEPT ![i] = q]
          /\ q.cmd = interaction[i].cmd /\ q.pred = interaction[i].pred
    <2>1. PICK s \in RowStatus : s = IF handler[h].status = st THEN interaction[i].status ELSE st
      BY <1>6 DEF InteractionRow, RowStatus
    <2>2. PICK q : q = [interaction[i] EXCEPT !.status = s]
      OBVIOUS
    <2>3. q \in InteractionRow /\ q.cmd = interaction[i].cmd /\ q.pred = interaction[i].pred
      BY <1>6, <2>1, <2>2 DEF InteractionRow, RowStatus
    <2>4. interaction' = [interaction EXCEPT ![i] = q]
      BY <1>1, <1>4, <1>5, <2>1, <2>2 DEF WriteBack, AiTypes
    <2> QED
      BY <2>3, <2>4
  <1>8. PICK q \in InteractionRow :
          /\ interaction' = [interaction EXCEPT ![i] = q]
          /\ q.cmd = interaction[i].cmd /\ q.pred = interaction[i].pred
    BY <1>7
  <1>9. \E a \in AssetRow :
          /\ asset' = [asset EXCEPT ![i] = a] /\ a.pred = asset[i].pred
          /\ asset[i].stored \/ (handler[h].has /\ stored) => a.stored
    <2>1. CASE ~handler[h].has
      <3>1. asset' = [asset EXCEPT ![i] = asset[i]]
        BY <1>1, <1>4, <2>1 DEF WriteBack, AiTypes
      <3> QED
        BY <1>6, <2>1, <3>1
    <2>2. CASE handler[h].has
      <3>1. PICK b \in BOOLEAN : b = IF handler[h].active = act THEN asset[i].active ELSE act
        BY <1>6 DEF AssetRow
      <3>2. PICK c \in BOOLEAN : c = (asset[i].stored \/ stored)
        BY <1>6 DEF AssetRow
      <3>3. PICK a : a = [asset[i] EXCEPT !.active = b, !.stored = c]
        OBVIOUS
      <3>4. a \in AssetRow /\ a.stored = c /\ a.pred = asset[i].pred
        BY <1>6, <3>3 DEF AssetRow
      <3>5. asset' = [asset EXCEPT ![i] = a]
        BY <1>1, <1>4, <1>5, <2>2, <3>1, <3>2, <3>3 DEF WriteBack, AiTypes
      <3> QED
        BY <3>2, <3>4, <3>5
    <2> QED
      BY <2>1, <2>2
  <1>10. PICK a \in AssetRow :
          /\ asset' = [asset EXCEPT ![i] = a] /\ a.pred = asset[i].pred
          /\ asset[i].stored \/ (handler[h].has /\ stored) => a.stored
    BY <1>9
  <1>11. PICK r : r = [handler[h] EXCEPT !.at = loc, !.status = st, !.active = act]
    OBVIOUS
  <1>12. /\ r \in HandlerRow /\ r.on = i /\ r.pred = handler[h].pred /\ r.at = loc
         /\ r.has = handler[h].has
    BY <1>1, <1>5, <1>11 DEF HandlerRow, HandlerAts, RowStatus
  <1>13. handler' = [handler EXCEPT ![h] = r]
    BY <1>1, <1>4, <1>11 DEF Continue, AiTypes
  <1>14. Settles(i, "released")
    BY <1>1 DEF Settles, AiTypes
  <1>15. /\ prediction' \in [Predictions -> PredictionRow]
         /\ \A x \in Predictions :
              /\ prediction'[x].for = prediction[x].for /\ prediction'[x].state = prediction[x].state
              /\ prediction[x].kept => prediction'[x].kept
              /\ prediction'[x].kept => prediction[x].kept \/ x = handler[h].pred
         /\ loc = "commit" => prediction'[p].kept
    <2>1. prediction \in [Predictions -> PredictionRow]
      BY <1>1 DEF AiTypes
    <2>2. CASE prediction' = prediction /\ loc # "commit"
      BY <2>1, <2>2
    <2>3. CASE prediction' = [prediction EXCEPT ![p].kept = TRUE]
      <3>1. PICK c : c = [prediction[p] EXCEPT !.kept = TRUE]
        OBVIOUS
      <3>2. c \in PredictionRow /\ c.for = prediction[p].for /\ c.state = prediction[p].state /\ c.kept
        BY <2>1, <3>1 DEF PredictionRow
      <3>3. prediction' = [prediction EXCEPT ![p] = c]
        BY <2>1, <2>3, <3>1
      <3> QED
        BY <1>2, <2>1, <3>2, <3>3
    <2> QED
      BY <1>4, <2>2, <2>3
  <1>16. r.at = "commit" => a.stored \/ (prediction'[r.pred].kept /\ q.pred # r.pred)
    BY <1>1, <1>2, <1>4, <1>5, <1>8, <1>10, <1>12, <1>15
  <1>17. handler[h].on = i /\ (asset[i].stored => a.stored)
    BY <1>5, <1>10
  <1> QED
    BY <1>1, <1>8, <1>10, <1>12, <1>13, <1>14, <1>15, <1>16, <1>17, HandlerWrites

LEMMA HandlerSettles ==
    ASSUME AiInv, NEW h \in Handlers, HandlerCommits(h) \/ HandlerReleases(h)
    PROVE  AiInv'
  <1>1. /\ AiTypes /\ handler[h].at \notin {"idle", "lookup", "asset"}
        /\ handler[h].on \in Interactions /\ HandlerGood(h)
        /\ handler[h] \in HandlerRow /\ UNCHANGED <<interaction, asset, pc, task, prediction>>
    BY DEF AiInv, AiTypes, HandlerGood, HandlerCommits, HandlerReleases, requestVars, workerVars
  <1>2. PICK i \in Interactions : i = handler[h].on
    BY <1>1
  <1>3. PICK q \in InteractionRow : q = interaction[i]
    BY <1>1 DEF AiTypes
  <1>4. PICK a \in AssetRow : a = asset[i]
    BY <1>1 DEF AiTypes
  <1>5. Settles(i, "released") \/ (Settles(i, "committed") /\ (a.stored \/ Replaced(i)))
    <2>1. CASE HandlerCommits(h)
      <3>1. Settles(i, "committed")
        BY <1>1, <1>2, <2>1, CommitSettles DEF HandlerCommits
      <3>2. asset[i].stored \/ Replaced(i)
        BY <1>1, <1>2, <2>1 DEF HandlerGood, HandlerCommits, Replaced
      <3> QED
        BY <1>4, <3>1, <3>2
    <2>2. CASE HandlerReleases(h)
      BY <1>1, <1>2, <2>2, ReleaseSettles DEF HandlerReleases
    <2> QED
      BY <2>1, <2>2
  <1>6. PICK loc \in {"mark", "fail"} :
           \/ Continue(h, loc, handler[h].status, handler[h].active)
           \/ handler' = [handler EXCEPT ![h] = IdleHandler]
    BY DEF HandlerCommits, HandlerReleases
  <1>7. \E r \in HandlerRow :
           /\ handler' = [handler EXCEPT ![h] = r] /\ r.at # "commit"
           /\ r = IdleHandler \/ (r.on = i /\ r.pred = handler[h].pred /\ r.has = handler[h].has)
    <2>1. CASE Continue(h, loc, handler[h].status, handler[h].active)
      <3>1. PICK r : r = [handler[h] EXCEPT !.at = loc]
        OBVIOUS
      <3>2. r \in HandlerRow /\ r.on = i /\ r.pred = handler[h].pred /\ r.at = loc
              /\ r.has = handler[h].has
        BY <1>1, <1>2, <3>1 DEF HandlerRow, HandlerAts
      <3>3. handler' = [handler EXCEPT ![h] = r]
        BY <1>1, <2>1, <3>1 DEF Continue, AiTypes, HandlerRow
      <3> QED
        BY <3>2, <3>3
    <2>2. CASE handler' = [handler EXCEPT ![h] = IdleHandler]
      <3>1. IdleHandler \in HandlerRow /\ IdleHandler.at # "commit"
        BY DEF IdleHandler, HandlerRow, HandlerAts, RowStatus
      <3> QED
        BY <2>2, <3>1
    <2> QED
      BY <1>6, <2>1, <2>2
  <1>8. PICK r \in HandlerRow :
           /\ handler' = [handler EXCEPT ![h] = r] /\ r.at # "commit"
           /\ r = IdleHandler \/ (r.on = i /\ r.pred = handler[h].pred /\ r.has = handler[h].has)
    BY <1>7
  <1>9. interaction' = [interaction EXCEPT ![i] = q] /\ asset' = [asset EXCEPT ![i] = a]
    BY <1>1, <1>3, <1>4 DEF AiTypes
  <1>10. /\ handler[h].on = i /\ q.cmd = interaction[i].cmd /\ q.pred = interaction[i].pred
         /\ asset[i].stored => a.stored
         /\ a.pred = asset[i].pred
         /\ handler' = [handler EXCEPT ![h] = r] /\ UNCHANGED <<pc, task, prediction>>
         /\ r = IdleHandler \/ (r.on = i /\ r.pred = handler[h].pred /\ r.has = handler[h].has)
    BY <1>1, <1>2, <1>3, <1>4, <1>8
  <1>11. prediction' \in [Predictions -> PredictionRow]
    BY <1>1 DEF AiTypes
  <1>12. /\ \A x \in Predictions :
              /\ prediction'[x].for = prediction[x].for /\ prediction'[x].state = prediction[x].state
              /\ prediction[x].kept => prediction'[x].kept
              /\ prediction'[x].kept => prediction[x].kept \/ x = handler[h].pred
         /\ r.at = "commit" => a.stored \/ (prediction'[r.pred].kept /\ q.pred # r.pred)
         /\ handler[h].at \notin {"idle", "lookup", "asset"}
    BY <1>1, <1>8
  <1> QED
    BY <1>5, <1>9, <1>10, <1>11, <1>12, HandlerWrites

\* Steps that only move a webhook request.
LEMMA HandlerSteps ==
    ASSUME AiInv, NEW h \in Handlers,
           \/ Receive(h) \/ Lookup(h) \/ LookupAsset(h) \/ LookupUnknown(h) \/ ProcessRaises(h)
           \/ Mark(h) \/ HandlerCrashes(h)
    PROVE  AiInv'
  <1>1. AiTypes /\ CallsGood /\ handler[h] \in HandlerRow /\ HandlerGood(h)
          /\ UNCHANGED <<ledger, interaction, asset, pc, task, prediction>>
    BY DEF AiInv, AiTypes, Receive, Lookup, LookupAsset, LookupUnknown, ProcessRaises, Mark,
       HandlerCrashes, ledgerVars, requestVars, workerVars
  <1> DEFINE Good(r) ==
        /\ r.at # "idle" => r.pred \in Predictions
        /\ r.at \notin {"idle", "lookup"} =>
              /\ r.on \in Interactions /\ interaction[r.on].pred \in Predictions
              /\ prediction[r.pred].for = r.on /\ Written(r.pred)
        /\ r.at \notin {"idle", "lookup", "asset"} => r.has \/ interaction[r.on].pred # r.pred
        /\ r.at # "commit"
  <1>2. handler' = handler \/ \E r \in HandlerRow : handler' = [handler EXCEPT ![h] = r] /\ Good(r)
    <2>1. CASE LookupUnknown(h) \/ Mark(h) \/ HandlerCrashes(h)
      <3>1. IdleHandler \in HandlerRow /\ IdleHandler.at = "idle"
        BY DEF IdleHandler, HandlerRow, HandlerAts, RowStatus
      <3> QED
        BY <2>1, <3>1 DEF LookupUnknown, Mark, HandlerCrashes
    <2>2. CASE Receive(h)
      <3>1. PICK p \in Predictions : handler' = handler \/
              handler' = [handler EXCEPT ![h] = [IdleHandler EXCEPT !.at = "lookup", !.pred = p]]
        BY <2>2 DEF Receive
      <3>2. PICK r : r = [IdleHandler EXCEPT !.at = "lookup", !.pred = p]
        OBVIOUS
      <3>3. r \in HandlerRow /\ r.at = "lookup" /\ r.pred = p
        BY <3>2 DEF IdleHandler, HandlerRow, HandlerAts, RowStatus
      <3> QED
        BY <3>1, <3>2, <3>3
    <2>3. CASE Lookup(h)
      <3>1. PICK i \in Owner(handler[h].pred) :
              handler' = [handler EXCEPT ![h].at = "asset", ![h].on = i,
                                         ![h].status = interaction[i].status]
        BY <2>3 DEF Lookup
      <3>2. i \in Interactions /\ interaction[i].pred = handler[h].pred /\ handler[h].pred \in Predictions
              /\ interaction[i] \in InteractionRow
        BY <1>1, <2>3, <3>1 DEF Owner, Lookup, HandlerGood, AiTypes
      <3>3. PICK r : r = [handler[h] EXCEPT !.at = "asset", !.on = i, !.status = interaction[i].status]
        OBVIOUS
      <3>4. r \in HandlerRow /\ r.pred = handler[h].pred /\ r.on = i /\ r.at = "asset"
        BY <1>1, <3>2, <3>3 DEF HandlerRow, HandlerAts, RowStatus, InteractionRow
      <3>5. handler' = [handler EXCEPT ![h] = r]
        BY <1>1, <3>1, <3>3 DEF AiTypes, HandlerRow
      <3>6. prediction[interaction[i].pred].for = i /\ Written(interaction[i].pred)
        BY <1>1, <3>2 DEF CallsGood
      <3>7. prediction[r.pred].for = r.on /\ Written(r.pred)
        BY <3>2, <3>4, <3>6
      <3> HIDE DEF Written
      <3> QED
        BY <3>2, <3>4, <3>5, <3>7
    <2>4. CASE LookupAsset(h)
      <3>1. PICK i \in Interactions : i = handler[h].on
        BY <1>1, <2>4 DEF HandlerGood, LookupAsset
      <3>2. PICK has \in BOOLEAN : has = (asset[i].pred = handler[h].pred)
        OBVIOUS
      <3>3. PICK act \in BOOLEAN : act = (has /\ asset[i].active)
        BY <1>1 DEF AiTypes, AssetRow
      <3>4. PICK loc \in {"fail", "process"} :
              loc = IF prediction[handler[h].pred].state = "failed" THEN "fail" ELSE "process"
        OBVIOUS
      <3>5. PICK r : r = [handler[h] EXCEPT !.at = loc, !.has = has, !.active = act]
        OBVIOUS
      <3>6. r \in HandlerRow /\ r.pred = handler[h].pred /\ r.on = i /\ r.at = loc /\ r.has = has
        BY <1>1, <3>1, <3>5 DEF HandlerRow, HandlerAts
      <3>7. handler' = [handler EXCEPT ![h] = r]
        BY <1>1, <2>4, <3>1, <3>2, <3>3, <3>4, <3>5 DEF LookupAsset, AiTypes, HandlerRow
      <3>8. RowGood(i) /\ handler[h].at = "asset"
        BY <2>4 DEF AiInv, LookupAsset
      <3>9. /\ handler[h].pred \in Predictions /\ interaction[i].pred \in Predictions
            /\ prediction[handler[h].pred].for = i /\ Written(handler[h].pred)
        BY <1>1, <3>1, <3>8 DEF HandlerGood
      <3>10. asset[i].pred = interaction[i].pred
        BY <3>8, <3>9 DEF RowGood, OnlyMockupsWait
      <3> HIDE DEF Written
      <3> QED
        BY <3>2, <3>6, <3>7, <3>9, <3>10
    <2>5. CASE ProcessRaises(h)
      <3>1. PICK r : r = [handler[h] EXCEPT !.at = "fail"]
        OBVIOUS
      <3>2. r \in HandlerRow /\ r.at = "fail" /\ r.on = handler[h].on /\ r.pred = handler[h].pred
              /\ r.has = handler[h].has
        BY <1>1, <3>1 DEF HandlerRow, HandlerAts
      <3>3. handler' = [handler EXCEPT ![h] = r]
        BY <1>1, <2>5, <3>1 DEF ProcessRaises, Continue, AiTypes, HandlerRow
      <3>4. handler[h].at = "process"
        BY <2>5 DEF ProcessRaises
      <3>5. Good(handler[h])
        BY <1>1, <3>4 DEF HandlerGood
      <3> HIDE DEF Written
      <3> QED
        BY <3>2, <3>3, <3>4, <3>5
    <2> QED
      BY <2>1, <2>2, <2>3, <2>4, <2>5
  <1>3. ASSUME NEW r \in HandlerRow, handler' = [handler EXCEPT ![h] = r], Good(r)
        PROVE  AiInv'
    <2>1. handler'[h] = r /\ \A g \in Handlers \ {h} : handler'[g] = handler[g]
      BY <1>1, <1>3 DEF AiTypes
    <2>2. \A p : Written(p)' <=> Written(p)
      BY <1>1 DEF Written
    <2>3. HandlerGood(h)'
      BY <1>1, <1>3, <2>1, <2>2 DEF HandlerGood
    <2>4. AiTypes'
      BY <1>1, <1>3 DEF AiTypes
    <2> QED
      BY <1>1, <2>1, <2>3, <2>4, HandlersMove
  <1>4. CASE handler' = handler
    <2>1. AiTypes'
      BY <1>1, <1>4 DEF AiTypes
    <2> QED
      BY <1>1, <1>4, <2>1, HandlersMove
  <1> QED
    BY <1>2, <1>3, <1>4

LEMMA OutsideSteps ==
    ASSUME AiInv, TopUp \/ \E p \in Predictions : Finish(p) \/ Redeliver(p)
    PROVE  AiInv'
  <1>1. AiTypes
    BY DEF AiInv
  <1>2. CASE TopUp
    <2>1. PICK u \in Users, k \in PurchaseKeys, a \in Amounts : Post(u, k, a)
      BY <1>2 DEF TopUp
    <2>2. PICK t : t = Tx(u, a, "committed")
      OBVIOUS
    <2>3. t \in Transactions
      BY <2>2, AmountAssumption DEF Tx, Transactions, Statuses
    <2>4. ledger' = [ledger EXCEPT ![k] = t] /\ k \in LedgerKeys /\ k \notin Interactions
      BY <2>1, <2>2, ReserveKeysAreLedgerKeys DEF Post, Interactions
    <2>5. ledger' \in [LedgerKeys -> Transactions] /\ \A j \in Interactions : ledger'[j] = ledger[j]
      BY <1>1, <2>3, <2>4, ReserveKeysAreLedgerKeys DEF AiTypes
    <2>6. UNCHANGED <<interaction, pc, asset, task, prediction, handler>>
      BY <1>2 DEF TopUp, requestVars, workerVars, webhookVars
    <2>7. AiTypes'
      BY <1>1, <2>5, <2>6 DEF AiTypes
    <2> QED
      BY <2>5, <2>6, <2>7, HandlersMove
  <1>3. CASE \E p \in Predictions : Finish(p) \/ Redeliver(p)
    <2>1. UNCHANGED <<ledger, interaction, pc, asset, task, handler>>
      BY <1>3 DEF Finish, Redeliver, ledgerVars, requestVars, webhookVars
    <2>2. prediction \in [Predictions -> PredictionRow]
      BY <1>1 DEF AiTypes
    <2>3. \E p \in Predictions, c \in PredictionRow :
            /\ prediction' = [prediction EXCEPT ![p] = c]
            /\ c.for = prediction[p].for /\ c.kept = prediction[p].kept /\ c.state # "none"
      <3>1. ASSUME NEW p \in Predictions, Finish(p)
            PROVE  \E c \in PredictionRow :
                    /\ prediction' = [prediction EXCEPT ![p] = c]
                    /\ c.for = prediction[p].for /\ c.kept = prediction[p].kept /\ c.state # "none"
        <4>1. PICK st \in {"succeeded", "failed"} :
                prediction' = [prediction EXCEPT ![p].state = st, ![p].sent = 1]
          BY <3>1 DEF Finish
        <4>2. PICK c : c = [prediction[p] EXCEPT !.state = st, !.sent = 1]
          OBVIOUS
        <4>3. c \in PredictionRow /\ c.for = prediction[p].for /\ c.kept = prediction[p].kept
                /\ c.state # "none"
          BY <2>2, <4>2 DEF PredictionRow
        <4> QED
          BY <2>2, <4>1, <4>2, <4>3
      <3>2. ASSUME NEW p \in Predictions, Redeliver(p)
            PROVE  \E c \in PredictionRow :
                    /\ prediction' = [prediction EXCEPT ![p] = c]
                    /\ c.for = prediction[p].for /\ c.kept = prediction[p].kept /\ c.state # "none"
        <4>1. PICK c : c = [prediction[p] EXCEPT !.sent = @ + 1]
          OBVIOUS
        <4>2. c \in PredictionRow /\ c.for = prediction[p].for /\ c.kept = prediction[p].kept
                /\ c.state = prediction[p].state
          BY <2>2, <4>1 DEF PredictionRow
        <4>3. prediction' = [prediction EXCEPT ![p] = c] /\ prediction[p].state # "none"
          BY <2>2, <3>2, <4>1 DEF Redeliver
        <4> QED
          BY <4>2, <4>3
      <3> QED
        BY <1>3, <3>1, <3>2
    <2>4. PICK p \in Predictions, c \in PredictionRow :
            /\ prediction' = [prediction EXCEPT ![p] = c]
            /\ c.for = prediction[p].for /\ c.kept = prediction[p].kept /\ c.state # "none"
      BY <2>3
    <2>5. AiTypes'
      BY <1>1, <2>1, <2>4 DEF AiTypes
    <2>6. \A x \in Predictions :
             /\ prediction'[x].for = prediction[x].for /\ prediction'[x].kept = prediction[x].kept
             /\ prediction[x].state # "none" => prediction'[x].state # "none"
      BY <2>2, <2>4
    <2> QED
      BY <2>1, <2>5, <2>6, HandlersMove
  <1> QED
    BY <1>2, <1>3

-----------------------------------------------------------------------------
(* The invariant, and what it says *)

LEMMA InitAi == AiInit => AiInv
  <1> SUFFICES ASSUME AiInit PROVE AiInv
    OBVIOUS
  <1>1. NoInteraction \in InteractionRow /\ NoAsset \in AssetRow /\ IdleHandler \in HandlerRow
          /\ [left |-> 0, pred |-> "none"] \in TaskRow /\ NoTx \in Transactions
    BY DEF NoInteraction, InteractionRow, NoAsset, AssetRow, IdleHandler, HandlerRow, HandlerAts,
       RowStatus, TaskRow, NoTx, Transactions, Statuses
  <1>2. AiTypes
    BY <1>1 DEF AiInit, LedgerInit, AiTypes, Locations, PredictionRow
  <1>3. ASSUME NEW i \in Interactions PROVE RowGood(i)
    <2>1. i \in LedgerKeys
      BY ReserveKeysAreLedgerKeys
    <2> QED
      BY <2>1, AiAssumption DEF AiInit, LedgerInit, NoInteraction, NoTx, RowGood, RequestAgrees,
         OnlyMockupsWait, TextAgrees, ChargeHasResult
  <1>4. ASSUME NEW h \in Handlers PROVE HandlerGood(h)
    BY DEF AiInit, IdleHandler, HandlerGood
  <1>5. CallsGood
    BY AiAssumption DEF AiInit, NoInteraction, CallsGood
  <1> QED
    BY <1>2, <1>3, <1>4, <1>5 DEF AiInv

LEMMA AiStep == AiInv /\ [AiNext]_aiVars => AiInv'
  <1> SUFFICES ASSUME AiInv, [AiNext]_aiVars PROVE AiInv'
    OBVIOUS
  <1>1. CASE UNCHANGED aiVars
    <2>1. AiTypes'
      BY <1>1 DEF aiVars, AiInv, AiTypes
    <2> QED
      BY <1>1, <2>1, HandlersMove DEF aiVars
  <1>2. CASE TopUp \/ \E p \in Predictions : Finish(p) \/ Redeliver(p)
    BY <1>2, OutsideSteps
  <1>3. ASSUME NEW i \in Interactions,
               NotEntitled(i) \/ Submit(i) \/ Request(i) \/ RequestCrashes(i)
                 \/ Worker(i) \/ WorkerLost(i)
        PROVE  AiInv'
    BY <1>3, RequestBegins, RequestReserves, RequestHolds, RequestConcludes, RequestSettles,
       MockupStarts, TaskSteps DEF Request
  <1>4. ASSUME NEW h \in Handlers, Webhook(h) \/ HandlerCrashes(h)
        PROVE  AiInv'
    BY <1>4, HandlerSteps, WriteBacks, HandlerSettles DEF Webhook
  <1> QED
    BY <1>1, <1>2, <1>3, <1>4 DEF AiNext

\* Where a request, a task or a webhook request is agrees with the rows and the
\* reservations it works on, whatever fails, repeats or dies in between.
THEOREM AiInvariant == AiSpec => []AiInv
  <1> QED
    BY InitAi, AiStep, PTL DEF AiSpec

\* Text commands settle only their own reservation, after their verdict is
\* committed (run_command): no fault makes billing contradict a verdict.
THEOREM TextIsBilledByVerdict == AiSpec => []TextNeverMisbilled
  <1>1. AiInv => TextNeverMisbilled
    BY DEF AiInv, RowGood, TextAgrees, TextNeverMisbilled
  <1> QED
    BY <1>1, AiInvariant, PTL

\* A committed reservation paid for a completed text, for an asset that has its
\* artifact, or for the artifact of a prediction that another attempt replaced
\* while its webhook was between its two SELECTs (run_command, replicate_webhook,
\* _handle_success), under every fault.
THEOREM ChargesAreForResults == AiSpec => []ChargedHasResult
  <1>1. AiInv => ChargedHasResult
    BY DEF AiInv, RowGood, ChargeHasResult, ChargedHasResult, Replaced
  <1> QED
    BY <1>1, AiInvariant, PTL

-----------------------------------------------------------------------------
(* The saga without faults: the verdict is what was billed *)

\* Billing answers every call, nobody crashes, Replicate calls back once.
NoFaults == Faults = {} /\ MaxDeliveries = 1

CallTypes ==
    /\ prediction \in [Predictions -> PredictionRow]
    /\ delivery \in [Predictions -> Nat]

\* A callback is on its way or with one webhook request, never both.
CalledOnce(p) ==
    /\ prediction[p].state \in {"none", "running"} =>
          delivery[p] = 0 /\ \A h \in Handlers : handler[h].pred # p
    /\ prediction[p].state \in {"succeeded", "failed"} => prediction[p].sent >= 1
    /\ delivery[p] # 0 => delivery[p] = 1 /\ \A h \in Handlers : handler[h].pred # p
    /\ \A g, h \in Handlers : handler[g].pred = p /\ handler[h].pred = p => g = h

\* The reservation waits for a verdict.
Unsettled(i) == interaction[i].status = "processing" /\ ledger[i].status = "reserved"

\* A prediction belongs to one interaction, and until its callback is answered
\* nobody else settles that interaction.
PredictionFits(i) ==
    /\ task[i].left = 0 => task[i].pred \notin Predictions
    /\ task[i].left > 0 /\ task[i].pred \in Predictions =>
          prediction[task[i].pred].for = i /\ prediction[task[i].pred].state # "none"
    /\ interaction[i].pred \notin Predictions /\ task[i].left > 0 =>
          interaction[i].status = "queued" /\ ledger[i].status = "reserved"
    /\ interaction[i].pred \in Predictions =>
          LET p == interaction[i].pred IN
          /\ prediction[p].for = i /\ prediction[p].state # "none"
          /\ task[i].left = 0 \/ task[i].pred = "written"
          /\ prediction[p].state = "running" \/ delivery[p] # 0 => Unsettled(i)

\* What a verdict is followed by.
Followed(i) ==
    /\ interaction[i].status = "completed" =>
          \/ ledger[i].status = "committed" \/ pc[i] = "commit"
          \/ \E h \in Handlers : handler[h].on = i /\ handler[h].at = "commit"
    /\ interaction[i].status \in {"failed", "moderation_blocked"} =>
          \/ ledger[i].status = "released" \/ pc[i] = "release"
          \/ \E h \in Handlers : handler[h].on = i /\ handler[h].at \in {"release_blocked", "release_failed"}
    /\ interaction[i].status = "rejected" => ledger[i] = NoTx
    /\ pc[i] # "idle" => interaction[i].status # "none"

\* A webhook request works on the interaction of its own prediction, with the
\* row as it loaded or wrote it.
HandlerExact(h) ==
    LET i == handler[h].on IN
    /\ handler[h].at = "idle" => handler[h].pred \notin Predictions
    /\ handler[h].at = "lookup" =>
          \A j \in Interactions : interaction[j].pred = handler[h].pred => Unsettled(j)
    /\ handler[h].at \notin {"idle", "lookup"} =>
          interaction[i].pred = handler[h].pred /\ handler[h].status = interaction[i].status
    /\ handler[h].at \in {"asset", "process", "fail"} => Unsettled(i)
    /\ handler[h].at \in {"commit", "release_blocked", "release_failed"} => ledger[i].status = "reserved"
    /\ handler[h].at = "commit" => interaction[i].status = "completed"
    /\ handler[h].at \in {"release_blocked", "release_failed"} =>
          interaction[i].status \in {"failed", "moderation_blocked"}

SagaInv == /\ NoFaults /\ AiInv /\ CallTypes
           /\ \A p \in Predictions : CalledOnce(p)
           /\ \A i \in Interactions : PredictionFits(i) /\ Followed(i)
           /\ \A h \in Handlers : HandlerExact(h)

LEMMA SagaInitial == NoFaults /\ AiInit => SagaInv
  <1> SUFFICES ASSUME NoFaults, AiInit PROVE SagaInv
    OBVIOUS
  <1>1. AiInv
    BY InitAi
  <1>2. CallTypes
    BY DEF AiInit, CallTypes, PredictionRow
  <1>3. ASSUME NEW p \in Predictions PROVE CalledOnce(p)
    BY AiAssumption DEF AiInit, IdleHandler, CalledOnce
  <1>4. ASSUME NEW i \in Interactions PROVE PredictionFits(i) /\ Followed(i)
    BY AiAssumption DEF AiInit, NoInteraction, PredictionFits, Followed
  <1>5. ASSUME NEW h \in Handlers PROVE HandlerExact(h)
    <2>1. handler[h] = IdleHandler /\ \A i \in Interactions : interaction[i].pred \notin Predictions
      BY AiAssumption DEF AiInit, NoInteraction
    <2> QED
      BY <2>1, AiAssumption DEF IdleHandler, HandlerExact
  <1> QED
    BY <1>1, <1>2, <1>3, <1>4, <1>5 DEF SagaInv

\* Only interaction i moves, and no webhook request works on it, or it stays.
LEMMA RequestKeepsSaga ==
    ASSUME SagaInv, AiInv', NEW i \in Interactions, UNCHANGED <<prediction, delivery, handler>>,
           \A j \in Interactions \ {i} :
              /\ interaction'[j] = interaction[j] /\ pc'[j] = pc[j] /\ ledger'[j] = ledger[j]
              /\ task'[j] = task[j],
           \/ interaction[i].pred \notin Predictions
           \/ interaction'[i] = interaction[i] /\ ledger'[i] = ledger[i],
           interaction'[i].pred \in Predictions =>
              interaction[i].pred \in Predictions \/ Unsettled(i)',
           PredictionFits(i)', Followed(i)'
    PROVE  SagaInv'
  <1>1. AiInv /\ CallTypes /\ NoFaults'
    BY DEF SagaInv, NoFaults
  <1>2. CallTypes' /\ \A p \in Predictions : CalledOnce(p)'
    BY <1>1 DEF SagaInv, CallTypes, CalledOnce
  <1>3. ASSUME NEW j \in Interactions PROVE PredictionFits(j)' /\ Followed(j)'
    <2>1. CASE j = i
      BY <2>1
    <2>2. CASE j # i
      <3>1. PredictionFits(j) /\ Followed(j)
        BY DEF SagaInv
      <3> QED
        BY <2>2, <3>1 DEF PredictionFits, Followed, Unsettled
    <2> QED
      BY <2>1, <2>2
  <1>4. ASSUME NEW h \in Handlers PROVE HandlerExact(h)'
    <2>1. HandlerExact(h) /\ HandlerGood(h)
      BY <1>1 DEF SagaInv, AiInv
    <2>2. ASSUME NEW j \in Interactions, handler[h].at = "lookup", interaction'[j].pred = handler[h].pred
          PROVE  Unsettled(j)'
      <3>1. handler[h].pred \in Predictions
        BY <2>1, <2>2 DEF HandlerGood
      <3>2. CASE j = i
        BY <2>1, <2>2, <3>1, <3>2 DEF HandlerExact, Unsettled
      <3>3. CASE j # i
        BY <2>1, <2>2, <3>3 DEF HandlerExact, Unsettled
      <3> QED
        BY <3>2, <3>3
    <2>3. CASE handler[h].at \in {"idle", "lookup"}
      BY <2>1, <2>2, <2>3 DEF HandlerExact
    <2>4. CASE handler[h].at \notin {"idle", "lookup"}
      <3>1. /\ handler[h].on \in Interactions /\ interaction[handler[h].on].pred \in Predictions
            /\ interaction'[handler[h].on] = interaction[handler[h].on]
            /\ ledger'[handler[h].on] = ledger[handler[h].on]
        BY <2>1, <2>4 DEF HandlerGood
      <3> QED
        BY <2>1, <2>4, <3>1 DEF HandlerExact, Unsettled
    <2> QED
      BY <2>3, <2>4
  <1> QED
    BY <1>1, <1>2, <1>3, <1>4 DEF SagaInv

\* A webhook request moves and nothing else does.
LEMMA HandlerKeepsSaga ==
    ASSUME SagaInv, AiInv', NEW h \in Handlers, NEW r \in HandlerRow,
           handler' = [handler EXCEPT ![h] = r],
           UNCHANGED <<interaction, ledger, pc, task, prediction, delivery>>,
           handler[h].at \notin {"commit", "release_blocked", "release_failed"},
           r.pred = handler[h].pred \/ r.pred \notin Predictions,
           HandlerExact(h)'
    PROVE  SagaInv'
  <1>1. AiInv /\ CallTypes /\ NoFaults'
    BY DEF SagaInv, NoFaults
  <1>2. handler'[h] = r /\ \A g \in Handlers \ {h} : handler'[g] = handler[g]
    BY <1>1 DEF AiInv, AiTypes
  <1>3. ASSUME NEW p \in Predictions PROVE CalledOnce(p)'
    <2>1. CalledOnce(p)
      BY DEF SagaInv
    <2> QED
      BY <1>2, <2>1 DEF CalledOnce
  <1>4. ASSUME NEW j \in Interactions PROVE PredictionFits(j)' /\ Followed(j)'
    <2>1. PredictionFits(j) /\ Followed(j)
      BY DEF SagaInv
    <2>2. PredictionFits(j)'
      BY <2>1 DEF PredictionFits, Unsettled
    <2>3. \A g \in Handlers : handler[g].at \in {"commit", "release_blocked", "release_failed"} =>
             handler'[g] = handler[g]
      BY <1>2
    <2>4. Followed(j)'
      BY <2>1, <2>3 DEF Followed
    <2> QED
      BY <2>2, <2>4
  <1>5. ASSUME NEW g \in Handlers PROVE HandlerExact(g)'
    <2>1. CASE g = h
      BY <2>1
    <2>2. CASE g # h
      <3>1. HandlerExact(g)
        BY DEF SagaInv
      <3> QED
        BY <1>2, <2>2, <3>1 DEF HandlerExact, Unsettled
    <2> QED
      BY <2>1, <2>2
  <1>6. CallTypes'
    BY <1>1 DEF CallTypes
  <1> QED
    BY <1>1, <1>3, <1>4, <1>5, <1>6 DEF SagaInv

\* A webhook request moves the interaction it works on: nobody else does.
LEMMA VerdictKeepsSaga ==
    ASSUME SagaInv, AiInv', NEW h \in Handlers, NEW r \in HandlerRow, NEW i \in Interactions,
           handler[h].at \notin {"idle", "lookup"}, handler[h].on = i,
           handler' = [handler EXCEPT ![h] = r], r.pred = handler[h].pred, r.on = i,
           UNCHANGED <<pc, task, delivery>>, prediction' \in [Predictions -> PredictionRow],
           \A x \in Predictions :
              /\ prediction'[x].for = prediction[x].for /\ prediction'[x].state = prediction[x].state
              /\ prediction'[x].sent = prediction[x].sent,
           \A j \in Interactions \ {i} : interaction'[j] = interaction[j] /\ ledger'[j] = ledger[j],
           interaction'[i].pred = interaction[i].pred,
           HandlerExact(h)', Followed(i)'
    PROVE  SagaInv'
  <1>1. AiInv /\ CallTypes /\ NoFaults'
    BY DEF SagaInv, NoFaults
  <1>2. handler'[h] = r /\ \A g \in Handlers \ {h} : handler'[g] = handler[g]
    BY <1>1 DEF AiInv, AiTypes
  <1>3. HandlerExact(h) /\ HandlerGood(h)
    BY <1>1 DEF SagaInv, AiInv
  <1>4. PICK p \in Predictions : p = interaction[i].pred /\ p = handler[h].pred
    BY <1>3 DEF HandlerExact, HandlerGood
  <1>5. CalledOnce(p)
    BY DEF SagaInv
  <1>6. /\ prediction[p].state \notin {"none", "running"} /\ delivery[p] = 0
        /\ \A g \in Handlers \ {h} : handler[g].pred # p
    BY <1>4, <1>5 DEF CalledOnce
  <1>7. ASSUME NEW x \in Predictions PROVE CalledOnce(x)'
    <2>1. CalledOnce(x)
      BY DEF SagaInv
    <2> QED
      BY <1>2, <2>1 DEF CalledOnce
  <1>8. PredictionFits(i)'
    <2>1. PredictionFits(i)
      BY DEF SagaInv
    <2> QED
      BY <1>4, <1>6, <2>1 DEF PredictionFits
  <1>9. ASSUME NEW j \in Interactions PROVE PredictionFits(j)' /\ Followed(j)'
    <2>1. CASE j = i
      BY <1>8, <2>1
    <2>2. CASE j # i
      <3>1. PredictionFits(j) /\ Followed(j)
        BY DEF SagaInv
      <3>2. \A g \in Handlers : handler[g].on = j => handler'[g] = handler[g]
        BY <1>2, <2>2
      <3>3. PredictionFits(j)'
        BY <2>2, <3>1 DEF PredictionFits, Unsettled
      <3>4. Followed(j)'
        BY <2>2, <3>1, <3>2 DEF Followed
      <3> QED
        BY <3>3, <3>4
    <2> QED
      BY <2>1, <2>2
  <1>10. ASSUME NEW g \in Handlers PROVE HandlerExact(g)'
    <2>1. CASE g = h
      BY <2>1
    <2>2. CASE g # h
      <3>1. HandlerExact(g) /\ HandlerGood(g) /\ handler[g].pred # p
        BY <1>1, <1>6, <2>2 DEF SagaInv, AiInv
      <3>2. CASE handler[g].at \in {"idle", "lookup"}
        BY <1>2, <1>4, <2>2, <3>1, <3>2 DEF HandlerExact, Unsettled
      <3>3. CASE handler[g].at \notin {"idle", "lookup"}
        <4>1. handler[g].on \in Interactions
          BY <3>1, <3>3 DEF HandlerGood
        <4>2. interaction[handler[g].on].pred = handler[g].pred
          BY <3>1, <3>3 DEF HandlerExact
        <4>3. handler[g].on # i
          BY <1>4, <3>1, <4>2
        <4> QED
          BY <1>2, <2>2, <3>1, <3>3, <4>1, <4>3 DEF HandlerExact, Unsettled
      <3> QED
        BY <3>2, <3>3
    <2> QED
      BY <2>1, <2>2
  <1>11. CallTypes'
    BY <1>1 DEF CallTypes
  <1> QED
    BY <1>1, <1>7, <1>9, <1>10, <1>11 DEF SagaInv

\* A request, whose interaction has no prediction yet, goes to loc.
LEMMA RequestSaga ==
    ASSUME SagaInv, AiInv', NEW i \in Interactions, NEW loc \in Locations \ {"idle"}, pc[i] # "done",
           pc' = [pc EXCEPT ![i] = loc], UNCHANGED <<task, prediction, delivery, handler>>,
           \A j \in Interactions \ {i} : interaction'[j] = interaction[j] /\ ledger'[j] = ledger[j],
           interaction'[i].pred = "none", interaction'[i].status # "none",
           interaction'[i].status = "completed" => ledger'[i].status = "committed" \/ loc = "commit",
           interaction'[i].status \in {"failed", "moderation_blocked"} =>
              ledger'[i].status = "released" \/ loc = "release",
           interaction'[i].status = "rejected" => ledger'[i] = NoTx
    PROVE  SagaInv'
  <1>1. AiInv /\ interaction[i].pred = "none" /\ pc'[i] = loc
          /\ \A j \in Interactions \ {i} : pc'[j] = pc[j]
    BY NoPredictionYet DEF SagaInv, AiInv, AiTypes
  <1>2. ~(task[i].left > 0) /\ "none" \notin Predictions
    BY <1>1, AiAssumption DEF AiInv, RowGood, OnlyMockupsWait
  <1>3. PredictionFits(i)'
    BY <1>1, <1>2 DEF SagaInv, PredictionFits
  <1>4. Followed(i)'
    BY <1>1 DEF Followed
  <1> QED
    BY <1>1, <1>2, <1>3, <1>4, RequestKeepsSaga

\* The row and the place of a request after its step.
LEMMA StatusOf ==
    ASSUME AiTypes, NEW i \in Interactions, NEW st, SetStatus(i, st)
    PROVE  /\ interaction'[i].status = st /\ interaction'[i].pred = interaction[i].pred
           /\ \A j \in Interactions \ {i} : interaction'[j] = interaction[j]
  <1>1. interaction[i] \in InteractionRow
    BY DEF AiTypes
  <1> QED
    BY <1>1 DEF SetStatus, AiTypes, InteractionRow

LEMMA BillingAnswers == NoFaults => Replies = {"ok"}
  BY DEF NoFaults, Replies

LEMMA SagaSubmits ==
    ASSUME SagaInv, AiInv', NEW i \in Interactions,
           NotEntitled(i) \/ Submit(i) \/ ReserveCredits(i) \/ ReserveRejected(i) \/ ReserveFails(i)
             \/ RecordReservation(i)
    PROVE  SagaInv'
  <1>1. AiInv /\ AiTypes /\ RowGood(i) /\ pc[i] \in {"idle", "reserve", "record"}
          /\ {"done", "reserve", "record", "generate"} \subseteq Locations
    BY DEF SagaInv, AiInv, Locations, NotEntitled, Submit, ReserveCredits, ReserveRejected,
       ReserveFails, RecordReservation
  <1>2. UNCHANGED <<task, prediction, delivery, handler>> /\ interaction[i].pred = "none"
    BY <1>1, NoPredictionYet DEF NotEntitled, Submit, ReserveCredits, ReserveRejected,
       ReserveFails, RecordReservation, workerVars, webhookVars
  <1>3. CASE NotEntitled(i)
    <2>1. /\ interaction'[i].status = "rejected" /\ interaction'[i].pred = "none"
          /\ \A j \in Interactions \ {i} : interaction'[j] = interaction[j]
      BY <1>1, <1>3 DEF NotEntitled, AiTypes
    <2>2. ledger' = ledger /\ ledger[i] = NoTx /\ pc' = [pc EXCEPT ![i] = "done"]
      BY <1>1, <1>3 DEF NotEntitled, ledgerVars, Goto, RowGood, RequestAgrees
    <2> QED
      BY <1>1, <1>2, <2>1, <2>2, RequestSaga
  <1>4. CASE Submit(i)
    <2>1. /\ interaction'[i].status = "flushed" /\ interaction'[i].pred = "none"
          /\ \A j \in Interactions \ {i} : interaction'[j] = interaction[j]
      BY <1>1, <1>4 DEF Submit, AiTypes
    <2>2. ledger' = ledger /\ pc' = [pc EXCEPT ![i] = "reserve"]
      BY <1>4 DEF Submit, ledgerVars, Goto
    <2> QED
      BY <1>1, <1>2, <2>1, <2>2, RequestSaga
  <1>5. CASE ReserveCredits(i)
    <2>1. interaction[i].status = "flushed" /\ interaction' = interaction
            /\ pc' = [pc EXCEPT ![i] = "record"]
      BY <1>1, <1>5 DEF ReserveCredits, Goto, RowGood, RequestAgrees
    <2>2. PICK t : ledger' = [ledger EXCEPT ![i] = t]
      BY <1>5 DEF ReserveCredits, Reserve
    <2>3. \A j \in Interactions \ {i} : ledger'[j] = ledger[j]
      BY <1>1, <2>2, ReserveKeysAreLedgerKeys DEF AiTypes
    <2> QED
      BY <1>1, <1>2, <2>1, <2>3, RequestSaga
  <1>6. CASE ReserveRejected(i)
    <2>1. ledger' = ledger /\ ledger[i] = NoTx /\ pc' = [pc EXCEPT ![i] = "done"]
      BY <1>1, <1>6 DEF ReserveRejected, ledgerVars, Goto, RowGood, RequestAgrees
    <2>2. /\ interaction'[i].status = "rejected" /\ interaction'[i].pred = "none"
          /\ \A j \in Interactions \ {i} : interaction'[j] = interaction[j]
      BY <1>1, <1>2, <1>6, StatusOf DEF ReserveRejected
    <2> QED
      BY <1>1, <1>2, <2>1, <2>2, RequestSaga
  <1>7. CASE ReserveFails(i)
    BY <1>7, BillingAnswers DEF SagaInv, ReserveFails
  <1>8. CASE RecordReservation(i)
    <2>1. ledger' = ledger /\ pc' = [pc EXCEPT ![i] = "generate"]
      BY <1>8 DEF RecordReservation, ledgerVars, Goto
    <2>2. /\ interaction'[i].status = "queued" /\ interaction'[i].pred = "none"
          /\ \A j \in Interactions \ {i} : interaction'[j] = interaction[j]
      BY <1>1, <1>2, <1>8, StatusOf DEF RecordReservation
    <2> QED
      BY <1>1, <1>2, <2>1, <2>2, RequestSaga
  <1> QED
    BY <1>3, <1>4, <1>5, <1>6, <1>7, <1>8

LEMMA ConcludeSaga ==
    ASSUME SagaInv, AiInv', NEW i \in Interactions, NEW st, NEW loc, Conclude(i, st, loc), pc[i] # "done",
           \/ st = "completed" /\ loc = "commit"
           \/ st \in {"failed", "moderation_blocked"} /\ loc = "release"
    PROVE  SagaInv'
  <1>1. AiInv /\ AiTypes /\ loc \in Locations \ {"idle"}
    BY DEF SagaInv, AiInv, Locations
  <1>2. UNCHANGED <<task, prediction, delivery, handler, ledger>> /\ interaction[i].pred = "none"
          /\ pc' = [pc EXCEPT ![i] = loc]
    BY <1>1, NoPredictionYet DEF Conclude, ledgerVars, workerVars, webhookVars, Goto
  <1>3. /\ interaction'[i].status = st /\ interaction'[i].pred = "none"
        /\ \A j \in Interactions \ {i} : interaction'[j] = interaction[j]
    BY <1>1, <1>2, StatusOf DEF Conclude
  <1> QED
    BY <1>1, <1>2, <1>3, RequestSaga

LEMMA SagaConcludes ==
    ASSUME SagaInv, AiInv', NEW i \in Interactions,
           \/ Blocked(i) \/ InvalidInput(i) \/ TextGenerated(i) \/ TextFailed(i) \/ PaletteJudged(i)
    PROVE  SagaInv'
  <1>1. CASE Blocked(i)
    BY <1>1, ConcludeSaga DEF Blocked
  <1>2. CASE InvalidInput(i) \/ TextFailed(i)
    BY <1>2, ConcludeSaga DEF InvalidInput, TextFailed
  <1>3. CASE TextGenerated(i)
    BY <1>3, ConcludeSaga DEF TextGenerated
  <1>4. CASE PaletteJudged(i)
    BY <1>4, ConcludeSaga DEF PaletteJudged
  <1> QED
    BY <1>1, <1>2, <1>3, <1>4

LEMMA SagaGenerates ==
    ASSUME SagaInv, AiInv', NEW i \in Interactions,
           \/ PaletteAnswer(i) \/ PaletteRaises(i) \/ AssetConflict(i) \/ CreateAsset(i) \/ Enqueue(i)
    PROVE  SagaInv'
  <1>1. AiInv /\ AiTypes /\ RowGood(i) /\ pc[i] \in {"generate", "retry", "enqueue"}
          /\ {"done", "judge", "retry", "enqueue"} \subseteq Locations
    BY DEF SagaInv, AiInv, Locations, PaletteAnswer, PaletteRaises, AssetConflict, CreateAsset, Enqueue
  <1>2. /\ UNCHANGED <<interaction, ledger, prediction, delivery, handler>>
        /\ interaction[i].pred = "none" /\ interaction[i].status = "queued"
        /\ ledger[i].status = "reserved"
    BY <1>1, NoPredictionYet DEF PaletteAnswer, PaletteRaises, AssetConflict, CreateAsset, Enqueue,
       ledgerVars, workerVars, webhookVars, RowGood, RequestAgrees
  <1>3. CASE Enqueue(i)
    <2>1. /\ pc' = [pc EXCEPT ![i] = "done"] /\ task' = [task EXCEPT ![i].left = Attempts]
      BY <1>3 DEF Enqueue, Goto
    <2>2. /\ pc'[i] = "done" /\ task'[i].pred = task[i].pred /\ interaction[i].pred \notin Predictions
          /\ \A j \in Interactions \ {i} : pc'[j] = pc[j] /\ task'[j] = task[j]
      BY <1>1, <1>2, <2>1, AiAssumption DEF AiTypes, TaskRow
    <2>3. task[i].pred \notin Predictions
      BY <1>1, <1>3 DEF SagaInv, PredictionFits, AiTypes, TaskRow, RowGood, OnlyMockupsWait, Enqueue
    <2>4. PredictionFits(i)' /\ Followed(i)'
      BY <1>2, <2>2, <2>3 DEF PredictionFits, Followed
    <2> QED
      BY <1>2, <2>2, <2>4, RequestKeepsSaga
  <1>4. CASE PaletteAnswer(i) \/ PaletteRaises(i) \/ AssetConflict(i) \/ CreateAsset(i)
    <2>1. PICK loc \in {"done", "judge", "retry", "enqueue"} : pc' = [pc EXCEPT ![i] = loc]
      BY <1>4 DEF PaletteAnswer, PaletteRaises, AssetConflict, CreateAsset, Goto
    <2>2. task' = task /\ loc \in Locations \ {"idle"}
      BY <1>1, <1>4, <2>1 DEF PaletteAnswer, PaletteRaises, AssetConflict, CreateAsset, workerVars
    <2> QED
      BY <1>1, <1>2, <2>1, <2>2, RequestSaga
  <1> QED
    BY <1>3, <1>4

\* A call that is answered settles the reservation.
LEMMA CommitIsFinal ==
    ASSUME AiTypes, NEW i \in Interactions, BillingCommit(i, "ok"), ledger[i].status = "reserved"
    PROVE  Settles(i, "committed") /\ ledger'[i].status = "committed"
  <1>1. Settles(i, "committed")
    BY CommitSettles
  <1>2. ledger[i] \in Transactions /\ i \in LedgerKeys
    BY ReserveKeysAreLedgerKeys DEF AiTypes
  <1>3. ledger' = [ledger EXCEPT ![i].status = "committed"]
    BY DEF BillingCommit, Applied, CommitReservation
  <1> QED
    BY <1>1, <1>2, <1>3 DEF AiTypes, Transactions

LEMMA ReleaseIsFinal ==
    ASSUME AiTypes, NEW i \in Interactions, BillingRelease(i, "ok"), ledger[i].status = "reserved"
    PROVE  Settles(i, "released") /\ ledger'[i].status = "released"
  <1>1. Settles(i, "released")
    BY ReleaseSettles
  <1>2. ledger[i] \in Transactions /\ i \in LedgerKeys /\ ReleaseKey(i) \notin Interactions
    BY ReserveKeysAreLedgerKeys DEF AiTypes, Interactions
  <1>3. ReleaseReservation(i)
    BY DEF BillingRelease, Applied
  <1>4. PICK k, x : k = ReleaseKey(i) /\ x = Tx(ledger[i].user, -ledger[i].delta, "committed")
    OBVIOUS
  <1>5. ledger' = [ledger EXCEPT ![i].status = "released", ![k] = x] /\ k # i
    BY <1>2, <1>3, <1>4 DEF ReleaseReservation
  <1> QED
    BY <1>1, <1>2, <1>5 DEF AiTypes, Transactions

LEMMA SagaSettles ==
    ASSUME SagaInv, AiInv', NEW i \in Interactions, RequestCommits(i) \/ RequestReleases(i)
    PROVE  SagaInv'
  <1>1. AiInv /\ AiTypes /\ RowGood(i) /\ pc[i] \in {"commit", "release"} /\ "done" \in Locations \ {"idle"}
    BY DEF SagaInv, AiInv, Locations, RequestCommits, RequestReleases
  <1>2. UNCHANGED <<interaction, task, prediction, delivery, handler>> /\ interaction[i].pred = "none"
          /\ pc' = [pc EXCEPT ![i] = "done"]
    BY <1>1, NoPredictionYet DEF RequestCommits, RequestReleases, workerVars, webhookVars, Goto
  <1>3. CASE RequestCommits(i)
    <2>1. pc[i] = "commit" /\ BillingCommit(i, "ok") /\ ledger[i].status = "reserved"
            /\ interaction[i].status = "completed"
      BY <1>1, <1>3, BillingAnswers DEF SagaInv, RequestCommits, RowGood, RequestAgrees
    <2>2. Settles(i, "committed") /\ ledger'[i].status = "committed"
      BY <1>1, <2>1, CommitIsFinal
    <2> QED
      BY <1>1, <1>2, <2>1, <2>2, RequestSaga DEF Settles
  <1>4. CASE RequestReleases(i)
    <2>1. pc[i] = "release" /\ BillingRelease(i, "ok") /\ ledger[i].status = "reserved"
            /\ interaction[i].status \in {"failed", "moderation_blocked"}
      BY <1>1, <1>4, BillingAnswers DEF SagaInv, RequestReleases, RowGood, RequestAgrees
    <2>2. Settles(i, "released") /\ ledger'[i].status = "released"
      BY <1>1, <2>1, ReleaseIsFinal
    <2> QED
      BY <1>1, <1>2, <2>1, <2>2, RequestSaga DEF Settles
  <1> QED
    BY <1>3, <1>4

LEMMA SagaTasks ==
    ASSUME SagaInv, AiInv', NEW i \in Interactions, WritePrediction(i) \/ TaskDone(i) \/ TaskRetries(i)
    PROVE  SagaInv'
  <1>1. AiInv /\ AiTypes /\ RowGood(i) /\ PredictionFits(i) /\ Followed(i) /\ task[i] \in TaskRow
          /\ task[i].left > 0
    BY DEF SagaInv, AiInv, AiTypes, WritePrediction, TaskDone, TaskRetries
  <1>2. UNCHANGED <<pc, ledger, prediction, delivery, handler>>
    BY DEF WritePrediction, TaskDone, TaskRetries, ledgerVars, requestVars, webhookVars
  <1>3. CASE WritePrediction(i)
    <2>1. PICK p \in Predictions : p = task[i].pred
      BY <1>3 DEF WritePrediction
    <2>2. interaction[i].pred \notin Predictions
      BY <1>1, <2>1, AiAssumption DEF PredictionFits, TaskRow
    <2>3. ledger[i].status = "reserved"
      BY <1>1, <2>2 DEF PredictionFits
    <2>4. /\ interaction'[i].pred = p /\ interaction'[i].status = "processing"
          /\ \A j \in Interactions \ {i} : interaction'[j] = interaction[j]
      BY <1>1, <1>3, <2>1 DEF WritePrediction, AiTypes, InteractionRow
    <2>5. /\ task'[i].left = task[i].left /\ task'[i].pred = "written"
          /\ \A j \in Interactions \ {i} : task'[j] = task[j]
      BY <1>1, <1>3 DEF WritePrediction, AiTypes, TaskRow
    <2>6. Unsettled(i)' /\ Followed(i)'
      BY <1>2, <2>3, <2>4 DEF Unsettled, Followed
    <2>7. prediction[p].for = i /\ prediction[p].state # "none"
      BY <1>1, <2>1 DEF PredictionFits
    <2>8. PredictionFits(i)'
      BY <1>1, <1>2, <2>4, <2>5, <2>6, <2>7, AiAssumption DEF PredictionFits, TaskRow
    <2> QED
      BY <1>2, <2>2, <2>4, <2>5, <2>6, <2>8, RequestKeepsSaga
  <1>4. CASE TaskDone(i) \/ TaskRetries(i)
    <2>1. PICK n \in Nat : task' = [task EXCEPT ![i] = [left |-> n, pred |-> "none"]]
            /\ (n = 0 \/ task[i].pred # "written")
      BY <1>1, <1>4 DEF TaskDone, TaskRetries, TaskRow, AiTypes
    <2>2. /\ task'[i].left = n /\ task'[i].pred = "none" /\ interaction' = interaction
          /\ \A j \in Interactions \ {i} : task'[j] = task[j]
      BY <1>1, <1>4, <2>1 DEF TaskDone, TaskRetries, AiTypes
    <2>3. PredictionFits(i)' /\ Followed(i)'
      BY <1>1, <1>2, <2>1, <2>2, AiAssumption DEF PredictionFits, Followed, Unsettled, TaskRow
    <2> QED
      BY <1>2, <2>2, <2>3, RequestKeepsSaga
  <1> QED
    BY <1>3, <1>4

LEMMA SagaPredicts ==
    ASSUME SagaInv, AiInv', NEW i \in Interactions, CreatePrediction(i)
    PROVE  SagaInv'
  <1>1. AiInv /\ AiTypes /\ CallTypes /\ NoFaults' /\ PredictionFits(i) /\ task[i] \in TaskRow
    BY DEF SagaInv, AiInv, AiTypes, NoFaults
  <1>2. PICK p \in Predictions :
           /\ prediction[p].state = "none" /\ task' = [task EXCEPT ![i].pred = p]
           /\ prediction' = [prediction EXCEPT ![p].for = i, ![p].state = "running"]
    BY DEF CreatePrediction
  <1>3. /\ UNCHANGED <<interaction, ledger, pc, delivery, handler>> /\ task[i].left > 0
        /\ task[i].pred = "none"
    BY DEF CreatePrediction, ledgerVars, requestVars, webhookVars
  <1>4. PICK q : q = [prediction[p] EXCEPT !.for = i, !.state = "running"]
    OBVIOUS
  <1>5. q \in PredictionRow /\ q.for = i /\ q.state = "running" /\ prediction' = [prediction EXCEPT ![p] = q]
    BY <1>1, <1>2, <1>4 DEF CallTypes, PredictionRow
  <1>6. /\ prediction'[p] = q /\ \A x \in Predictions \ {p} : prediction'[x] = prediction[x]
        /\ task'[i].left = task[i].left /\ task'[i].pred = p
        /\ \A j \in Interactions \ {i} : task'[j] = task[j]
    BY <1>1, <1>2, <1>5 DEF CallTypes, AiTypes, TaskRow
  <1>7. CallTypes'
    BY <1>1, <1>3, <1>5 DEF CallTypes
  <1>8. ASSUME NEW x \in Predictions PROVE CalledOnce(x)'
    <2>1. CalledOnce(x)
      BY DEF SagaInv
    <2> QED
      BY <1>2, <1>3, <1>5, <1>6, <2>1 DEF CalledOnce
  <1>9. interaction[i].pred \notin Predictions
    BY <1>1, <1>3, AiAssumption DEF PredictionFits, TaskRow
  <1>10. ASSUME NEW j \in Interactions PROVE PredictionFits(j)' /\ Followed(j)'
    <2>1. PredictionFits(j) /\ Followed(j)
      BY DEF SagaInv
    <2>2. Followed(j)'
      BY <1>3, <2>1 DEF Followed
    <2>3. CASE j = i
      BY <1>1, <1>3, <1>5, <1>6, <1>9, <2>1, <2>2, <2>3 DEF PredictionFits, TaskRow
    <2>4. CASE j # i
      <3>1. /\ task[j].left > 0 => task[j].pred # p
            /\ interaction[j].pred # p
        BY <1>2, <2>1 DEF PredictionFits
      <3> QED
        BY <1>3, <1>6, <2>1, <2>2, <2>4, <3>1 DEF PredictionFits, Unsettled
    <2> QED
      BY <2>3, <2>4
  <1>11. ASSUME NEW h \in Handlers PROVE HandlerExact(h)'
    <2>1. HandlerExact(h)
      BY DEF SagaInv
    <2> QED
      BY <1>3, <2>1 DEF HandlerExact, Unsettled
  <1> QED
    BY <1>1, <1>7, <1>8, <1>10, <1>11 DEF SagaInv

\* Replicate's callback goes out once, while its interaction is unsettled.
LEMMA SagaCalls ==
    ASSUME SagaInv, AiInv', NEW p \in Predictions, Finish(p) \/ Redeliver(p)
    PROVE  SagaInv'
  <1>1. AiInv /\ AiTypes /\ CallTypes /\ NoFaults /\ NoFaults' /\ CalledOnce(p)
          /\ prediction[p] \in PredictionRow
    BY DEF SagaInv, AiInv, NoFaults, CallTypes
  <1>2. CASE Redeliver(p)
    BY <1>1, <1>2 DEF Redeliver, CalledOnce, NoFaults, PredictionRow
  <1>3. CASE Finish(p)
    <2>1. PICK st \in {"succeeded", "failed"} :
            prediction' = [prediction EXCEPT ![p].state = st, ![p].sent = 1]
      BY <1>3 DEF Finish
    <2>2. /\ prediction[p].state = "running" /\ delivery' = [delivery EXCEPT ![p] = 1]
          /\ UNCHANGED <<interaction, ledger, pc, task, handler>>
      BY <1>3 DEF Finish, ledgerVars, requestVars, webhookVars
    <2>3. PICK q : q = [prediction[p] EXCEPT !.state = st, !.sent = 1]
      OBVIOUS
    <2>4. q \in PredictionRow /\ q.for = prediction[p].for /\ q.state = st /\ q.sent = 1
            /\ prediction' = [prediction EXCEPT ![p] = q]
      BY <1>1, <2>1, <2>3 DEF CallTypes, PredictionRow
    <2>5. /\ prediction'[p] = q /\ \A x \in Predictions \ {p} : prediction'[x] = prediction[x]
          /\ delivery'[p] = 1 /\ \A x \in Predictions \ {p} : delivery'[x] = delivery[x]
      BY <1>1, <2>2, <2>4 DEF CallTypes
    <2>6. CallTypes'
      BY <1>1, <2>2, <2>4 DEF CallTypes
    <2>7. ASSUME NEW x \in Predictions PROVE CalledOnce(x)'
      <3>1. CalledOnce(x)
        BY DEF SagaInv
      <3> QED
        BY <2>2, <2>4, <2>5, <3>1 DEF CalledOnce
    <2>8. ASSUME NEW j \in Interactions PROVE PredictionFits(j)' /\ Followed(j)'
      <3>1. PredictionFits(j) /\ Followed(j)
        BY DEF SagaInv
      <3>2. Followed(j)'
        BY <2>2, <3>1 DEF Followed
      <3>3. PredictionFits(j)'
        BY <2>2, <2>4, <2>5, <3>1 DEF PredictionFits, Unsettled
      <3> QED
        BY <3>2, <3>3
    <2>9. ASSUME NEW h \in Handlers PROVE HandlerExact(h)'
      <3>1. HandlerExact(h)
        BY DEF SagaInv
      <3> QED
        BY <2>2, <3>1 DEF HandlerExact, Unsettled
    <2> QED
      BY <1>1, <2>6, <2>7, <2>8, <2>9 DEF SagaInv
  <1> QED
    BY <1>2, <1>3

\* Neither an interaction nor anything that works on one has changed.
LEMMA SagaIdles ==
    ASSUME SagaInv, AiInv', UNCHANGED <<interaction, pc, task, prediction, delivery, handler>>,
           \A j \in Interactions : ledger'[j] = ledger[j]
    PROVE  SagaInv'
  <1>1. NoFaults' /\ CallTypes' /\ \A p \in Predictions : CalledOnce(p)'
    BY DEF SagaInv, NoFaults, CallTypes, CalledOnce
  <1>2. ASSUME NEW j \in Interactions PROVE PredictionFits(j)' /\ Followed(j)'
    BY DEF SagaInv, PredictionFits, Followed, Unsettled
  <1>3. ASSUME NEW h \in Handlers PROVE HandlerExact(h)'
    <2>1. HandlerExact(h) /\ HandlerGood(h)
      BY DEF SagaInv, AiInv
    <2> QED
      BY <2>1 DEF HandlerExact, HandlerGood, Unsettled
  <1> QED
    BY <1>1, <1>2, <1>3 DEF SagaInv

LEMMA SagaReceives ==
    ASSUME SagaInv, AiInv', NEW h \in Handlers, Receive(h)
    PROVE  SagaInv'
  <1>1. AiInv /\ AiTypes /\ CallTypes /\ NoFaults /\ NoFaults' /\ HandlerExact(h)
    BY DEF SagaInv, AiInv, NoFaults
  <1>2. PICK p \in Predictions :
          /\ handler[h].at = "idle" /\ delivery[p] > 0
          /\ delivery' = [delivery EXCEPT ![p] = @ - 1]
          /\ handler' = IF p \in processed THEN handler
                        ELSE [handler EXCEPT ![h] = [IdleHandler EXCEPT !.at = "lookup", !.pred = p]]
    BY DEF Receive
  <1>3. UNCHANGED <<interaction, ledger, pc, task, prediction>>
    BY DEF Receive, ledgerVars, requestVars
  <1>4. CalledOnce(p) /\ delivery[p] \in Nat
    BY <1>1 DEF SagaInv, CallTypes
  <1>5. /\ delivery[p] = 1 /\ \A g \in Handlers : handler[g].pred # p
        /\ prediction[p].state \in {"succeeded", "failed"}
    BY <1>1, <1>2, <1>4 DEF CalledOnce, CallTypes, PredictionRow
  <1>6. /\ delivery'[p] = 0 /\ \A x \in Predictions \ {p} : delivery'[x] = delivery[x]
        /\ delivery' \in [Predictions -> Nat]
    BY <1>1, <1>2, <1>5 DEF CallTypes
  <1>7. PICK r : r = [IdleHandler EXCEPT !.at = "lookup", !.pred = p]
    OBVIOUS
  <1>8. r.at = "lookup" /\ r.pred = p
    BY <1>7 DEF IdleHandler
  <1>9. /\ handler' = handler \/ handler'[h] = r
        /\ \A g \in Handlers \ {h} : handler'[g] = handler[g]
    BY <1>1, <1>2, <1>7 DEF AiTypes
  <1>10. ASSUME NEW x \in Predictions PROVE CalledOnce(x)'
    <2>1. CalledOnce(x)
      BY DEF SagaInv
    <2>2. CASE x = p
      BY <1>3, <1>5, <1>6, <1>8, <1>9, <2>1, <2>2 DEF CalledOnce
    <2>3. CASE x # p
      <3>1. \A g \in Handlers : handler'[g].pred = x => handler[g].pred = x
        BY <1>8, <1>9, <2>3
      <3> QED
        BY <1>3, <1>6, <2>1, <2>3, <3>1 DEF CalledOnce
    <2> QED
      BY <2>2, <2>3
  <1>11. ASSUME NEW j \in Interactions PROVE PredictionFits(j)' /\ Followed(j)'
    <2>1. PredictionFits(j) /\ Followed(j)
      BY DEF SagaInv
    <2>2. PredictionFits(j)'
      <3>1. interaction[j].pred \in Predictions =>
              (delivery'[interaction[j].pred] # 0 => delivery[interaction[j].pred] # 0)
        BY <1>5, <1>6
      <3> QED
        BY <1>3, <2>1, <3>1 DEF PredictionFits, Unsettled
    <2>3. \A g \in Handlers : handler[g].at # "idle" => handler'[g] = handler[g]
      BY <1>2, <1>9
    <2>4. Followed(j)'
      BY <1>3, <2>1, <2>3 DEF Followed
    <2> QED
      BY <2>2, <2>4
  <1>12. ASSUME NEW g \in Handlers PROVE HandlerExact(g)'
    <2>1. HandlerExact(g)
      BY DEF SagaInv
    <2>2. CASE handler'[g] = handler[g]
      BY <1>3, <2>1, <2>2 DEF HandlerExact, Unsettled
    <2>3. CASE handler'[g] = r
      <3>1. ASSUME NEW j \in Interactions, interaction[j].pred = p PROVE Unsettled(j)
        BY <1>5, <3>1 DEF SagaInv, PredictionFits
      <3> QED
        BY <1>3, <1>8, <2>3, <3>1 DEF HandlerExact, Unsettled
    <2> QED
      BY <1>9, <2>2, <2>3
  <1>13. CallTypes'
    BY <1>1, <1>3, <1>6 DEF CallTypes
  <1> QED
    BY <1>1, <1>10, <1>11, <1>12, <1>13 DEF SagaInv

\* Going on with the row as it was loaded changes the place only.
LEMMA ContinueMoves ==
    ASSUME AiTypes, NEW h \in Handlers, NEW loc,
           Continue(h, loc, handler[h].status, handler[h].active)
    PROVE  handler' = [handler EXCEPT ![h] = [handler[h] EXCEPT !.at = loc]]
  <1>1. handler \in [Handlers -> HandlerRow] /\ handler[h] \in HandlerRow
    BY DEF AiTypes
  <1> QED
    BY <1>1 DEF Continue, HandlerRow

LEMMA SagaLooksUp ==
    ASSUME SagaInv, AiInv', NEW h \in Handlers,
           Lookup(h) \/ LookupAsset(h) \/ LookupUnknown(h) \/ ProcessRaises(h) \/ Mark(h)
    PROVE  SagaInv'
  <1>1. /\ AiInv /\ AiTypes /\ HandlerExact(h) /\ HandlerGood(h) /\ handler[h] \in HandlerRow
        /\ AiTypes'
    BY DEF SagaInv, AiInv, AiTypes
  <1>2. /\ UNCHANGED <<interaction, ledger, pc, task, prediction, delivery, asset>>
        /\ handler[h].at \in {"lookup", "asset", "process", "mark"}
    BY DEF Lookup, LookupAsset, LookupUnknown, ProcessRaises, Mark, ledgerVars, requestVars, workerVars
  <1>3. CASE LookupUnknown(h) \/ Mark(h)
    <2>1. PICK r \in HandlerRow : r = IdleHandler
      BY DEF HandlerRow, IdleHandler, HandlerAts, RowStatus
    <2>2. handler' = [handler EXCEPT ![h] = r] /\ r.at = "idle" /\ r.pred \notin Predictions
      BY <1>3, <2>1, AiAssumption DEF LookupUnknown, Mark, IdleHandler
    <2>3. handler'[h] = r
      BY <1>1, <2>2 DEF AiTypes
    <2>4. HandlerExact(h)'
      BY <2>2, <2>3 DEF HandlerExact
    <2> QED
      BY <1>2, <2>2, <2>4, HandlerKeepsSaga
  <1>4. CASE ProcessRaises(h)
    <2>1. PICK r : r = [handler[h] EXCEPT !.at = "fail"]
      OBVIOUS
    <2>2. /\ r \in HandlerRow /\ r.at = "fail" /\ r.on = handler[h].on /\ r.pred = handler[h].pred
          /\ r.status = handler[h].status
      BY <1>1, <2>1 DEF HandlerRow, HandlerAts
    <2>3. handler' = [handler EXCEPT ![h] = r]
      BY <1>1, <1>4, <2>1, ContinueMoves DEF ProcessRaises
    <2>4. handler'[h] = r /\ handler[h].at = "process"
      BY <1>1, <1>4, <2>3 DEF AiTypes, ProcessRaises
    <2>5. HandlerExact(h)'
      BY <1>1, <1>2, <2>2, <2>4 DEF HandlerExact, Unsettled
    <2> QED
      BY <1>2, <2>2, <2>3, <2>5, HandlerKeepsSaga
  <1>5. CASE Lookup(h)
    <2>1. PICK i \in Owner(handler[h].pred) :
            handler' = [handler EXCEPT ![h].at = "asset", ![h].on = i,
                                       ![h].status = interaction[i].status]
      BY <1>5 DEF Lookup
    <2>2. i \in Interactions /\ interaction[i].pred = handler[h].pred /\ handler[h].at = "lookup"
            /\ interaction[i] \in InteractionRow
      BY <1>1, <1>5, <2>1 DEF Owner, Lookup, AiTypes
    <2>3. PICK r : r = [handler[h] EXCEPT !.at = "asset", !.on = i, !.status = interaction[i].status]
      OBVIOUS
    <2>4. /\ r \in HandlerRow /\ r.pred = handler[h].pred /\ r.on = i /\ r.at = "asset"
          /\ r.status = interaction[i].status
      BY <1>1, <2>2, <2>3 DEF HandlerRow, HandlerAts, RowStatus, InteractionRow
    <2>5. handler' = [handler EXCEPT ![h] = r]
      BY <1>1, <2>1, <2>3 DEF AiTypes, HandlerRow
    <2>6. handler'[h] = r
      BY <1>1, <2>5 DEF AiTypes
    <2>7. Unsettled(i)
      BY <1>1, <2>2 DEF HandlerExact
    <2>8. HandlerExact(h)'
      BY <1>2, <2>2, <2>4, <2>6, <2>7 DEF HandlerExact, Unsettled
    <2> QED
      BY <1>2, <2>4, <2>5, <2>8, HandlerKeepsSaga
  <1>6. CASE LookupAsset(h)
    <2>1. PICK has \in BOOLEAN : has = (asset[handler[h].on].pred = handler[h].pred)
      OBVIOUS
    <2>2. handler[h].on \in Interactions /\ handler[h].at = "asset"
      BY <1>1, <1>6 DEF HandlerGood, LookupAsset
    <2>3. PICK act \in BOOLEAN : act = (has /\ asset[handler[h].on].active)
      BY <1>1, <2>2 DEF AiTypes, AssetRow
    <2>4. PICK loc \in {"fail", "process"} :
            loc = IF prediction[handler[h].pred].state = "failed" THEN "fail" ELSE "process"
      OBVIOUS
    <2>5. PICK r : r = [handler[h] EXCEPT !.at = loc, !.has = has, !.active = act]
      OBVIOUS
    <2>6. /\ r \in HandlerRow /\ r.pred = handler[h].pred /\ r.on = handler[h].on /\ r.at = loc
          /\ r.status = handler[h].status
      BY <1>1, <2>5 DEF HandlerRow, HandlerAts
    <2>7. handler' = [handler EXCEPT ![h] = r]
      BY <1>1, <1>6, <2>1, <2>3, <2>4, <2>5 DEF LookupAsset, AiTypes, HandlerRow
    <2>8. handler'[h] = r
      BY <1>1, <2>7 DEF AiTypes
    <2>9. HandlerExact(h)'
      BY <1>1, <1>2, <2>2, <2>6, <2>8 DEF HandlerExact, Unsettled
    <2> QED
      BY <1>2, <2>6, <2>7, <2>9, HandlerKeepsSaga
  <1> QED
    BY <1>3, <1>4, <1>5, <1>6

\* The verdict is written while nobody else has touched the row.
LEMMA SagaWritesBack ==
    ASSUME SagaInv, AiInv', NEW h \in Handlers, Processed(h) \/ ProcessBlocked(h) \/ HandleFailure(h)
    PROVE  SagaInv'
  <1>1. /\ AiInv /\ AiTypes /\ HandlerExact(h) /\ HandlerGood(h) /\ handler[h] \in HandlerRow
        /\ AiTypes' /\ handler[h].at \in {"process", "fail"}
    BY DEF SagaInv, AiInv, AiTypes, Processed, ProcessBlocked, HandleFailure
  <1>2. UNCHANGED <<ledger, pc, task, delivery>>
    BY DEF Processed, ProcessBlocked, HandleFailure, ledgerVars, requestVars, workerVars
  <1>0. /\ prediction' \in [Predictions -> PredictionRow]
        /\ \A x \in Predictions :
              /\ prediction'[x].for = prediction[x].for /\ prediction'[x].state = prediction[x].state
              /\ prediction'[x].sent = prediction[x].sent
    <2>1. prediction \in [Predictions -> PredictionRow] /\ handler[h].pred \in Predictions
      BY <1>1 DEF AiTypes, HandlerGood
    <2>2. CASE prediction' = prediction
      BY <2>1, <2>2
    <2>3. CASE prediction' = [prediction EXCEPT ![handler[h].pred].kept = TRUE]
      <3>1. PICK c : c = [prediction[handler[h].pred] EXCEPT !.kept = TRUE]
        OBVIOUS
      <3>2. c \in PredictionRow /\ c.for = prediction[handler[h].pred].for
              /\ c.state = prediction[handler[h].pred].state /\ c.sent = prediction[handler[h].pred].sent
        BY <2>1, <3>1 DEF PredictionRow
      <3>3. prediction' = [prediction EXCEPT ![handler[h].pred] = c]
        BY <2>1, <2>3, <3>1
      <3> QED
        BY <2>1, <3>2, <3>3
    <2> QED
      BY <2>2, <2>3 DEF Processed, ProcessBlocked, HandleFailure, workerVars
  <1>3. PICK i \in Interactions : i = handler[h].on
    BY <1>1 DEF HandlerGood
  <1>4. Unsettled(i) /\ handler[h].status = "processing" /\ interaction[i].pred = handler[h].pred
    BY <1>1, <1>3 DEF HandlerExact, Unsettled
  <1>5. PICK st \in {"completed", "moderation_blocked", "failed"},
             loc \in {"commit", "release_blocked", "release_failed"} :
          \E act \in BOOLEAN, stored \in BOOLEAN :
             /\ WriteBack(h, st, act, stored) /\ Continue(h, loc, st, act)
             /\ (st = "completed") <=> (loc = "commit")
    BY DEF Processed, ProcessBlocked, HandleFailure
  <1>6. PICK act \in BOOLEAN : \E stored \in BOOLEAN :
             WriteBack(h, st, act, stored) /\ Continue(h, loc, st, act)
    BY <1>5
  <1>7. (st = "completed") <=> (loc = "commit")
    BY <1>5
  <1>8. PICK r : r = [handler[h] EXCEPT !.at = loc, !.status = st, !.active = act]
    OBVIOUS
  <1>9. /\ r.at = loc /\ r.status = st /\ r.on = i /\ r.pred = handler[h].pred
        /\ handler' = [handler EXCEPT ![h] = r]
    BY <1>1, <1>3, <1>6, <1>8 DEF Continue, AiTypes, HandlerRow
  <1>10. handler'[h] = r /\ r \in HandlerRow
    BY <1>1, <1>9 DEF AiTypes
  <1>11. interaction' = [interaction EXCEPT ![i].status = st]
    BY <1>3, <1>4, <1>6 DEF WriteBack
  <1>12. /\ interaction'[i].status = st /\ interaction'[i].pred = interaction[i].pred
         /\ \A j \in Interactions \ {i} : interaction'[j] = interaction[j]
    BY <1>1, <1>11, StatusOf DEF SetStatus
  <1>13. ledger[i].status = "reserved"
    BY <1>4 DEF Unsettled
  <1>14. HandlerExact(h)'
    BY <1>2, <1>4, <1>7, <1>9, <1>10, <1>12, <1>13 DEF HandlerExact
  <1>15. Followed(i)'
    BY <1>7, <1>9, <1>10, <1>12 DEF Followed
  <1>16. handler[h].at \notin {"idle", "lookup"} /\ handler[h].on = i
    BY <1>1, <1>3
  <1> QED
    BY <1>0, <1>2, <1>9, <1>10, <1>12, <1>14, <1>15, <1>16, VerdictKeepsSaga

LEMMA SagaBills ==
    ASSUME SagaInv, AiInv', NEW h \in Handlers, HandlerCommits(h) \/ HandlerReleases(h)
    PROVE  SagaInv'
  <1>1. /\ AiInv /\ AiTypes /\ HandlerExact(h) /\ HandlerGood(h) /\ handler[h] \in HandlerRow
        /\ AiTypes' /\ handler[h].at \in {"commit", "release_blocked", "release_failed"}
    BY DEF SagaInv, AiInv, AiTypes, HandlerCommits, HandlerReleases
  <1>2. UNCHANGED <<interaction, pc, task, prediction, delivery>>
    BY DEF HandlerCommits, HandlerReleases, requestVars, workerVars
  <1>3. PICK i \in Interactions : i = handler[h].on
    BY <1>1 DEF HandlerGood
  <1>4. ledger[i].status = "reserved" /\ interaction[i].pred = handler[h].pred
          /\ handler[h].status = interaction[i].status
    BY <1>1, <1>3 DEF HandlerExact
  <1>5. /\ \/ Settles(i, "committed") \/ Settles(i, "released")
        /\ interaction[i].status = "completed" => ledger'[i].status = "committed"
        /\ interaction[i].status \in {"failed", "moderation_blocked"} => ledger'[i].status = "released"
        /\ interaction[i].status \in {"completed", "failed", "moderation_blocked"}
    <2>1. CASE HandlerCommits(h)
      <3>1. BillingCommit(i, "ok") /\ interaction[i].status = "completed"
        BY <1>1, <1>3, <2>1, BillingAnswers DEF SagaInv, HandlerCommits, HandlerExact
      <3> QED
        BY <1>1, <1>4, <3>1, CommitIsFinal
    <2>2. CASE HandlerReleases(h)
      <3>1. BillingRelease(i, "ok") /\ interaction[i].status \in {"failed", "moderation_blocked"}
        BY <1>1, <1>3, <2>2, BillingAnswers DEF SagaInv, HandlerReleases, HandlerExact
      <3> QED
        BY <1>1, <1>4, <3>1, ReleaseIsFinal
    <2> QED
      BY <2>1, <2>2
  <1>6. Continue(h, "mark", handler[h].status, handler[h].active)
    BY BillingAnswers DEF SagaInv, HandlerCommits, HandlerReleases, ReleaseRaises
  <1>7. PICK r : r = [handler[h] EXCEPT !.at = "mark"]
    OBVIOUS
  <1>8. /\ r.at = "mark" /\ r.status = handler[h].status /\ r.on = i /\ r.pred = handler[h].pred
        /\ handler' = [handler EXCEPT ![h] = r]
    BY <1>1, <1>3, <1>6, <1>7, ContinueMoves DEF HandlerRow
  <1>9. handler'[h] = r /\ r \in HandlerRow
    BY <1>1, <1>8 DEF AiTypes
  <1>10. HandlerExact(h)'
    BY <1>2, <1>4, <1>8, <1>9 DEF HandlerExact
  <1>11. Followed(i)'
    <2>1. Followed(i)
      BY DEF SagaInv
    <2> QED
      BY <1>2, <1>5, <2>1 DEF Followed
  <1>12. /\ handler[h].at \notin {"idle", "lookup"} /\ handler[h].on = i
         /\ \A j \in Interactions \ {i} : interaction'[j] = interaction[j] /\ ledger'[j] = ledger[j]
         /\ interaction'[i].pred = interaction[i].pred
    BY <1>1, <1>2, <1>3, <1>5 DEF Settles
  <1>13. prediction' \in [Predictions -> PredictionRow]
    BY <1>1, <1>2 DEF AiTypes
  <1> QED
    BY <1>2, <1>8, <1>9, <1>10, <1>11, <1>12, <1>13, VerdictKeepsSaga

LEMMA SagaStep == SagaInv /\ [AiNext]_aiVars => SagaInv'
  <1> SUFFICES ASSUME SagaInv, [AiNext]_aiVars PROVE SagaInv'
    OBVIOUS
  <1>1. AiInv' /\ AiInv /\ NoFaults
    BY AiStep DEF SagaInv
  <1>2. CASE UNCHANGED aiVars
    BY <1>1, <1>2, SagaIdles DEF aiVars
  <1>3. CASE TopUp
    <2>1. PICK k \in PurchaseKeys : \E t : ledger' = [ledger EXCEPT ![k] = t]
      BY <1>3 DEF TopUp, Post
    <2>2. \A j \in Interactions : ledger'[j] = ledger[j]
      BY <1>1, <2>1, ReserveKeysAreLedgerKeys DEF AiInv, AiTypes, Interactions
    <2> QED
      BY <1>1, <1>3, <2>2, SagaIdles DEF TopUp, requestVars, workerVars, webhookVars
  <1>4. ASSUME NEW i \in Interactions,
               NotEntitled(i) \/ Submit(i) \/ Request(i) \/ RequestCrashes(i)
                 \/ Worker(i) \/ WorkerLost(i)
        PROVE  SagaInv'
    <2>1. ~RequestCrashes(i) /\ ~WorkerLost(i)
      BY <1>1 DEF RequestCrashes, WorkerLost, NoFaults
    <2> QED
      BY <1>1, <1>4, <2>1, SagaSubmits, SagaConcludes, SagaGenerates, SagaSettles, SagaTasks,
         SagaPredicts DEF Request, Worker
  <1>5. ASSUME NEW p \in Predictions, Finish(p) \/ Redeliver(p) PROVE SagaInv'
    BY <1>1, <1>5, SagaCalls
  <1>6. ASSUME NEW h \in Handlers, Webhook(h) \/ HandlerCrashes(h) PROVE SagaInv'
    <2>1. ~HandlerCrashes(h)
      BY <1>1 DEF HandlerCrashes, NoFaults
    <2> QED
      BY <1>1, <1>6, <2>1, SagaReceives, SagaLooksUp, SagaWritesBack, SagaBills DEF Webhook
  <1> QED
    BY <1>2, <1>3, <1>4, <1>5, <1>6 DEF AiNext

LEMMA VerdictIsBilled == SagaInv => VerdictMatchesLedger
  <1> SUFFICES ASSUME SagaInv, NEW i \in Interactions, AtRest(i)
               PROVE  /\ interaction[i].status = "completed" => ledger[i].status = "committed"
                      /\ interaction[i].status \in {"failed", "moderation_blocked"}
                            => ledger[i].status = "released"
                      /\ interaction[i].status \in {"none", "rejected"} => ledger[i] = NoTx
    BY DEF VerdictMatchesLedger
  <1>1. pc[i] = "done" /\ Followed(i) /\ PredictionFits(i)
    BY DEF AtRest, SagaInv
  <1>2. ASSUME NEW h \in Handlers, handler[h].on = i,
               handler[h].at \in {"commit", "release_blocked", "release_failed"}
        PROVE  FALSE
    <2>1. HandlerExact(h) /\ HandlerGood(h)
      BY DEF SagaInv, AiInv
    <2>2. interaction[i].pred \in Predictions /\ handler[h].pred = interaction[i].pred
      BY <1>2, <2>1 DEF HandlerExact, HandlerGood
    <2>3. prediction[interaction[i].pred].for = i
      BY <1>1, <2>2 DEF PredictionFits
    <2> QED
      BY <2>2, <2>3 DEF AtRest
  <1> QED
    BY <1>1, <1>2 DEF Followed

\* When billing answers every call, nobody crashes and Replicate calls back
\* once, the verdict and the money agree once an interaction has come to rest
\* (run_command, _handle_success, _handle_failure), for any number of users,
\* interactions, webhook requests and retries of the task.
THEOREM VerdictIsWhatIsBilled == NoFaults /\ AiSpec => []VerdictMatchesLedger
  <1> QED
    BY SagaInitial, SagaStep, VerdictIsBilled, PTL DEF AiSpec

===============================================================================
