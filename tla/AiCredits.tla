------------------------------ MODULE AiCredits ------------------------------
(***************************************************************************)
(* ai-orchestrator-svc spending billing-svc's credits: the slash commands  *)
(* (routers/commands.py), the Celery tasks that start Replicate            *)
(* predictions (workers/generation_tasks.py) and the Replicate webhook     *)
(* (routers/webhooks.py), composed with CreditLedger.  An interaction's    *)
(* reservation has the key "ai-reserve:<interaction id>", so ReserveKeys   *)
(* are the interactions.                                                   *)
(*                                                                         *)
(* Every call to billing-svc can be answered, be refused with a 5xx, be    *)
(* applied with the answer lost, or not arrive; every process can die      *)
(* between two awaits.  Faults says which of these a run allows.           *)
(***************************************************************************)
EXTENDS CreditLedger

CONSTANTS Commands,        \* subset of AllCommands the users issue
          Cost,            \* credits per command (_credit_cost)
          Predictions,     \* Replicate prediction ids
          Handlers,        \* concurrent webhook requests
          Attempts,        \* Celery attempts: 1 + max_retries
          MaxDeliveries,   \* webhook deliveries per prediction (bound)
          Faults

AllCommands == {"summarize-chat", "brainstorm", "palette", "mockup"}
AllFaults   == {"5xx", "lost", "unreachable", "crash"}

ASSUME AiAssumption ==
    /\ Commands \subseteq AllCommands
    /\ Cost \in [AllCommands -> Nat \ {0}]
    /\ Attempts \in Nat \ {0} /\ MaxDeliveries \in Nat \ {0}
    /\ Faults \subseteq AllFaults
    /\ Predictions \cap {"none", "pending", "written"} = {}

Interactions == ReserveKeys

VARIABLES
    interaction,   \* ai_interaction rows
    asset,         \* the interaction's mockup_asset row
    pc,            \* where the run_command request of an interaction is
    palette,       \* its palette loop's locals: last content, last_exc
    task,          \* Celery: attempts left, prediction created but not written
    prediction,    \* Replicate: which interaction, how far, deliveries sent, and
                   \* whether our bucket holds its artifact
    delivery,      \* webhook requests on their way, per prediction
    processed,     \* predictions whose Redis idempotency key is set
    handler        \* webhook requests being served

requestVars == <<pc, palette>>
workerVars  == <<task, prediction, delivery>>
webhookVars == <<processed, handler>>
aiVars == <<balance, ledger, interaction, asset, pc, palette, task, prediction,
            delivery, processed, handler>>

NoInteraction == [user |-> NoUser, cmd |-> "none", status |-> "none", pred |-> "none"]
NoAsset       == [pred |-> "none", stored |-> FALSE, active |-> FALSE]
IdleHandler   == [at |-> "idle", pred |-> "none", on |-> "none",
                  status |-> "none", has |-> FALSE, active |-> FALSE]

\* ai.ai_interaction; "rejected" and "none" are requests without a row, and
\* "flushed" a row that is not committed yet.
InteractionRow ==
    [user : Users \cup {NoUser}, cmd : Commands \cup {"none"}, pred : Predictions \cup {"none"},
     status : {"none", "flushed", "queued", "processing", "completed", "failed",
               "moderation_blocked", "rejected"}]

AiInit ==
    /\ LedgerInit
    /\ interaction = [i \in Interactions |-> NoInteraction]
    /\ asset       = [i \in Interactions |-> NoAsset]
    /\ pc          = [i \in Interactions |-> "idle"]
    /\ palette     = [i \in Interactions |-> [content |-> "none", exc |-> FALSE]]
    /\ task        = [i \in Interactions |-> [left |-> 0, pred |-> "none"]]
    /\ prediction  = [p \in Predictions |-> 
                      [for |-> "none", state |-> "none", sent |-> 0, kept |-> FALSE]]
    /\ delivery    = [p \in Predictions |-> 0]
    /\ processed   = {}
    /\ handler     = [h \in Handlers |-> IdleHandler]

-----------------------------------------------------------------------------
(* services/billing_client.py *)

Replies    == {"ok"} \cup (Faults \cap {"5xx", "lost", "unreachable"})
Applied(r) == r \in {"ok", "lost"}

\* commit_reservation: applied or not; anything but a 2xx raises.
BillingCommit(i, r) ==
    IF Applied(r) /\ ledger[i].status = "reserved"
    THEN CommitReservation(i) ELSE UNCHANGED ledgerVars

\* release_reservation: a 5xx is logged and swallowed.
BillingRelease(i, r) ==
    IF Applied(r) /\ ledger[i].status = "reserved"
    THEN ReleaseReservation(i) ELSE UNCHANGED ledgerVars
ReleaseRaises(r) == r \in {"lost", "unreachable"}

\* Credits bought elsewhere (billing-svc's own webhooks).
TopUp == \E u \in Users, k \in PurchaseKeys, a \in Amounts :
    /\ Post(u, k, a)
    /\ UNCHANGED <<interaction, asset, requestVars, workerVars, webhookVars>>

-----------------------------------------------------------------------------
(* run_command *)

Goto(i, loc)      == pc' = [pc EXCEPT ![i] = loc]
SetStatus(i, st)  == interaction' = [interaction EXCEPT ![i].status = st]

\* Free tier: the attempt is logged, nothing is reserved.
NotEntitled(i) == \E u \in Users, c \in Commands :
    /\ pc[i] = "idle"
    /\ interaction' = [interaction EXCEPT ![i] =
            [user |-> u, cmd |-> c, status |-> "rejected", pred |-> "none"]]
    /\ Goto(i, "done")
    /\ UNCHANGED <<ledgerVars, asset, palette, workerVars, webhookVars>>

\* The new row is flushed, so it has an id, but not committed: nobody else
\* sees it until the reservation is recorded.
Submit(i) == \E u \in Users, c \in Commands :
    /\ pc[i] = "idle"
    /\ interaction' = [interaction EXCEPT ![i] =
            [user |-> u, cmd |-> c, status |-> "flushed", pred |-> "none"]]
    /\ Goto(i, "reserve")
    /\ UNCHANGED <<ledgerVars, asset, palette, workerVars, webhookVars>>

CostOf(i) == Cost[interaction[i].cmd]

ReserveCredits(i) ==
    /\ pc[i] = "reserve"
    /\ Reserve(interaction[i].user, i, CostOf(i))
    /\ Goto(i, "record")
    /\ UNCHANGED <<interaction, asset, palette, workerVars, webhookVars>>

ReserveRejected(i) ==
    /\ pc[i] = "reserve"
    /\ Available(interaction[i].user) < CostOf(i)
    /\ SetStatus(i, "rejected")
    /\ Goto(i, "done")
    /\ UNCHANGED <<ledgerVars, asset, palette, workerVars, webhookVars>>

\* Any other failure of the call raises out of the request and the flushed row
\* is rolled back, whether or not billing-svc made the reservation.
ReserveFails(i) == \E r \in Replies \ {"ok"} :
    /\ pc[i] = "reserve"
    /\ IF Applied(r) THEN Reserve(interaction[i].user, i, CostOf(i))
                     ELSE UNCHANGED ledgerVars
    /\ interaction' = [interaction EXCEPT ![i] = NoInteraction]
    /\ Goto(i, "done")
    /\ UNCHANGED <<asset, palette, workerVars, webhookVars>>

RecordReservation(i) ==
    /\ pc[i] = "record"
    /\ SetStatus(i, "queued")
    /\ Goto(i, "generate")
    /\ UNCHANGED <<ledgerVars, asset, palette, workerVars, webhookVars>>

\* A verdict is committed to the interaction before billing-svc hears of it.
Conclude(i, st, loc) ==
    /\ SetStatus(i, st)
    /\ Goto(i, loc)
    /\ UNCHANGED <<ledgerVars, asset, palette, workerVars, webhookVars>>

\* Prompt moderation (every command but summarize-chat has a prompt), or the
\* moderation of a summary.
Blocked(i) ==
    /\ pc[i] = "generate"
    /\ Conclude(i, "moderation_blocked", "release")

\* No usable topic, description or prompt.
InvalidInput(i) ==
    /\ pc[i] = "generate"
    /\ interaction[i].cmd # "summarize-chat"
    /\ Conclude(i, "failed", "release")

\* One call of OpenAI, in a try that catches everything.
OneCall(i) == interaction[i].cmd \in {"summarize-chat", "brainstorm"}

TextGenerated(i) ==
    /\ pc[i] = "generate" /\ OneCall(i)
    /\ Conclude(i, "completed", "commit")

\* Faulty variant: the reservation of a failed command is forgotten.
TextFailedKeepsCredits(i) ==
    /\ pc[i] = "generate" /\ OneCall(i)
    /\ Conclude(i, "failed", "done")

TextFailed(i) ==
    /\ pc[i] = "generate" /\ OneCall(i)
    /\ Conclude(i, "failed", "release")

\* Two attempts at a well-formed palette.  last_exc is never reset, and an
\* OpenAI error is not caught.
PaletteAnswer(i) == \E good \in BOOLEAN :
    /\ pc[i] \in {"generate", "retry"} /\ interaction[i].cmd = "palette"
    /\ palette' = [palette EXCEPT ![i] =
            [content |-> IF good THEN "valid" ELSE "invalid",
             exc |-> palette[i].exc \/ ~good]]
    /\ Goto(i, IF good \/ pc[i] = "retry" THEN "judge" ELSE "retry")
    /\ UNCHANGED <<ledgerVars, interaction, asset, workerVars, webhookVars>>

PaletteRaises(i) ==
    /\ pc[i] \in {"generate", "retry"} /\ interaction[i].cmd = "palette"
    /\ palette' = [palette EXCEPT ![i].content = "raised"]
    /\ Goto(i, "done")
    /\ UNCHANGED <<ledgerVars, interaction, asset, workerVars, webhookVars>>

\* Faulty variant: a palette that failed is charged.
PaletteJudgedCharges(i) ==
    /\ pc[i] = "judge"
    /\ Conclude(i, IF palette[i].exc THEN "failed" ELSE "completed", "commit")

PaletteJudged(i) ==
    /\ pc[i] = "judge"
    /\ IF palette[i].exc THEN Conclude(i, "failed", "release")
                         ELSE Conclude(i, "completed", "commit")

\* The asset row is inserted with replicate_prediction_id = "pending"; the
\* column is UNIQUE.
PendingAsset == \E j \in Interactions : asset[j].pred = "pending"

CreateAsset(i) ==
    /\ pc[i] = "generate" /\ interaction[i].cmd = "mockup"
    /\ ~PendingAsset
    /\ asset' = [asset EXCEPT ![i] = [pred |-> "pending", stored |-> FALSE, active |-> TRUE]]
    /\ Goto(i, "enqueue")
    /\ UNCHANGED <<ledgerVars, interaction, palette, workerVars, webhookVars>>

AssetConflict(i) ==
    /\ pc[i] = "generate" /\ interaction[i].cmd = "mockup"
    /\ PendingAsset
    /\ Goto(i, "done")
    /\ UNCHANGED <<ledgerVars, interaction, asset, palette, workerVars, webhookVars>>

Enqueue(i) ==
    /\ pc[i] = "enqueue"
    /\ task' = [task EXCEPT ![i].left = Attempts]
    /\ Goto(i, "done")
    /\ UNCHANGED <<ledgerVars, interaction, asset, palette, prediction, delivery, webhookVars>>

RequestCommits(i) == \E r \in Replies :
    /\ pc[i] = "commit"
    /\ BillingCommit(i, r)
    /\ Goto(i, "done")
    /\ UNCHANGED <<interaction, asset, palette, workerVars, webhookVars>>

RequestReleases(i) == \E r \in Replies :
    /\ pc[i] = "release"
    /\ BillingRelease(i, r)
    /\ Goto(i, "done")
    /\ UNCHANGED <<interaction, asset, palette, workerVars, webhookVars>>

\* The pod dies: an uncommitted row is gone.
RequestCrashes(i) ==
    /\ "crash" \in Faults
    /\ pc[i] \notin {"idle", "done"}
    /\ interaction' = [interaction EXCEPT ![i] =
            IF @.status = "flushed" THEN NoInteraction ELSE @]
    /\ Goto(i, "done")
    /\ UNCHANGED <<ledgerVars, asset, palette, workerVars, webhookVars>>

-----------------------------------------------------------------------------
(* enqueue_image_prediction, enqueue_audio_prediction *)

\* Replicate accepts the prediction: from now on it can call back.
CreatePrediction(i) == \E p \in Predictions :
    /\ task[i].left > 0 /\ task[i].pred = "none"
    /\ prediction[p].state = "none"
    /\ prediction' = [prediction EXCEPT ![p].for = i, ![p].state = "running"]
    /\ task' = [task EXCEPT ![i].pred = p]
    /\ UNCHANGED <<ledgerVars, interaction, asset, requestVars, delivery, webhookVars>>

WritePrediction(i) ==
    LET p == task[i].pred IN
    /\ task[i].left > 0 /\ p \in Predictions
    /\ interaction' = [interaction EXCEPT ![i].pred = p, ![i].status = "processing"]
    /\ asset' = [asset EXCEPT ![i].pred = p]
    /\ task' = [task EXCEPT ![i].pred = "written"]
    /\ UNCHANGED <<ledgerVars, requestVars, prediction, delivery, webhookVars>>

TaskDone(i) ==
    /\ task[i].left > 0 /\ task[i].pred = "written"
    /\ task' = [task EXCEPT ![i] = [left |-> 0, pred |-> "none"]]
    /\ UNCHANGED <<ledgerVars, interaction, asset, requestVars, prediction, delivery,
                   webhookVars>>

\* Replicate refuses, or the write fails: retry, with a new prediction.  After
\* the last attempt the task is only logged as failed.
TaskRetries(i) ==
    /\ task[i].left > 0 /\ task[i].pred # "written"
    /\ task' = [task EXCEPT ![i] = [left |-> @.left - 1, pred |-> "none"]]
    /\ UNCHANGED <<ledgerVars, interaction, asset, requestVars, prediction, delivery,
                   webhookVars>>

\* task_acks_late and task_reject_on_worker_lost: the broker hands a task whose
\* worker died to another one, which starts from the beginning.
WorkerLost(i) ==
    /\ "crash" \in Faults
    /\ task[i].left > 0 /\ task[i].pred # "none"
    /\ task' = [task EXCEPT ![i].pred = "none"]
    /\ UNCHANGED <<ledgerVars, interaction, asset, requestVars, prediction, delivery,
                   webhookVars>>

\* Replicate finishes and calls back; it may call back again.
Finish(p) == \E st \in {"succeeded", "failed"} :
    /\ prediction[p].state = "running"
    /\ prediction' = [prediction EXCEPT ![p].state = st, ![p].sent = 1]
    /\ delivery' = [delivery EXCEPT ![p] = 1]
    /\ UNCHANGED <<ledgerVars, interaction, asset, requestVars, task, webhookVars>>

Redeliver(p) ==
    /\ prediction[p].state \in {"succeeded", "failed"}
    /\ prediction[p].sent < MaxDeliveries
    /\ prediction' = [prediction EXCEPT ![p].sent = @ + 1]
    /\ delivery' = [delivery EXCEPT ![p] = @ + 1]
    /\ UNCHANGED <<ledgerVars, interaction, asset, requestVars, task, webhookVars>>

-----------------------------------------------------------------------------
(* replicate_webhook *)

\* A delivery arrives: the Redis key is read, not set.
Receive(h) == \E p \in Predictions :
    /\ handler[h].at = "idle" /\ delivery[p] > 0
    /\ delivery' = [delivery EXCEPT ![p] = @ - 1]
    /\ handler' = IF p \in processed THEN handler
                  ELSE [handler EXCEPT ![h] =
                            [IdleHandler EXCEPT !.at = "lookup", !.pred = p]]
    /\ UNCHANGED <<ledgerVars, interaction, asset, requestVars, task, prediction, processed>>

Owner(p) == {i \in Interactions : interaction[i].pred = p}

\* The two rows are loaded by two SELECTs.  First the interaction ...
Lookup(h) == \E i \in Owner(handler[h].pred) :
    /\ handler[h].at = "lookup"
    /\ handler' = [handler EXCEPT ![h].at = "asset", ![h].on = i,
                                  ![h].status = interaction[i].status]
    /\ UNCHANGED <<ledgerVars, interaction, asset, requestVars, workerVars, processed>>

\* ... then the asset, if one still has this prediction: another attempt of the
\* task may have written its own to both rows meanwhile, and the request goes
\* on with asset = None.  What the payload says decides.
LookupAsset(h) ==
    LET p == handler[h].pred
        i == handler[h].on
        has == asset[i].pred = p
    IN  /\ handler[h].at = "asset"
        /\ handler' = [handler EXCEPT
                ![h].at = IF prediction[p].state = "failed" THEN "fail" ELSE "process",
                ![h].has = has, ![h].active = has /\ asset[i].active]
        /\ UNCHANGED <<ledgerVars, interaction, asset, requestVars, workerVars, processed>>

\* No interaction has this prediction (yet): the key is set all the same.
LookupUnknown(h) ==
    /\ handler[h].at = "lookup"
    /\ Owner(handler[h].pred) = {}
    /\ processed' = processed \cup {handler[h].pred}
    /\ handler' = [handler EXCEPT ![h] = IdleHandler]
    /\ UNCHANGED <<ledgerVars, interaction, asset, requestVars, workerVars>>

\* The session writes the attributes that differ from what it loaded.
WriteBack(h, st, act, stored) ==
    LET i == handler[h].on IN
    /\ interaction' = [interaction EXCEPT ![i].status =
            IF handler[h].status = st THEN @ ELSE st]
    /\ asset' = IF ~handler[h].has THEN asset
                ELSE [asset EXCEPT ![i].active = IF handler[h].active = act THEN @ ELSE act,
                                   ![i].stored = @ \/ stored]

Continue(h, loc, st, act) ==
    handler' = [handler EXCEPT ![h].at = loc, ![h].status = st, ![h].active = act]

\* Faulty variant: the charge is confirmed before the asset is stored.
ProcessedBeforeUpload(h) ==
    /\ handler[h].at = "process"
    /\ WriteBack(h, "completed", TRUE, FALSE)
    /\ Continue(h, "commit", "completed", TRUE)
    /\ UNCHANGED <<ledgerVars, requestVars, workerVars, processed>>

\* _handle_success: downloaded, scanned, watermarked, uploaded, and noted in the
\* asset row if there is one.
Processed(h) ==
    /\ handler[h].at = "process"
    /\ prediction' = [prediction EXCEPT ![handler[h].pred].kept = TRUE]
    /\ WriteBack(h, "completed", TRUE, TRUE)
    /\ Continue(h, "commit", "completed", TRUE)
    /\ UNCHANGED <<ledgerVars, requestVars, task, delivery, processed>>

ProcessBlocked(h) ==
    /\ handler[h].at = "process"
    /\ WriteBack(h, "moderation_blocked", FALSE, FALSE)
    /\ Continue(h, "release_blocked", "moderation_blocked", FALSE)
    /\ UNCHANGED <<ledgerVars, requestVars, workerVars, processed>>

\* Download, watermark or upload raises, or there was no output.
ProcessRaises(h) ==
    /\ handler[h].at = "process"
    /\ Continue(h, "fail", handler[h].status, handler[h].active)
    /\ UNCHANGED <<ledgerVars, interaction, asset, requestVars, workerVars, processed>>

\* A commit that is not answered with a 2xx raises into _handle_failure.
HandlerCommits(h) == \E r \in Replies :
    /\ handler[h].at = "commit"
    /\ BillingCommit(handler[h].on, r)
    /\ Continue(h, IF r = "ok" THEN "mark" ELSE "fail", handler[h].status, handler[h].active)
    /\ UNCHANGED <<interaction, asset, requestVars, workerVars, processed>>

\* Faulty variant: the failure is recorded, the refund forgotten.
HandleFailureNoRefund(h) ==
    /\ handler[h].at = "fail"
    /\ WriteBack(h, "failed", FALSE, FALSE)
    /\ Continue(h, "mark", "failed", FALSE)
    /\ UNCHANGED <<ledgerVars, requestVars, workerVars, processed>>

\* _handle_failure.
HandleFailure(h) ==
    /\ handler[h].at = "fail"
    /\ WriteBack(h, "failed", FALSE, FALSE)
    /\ Continue(h, "release_failed", "failed", FALSE)
    /\ UNCHANGED <<ledgerVars, requestVars, workerVars, processed>>

\* A release that raises inside _handle_success is handled as a failure; one
\* inside _handle_failure ends the request without the idempotency key.
HandlerReleases(h) == \E r \in Replies :
    /\ handler[h].at \in {"release_blocked", "release_failed"}
    /\ BillingRelease(handler[h].on, r)
    /\ IF ~ReleaseRaises(r)
       THEN Continue(h, "mark", handler[h].status, handler[h].active)
       ELSE IF handler[h].at = "release_blocked"
       THEN Continue(h, "fail", handler[h].status, handler[h].active)
       ELSE handler' = [handler EXCEPT ![h] = IdleHandler]
    /\ UNCHANGED <<interaction, asset, requestVars, workerVars, processed>>

Mark(h) ==
    /\ handler[h].at = "mark"
    /\ processed' = processed \cup {handler[h].pred}
    /\ handler' = [handler EXCEPT ![h] = IdleHandler]
    /\ UNCHANGED <<ledgerVars, interaction, asset, requestVars, workerVars>>

HandlerCrashes(h) ==
    /\ "crash" \in Faults
    /\ handler[h].at # "idle"
    /\ handler' = [handler EXCEPT ![h] = IdleHandler]
    /\ UNCHANGED <<ledgerVars, interaction, asset, requestVars, workerVars, processed>>

-----------------------------------------------------------------------------
Request(i) ==
    \/ ReserveCredits(i) \/ ReserveRejected(i) \/ ReserveFails(i) \/ RecordReservation(i)
    \/ Blocked(i) \/ InvalidInput(i) \/ TextGenerated(i) \/ TextFailed(i)
    \/ PaletteAnswer(i) \/ PaletteRaises(i) \/ PaletteJudged(i)
    \/ CreateAsset(i) \/ AssetConflict(i) \/ Enqueue(i)
    \/ RequestCommits(i) \/ RequestReleases(i)

Worker(i) == CreatePrediction(i) \/ WritePrediction(i) \/ TaskDone(i) \/ TaskRetries(i)

Webhook(h) ==
    \/ Receive(h) \/ Lookup(h) \/ LookupAsset(h) \/ LookupUnknown(h)
    \/ Processed(h) \/ ProcessBlocked(h) \/ ProcessRaises(h)
    \/ HandlerCommits(h) \/ HandleFailure(h) \/ HandlerReleases(h) \/ Mark(h)

AiNext ==
    \/ TopUp
    \/ \E i \in Interactions :
         NotEntitled(i) \/ Submit(i) \/ Request(i) \/ RequestCrashes(i) 
           \/ Worker(i) \/ WorkerLost(i)
    \/ \E p \in Predictions : Finish(p) \/ Redeliver(p)
    \/ \E h \in Handlers : Webhook(h) \/ HandlerCrashes(h)

AiSpec == AiInit /\ [][AiNext]_aiVars

\* Requests, tasks and webhook handlers that have begun keep running, and
\* Replicate finishes what it accepted; nobody has to issue a command.
AiFairSpec ==
    /\ AiSpec
    /\ \A i \in Interactions : WF_aiVars(Request(i)) /\ WF_aiVars(Worker(i))
    /\ \A p \in Predictions : WF_aiVars(Finish(p))
    /\ \A h \in Handlers : WF_aiVars(Webhook(h))

-----------------------------------------------------------------------------
(* Properties *)

\* Nothing is running, queued or on its way for interaction i.
AtRest(i) ==
    /\ pc[i] = "done"
    /\ task[i].left = 0
    /\ \A p \in Predictions : prediction[p].for = i =>
         /\ prediction[p].state # "running" /\ delivery[p] = 0
         /\ \A h \in Handlers : handler[h].pred # p

AiTypeOK ==
    /\ interaction \in [Interactions -> InteractionRow]
    /\ \A i \in Interactions : /\ asset[i].pred \in Predictions \cup {"none", "pending"}
                               /\ task[i].left \in 0..Attempts
    /\ processed \subseteq Predictions
    /\ \A p \in Predictions : delivery[p] \in 0..MaxDeliveries

\* When billing answers every call, nobody crashes and Replicate calls back
\* once, the verdict and the money agree once everything has come to rest:
\* "commit_reservation() ... (on success)", "release_reservation() ... (on
\* failure / moderation block)" (billing_client.py).
VerdictMatchesLedger ==
    \A i \in Interactions : AtRest(i) =>
        /\ interaction[i].status = "completed" => ledger[i].status = "committed"
        /\ interaction[i].status \in {"failed", "moderation_blocked"}
              => ledger[i].status = "released"
        /\ interaction[i].status \in {"none", "rejected"} => ledger[i] = NoTx

\* Whatever fails, is repeated or dies: credits are consumed only for a result
\* that exists.  A text is one its request completed.  A mockup's artifact is in
\* the bucket and its asset row has it, but for the one exception that the code
\* has: the artifact is that of a prediction which another attempt replaced while
\* its webhook was between its two SELECTs; no row names that artifact.
ChargedHasResult ==
    \A i \in Interactions : ledger[i].status = "committed" =>
        IF interaction[i].cmd = "mockup"
        THEN \/ asset[i].stored
             \/ \E p \in Predictions :
                  prediction[p].for = i /\ prediction[p].kept /\ interaction[i].pred # p
        ELSE interaction[i].status = "completed"

\* "Update MockupAsset", then "Confirm credit charge" (webhooks.py): a mockup is
\* charged only when its asset row has the artifact.
ChargedHasAsset ==
    \A i \in Interactions :
        ledger[i].status = "committed" /\ interaction[i].cmd = "mockup" => asset[i].stored

\* Whatever fails or dies, a text command is never billed against its verdict:
\* the verdict is committed first, and only this request settles it.
TextNeverMisbilled ==
    \A i \in Interactions : interaction[i].cmd # "mockup" =>
        /\ interaction[i].status = "completed" => ledger[i].status \in {"reserved", "committed"}
        /\ interaction[i].status \in {"failed", "moderation_blocked"}
              => ledger[i].status \in {"reserved", "released"}
        /\ interaction[i].status = "rejected" => ledger[i] = NoTx

\* A mockup that failed or was blocked is not shown: whenever its credits went
\* back and nothing is in flight, the asset is inactive.
RefundedNotShown ==
    \A i \in Interactions : AtRest(i) /\ ledger[i].status = "released" =>
        ~asset[i].active

\* "Idempotency: Redis key replicate:{prediction_id} with 24h TTL."
\* (webhooks.py): delivering a callback again changes nothing, so the verdict
\* and the money still agree when everything has come to rest.
RedeliveryHarmless == VerdictMatchesLedger

\* "On failure: credit refund, notify." (webhooks.py)
FailedNotCharged ==
    \A i \in Interactions : interaction[i].status = "failed" => ledger[i].status # "committed"

\* A request that failed gave its reservation back ("release_reservation() -
\* refund credits (on failure / moderation block)"): none is left open without
\* a task, a prediction or a webhook that could still settle it.
NoStrandedReservation ==
    \A i \in Interactions : AtRest(i) => ledger[i].status # "reserved"

\* "On parse failure: retry once ...; on second failure: return 500".
PaletteRetryCounts ==
    \A i \in Interactions : interaction[i].status = "failed" => palette[i].content # "valid"

\* "/summarize-chat, /brainstorm, /palette text commands" (openai_client.py),
\* "Credits refunded." (commands.py): the reservation of one is settled in
\* the end, except that of a palette for which OpenAI raised: that error is not
\* caught (commands.py:361-369), and the credits stay reserved.
TextCommand(i) == interaction[i].cmd \in {"summarize-chat", "brainstorm", "palette"}

TextCommandsSettle ==
    \A i \in Interactions :
        ledger[i].status = "reserved" /\ TextCommand(i)
            ~> ledger[i].status # "reserved" \/ palette[i].content = "raised"

\* "Don't raise - best-effort refund; Celery retry will clean up"
\* (billing_client.py): what failed is refunded in the end.
FailedEventuallyRefunded ==
    \A i \in Interactions :
        interaction[i].status = "failed" ~> ledger[i].status # "reserved"

\* "If status=failed: set AIInteraction.status=failed, refund credits": a
\* prediction that failed ends the interaction it was made for.
FailedPredictionEndsInteraction ==
    \A p \in Predictions, i \in Interactions :
        prediction[p].for = i /\ prediction[p].state = "failed" /\ interaction[i].pred = p
            ~> interaction[i].status # "processing"
=============================================================================
