------------------------------ MODULE ExportJobs ------------------------------
(***************************************************************************)
(* collab-svc: exports of the chat transcript and of the whiteboard.  A    *)
(* request commits a row and then queues a task (routers/collabs.py,       *)
(* routers/whiteboard.py); the tasks take rows from "pending" to "ready"   *)
(* or "failed" (workers/export_tasks.py, workers/whiteboard_tasks.py).     *)
(* Messages are acknowledged late, so a worker's death or a lost           *)
(* connection to the broker delivers one again, while the first delivery   *)
(* may still run.  chat-svc does not have the routes _fetch_chat_data      *)
(* calls; here the call may succeed or fail.                               *)
(***************************************************************************)
EXTENDS RequestSlots, Sequences, FiniteSets

CONSTANTS MaxExports, ChatRetries, BoardRetries,   \* max_retries of the two tasks
          MaxRedeliveries

VARIABLES
    exports,    \* collab.collab_export and collab.whiteboard_export
    jobs,       \* the two tasks' messages
    locks,      \* Redis export_lock:* keys
    s3,         \* uploaded objects: <<export, kind>>
    redelivered

exportVars == <<exports, jobs, locks, s3, redelivered>>

ExportStatuses == {"pending", "generating", "ready", "failed"}
ExportKinds    == {"chat", "board"}
ChatExportRow  == [kind : {"chat"}, status : ExportStatuses, pdf : BOOLEAN, zip : BOOLEAN]
BoardExportRow == [kind : {"board"}, status : ExportStatuses, pdf : BOOLEAN, zip : {FALSE}]

ExportInit == exports = <<>> /\ jobs = <<>> /\ locks = {} /\ s3 = {} /\ redelivered = 0

Retries(kind) == IF kind = "chat" THEN ChatRetries ELSE BoardRetries
NewExport(kind) == [kind |-> kind, status |-> "pending", pdf |-> FALSE, zip |-> FALSE]

\* The entitlement was checked; the row is committed, and the task queued
\* unless the broker cannot be reached.
RequestExport(kind) ==
    /\ Len(exports) < MaxExports
    /\ exports' = Append(exports, NewExport(kind))
    /\ jobs' \in {jobs, Append(jobs, [x |-> Len(exports) + 1, state |-> "queued", tries |-> 0])}
    /\ AtOnce /\ UNCHANGED <<locks, s3, redelivered>>

Set(x, status)   == exports' = [exports EXCEPT ![x].status = status]
Finish(j)        == jobs' = [jobs EXCEPT ![j].state = "done"]
Again(j)         == jobs' = [jobs EXCEPT ![j].state = "queued", ![j].tries = @ + 1]
MayRetry(j)      == jobs[j].tries < Retries(exports[jobs[j].x].kind)
FinishOrRetry(j) == IF MayRetry(j) THEN Again(j) ELSE Finish(j)

-----------------------------------------------------------------------------
(* collab_export_generate *)

\* SET NX.  A delivery that finds the lock taken leaves, and its finally
\* clause deletes the lock it did not take.
StartChatExport(c, j) ==
    LET x == jobs[j].x
    IN
    /\ jobs[j].state = "queued" /\ exports[x].kind = "chat"
    /\ IF x \in locks \/ exports[x].status = "ready"
       THEN locks' = locks \ {x} /\ Finish(j) /\ UNCHANGED <<exports, slotVars>>
       ELSE /\ locks' = locks \cup {x}
            /\ jobs' = [jobs EXCEPT ![j].state = "running"]
            /\ Set(x, "generating")
            /\ Take(c, [op |-> "fetch", j |-> j, x |-> x])
    /\ UNCHANGED <<s3, redelivered>>

\* _fetch_chat_data: a failure marks the row and retries with the lock given
\* back; _render_pdf's failure is final.
FetchChat(c) ==
    LET q == work[c]
    IN
    /\ Doing(c, "fetch")
    /\ \/ Step(c, [q EXCEPT !.op = "upload"]) /\ UNCHANGED <<exports, jobs, locks>>
       \/ Set(q.x, "failed") /\ FinishOrRetry(q.j) /\ locks' = locks \ {q.x} /\ End(c)
       \/ Set(q.x, "failed") /\ Finish(q.j) /\ locks' = locks \ {q.x} /\ End(c)
    /\ UNCHANGED <<s3, redelivered>>

\* _upload_to_s3 and _stream_zip_to_s3: a PDF that cannot be stored ends the
\* task and leaves the row "generating"; a ZIP that cannot is left out.
UploadPdf(c) ==
    LET q == work[c]
    IN
    /\ Doing(c, "upload")
    /\ \/ /\ s3' = s3 \cup {<<q.x, "pdf">>}
          /\ Step(c, [q EXCEPT !.op = "zip"]) /\ UNCHANGED <<jobs, locks>>
       \/ /\ Finish(q.j) /\ locks' = locks \ {q.x} /\ End(c) /\ UNCHANGED s3
    /\ UNCHANGED <<exports, redelivered>>

\* Faulty variant: the key of a ZIP that failed is kept.
UploadZipKeyed(c) ==
    LET q == work[c]
    IN
    /\ Doing(c, "zip")
    /\ s3' \in {s3, s3 \cup {<<q.x, "zip">>}}
    /\ Step(c, [op |-> "mark", j |-> q.j, x |-> q.x, zip |-> TRUE])
    /\ UNCHANGED <<exports, jobs, locks, redelivered>>
UploadZip(c) ==
    LET q == work[c]
    IN
    /\ Doing(c, "zip")
    /\ \E zip \in BOOLEAN :
          /\ s3' = IF zip THEN s3 \cup {<<q.x, "zip">>} ELSE s3
          /\ Step(c, [op |-> "mark", j |-> q.j, x |-> q.x, zip |-> zip])
    /\ UNCHANGED <<exports, jobs, locks, redelivered>>

MarkReady(c) ==
    LET q == work[c]
    IN
    /\ Doing(c, "mark")
    /\ exports' = [exports EXCEPT ![q.x].status = "ready", ![q.x].pdf = TRUE, ![q.x].zip = q.zip]
    /\ Finish(q.j) /\ locks' = locks \ {q.x} /\ End(c)
    /\ UNCHANGED <<s3, redelivered>>

\* The lock's ten minutes are over while its task runs or after it died.
LockExpires(x) == x \in locks /\ locks' = locks \ {x}
                  /\ UNCHANGED <<exports, jobs, s3, redelivered, slotVars>>

-----------------------------------------------------------------------------
(* whiteboard_export_generate: no lock, and no look at the status.  The row
   is kept loaded between the commits.                                     *)
StartBoardExport(c, j) ==
    LET x == jobs[j].x
    IN
    /\ jobs[j].state = "queued" /\ exports[x].kind = "board"
    /\ jobs' = [jobs EXCEPT ![j].state = "running"]
    /\ Set(x, "generating")
    /\ Take(c, [op |-> "render", j |-> j, x |-> x])
    /\ UNCHANGED <<locks, s3, redelivered>>

\* _render_and_upload is a stub that names a key and uploads nothing.
RenderBoard(c) ==
    LET q == work[c]
    IN
    /\ Doing(c, "render")
    /\ \/ Step(c, [q EXCEPT !.op = "store"]) /\ UNCHANGED <<exports, jobs>>
       \/ Set(q.x, "failed") /\ FinishOrRetry(q.j) /\ End(c)
    /\ UNCHANGED <<locks, s3, redelivered>>

MarkBoardReady(c) ==
    LET q == work[c]
    IN
    /\ Doing(c, "store")
    /\ exports' = [exports EXCEPT ![q.x].status = "ready", ![q.x].pdf = TRUE]
    /\ Finish(q.j) /\ End(c)
    /\ UNCHANGED <<locks, s3, redelivered>>

-----------------------------------------------------------------------------
(* The message of a running task is delivered again: with the worker dead
   (its lock stays), or with its connection lost and the task running on.  *)
Redeliver(c) ==
    /\ redelivered < MaxRedeliveries /\ work[c] # None
    /\ jobs[work[c].j].state = "running"
    /\ redelivered' = redelivered + 1
    /\ jobs' = Append([jobs EXCEPT ![work[c].j].state = "lost"],
                      [jobs[work[c].j] EXCEPT !.state = "queued"])
    /\ End(c) \/ UNCHANGED slotVars
    /\ UNCHANGED <<exports, locks, s3>>

ExportNext ==
    \/ \E kind \in ExportKinds : RequestExport(kind)
    \/ \E c \in Slots :
          \/ FetchChat(c) \/ UploadPdf(c) \/ UploadZip(c) \/ MarkReady(c)
          \/ RenderBoard(c) \/ MarkBoardReady(c) \/ Redeliver(c)
          \/ \E j \in 1..Len(jobs) : StartChatExport(c, j) \/ StartBoardExport(c, j)
    \/ \E x \in 1..Len(exports) : LockExpires(x)
===============================================================================
