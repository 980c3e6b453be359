------------------------ MODULE WorkspaceSystemProofs ------------------------
(***************************************************************************)
(* Proofs about WorkspaceSystem: what needs two participants has two, a    *)
(* tab that joined misses no operation, a finished export has its file.    *)
(***************************************************************************)
EXTENDS WorkspaceSystem, FiniteSetTheorems, SequenceTheorems, WellFoundedInduction, TLAPS

-----------------------------------------------------------------------------
(* Exports *)

\* A delivery of one of the two tasks, as its slot holds it.
ExportTask == [op : {"fetch", "upload", "zip", "render", "store"}, j : Nat, x : Nat]
                \cup [op : {"mark"}, j : Nat, x : Nat, zip : BOOLEAN]
ExportJob  == [x : Nat, state : {"queued", "running", "done", "lost"}, tries : Nat]

\* What a delivery has uploaded on the way to its mark.
ExportFits(c) == work[c] # None =>
    LET q == work[c]
    IN
    /\ q \in ExportTask /\ q.x \in 1..Len(exports) /\ q.j \in 1..Len(jobs)
    /\ exports[q.x].kind = IF q.op \in {"render", "store"} THEN "board" ELSE "chat"
    /\ q.op \in {"zip", "mark"} => <<q.x, "pdf">> \in s3
    /\ q.op = "mark" => (q.zip => <<q.x, "zip">> \in s3)

ExportRows == /\ exports \in Seq(ChatExportRow \cup BoardExportRow)
              /\ jobs \in Seq(ExportJob)
              /\ \A j \in 1..Len(jobs) : jobs[j].x \in 1..Len(exports)

\* The inductive invariant of the exports.  A row is marked from what its
\* delivery uploaded steps ago, and the row may by then be another's work.
ExportInv == /\ ExportRows /\ ReadyHasPdf
             /\ \A c \in Slots : ExportFits(c)
             /\ work = [c \in Slots |-> work[c]]

\* Rows keep their kind and objects stay, whoever works on them.
ExportsGrow ==
    /\ ExportRows' /\ s3 \subseteq s3'
    /\ Len(exports) <= Len(exports') /\ Len(jobs) <= Len(jobs')
    /\ \A x \in 1..Len(exports) : exports'[x].kind = exports[x].kind

LEMMA ExportLens == ASSUME ExportRows PROVE Len(exports) \in Nat /\ Len(jobs) \in Nat
  BY DEF ExportRows

\* A slot that does not move keeps what it had uploaded.
LEMMA ExportStays ==
    ASSUME ExportRows, ExportsGrow, NEW c \in Slots, ExportFits(c), work'[c] = work[c]
    PROVE  ExportFits(c)'
  <1>1. Len(exports) \in Nat /\ Len(jobs) \in Nat
    BY ExportLens
  <1>2. Len(exports') \in Nat /\ Len(jobs') \in Nat
    BY DEF ExportsGrow, ExportRows
  <1>3. PICK q : q = work[c]
    OBVIOUS
  <1>4. CASE q = None
    BY <1>3, <1>4 DEF ExportFits
  <1>5. CASE q # None
    <2>1. /\ q \in ExportTask /\ q.x \in 1..Len(exports) /\ q.j \in 1..Len(jobs)
          /\ exports[q.x].kind = IF q.op \in {"render", "store"} THEN "board" ELSE "chat"
          /\ q.op \in {"zip", "mark"} => <<q.x, "pdf">> \in s3
          /\ q.op = "mark" => (q.zip => <<q.x, "zip">> \in s3)
      BY <1>3, <1>5 DEF ExportFits
    <2>2. q.x \in 1..Len(exports') /\ q.j \in 1..Len(jobs')
      BY <1>1, <1>2, <2>1 DEF ExportsGrow
    <2>3. exports'[q.x].kind = exports[q.x].kind /\ s3 \subseteq s3'
      BY <2>1 DEF ExportsGrow
    <2> QED
      BY <1>3, <2>1, <2>2, <2>3 DEF ExportFits
  <1> QED
    BY <1>4, <1>5

\* A step at one slot: the others keep what they had.
LEMMA ExportAtSlot ==
    ASSUME ExportInv, NEW c \in Slots, NEW w, work' = [work EXCEPT ![c] = w],
           ExportsGrow, ReadyHasPdf', ExportFits(c)'
    PROVE  ExportInv'
  <1>1. ExportRows /\ ExportRows'
    BY DEF ExportInv, ExportsGrow
  <1>2. ASSUME NEW d \in Slots PROVE ExportFits(d)'
    <2>1. CASE d = c
      BY <2>1
    <2>2. CASE d # c
      <3>1. work'[d] = work[d] /\ ExportFits(d)
        BY <2>2 DEF ExportInv
      <3> QED
        BY <1>1, <3>1, ExportStays
    <2> QED
      BY <2>1, <2>2
  <1>3. work' = [d \in Slots |-> work'[d]]
    BY DEF ExportInv
  <1> QED
    BY <1>1, <1>2, <1>3 DEF ExportInv

\* A step of no slot.
LEMMA ExportAtOnce ==
    ASSUME ExportInv, ExportsGrow, ReadyHasPdf', UNCHANGED work
    PROVE  ExportInv'
  <1>1. ExportRows /\ ExportRows'
    BY DEF ExportInv, ExportsGrow
  <1>2. ASSUME NEW d \in Slots PROVE ExportFits(d)'
    <2>1. work'[d] = work[d] /\ ExportFits(d)
      BY DEF ExportInv
    <2> QED
      BY <1>1, <2>1, ExportStays
  <1> QED
    BY <1>1, <1>2 DEF ExportInv

\* The jobs alone change: none is lost and none gets another row.
LEMMA JobsChange ==
    ASSUME ExportInv, NEW js \in Seq(ExportJob), jobs' = js, Len(jobs) <= Len(js),
           \A j \in 1..Len(js) : js[j].x \in 1..Len(exports), UNCHANGED exports, s3 \subseteq s3'
    PROVE  ExportsGrow /\ ReadyHasPdf'
  <1>1. ExportsGrow
    BY DEF ExportInv, ExportRows, ExportsGrow
  <1>2. ReadyHasPdf'
    BY DEF ExportInv, ReadyHasPdf
  <1> QED
    BY <1>1, <1>2

\* One row takes a new status, one job a new state.
LEMMA RowChange ==
    ASSUME ExportInv, NEW x \in 1..Len(exports), NEW row \in ChatExportRow \cup BoardExportRow,
           row.kind = exports[x].kind, exports' = [exports EXCEPT ![x] = row],
           NEW js \in Seq(ExportJob), jobs' = js, Len(js) = Len(jobs),
           \A j \in 1..Len(js) : js[j].x = jobs[j].x, UNCHANGED s3,
           row.kind = "chat" => /\ row.status = "ready" => <<x, "pdf">> \in s3
                                /\ row.zip => <<x, "zip">> \in s3
    PROVE  ExportsGrow /\ ReadyHasPdf'
  <1>1. Len(exports) \in Nat /\ Len(jobs) \in Nat /\ ExportRows
    BY ExportLens DEF ExportInv
  <1>2. exports' \in Seq(ChatExportRow \cup BoardExportRow) /\ Len(exports') = Len(exports)
    BY DEF ExportInv, ExportRows
  <1>3. \A y \in 1..Len(exports) : exports'[y] = IF y = x THEN row ELSE exports[y]
    BY DEF ExportInv, ExportRows
  <1>4. ExportsGrow
    BY <1>1, <1>2, <1>3 DEF ExportRows, ExportsGrow
  <1>5. ReadyHasPdf'
    <2>1. ASSUME NEW y \in 1..Len(exports'), exports'[y].kind = "chat"
          PROVE  /\ exports'[y].status = "ready" => <<y, "pdf">> \in s3
                 /\ exports'[y].zip => <<y, "zip">> \in s3
      <3>1. CASE y = x
        BY <1>3, <2>1, <3>1
      <3>2. CASE y # x
        <4>1. y \in 1..Len(exports) /\ exports'[y] = exports[y]
          BY <1>2, <1>3, <3>2
        <4> QED
          BY <2>1, <4>1 DEF ExportInv, ReadyHasPdf
      <3> QED
        BY <3>1, <3>2
    <2> QED
      BY <2>1 DEF ReadyHasPdf
  <1> QED
    BY <1>4, <1>5

\* A job is finished or queued again; it stays a job of its row.
JobMoves(j) == /\ jobs' \in Seq(ExportJob) /\ Len(jobs') = Len(jobs)
               /\ \A i \in 1..Len(jobs') : jobs'[i].x = jobs[i].x

LEMMA JobStep ==
    ASSUME ExportRows, NEW j \in 1..Len(jobs),
           \/ Finish(j) \/ FinishOrRetry(j)
           \/ \E state \in {"running", "lost"} : jobs' = [jobs EXCEPT ![j].state = state]
    PROVE  JobMoves(j)
  <1>1. jobs[j] \in ExportJob
    BY DEF ExportRows
  <1>2. PICK row \in ExportJob : row.x = jobs[j].x /\ jobs' = [jobs EXCEPT ![j] = row]
    <2>1. CASE Finish(j)
      BY <1>1, <2>1 DEF Finish, ExportJob
    <2>2. CASE FinishOrRetry(j)
      BY <1>1, <2>2 DEF FinishOrRetry, Finish, Again, ExportJob
    <2>3. CASE \E state \in {"running", "lost"} : jobs' = [jobs EXCEPT ![j].state = state]
      BY <1>1, <2>3 DEF ExportJob
    <2> QED
      BY <2>1, <2>2, <2>3
  <1> QED
    BY <1>2 DEF ExportRows, JobMoves

\* What is true of a row in a slot's hands.
LEMMA InHand ==
    ASSUME ExportInv, NEW c \in Slots, NEW op, Doing(c, op)
    PROVE  /\ work[c] \in ExportTask /\ work[c].op = op
           /\ work[c].x \in 1..Len(exports) /\ work[c].j \in 1..Len(jobs)
           /\ exports[work[c].x].kind = IF op \in {"render", "store"} THEN "board" ELSE "chat"
           /\ op \in {"zip", "mark"} => <<work[c].x, "pdf">> \in s3
           /\ op = "mark" => (work[c].zip => <<work[c].x, "zip">> \in s3)
  BY DEF ExportInv, ExportFits, Doing

LEMMA NewStatus ==
    ASSUME ExportRows, NEW x \in 1..Len(exports), NEW status \in ExportStatuses \ {"ready"},
           ReadyHasPdf, Set(x, status)
    PROVE  \E row \in ChatExportRow \cup BoardExportRow :
              /\ row.kind = exports[x].kind /\ exports' = [exports EXCEPT ![x] = row]
              /\ row.kind = "chat" => /\ row.status = "ready" => <<x, "pdf">> \in s3
                                      /\ row.zip => <<x, "zip">> \in s3
  <1>1. PICK row : row = [exports[x] EXCEPT !.status = status]
    OBVIOUS
  <1>2. exports[x] \in ChatExportRow \cup BoardExportRow
    BY DEF ExportRows
  <1>3. /\ row \in ChatExportRow \cup BoardExportRow
        /\ row.kind = exports[x].kind /\ row.status = status /\ row.zip = exports[x].zip
    BY <1>1, <1>2 DEF ChatExportRow, BoardExportRow
  <1>4. exports' = [exports EXCEPT ![x] = row]
    BY <1>1 DEF Set
  <1>5. row.kind = "chat" => (row.zip => <<x, "zip">> \in s3)
    BY <1>3 DEF ReadyHasPdf
  <1> QED
    BY <1>3, <1>4, <1>5

\* A delivery begins: the row is marked as under way.
LEMMA StartStep ==
    ASSUME ExportInv, NEW c \in Slots, NEW j \in 1..Len(jobs),
           StartChatExport(c, j) \/ StartBoardExport(c, j)
    PROVE  ExportInv'
  <1>1. ExportRows /\ ReadyHasPdf /\ jobs[j].x \in 1..Len(exports) /\ j \in Nat
    BY DEF ExportInv, ExportRows
  <1>2. PICK x \in 1..Len(exports) : x = jobs[j].x
    BY <1>1
  <1>3. CASE Finish(j) /\ UNCHANGED <<exports, s3, slotVars>>
    <2>1. JobMoves(j)
      BY <1>1, <1>3, JobStep
    <2>2. ExportsGrow /\ ReadyHasPdf'
      <3>1. Len(jobs) <= Len(jobs') /\ \A i \in 1..Len(jobs') : jobs'[i].x \in 1..Len(exports)
        BY <1>1, <2>1, ExportLens DEF JobMoves, ExportRows
      <3> QED
        BY <1>3, <2>1, <3>1, JobsChange DEF JobMoves
    <2> QED
      BY <1>3, <2>2, ExportAtOnce DEF slotVars
  <1>4. CASE ~(Finish(j) /\ UNCHANGED <<exports, s3, slotVars>>)
    <2>1. PICK op \in {"fetch", "render"} :
             /\ exports[x].kind = IF op = "fetch" THEN "chat" ELSE "board"
             /\ jobs' = [jobs EXCEPT ![j].state = "running"]
             /\ Set(x, "generating") /\ Take(c, [op |-> op, j |-> j, x |-> x])
             /\ UNCHANGED s3
      BY <1>2, <1>4 DEF StartChatExport, StartBoardExport
    <2>2. JobMoves(j)
      BY <1>1, <2>1, JobStep
    <2>3. PICK row \in ChatExportRow \cup BoardExportRow :
              /\ row.kind = exports[x].kind /\ exports' = [exports EXCEPT ![x] = row]
              /\ row.kind = "chat" => /\ row.status = "ready" => <<x, "pdf">> \in s3
                                      /\ row.zip => <<x, "zip">> \in s3
      <3>1. "generating" \in ExportStatuses \ {"ready"}
        BY DEF ExportStatuses
      <3> QED
        BY <1>1, <2>1, <3>1, NewStatus
    <2>4. ExportsGrow /\ ReadyHasPdf'
      BY <2>1, <2>2, <2>3, RowChange DEF JobMoves
    <2>5. PICK w : w = [op |-> op, j |-> j, x |-> x] /\ work' = [work EXCEPT ![c] = w]
      BY <2>1 DEF Take
    <2>6. ExportFits(c)'
      <3>1. work'[c] = w
        BY <2>5 DEF ExportInv
      <3>2. w \in ExportTask /\ w.op = op /\ w.x = x /\ w.j = j
        BY <1>1, <1>2, <2>5, ExportLens DEF ExportTask
      <3>3. x \in 1..Len(exports') /\ j \in 1..Len(jobs')
        BY <1>1, <2>2, <2>4, ExportLens DEF ExportsGrow, ExportRows, JobMoves
      <3>4. exports'[x].kind = exports[x].kind
        BY <2>4 DEF ExportsGrow
      <3> QED
        BY <2>1, <3>1, <3>2, <3>3, <3>4 DEF ExportFits
    <2> QED
      BY <2>4, <2>5, <2>6, ExportAtSlot
  <1> QED
    BY <1>3, <1>4

\* A delivery ends after it has written its row and its job.
LEMMA EndExport ==
    ASSUME ExportInv, NEW c \in Slots, ExportsGrow, ReadyHasPdf', End(c)
    PROVE  ExportInv'
  <1>1. work' = [work EXCEPT ![c] = None]
    BY DEF End
  <1>2. ExportFits(c)'
    BY <1>1 DEF ExportInv, ExportFits
  <1> QED
    BY <1>1, <1>2, ExportAtSlot

LEMMA RequestExportStep ==
    ASSUME ExportInv, NEW kind \in ExportKinds, RequestExport(kind)
    PROVE  ExportInv'
  <1>1. ExportRows /\ ReadyHasPdf /\ Len(exports) \in Nat /\ Len(jobs) \in Nat
    BY ExportLens DEF ExportInv
  <1>2. PICK row : row = NewExport(kind) /\ exports' = Append(exports, row)
    BY DEF RequestExport
  <1>3. row \in ChatExportRow \cup BoardExportRow /\ row.status = "pending" /\ row.zip = FALSE
    BY <1>2 DEF NewExport, ExportKinds, ExportStatuses, ChatExportRow, BoardExportRow
  <1>4. PICK job : job = [x |-> Len(exports) + 1, state |-> "queued", tries |-> 0]
    OBVIOUS
  <1>5. job \in ExportJob /\ job.x = Len(exports) + 1 /\ jobs' \in {jobs, Append(jobs, job)}
    BY <1>1, <1>4 DEF ExportJob, RequestExport
  <1>6. /\ exports' \in Seq(ChatExportRow \cup BoardExportRow) /\ Len(exports') = Len(exports) + 1
        /\ \A x \in 1..Len(exports') : exports'[x] = IF x <= Len(exports) THEN exports[x] ELSE row
    BY <1>1, <1>2, <1>3 DEF ExportRows
  <1>7. /\ jobs' \in Seq(ExportJob) /\ Len(jobs) <= Len(jobs')
        /\ \A j \in 1..Len(jobs') : j <= Len(jobs) \/ jobs'[j] = job
        /\ \A j \in 1..Len(jobs) : jobs'[j] = jobs[j]
    <2>1. CASE jobs' = jobs
      BY <1>1, <2>1 DEF ExportRows
    <2>2. CASE jobs' = Append(jobs, job)
      BY <1>1, <1>5, <2>2 DEF ExportRows
    <2> QED
      BY <1>5, <2>1, <2>2
  <1>8. \A j \in 1..Len(jobs') : jobs'[j].x \in 1..Len(exports')
    BY <1>1, <1>5, <1>6, <1>7 DEF ExportRows
  <1>9. UNCHANGED <<s3, work>>
    BY DEF RequestExport, AtOnce
  <1>10. ExportsGrow
    BY <1>1, <1>6, <1>7, <1>8, <1>9 DEF ExportsGrow, ExportRows
  <1>11. ReadyHasPdf'
    BY <1>1, <1>3, <1>6, <1>9 DEF ReadyHasPdf
  <1> QED
    BY <1>9, <1>10, <1>11, ExportAtOnce

\* The chat export, after it was started.
LEMMA ChatExportStep ==
    ASSUME ExportInv, NEW c \in Slots,
           FetchChat(c) \/ UploadPdf(c) \/ UploadZip(c) \/ MarkReady(c)
    PROVE  ExportInv'
  <1> DEFINE q == work[c]
  <1>0. ExportRows /\ ReadyHasPdf
    BY DEF ExportInv
  <1>1. CASE \E op \in {"fetch", "upload"} :
                /\ Doing(c, op) /\ Finish(q.j) /\ End(c) /\ UNCHANGED <<exports, s3>>
    <2>1. q.j \in 1..Len(jobs)
      BY <1>1, InHand
    <2>2. JobMoves(q.j)
      BY <1>0, <1>1, <2>1, JobStep
    <2>3. Len(jobs) <= Len(jobs') /\ \A i \in 1..Len(jobs') : jobs'[i].x \in 1..Len(exports)
      BY <1>0, <2>2, ExportLens DEF JobMoves, ExportRows
    <2>4. ExportsGrow /\ ReadyHasPdf'
      BY <1>1, <2>2, <2>3, JobsChange DEF JobMoves
    <2> QED
      BY <1>1, <2>4, EndExport
  <1>2. CASE FetchChat(c)
    <2>1. /\ q \in ExportTask /\ q.op = "fetch" /\ q.x \in 1..Len(exports) /\ q.j \in 1..Len(jobs)
          /\ exports[q.x].kind = "chat"
          /\ exports[q.x].kind = "chat"
      BY <1>2, InHand DEF FetchChat
    <2>2. CASE Step(c, [q EXCEPT !.op = "upload"]) /\ UNCHANGED <<exports, jobs>>
      <3>1. PICK w : w = [q EXCEPT !.op = "upload"] /\ work' = [work EXCEPT ![c] = w]
        BY <2>2 DEF Step
      <3>2. w \in ExportTask /\ w.op = "upload" /\ w.x = q.x /\ w.j = q.j
        BY <2>1, <3>1 DEF ExportTask
      <3>3. UNCHANGED <<exports, jobs, s3>>
        BY <1>2, <2>2 DEF FetchChat
      <3>4. ExportsGrow /\ ReadyHasPdf'
        BY <1>0, <3>3, ExportLens DEF ExportsGrow, ExportRows, ReadyHasPdf
      <3>5. work'[c] = w
        BY <3>1 DEF ExportInv
      <3>6. ExportFits(c)'
        BY <2>1, <3>2, <3>3, <3>5 DEF ExportFits
      <3> QED
        BY <3>1, <3>4, <3>6, ExportAtSlot
    <2>3. CASE Set(q.x, "failed") /\ (Finish(q.j) \/ FinishOrRetry(q.j)) /\ End(c)
      <3>1. JobMoves(q.j)
        BY <1>0, <2>1, <2>3, JobStep
      <3>2. "failed" \in ExportStatuses \ {"ready"}
        BY DEF ExportStatuses
      <3>3. PICK row \in ChatExportRow \cup BoardExportRow :
              /\ row.kind = exports[q.x].kind /\ exports' = [exports EXCEPT ![q.x] = row]
              /\ row.kind = "chat" => /\ row.status = "ready" => <<q.x, "pdf">> \in s3
                                      /\ row.zip => <<q.x, "zip">> \in s3
        BY <1>0, <2>1, <2>3, <3>2, NewStatus
      <3>4. UNCHANGED s3
        BY <1>2 DEF FetchChat
      <3>5. ExportsGrow /\ ReadyHasPdf'
        BY <2>1, <3>1, <3>3, <3>4, RowChange DEF JobMoves
      <3> QED
        BY <2>3, <3>5, EndExport
    <2> QED
      BY <1>2, <2>2, <2>3 DEF FetchChat
  <1>3. CASE UploadPdf(c) /\ Step(c, [q EXCEPT !.op = "zip"]) /\ s3' = s3 \cup {<<q.x, "pdf">>}
             /\ UNCHANGED jobs
    <2>1. /\ q \in ExportTask /\ q.op = "upload" /\ q.x \in 1..Len(exports) /\ q.j \in 1..Len(jobs)
          /\ exports[q.x].kind = "chat"
          /\ exports[q.x].kind = "chat"
      BY <1>3, InHand DEF UploadPdf
    <2>2. PICK w : w = [q EXCEPT !.op = "zip"] /\ work' = [work EXCEPT ![c] = w]
      BY <1>3 DEF Step
    <2>3. w \in ExportTask /\ w.op = "zip" /\ w.x = q.x /\ w.j = q.j
      BY <2>1, <2>2 DEF ExportTask
    <2>4. UNCHANGED <<exports, jobs>> /\ s3 \subseteq s3' /\ <<q.x, "pdf">> \in s3'
      BY <1>3 DEF UploadPdf
    <2>5. ExportsGrow /\ ReadyHasPdf'
      BY <1>0, <2>4, ExportLens DEF ExportsGrow, ExportRows, ReadyHasPdf
    <2>6. work'[c] = w
      BY <2>2 DEF ExportInv
    <2>7. ExportFits(c)'
      BY <2>1, <2>3, <2>4, <2>6 DEF ExportFits
    <2> QED
      BY <2>2, <2>5, <2>7, ExportAtSlot
  <1>4. CASE UploadZip(c)
    <2>1. /\ q \in ExportTask /\ q.op = "zip" /\ q.x \in 1..Len(exports) /\ q.j \in 1..Len(jobs)
          /\ exports[q.x].kind = "chat"
          /\ <<q.x, "pdf">> \in s3
      BY <1>4, InHand DEF UploadZip
    <2>2. PICK zip \in BOOLEAN : /\ s3' = IF zip THEN s3 \cup {<<q.x, "zip">>} ELSE s3
                                /\ Step(c, [op |-> "mark", j |-> q.j, x |-> q.x, zip |-> zip])
      BY <1>4 DEF UploadZip
    <2>3. PICK w : /\ w = [op |-> "mark", j |-> q.j, x |-> q.x, zip |-> zip]
                   /\ work' = [work EXCEPT ![c] = w]
      BY <2>2 DEF Step
    <2>4. q.x \in Nat /\ q.j \in Nat
      BY <1>0, <2>1, ExportLens
    <2>5. w \in ExportTask /\ w.op = "mark" /\ w.x = q.x /\ w.j = q.j /\ w.zip = zip
      BY <2>3, <2>4 DEF ExportTask
    <2>6. /\ UNCHANGED <<exports, jobs>> /\ s3 \subseteq s3' /\ <<q.x, "pdf">> \in s3'
          /\ zip => <<q.x, "zip">> \in s3'
      BY <1>4, <2>1, <2>2 DEF UploadZip
    <2>7. ExportsGrow /\ ReadyHasPdf'
      <3>1. ExportsGrow
        <4>1. ExportRows /\ Len(exports) \in Nat /\ Len(jobs) \in Nat
          BY <1>0, ExportLens
        <4>2. ExportRows'
          BY <2>6, <4>1 DEF ExportRows
        <4> QED
          BY <2>6, <4>1, <4>2 DEF ExportsGrow
      <3> QED
        BY <1>0, <2>6, <3>1 DEF ReadyHasPdf
    <2>8. work'[c] = w
      BY <2>3 DEF ExportInv
    <2>9. ExportFits(c)'
      BY <2>1, <2>5, <2>6, <2>8 DEF ExportFits
    <2> QED
      BY <2>3, <2>7, <2>9, ExportAtSlot
  <1>5. CASE MarkReady(c)
    <2>1. /\ q \in ExportTask /\ q.op = "mark" /\ q.x \in 1..Len(exports) /\ q.j \in 1..Len(jobs)
          /\ <<q.x, "pdf">> \in s3 /\ (q.zip => <<q.x, "zip">> \in s3)
      BY <1>5, InHand DEF MarkReady
    <2>2. PICK row : /\ row = [exports[q.x] EXCEPT !.status = "ready", !.pdf = TRUE, !.zip = q.zip]
                     /\ exports' = [exports EXCEPT ![q.x] = row]
      BY <1>5 DEF MarkReady
    <2>3. exports[q.x] \in ChatExportRow \cup BoardExportRow /\ q.zip \in BOOLEAN
      BY <1>0, <2>1 DEF ExportRows, ExportTask
    <2>4. exports[q.x].kind = "chat"
      BY <1>5, InHand DEF MarkReady
    <2>5. row \in ChatExportRow /\ row.kind = exports[q.x].kind /\ row.zip = q.zip
      BY <2>2, <2>3, <2>4 DEF ChatExportRow, BoardExportRow, ExportStatuses
    <2>6. JobMoves(q.j) /\ UNCHANGED s3 /\ End(c)
      BY <1>0, <1>5, <2>1, JobStep DEF MarkReady
    <2>7. ExportsGrow /\ ReadyHasPdf'
      BY <2>1, <2>2, <2>5, <2>6, RowChange DEF JobMoves
    <2> QED
      BY <2>6, <2>7, EndExport
  <1> QED
    BY <1>1, <1>2, <1>3, <1>4, <1>5 DEF UploadPdf

\* The board export, after it was started.
LEMMA BoardExportStep ==
    ASSUME ExportInv, NEW c \in Slots, RenderBoard(c) \/ MarkBoardReady(c)
    PROVE  ExportInv'
  <1> DEFINE q == work[c]
  <1>0. ExportRows /\ ReadyHasPdf
    BY DEF ExportInv
  <1>1. CASE RenderBoard(c)
    <2>1. /\ q \in ExportTask /\ q.op = "render" /\ q.x \in 1..Len(exports) /\ q.j \in 1..Len(jobs)
          /\ exports[q.x].kind = "board"
      BY <1>1, InHand DEF RenderBoard
    <2>2. CASE Step(c, [q EXCEPT !.op = "store"]) /\ UNCHANGED <<exports, jobs>>
      <3>1. PICK w : w = [q EXCEPT !.op = "store"] /\ work' = [work EXCEPT ![c] = w]
        BY <2>2 DEF Step
      <3>2. w \in ExportTask /\ w.op = "store" /\ w.x = q.x /\ w.j = q.j
        BY <2>1, <3>1 DEF ExportTask
      <3>3. UNCHANGED <<exports, jobs, s3>>
        BY <1>1, <2>2 DEF RenderBoard
      <3>4. ExportsGrow /\ ReadyHasPdf'
        BY <1>0, <3>3, ExportLens DEF ExportsGrow, ExportRows, ReadyHasPdf
      <3>5. work'[c] = w
        BY <3>1 DEF ExportInv
      <3>6. ExportFits(c)'
        BY <2>1, <3>2, <3>3, <3>5 DEF ExportFits
      <3> QED
        BY <3>1, <3>4, <3>6, ExportAtSlot
    <2>3. CASE Set(q.x, "failed") /\ FinishOrRetry(q.j) /\ End(c)
      <3>1. JobMoves(q.j)
        BY <1>0, <2>1, <2>3, JobStep
      <3>2. "failed" \in ExportStatuses \ {"ready"}
        BY DEF ExportStatuses
      <3>3. PICK row \in ChatExportRow \cup BoardExportRow :
              /\ row.kind = exports[q.x].kind /\ exports' = [exports EXCEPT ![q.x] = row]
              /\ row.kind = "chat" => /\ row.status = "ready" => <<q.x, "pdf">> \in s3
                                      /\ row.zip => <<q.x, "zip">> \in s3
        BY <1>0, <2>1, <2>3, <3>2, NewStatus
      <3>4. UNCHANGED s3
        BY <1>1 DEF RenderBoard
      <3>5. ExportsGrow /\ ReadyHasPdf'
        BY <2>1, <3>1, <3>3, <3>4, RowChange DEF JobMoves
      <3> QED
        BY <2>3, <3>5, EndExport
    <2> QED
      BY <1>1, <2>2, <2>3 DEF RenderBoard
  <1>2. CASE MarkBoardReady(c)
    <2>1. /\ q \in ExportTask /\ q.op = "store" /\ q.x \in 1..Len(exports) /\ q.j \in 1..Len(jobs)
          /\ exports[q.x].kind = "board"
      BY <1>2, InHand DEF MarkBoardReady
    <2>2. PICK row : /\ row = [exports[q.x] EXCEPT !.status = "ready", !.pdf = TRUE]
                     /\ exports' = [exports EXCEPT ![q.x] = row]
      BY <1>2 DEF MarkBoardReady
    <2>3. exports[q.x] \in ChatExportRow \cup BoardExportRow
      BY <1>0, <2>1 DEF ExportRows
    <2>4. row \in BoardExportRow /\ row.kind = "board"
      BY <2>1, <2>2, <2>3 DEF ChatExportRow, BoardExportRow, ExportStatuses
    <2>5. JobMoves(q.j) /\ UNCHANGED s3 /\ End(c)
      BY <1>0, <1>2, <2>1, JobStep DEF MarkBoardReady
    <2>6. ExportsGrow /\ ReadyHasPdf'
      BY <2>1, <2>2, <2>4, <2>5, RowChange DEF JobMoves
    <2> QED
      BY <2>5, <2>6, EndExport
  <1> QED
    BY <1>1, <1>2

\* A message is delivered again; a delivery may go on although it was.
LEMMA RedeliverStep ==
    ASSUME ExportInv, NEW c \in Slots, Redeliver(c)
    PROVE  ExportInv'
  <1>1. ExportRows /\ ReadyHasPdf /\ Len(exports) \in Nat /\ Len(jobs) \in Nat
    BY ExportLens DEF ExportInv
  <1>2. PICK j \in 1..Len(jobs) : j = work[c].j
    BY DEF Redeliver, ExportInv, ExportFits
  <1>3. jobs[j] \in ExportJob
    BY <1>1 DEF ExportRows
  <1>4. PICK lost, again : /\ lost = [jobs[j] EXCEPT !.state = "lost"]
                           /\ again = [jobs[j] EXCEPT !.state = "queued"]
    OBVIOUS
  <1>5. lost \in ExportJob /\ again \in ExportJob /\ lost.x = jobs[j].x /\ again.x = jobs[j].x
    BY <1>3, <1>4 DEF ExportJob
  <1>6. jobs' = Append([jobs EXCEPT ![j] = lost], again)
    BY <1>2, <1>4 DEF Redeliver
  <1>7. PICK js : js = [jobs EXCEPT ![j] = lost]
    OBVIOUS
  <1>8. /\ js \in Seq(ExportJob) /\ Len(js) = Len(jobs)
        /\ \A i \in 1..Len(js) : js[i].x \in 1..Len(exports)
    BY <1>1, <1>5, <1>7 DEF ExportRows
  <1>9. /\ jobs' \in Seq(ExportJob) /\ Len(jobs) <= Len(jobs')
        /\ \A i \in 1..Len(jobs') : jobs'[i].x \in 1..Len(exports)
    <2>1. jobs[j].x \in 1..Len(exports)
      BY <1>1 DEF ExportRows
    <2> QED
      BY <1>1, <1>5, <1>6, <1>7, <1>8, <2>1
  <1>10. ExportsGrow /\ ReadyHasPdf'
    BY <1>9, JobsChange DEF Redeliver
  <1>11. CASE End(c)
    BY <1>10, <1>11, EndExport
  <1>12. CASE UNCHANGED slotVars
    BY <1>10, <1>12, ExportAtOnce DEF slotVars
  <1> QED
    BY <1>11, <1>12 DEF Redeliver

LEMMA ExportSteps == ASSUME ExportInv, ExportNext \/ UNCHANGED <<exportVars, work>>
                     PROVE  ExportInv'
  <1>1. ASSUME NEW kind \in ExportKinds, RequestExport(kind) PROVE ExportInv'
    BY <1>1, RequestExportStep
  <1>2. ASSUME NEW c \in Slots,
               FetchChat(c) \/ UploadPdf(c) \/ UploadZip(c) \/ MarkReady(c)
        PROVE  ExportInv'
    BY <1>2, ChatExportStep
  <1>3. ASSUME NEW c \in Slots, RenderBoard(c) \/ MarkBoardReady(c) PROVE ExportInv'
    BY <1>3, BoardExportStep
  <1>4. ASSUME NEW c \in Slots, Redeliver(c) PROVE ExportInv'
    BY <1>4, RedeliverStep
  <1>5. ASSUME NEW c \in Slots, NEW j \in 1..Len(jobs),
               StartChatExport(c, j) \/ StartBoardExport(c, j)
        PROVE  ExportInv'
    BY <1>5, StartStep
  <1>6. ASSUME UNCHANGED <<exportVars, work>> \/ \E x \in 1..Len(exports) : LockExpires(x)
        PROVE  ExportInv'
    <2>1. UNCHANGED <<exports, jobs, s3, work>>
      BY <1>6 DEF LockExpires, exportVars, slotVars
    <2>2. ExportRows /\ ReadyHasPdf
      BY DEF ExportInv
    <2>3. ExportsGrow /\ ReadyHasPdf'
      BY <2>1, <2>2, ExportLens DEF ExportsGrow, ExportRows, ReadyHasPdf
    <2> QED
      BY <2>1, <2>3, ExportAtOnce
  <1> QED
    BY <1>1, <1>2, <1>3, <1>4, <1>5, <1>6 DEF ExportNext

-----------------------------------------------------------------------------
(* Two of a finite set *)

LEMMA TwoCount ==
    ASSUME NEW S, IsFiniteSet(S)
    PROVE  Cardinality(S) >= 2 <=> \E u, v \in S : u # v
  <1>1. ASSUME NEW u \in S, NEW v \in S, u # v PROVE Cardinality(S) >= 2
    <2>1. IsFiniteSet({u, v}) /\ Cardinality({u, v}) = 2
      <3>1. IsFiniteSet({u}) /\ Cardinality({u}) = 1
        BY FS_Singleton
      <3>2. v \notin {u} /\ {u} \cup {v} = {u, v}
        BY <1>1
      <3>3. IsFiniteSet({u} \cup {v}) /\ Cardinality({u} \cup {v}) = Cardinality({u}) + 1
        BY <3>1, <3>2, FS_AddElement
      <3> QED
        BY <3>1, <3>2, <3>3
    <2>2. Cardinality({u, v}) <= Cardinality(S)
      BY <1>1, FS_Subset
    <2>3. Cardinality(S) \in Nat
      BY FS_CardinalityType
    <2> QED
      BY <2>1, <2>2, <2>3
  <1>2. ASSUME \A u, v \in S : u = v PROVE ~(Cardinality(S) >= 2)
    <2>1. CASE S = {}
      BY <2>1, FS_EmptySet
    <2>2. ASSUME NEW u \in S PROVE ~(Cardinality(S) >= 2)
      <3>1. S = {u}
        BY <1>2
      <3>2. Cardinality({u}) = 1
        BY FS_Singleton
      <3> QED
        BY <3>1, <3>2
    <2> QED
      BY <2>1, <2>2
  <1> QED
    BY <1>1, <1>2

-----------------------------------------------------------------------------
(* Mockups *)

SaidTwice(k) == \E u, v \in Parties : u # v /\ <<k, u>> \in said /\ <<k, v>> \in said

\* A request that approves is not the one who asked.
ConsentFits(c) == work[c] # None =>
    LET q == work[c]
    IN
    /\ q.op \in {"approve", "bill", "make", "ask", "switch"}
    /\ q.op \in {"approve", "bill", "make"} =>
          /\ q \in [op : {"approve", "bill", "make"}, u : Parties, k : Nat]
          /\ q.k \in 1..Len(proposals) /\ proposals[q.k].by # q.u
    /\ q.op = "ask" => q.u \in Parties /\ q.life \in Lifespans
    /\ q.op = "switch" => q.i \in 1..Len(mockups)

ConsentRows == /\ today \in 0..MaxDays /\ proposals \in Seq(ProposalRow)
               /\ mockups \in Seq(MockupRow)

\* The inductive invariant of the mockups.  An approval is written from a
\* read that may be stale, by id and whatever the row says by then; what
\* stays true of the row is who asked.
ConsentInv == /\ ConsentRows
              /\ \A k \in 1..Len(proposals) : /\ <<k, proposals[k].by>> \in said
                                              /\ proposals[k].status = "approved" => SaidTwice(k)
              /\ \A i \in 1..Len(mockups) : /\ mockups[i].for \in 1..Len(proposals)
                                            /\ proposals[mockups[i].for].status = "approved"
              /\ \A c \in Slots : ConsentFits(c)
              /\ work = [c \in Slots |-> work[c]]

LEMMA ConsentLens == ASSUME ConsentRows
                     PROVE  Len(proposals) \in Nat /\ Len(mockups) \in Nat /\ today \in Nat
  BY ConsentAssumption DEF ConsentRows

\* Proposals keep who asked and what was approved; a new one is its asker's.
ProposalsGrow ==
    /\ proposals' \in Seq(ProposalRow) /\ Len(proposals) <= Len(proposals') /\ said \subseteq said'
    /\ \A k \in 1..Len(proposals) :
          /\ proposals'[k].by = proposals[k].by
          /\ proposals[k].status = "approved" => proposals'[k].status = "approved"
          /\ proposals'[k].status = "approved" => proposals[k].status = "approved" \/ SaidTwice(k)'
    /\ \A k \in 1..Len(proposals') : k > Len(proposals) =>
          <<k, proposals'[k].by>> \in said' /\ proposals'[k].status # "approved"

MockupsGrow ==
    /\ mockups' \in Seq(MockupRow) /\ Len(mockups) <= Len(mockups')
    /\ \A i \in 1..Len(mockups') :
          \/ i \in 1..Len(mockups) /\ mockups'[i].for = mockups[i].for
          \/ /\ mockups'[i].for \in 1..Len(proposals)
             /\ proposals'[mockups'[i].for].status = "approved"

LEMMA ConsentFrame ==
    ASSUME ConsentInv, ProposalsGrow, MockupsGrow, today' \in 0..MaxDays,
           work' = [d \in Slots |-> work'[d]],
           \A d \in Slots : work'[d] = work[d] \/ ConsentFits(d)'
    PROVE  ConsentInv'
  <1>0. Len(proposals) \in Nat /\ Len(mockups) \in Nat /\ Len(proposals') \in Nat
    BY ConsentLens DEF ConsentInv, ProposalsGrow
  <1>1. ConsentRows'
    BY DEF ProposalsGrow, MockupsGrow, ConsentRows
  <1>2. ASSUME NEW k \in 1..Len(proposals')
        PROVE  /\ <<k, proposals'[k].by>> \in said'
               /\ proposals'[k].status = "approved" => SaidTwice(k)'
    <2>1. CASE k \in 1..Len(proposals)
      <3>1. <<k, proposals[k].by>> \in said /\ (proposals[k].status = "approved" => SaidTwice(k))
        BY <2>1 DEF ConsentInv
      <3>2. SaidTwice(k) => SaidTwice(k)'
        BY DEF ProposalsGrow, SaidTwice
      <3> QED
        BY <2>1, <3>1, <3>2 DEF ProposalsGrow
    <2>2. CASE k > Len(proposals)
      BY <2>2 DEF ProposalsGrow
    <2> QED
      BY <1>0, <2>1, <2>2
  <1>3. ASSUME NEW i \in 1..Len(mockups')
        PROVE  /\ mockups'[i].for \in 1..Len(proposals')
               /\ proposals'[mockups'[i].for].status = "approved"
    <2>1. CASE i \in 1..Len(mockups) /\ mockups'[i].for = mockups[i].for
      <3>1. mockups[i].for \in 1..Len(proposals) /\ proposals[mockups[i].for].status = "approved"
        BY <2>1 DEF ConsentInv
      <3> QED
        BY <1>0, <2>1, <3>1 DEF ProposalsGrow
    <2>2. CASE mockups'[i].for \in 1..Len(proposals)
               /\ proposals'[mockups'[i].for].status = "approved"
      BY <1>0, <2>2 DEF ProposalsGrow
    <2> QED
      BY <2>1, <2>2 DEF MockupsGrow
  <1>4. ASSUME NEW d \in Slots PROVE ConsentFits(d)'
    <2>1. CASE ConsentFits(d)'
      BY <2>1
    <2>2. CASE work'[d] = work[d]
      <3>1. ConsentFits(d) /\ work'[d] = work[d]
        BY <2>2 DEF ConsentInv
      <3>2. PICK q : q = work[d]
        OBVIOUS
      <3>3. CASE q # None /\ q.op \in {"approve", "bill", "make"}
        <4>1. /\ q \in [op : {"approve", "bill", "make"}, u : Parties, k : Nat]
              /\ q.k \in 1..Len(proposals) /\ proposals[q.k].by # q.u
          BY <3>1, <3>2, <3>3 DEF ConsentFits
        <4>2. q.k \in 1..Len(proposals') /\ proposals'[q.k].by # q.u
          BY <1>0, <4>1 DEF ProposalsGrow
        <4> QED
          BY <3>1, <3>2, <3>3, <4>1, <4>2 DEF ConsentFits
      <3>4. CASE q = None \/ q.op \notin {"approve", "bill", "make"}
        <4>1. Len(mockups') \in Nat /\ Len(mockups) <= Len(mockups')
          BY DEF MockupsGrow
        <4>2. q # None /\ q.op = "switch" => q.i \in 1..Len(mockups')
          BY <1>0, <3>1, <3>2, <4>1 DEF ConsentFits
        <4> QED
          BY <3>1, <3>2, <3>4, <4>2 DEF ConsentFits
      <3> QED
        BY <3>3, <3>4
    <2> QED
      BY <2>1, <2>2
  <1> QED
    BY <1>1, <1>2, <1>3, <1>4 DEF ConsentInv

\* What a step leaves alone.
LEMMA ProposalsStay ==
    ASSUME ConsentInv, UNCHANGED <<proposals, said>> PROVE ProposalsGrow
  <1>1. Len(proposals) \in Nat
    BY ConsentLens DEF ConsentInv
  <1> QED
    BY <1>1 DEF ConsentInv, ConsentRows, ProposalsGrow

LEMMA MockupsStay == ASSUME ConsentInv, UNCHANGED mockups PROVE MockupsGrow
  <1>1. mockups \in Seq(MockupRow) /\ Len(mockups) \in Nat
    BY ConsentLens DEF ConsentInv, ConsentRows
  <1> QED
    BY <1>1 DEF MockupsGrow

\* A request ends, or writes nothing of its own.
LEMMA ConsentDone ==
    ASSUME ConsentInv, ProposalsGrow, MockupsGrow, today' \in 0..MaxDays,
           UNCHANGED work \/ \E c \in Slots : End(c)
    PROVE  ConsentInv'
  <1>1. /\ work' = [d \in Slots |-> work'[d]]
        /\ \A d \in Slots : work'[d] = work[d] \/ work'[d] = None
    BY DEF ConsentInv, End
  <1>2. \A d \in Slots : work'[d] = work[d] \/ ConsentFits(d)'
    BY <1>1 DEF ConsentFits
  <1> QED
    BY <1>1, <1>2, ConsentFrame

\* A request moves on, and the tables are as they were.
LEMMA ConsentMoves ==
    ASSUME ConsentInv, UNCHANGED consentVars, NEW c \in Slots, NEW w,
           work' = [work EXCEPT ![c] = w], ConsentFits(c)'
    PROVE  ConsentInv'
  <1>1. ProposalsGrow /\ MockupsGrow /\ today' \in 0..MaxDays
    BY ProposalsStay, MockupsStay DEF consentVars, ConsentInv, ConsentRows
  <1>2. /\ work' = [d \in Slots |-> work'[d]]
        /\ \A d \in Slots : work'[d] = work[d] \/ ConsentFits(d)'
    BY DEF ConsentInv
  <1> QED
    BY <1>1, <1>2, ConsentFrame

LEMMA ReadConsentStep ==
    ASSUME ConsentInv, NEW c \in Slots, NEW u \in Parties, ReadConsent(c, u)
    PROVE  ConsentInv'
  <1>0. Len(proposals) \in Nat /\ work = [d \in Slots |-> work[d]]
    BY ConsentLens DEF ConsentInv
  <1>1. UNCHANGED consentVars
    BY DEF ReadConsent
  <1>2. ASSUME NEW k \in Current, Approves(k, u), Begin(c, [op |-> "approve", u |-> u, k |-> k])
        PROVE  ConsentInv'
    <2>1. k \in 1..Len(proposals) /\ proposals[k].by # u
      BY <1>2 DEF Current, Approves
    <2>2. PICK w : w = [op |-> "approve", u |-> u, k |-> k] /\ work' = [work EXCEPT ![c] = w]
      BY <1>2 DEF Begin
    <2>3. w \in [op : {"approve", "bill", "make"}, u : Parties, k : Nat]
      BY <1>0, <2>1, <2>2
    <2>4. ConsentFits(c)'
      BY <1>0, <1>1, <2>1, <2>2, <2>3 DEF ConsentFits, consentVars
    <2> QED
      BY <1>1, <2>2, <2>4, ConsentMoves
  <1>3. CASE AtOnce
    <2>1. ProposalsGrow /\ MockupsGrow /\ today' \in 0..MaxDays
      BY <1>1, ProposalsStay, MockupsStay DEF consentVars, ConsentInv, ConsentRows
    <2> QED
      BY <1>3, <2>1, ConsentDone DEF AtOnce
  <1>4. ASSUME NEW life \in Lifespans, Begin(c, [op |-> "ask", u |-> u, life |-> life])
        PROVE  ConsentInv'
    <2>1. PICK w : w = [op |-> "ask", u |-> u, life |-> life] /\ work' = [work EXCEPT ![c] = w]
      BY <1>4 DEF Begin
    <2>2. ConsentFits(c)'
      BY <1>0, <2>1 DEF ConsentFits
    <2> QED
      BY <1>1, <2>1, <2>2, ConsentMoves
  <1> QED
    BY <1>2, <1>3, <1>4 DEF ReadConsent

LEMMA AskStep ==
    ASSUME ConsentInv, NEW c \in Slots, Ask(c)
    PROVE  ConsentInv'
  <1>0. /\ Len(proposals) \in Nat /\ proposals \in Seq(ProposalRow) /\ today \in 0..MaxDays
        /\ End(c) /\ UNCHANGED <<today, mockups>>
    BY ConsentLens DEF ConsentInv, ConsentRows, Ask
  <1>1. MockupsGrow
    BY <1>0, MockupsStay
  <1>2. CASE UNCHANGED <<proposals, said>>
    BY <1>0, <1>1, <1>2, ProposalsStay, ConsentDone
  <1>3. CASE ~UNCHANGED <<proposals, said>>
    <2>1. PICK u, life : u = work[c].u /\ life = work[c].life
      OBVIOUS
    <2>2. u \in Parties /\ life \in Lifespans
      BY <2>1 DEF ConsentInv, ConsentFits, Ask, Doing
    <2>3. PICK row : row = [by |-> u, status |-> "pending_b", born |-> today, life |-> life]
      OBVIOUS
    <2>4. row \in ProposalRow /\ row.by = u /\ row.status = "pending_b"
      BY <1>0, <2>2, <2>3 DEF ProposalRow
    <2>5. proposals' = Append(proposals, row) /\ said' = said \cup {<<Len(proposals) + 1, u>>}
      BY <1>3, <2>1, <2>3 DEF Ask
    <2>6. /\ proposals' \in Seq(ProposalRow) /\ Len(proposals') = Len(proposals) + 1
          /\ \A k \in 1..Len(proposals) : proposals'[k] = proposals[k]
          /\ proposals'[Len(proposals) + 1] = row
      BY <1>0, <2>4, <2>5
    <2>7. ASSUME NEW k \in 1..Len(proposals'), k > Len(proposals)
          PROVE  <<k, proposals'[k].by>> \in said' /\ proposals'[k].status # "approved"
      <3>1. k = Len(proposals) + 1
        BY <1>0, <2>6, <2>7
      <3> QED
        BY <2>4, <2>5, <2>6, <3>1
    <2>8. ProposalsGrow
      BY <1>0, <2>5, <2>6, <2>7 DEF ProposalsGrow
    <2> QED
      BY <1>0, <1>1, <2>8, ConsentDone
  <1> QED
    BY <1>2, <1>3

\* What an approval in its slot knows.
LEMMA Approver ==
    ASSUME ConsentInv, NEW c \in Slots, NEW op \in {"approve", "bill", "make"}, Doing(c, op)
    PROVE  /\ work[c] \in [op : {"approve", "bill", "make"}, u : Parties, k : Nat]
           /\ work[c].k \in 1..Len(proposals) /\ proposals[work[c].k].by # work[c].u
  BY DEF ConsentInv, ConsentFits, Doing

\* The approval is committed: the one who asked and another have agreed.
LEMMA ApprovalGrows ==
    ASSUME ConsentInv, NEW k \in 1..Len(proposals), NEW u \in Parties, proposals[k].by # u,
           proposals' = [proposals EXCEPT ![k].status = "approved"],
           said' = said \cup {<<k, u>>}
    PROVE  ProposalsGrow /\ proposals'[k].status = "approved"
  <1>0. proposals \in Seq(ProposalRow) /\ Len(proposals) \in Nat
    BY ConsentLens DEF ConsentInv, ConsentRows
  <1>1. PICK row : row = [proposals[k] EXCEPT !.status = "approved"]
    OBVIOUS
  <1>2. proposals[k] \in ProposalRow
    BY <1>0
  <1>3. row \in ProposalRow /\ row.by = proposals[k].by /\ row.status = "approved"
    BY <1>1, <1>2 DEF ProposalRow
  <1>4. /\ proposals' \in Seq(ProposalRow) /\ Len(proposals') = Len(proposals)
        /\ \A i \in 1..Len(proposals) : proposals'[i] = IF i = k THEN row ELSE proposals[i]
    BY <1>0, <1>1, <1>3
  <1>5. SaidTwice(k)'
    <2>1. <<k, proposals[k].by>> \in said /\ proposals[k].by \in Parties
      BY <1>2 DEF ConsentInv, ProposalRow
    <2> QED
      BY <2>1 DEF SaidTwice
  <1> QED
    BY <1>0, <1>3, <1>4, <1>5 DEF ProposalsGrow

LEMMA ApproveStep ==
    ASSUME ConsentInv, NEW c \in Slots, FlushApproval(c) \/ Bill(c) \/ MakeMockup(c)
    PROVE  ConsentInv'
  <1>0. PICK op \in {"approve", "bill", "make"} : Doing(c, op)
    BY DEF FlushApproval, Bill, MakeMockup
  <1>1. PICK q : q = work[c]
    OBVIOUS
  <1>2. /\ q \in [op : {"approve", "bill", "make"}, u : Parties, k : Nat]
        /\ q.k \in 1..Len(proposals) /\ proposals[q.k].by # q.u
    BY <1>0, <1>1, Approver
  <1>3. /\ today \in 0..MaxDays /\ mockups \in Seq(MockupRow) /\ work = [d \in Slots |-> work[d]]
        /\ Len(mockups) \in Nat /\ Len(proposals) \in Nat
    BY ConsentLens DEF ConsentInv, ConsentRows
  <1>4. CASE UNCHANGED consentVars /\ End(c)
    <2>1. ProposalsGrow /\ MockupsGrow /\ today' \in 0..MaxDays
      BY <1>3, <1>4, ProposalsStay, MockupsStay DEF consentVars
    <2> QED
      BY <1>4, <2>1, ConsentDone
  <1>5. ASSUME NEW op2 \in {"bill", "make"}, UNCHANGED consentVars, Step(c, [q EXCEPT !.op = op2])
        PROVE  ConsentInv'
    <2>1. PICK w : w = [q EXCEPT !.op = op2] /\ work' = [work EXCEPT ![c] = w]
      BY <1>5 DEF Step
    <2>2. w \in [op : {"approve", "bill", "make"}, u : Parties, k : Nat] /\ w.u = q.u /\ w.k = q.k
      BY <1>2, <2>1
    <2>3. ConsentFits(c)'
      BY <1>2, <1>3, <1>5, <2>1, <2>2 DEF ConsentFits, consentVars
    <2> QED
      BY <1>5, <2>1, <2>3, ConsentMoves
  <1>6. CASE Approved(q) /\ End(c) /\ UNCHANGED <<today, mockups>>
    <2>1. ProposalsGrow
      BY <1>2, <1>6, ApprovalGrows DEF Approved
    <2> QED
      BY <1>3, <1>6, <2>1, MockupsStay, ConsentDone
  <1>7. ASSUME Approved(q), End(c), UNCHANGED today,
               mockups' = Append(mockups, [for |-> q.k, pending |-> TRUE, stored |-> FALSE,
                                           active |-> TRUE, until |-> None])
        PROVE  ConsentInv'
    <2>1. ProposalsGrow /\ proposals'[q.k].status = "approved"
      BY <1>2, <1>7, ApprovalGrows DEF Approved
    <2>2. PICK row : row = [for |-> q.k, pending |-> TRUE, stored |-> FALSE,
                            active |-> TRUE, until |-> None]
      OBVIOUS
    <2>3. row \in MockupRow /\ row.for = q.k
      BY <1>2, <2>2 DEF MockupRow
    <2>4. /\ mockups' \in Seq(MockupRow) /\ Len(mockups') = Len(mockups) + 1
          /\ \A i \in 1..Len(mockups') : mockups'[i] = IF i <= Len(mockups) THEN mockups[i] ELSE row
      BY <1>3, <1>7, <2>2, <2>3
    <2>5. MockupsGrow
      BY <1>2, <1>3, <2>1, <2>3, <2>4 DEF MockupsGrow
    <2> QED
      BY <1>3, <1>7, <2>1, <2>5, ConsentDone
  <1> QED
    BY <1>1, <1>4, <1>5, <1>6, <1>7 DEF FlushApproval, Bill, MakeMockup

\* The generation and the hourly job write columns of a mockup.
LEMMA MockupStep ==
    ASSUME ConsentInv, NEW i \in 1..Len(mockups), NEW row \in MockupRow, row.for = mockups[i].for,
           mockups' = [mockups EXCEPT ![i] = row], UNCHANGED <<today, proposals, said>>,
           UNCHANGED work \/ \E c \in Slots : End(c)
    PROVE  ConsentInv'
  <1>1. today \in 0..MaxDays /\ mockups \in Seq(MockupRow) /\ Len(mockups) \in Nat
    BY ConsentLens DEF ConsentInv, ConsentRows
  <1>2. MockupsGrow
    BY <1>1 DEF MockupsGrow
  <1> QED
    BY <1>1, <1>2, ProposalsStay, ConsentDone

LEMMA MockupSteps ==
    ASSUME ConsentInv,
           \/ \E i \in 1..Len(mockups) : StartMockup(i) \/ StoreMockup(i) \/ FailMockup(i)
           \/ \E c \in Slots : SwitchOff(c)
    PROVE  ConsentInv'
  <1>0. /\ mockups \in Seq(MockupRow) /\ Len(mockups) \in Nat /\ today \in Nat
        /\ proposals \in Seq(ProposalRow)
    BY ConsentLens DEF ConsentInv, ConsentRows
  <1>1. ASSUME NEW i \in 1..Len(mockups), StartMockup(i) \/ StoreMockup(i) \/ FailMockup(i)
        PROVE  ConsentInv'
    <2>1. mockups[i] \in MockupRow
      BY <1>0
    <2>2. PICK life : life = proposals[mockups[i].for].life
      OBVIOUS
    <2>3. life \in Nat
      <3>1. proposals[mockups[i].for] \in ProposalRow
        BY <1>0 DEF ConsentInv
      <3> QED
        BY <2>2, <3>1, ConsentAssumption DEF ProposalRow
    <2>4. PICK row \in MockupRow : row.for = mockups[i].for /\ mockups' = [mockups EXCEPT ![i] = row]
      <3>1. CASE StartMockup(i)
        BY <2>1, <3>1 DEF StartMockup, MockupRow
      <3>2. CASE StoreMockup(i)
        <4>1. PICK until : until = today + life
          OBVIOUS
        <4>2. until \in Nat
          BY <1>0, <2>3, <4>1
        <4>3. mockups' = [mockups EXCEPT ![i].stored = TRUE, ![i].active = TRUE, ![i].until = until]
          BY <2>2, <3>2, <4>1 DEF StoreMockup
        <4>4. PICK row : row = [mockups[i] EXCEPT !.stored = TRUE, !.active = TRUE, !.until = until]
          OBVIOUS
        <4>5. row \in MockupRow /\ row.for = mockups[i].for
          BY <2>1, <4>2, <4>4 DEF MockupRow
        <4>6. mockups' = [mockups EXCEPT ![i] = row]
          BY <1>0, <4>3, <4>4
        <4> QED
          BY <4>5, <4>6
      <3>3. CASE FailMockup(i)
        BY <2>1, <3>3 DEF FailMockup, MockupRow
      <3> QED
        BY <1>1, <3>1, <3>2, <3>3
    <2>5. UNCHANGED <<work, today, proposals, said>>
      BY <1>1 DEF StartMockup, StoreMockup, FailMockup, slotVars
    <2> QED
      BY <2>4, <2>5, MockupStep
  <1>2. ASSUME NEW c \in Slots, SwitchOff(c) PROVE ConsentInv'
    <2>1. PICK i \in 1..Len(mockups) : i = work[c].i
      BY <1>2 DEF SwitchOff, Doing, ConsentInv, ConsentFits
    <2>2. mockups[i] \in MockupRow
      BY <1>0
    <2>3. PICK row \in MockupRow : row.for = mockups[i].for /\ mockups' = [mockups EXCEPT ![i] = row]
      BY <1>2, <2>1, <2>2 DEF SwitchOff, MockupRow
    <2>4. UNCHANGED <<today, proposals, said>> /\ End(c)
      BY <1>2 DEF SwitchOff
    <2> QED
      BY <2>3, <2>4, MockupStep
  <1> QED
    BY <1>1, <1>2

LEMMA ExpireConsentsStep == ASSUME ConsentInv, ExpireConsents PROVE ConsentInv'
  <1>0. /\ proposals \in Seq(ProposalRow) /\ Len(proposals) \in Nat /\ today \in 0..MaxDays
        /\ UNCHANGED <<work, today, mockups, said>>
    BY ConsentLens DEF ConsentInv, ConsentRows, ExpireConsents, slotVars
  <1>1. PICK due : /\ due = {k \in 1..Len(proposals) : Overdue(proposals[k])}
                   /\ proposals' = [k \in 1..Len(proposals) |->
                                      IF k \in due THEN [proposals[k] EXCEPT !.status = "expired"]
                                                   ELSE proposals[k]]
    BY DEF ExpireConsents
  <1>2. ASSUME NEW k \in 1..Len(proposals)
        PROVE  /\ proposals'[k] \in ProposalRow /\ proposals'[k].by = proposals[k].by
               /\ proposals[k].status = "approved" <=> proposals'[k].status = "approved"
    <2>1. proposals[k] \in ProposalRow
      BY <1>0
    <2>2. CASE k \in due
      <3>1. proposals[k].status = "pending_b"
        BY <1>1, <2>2 DEF Overdue
      <3>2. proposals'[k] = [proposals[k] EXCEPT !.status = "expired"]
        BY <1>1, <2>2
      <3> QED
        BY <2>1, <3>1, <3>2 DEF ProposalRow
    <2>3. CASE k \notin due
      BY <1>1, <2>1, <2>3
    <2> QED
      BY <2>2, <2>3
  <1>3. proposals' \in Seq(ProposalRow) /\ Len(proposals') = Len(proposals)
    <2>1. DOMAIN proposals' = 1..Len(proposals)
      BY <1>1
    <2>2. proposals' \in [1..Len(proposals) -> ProposalRow]
      BY <1>1, <1>2
    <2> QED
      BY <1>0, <2>1, <2>2
  <1>4. ProposalsGrow
    BY <1>0, <1>2, <1>3 DEF ProposalsGrow
  <1> QED
    BY <1>0, <1>4, MockupsStay, ConsentDone

LEMMA ConsentSteps == ASSUME ConsentInv, ConsentNext \/ UNCHANGED <<consentVars, work>>
                      PROVE  ConsentInv'
  <1>0. today \in 0..MaxDays /\ today \in Nat /\ work = [d \in Slots |-> work[d]]
    BY ConsentLens DEF ConsentInv, ConsentRows
  <1>1. ASSUME NEW c \in Slots, NEW u \in Parties, ReadConsent(c, u) PROVE ConsentInv'
    BY <1>1, ReadConsentStep
  <1>2. ASSUME NEW c \in Slots, Ask(c) PROVE ConsentInv'
    BY <1>2, AskStep
  <1>3. ASSUME NEW c \in Slots, FlushApproval(c) \/ Bill(c) \/ MakeMockup(c) PROVE ConsentInv'
    BY <1>3, ApproveStep
  <1>4. ASSUME NEW c \in Slots, ReadExpired(c) PROVE ConsentInv'
    <2>1. PICK i \in 1..Len(mockups) : Begin(c, [op |-> "switch", i |-> i])
      BY <1>4 DEF ReadExpired
    <2>2. PICK w : w = [op |-> "switch", i |-> i] /\ work' = [work EXCEPT ![c] = w]
      BY <2>1 DEF Begin
    <2>3. UNCHANGED consentVars
      BY <1>4 DEF ReadExpired
    <2>4. ConsentFits(c)'
      BY <1>0, <2>2, <2>3 DEF ConsentFits, consentVars
    <2> QED
      BY <2>2, <2>3, <2>4, ConsentMoves
  <1>5. CASE \/ \E i \in 1..Len(mockups) : StartMockup(i) \/ StoreMockup(i) \/ FailMockup(i)
             \/ \E c \in Slots : SwitchOff(c)
    BY <1>5, MockupSteps
  <1>6. CASE ExpireConsents
    BY <1>6, ExpireConsentsStep
  <1>7. CASE NextDay \/ UNCHANGED <<consentVars, work>>
    <2>1. UNCHANGED <<work, proposals, mockups, said>> /\ today' \in 0..MaxDays
      BY <1>0, <1>7, ConsentAssumption DEF NextDay, consentVars, slotVars
    <2> QED
      BY <2>1, ProposalsStay, MockupsStay, ConsentDone
  <1> QED
    BY <1>1, <1>2, <1>3, <1>4, <1>5, <1>6, <1>7 DEF ConsentNext

\* What the invariant says of a mockup is what the property counts.
LEMMA MockupAgreed ==
    ASSUME ConsentInv, NEW i \in 1..Len(mockups)
    PROVE  /\ proposals[mockups[i].for].status = "approved"
           /\ Cardinality({p \in Parties : <<mockups[i].for, p>> \in said}) >= 2
  <1>1. mockups[i].for \in 1..Len(proposals) /\ proposals[mockups[i].for].status = "approved"
    BY DEF ConsentInv
  <1>2. SaidTwice(mockups[i].for)
    BY <1>1 DEF ConsentInv
  <1>3. IsFiniteSet({p \in Parties : <<mockups[i].for, p>> \in said})
    BY ConsentAssumption, FS_Subset
  <1> QED
    BY <1>1, <1>2, <1>3, TwoCount DEF SaidTwice

-----------------------------------------------------------------------------
(* The whiteboard *)

Sends(u, k) == pen[u] # None /\ pen[u].at = "send" /\ pen[u].op = k

\* The sending of k has not passed the place of t in the list.
Ahead(u, k, t) == /\ Sends(u, k)
                  /\ \A i \in 1..Len(conns) : conns[i] = t => pen[u].next <= i

Reached(t, k) == \/ k \in tab[t].live \cup disturbed
                 \/ ops[k].by = t
                 \/ \E u \in Tabs : Ahead(u, k, t)

\* What a connected tab has, or is about to get: live after its registration,
\* by the snapshot and the delta before it.
Registered(t) == /\ tab[t].since <= Len(ops)
                 /\ \E i \in 1..Len(conns) : conns[i] = t
                 /\ \A k \in 1..Len(ops) : k > tab[t].since => Reached(t, k)

Hydrated(t) ==
    /\ tab[t].at = "joining" => tab[t].version = None
    /\ tab[t].at = "delta" => tab[t].version \in Nat
    /\ tab[t].at = "live" => \A k \in 1..Len(ops) : k <= tab[t].since =>
          tab[t].version = None \/ k \in tab[t].delta \/ ops[k].lamport <= tab[t].version

TabFits(t) == tab[t] # None => Registered(t) /\ Hydrated(t)

PenFits(u) == pen[u] # None /\ pen[u].at = "send" /\ pen[u].op # None =>
                 pen[u].op \in 1..Len(ops) /\ ops[pen[u].op].by = u

OpRow == [lamport : Nat, by : Tabs]
BoardRows == /\ conns \in Seq(Tabs) /\ ops \in Seq(OpRow)
             /\ lamport \in 0..MaxOps /\ snapshots \subseteq 0..MaxOps
             /\ tab \in [Tabs -> {None} \cup TabRow] /\ pen \in [Tabs -> {None} \cup PenRow]

\* The list holds each connected tab once, and nobody else.
ConnsFit == /\ \A i, j \in 1..Len(conns) : conns[i] = conns[j] => i = j
            /\ \A i \in 1..Len(conns) : tab[conns[i]] # None

\* The inductive invariant of the whiteboard.  The property speaks of live
\* tabs; that it comes to hold is decided while a tab joins, and between the
\* turns of a loop over a list that others change.
BoardInv == /\ BoardRows /\ ConnsFit
            /\ \A t \in Tabs : TabFits(t) /\ PenFits(t)

LEMMA BoardLens ==
    ASSUME BoardRows
    PROVE  /\ Len(conns) \in Nat /\ Len(ops) \in Nat /\ lamport \in Nat /\ MaxOps \in Nat
           /\ \A t \in Tabs : tab[t] # None => tab[t] \in TabRow
           /\ \A u \in Tabs : pen[u] # None => pen[u] \in PenRow
           /\ \A k \in 1..Len(ops) : ops[k] \in OpRow /\ ops[k].lamport \in Nat
           /\ \A i \in 1..Len(conns) : conns[i] \in Tabs
  <1>1. Len(conns) \in Nat /\ Len(ops) \in Nat /\ lamport \in Nat /\ MaxOps \in Nat
    BY BoardAssumption DEF BoardRows
  <1>2. \A k \in 1..Len(ops) : ops[k] \in OpRow /\ ops[k].lamport \in Nat
    <2>1. \A k \in 1..Len(ops) : ops[k] \in OpRow
      BY DEF BoardRows
    <2> QED
      BY <2>1 DEF OpRow
  <1>3. \A i \in 1..Len(conns) : conns[i] \in Tabs
    BY DEF BoardRows
  <1>4. \A t \in Tabs : (tab[t] # None => tab[t] \in TabRow) /\ (pen[t] # None => pen[t] \in PenRow)
    BY DEF BoardRows
  <1> QED
    BY <1>1, <1>2, <1>3, <1>4

\* list.remove, of a list that names nobody twice.
LEMMA RemoveOne ==
    ASSUME NEW S, NEW s \in Seq(S), NEW n \in 1..Len(s),
           \A i, j \in 1..Len(s) : s[i] = s[j] => i = j,
           NEW r, r = RemoveFirst(s, s[n])
    PROVE  /\ r \in Seq(S) /\ Len(r) = Len(s) - 1
           /\ \A i \in 1..Len(r) : r[i] = IF i < n THEN s[i] ELSE s[i + 1]
  <1>1. {i \in 1..Len(s) : s[i] = s[n]} = {n}
    OBVIOUS
  <1>2. SelectInSeq(s, LAMBDA v : v = s[n]) = n
    BY <1>1 DEF SelectInSeq, Min
  <1>3. r = SubSeq(s, 1, n - 1) \o SubSeq(s, n + 1, Len(s))
    BY <1>2 DEF RemoveFirst, RemoveAt
  <1>4. PICK a, b : a = SubSeq(s, 1, n - 1) /\ b = SubSeq(s, n + 1, Len(s))
    OBVIOUS
  <1>5. /\ a \in Seq(S) /\ Len(a) = n - 1 /\ \A i \in 1..n - 1 : a[i] = s[i]
    BY <1>4
  <1>6. /\ b \in Seq(S) /\ Len(b) = Len(s) - n /\ \A i \in 1..Len(s) - n : b[i] = s[n + i]
    BY <1>4
  <1>7. /\ r = a \o b /\ r \in Seq(S) /\ Len(r) = Len(a) + Len(b)
        /\ \A i \in 1..Len(a) + Len(b) : r[i] = IF i <= Len(a) THEN a[i] ELSE b[i - Len(a)]
    <2>1. r = a \o b
      BY <1>3, <1>4
    <2>2. a \in Seq(S) /\ b \in Seq(S)
      BY <1>5, <1>6
    <2>3. /\ a \o b \in Seq(S) /\ Len(a \o b) = Len(a) + Len(b)
          /\ \A i \in 1..Len(a) + Len(b) : (a \o b)[i] = IF i <= Len(a) THEN a[i] ELSE b[i - Len(a)]
      BY <2>2, ConcatProperties
    <2> QED
      BY <2>1, <2>3
  <1>8. n \in Nat /\ Len(s) \in Nat /\ n >= 1 /\ n <= Len(s) /\ Len(r) = Len(s) - 1
    BY <1>5, <1>6, <1>7
  <1>9. ASSUME NEW i \in 1..Len(r) PROVE r[i] = IF i < n THEN s[i] ELSE s[i + 1]
    <2>1. i \in Nat /\ i >= 1 /\ i <= Len(s) - 1 /\ i \in 1..Len(a) + Len(b)
      BY <1>7, <1>8, <1>9
    <2>2. CASE i < n
      <3>1. i \in 1..n - 1 /\ i <= Len(a)
        BY <1>5, <1>8, <2>1, <2>2
      <3> QED
        BY <1>5, <1>7, <2>1, <2>2, <3>1
    <2>3. CASE ~(i < n)
      <3>1. PICK j : j = i - (n - 1)
        OBVIOUS
      <3>2. j \in 1..Len(s) - n /\ n + j = i + 1 /\ ~(i <= Len(a)) /\ j = i - Len(a)
        BY <1>5, <1>8, <2>1, <2>3, <3>1
      <3>3. r[i] = b[j]
        BY <1>7, <2>1, <3>2
      <3>4. b[j] = s[n + j]
        BY <1>6, <3>2
      <3> QED
        BY <2>3, <3>2, <3>3, <3>4
    <2> QED
      BY <2>2, <2>3
  <1> QED
    BY <1>7, <1>8, <1>9

\* A set of versions that is bounded has a last one.
LEMMA LatestIsOne ==
    ASSUME BoardRows PROVE Latest = None \/ Latest \in Nat
  <1>1. CASE snapshots = {}
    BY <1>1 DEF Latest
  <1>2. CASE snapshots # {}
    <2>1. PICK R : R = {ss \in Nat \X Nat : ss[1] < ss[2]}
      OBVIOUS
    <2>2. IsWellFoundedOn(R, Nat)
      BY <2>1, NatLessThanWellFounded DEF OpToRel
    <2>3. PICK T : T = {n \in 0..MaxOps : MaxOps - n \in snapshots}
      OBVIOUS
    <2>4. T \subseteq Nat /\ T # {}
      <3>1. PICK v \in snapshots : TRUE
        BY <1>2
      <3>2. v \in 0..MaxOps /\ MaxOps \in Nat
        BY BoardLens DEF BoardRows
      <3>3. MaxOps - v \in 0..MaxOps /\ MaxOps - (MaxOps - v) = v
        BY <3>2
      <3>4. MaxOps - v \in T
        BY <2>3, <3>1, <3>3
      <3> QED
        BY <2>3, <3>4
    <2>5. PICK m \in T : \A n \in T : ~(<<n, m>> \in R)
      BY <2>2, <2>4, WFMin
    <2>6. MaxOps - m \in snapshots /\ MaxOps - m \in Nat /\ m \in Nat /\ MaxOps \in Nat
      BY <2>3, <2>5, BoardLens DEF BoardRows
    <2>7. ASSUME NEW w \in snapshots PROVE w <= MaxOps - m
      <3>1. w \in 0..MaxOps /\ MaxOps - w \in 0..MaxOps /\ MaxOps - (MaxOps - w) = w
        BY <2>6 DEF BoardRows
      <3>2. MaxOps - w \in T
        BY <2>3, <2>7, <3>1
      <3>3. ~(MaxOps - w < m)
        BY <2>1, <2>4, <2>5, <3>2
      <3> QED
        BY <2>6, <3>1, <3>3
    <2>8. Latest \in snapshots
      BY <1>2, <2>6, <2>7 DEF Latest
    <2> QED
      BY <2>8 DEF BoardRows
  <1> QED
    BY <1>1, <1>2

LEMMA BoardParts ==
    ASSUME BoardInv
    PROVE  /\ BoardRows /\ ConnsFit
           /\ \A t \in Tabs : /\ tab[t] # None => /\ tab[t] \in TabRow /\ tab[t].since \in Nat
                                                  /\ Registered(t) /\ Hydrated(t)
                              /\ PenFits(t) /\ (pen[t] # None => pen[t] \in PenRow)
           /\ Len(conns) \in Nat /\ Len(ops) \in Nat /\ lamport \in Nat /\ MaxOps \in Nat
  <1>1. BoardRows
    BY DEF BoardInv
  <1>2. /\ Len(conns) \in Nat /\ Len(ops) \in Nat /\ lamport \in Nat /\ MaxOps \in Nat
        /\ \A t \in Tabs : tab[t] # None => tab[t] \in TabRow
        /\ \A u \in Tabs : pen[u] # None => pen[u] \in PenRow
    BY <1>1, BoardLens
  <1>3. \A t \in Tabs : tab[t] # None => tab[t].since \in Nat
    BY <1>2 DEF TabRow
  <1> QED
    BY <1>2, <1>3 DEF BoardInv, TabFits

\* The operations and the list stay, and so does who is sending what.
LEMMA QuietStep ==
    ASSUME BoardInv, BoardRows', UNCHANGED <<conns, ops, disturbed>>,
           \A u \in Tabs, k \in 1..Len(ops) : Sends(u, k) => pen'[u] = pen[u],
           \A u \in Tabs : pen'[u] = pen[u] \/ pen'[u] = None \/ pen'[u].at = "store",
           \A t \in Tabs : \/ tab'[t] = tab[t]
                           \/ /\ tab[t] # None /\ tab'[t] # None /\ Hydrated(t)'
                              /\ tab'[t].since = tab[t].since /\ tab'[t].live = tab[t].live
    PROVE  BoardInv'
  <1>0. Len(ops) \in Nat /\ Len(conns) \in Nat
    BY BoardParts
  <1>1. ConnsFit'
    <2>1. \A i \in 1..Len(conns) : conns[i] \in Tabs
      BY BoardParts, BoardLens
    <2> QED
      BY <2>1 DEF BoardInv, ConnsFit
  <1>2. ASSUME NEW t \in Tabs PROVE PenFits(t)'
    <2>1. PenFits(t)
      BY DEF BoardInv
    <2> QED
      BY <2>1 DEF PenFits
  <1>3. ASSUME NEW t \in Tabs, tab'[t] # None PROVE Registered(t)' /\ Hydrated(t)'
    <2>1. tab[t] # None /\ Registered(t) /\ Hydrated(t)
      BY <1>3, BoardParts
    <2>2. tab'[t].since = tab[t].since /\ tab'[t].live = tab[t].live
      OBVIOUS
    <2>3. Hydrated(t)'
      BY <2>1 DEF Hydrated
    <2>4. ASSUME NEW k \in 1..Len(ops), k > tab[t].since PROVE Reached(t, k)'
      <3>1. Reached(t, k)
        BY <2>1, <2>4 DEF Registered
      <3>2. ASSUME NEW u \in Tabs, Ahead(u, k, t) PROVE Ahead(u, k, t)'
        BY <3>2 DEF Ahead, Sends
      <3> QED
        BY <2>2, <3>1, <3>2 DEF Reached
    <2>5. Registered(t)'
      BY <2>1, <2>2, <2>4 DEF Registered
    <2> QED
      BY <2>3, <2>5
  <1> QED
    BY <1>1, <1>2, <1>3 DEF BoardInv, TabFits

LEMMA HydrateStep ==
    ASSUME BoardInv, NEW t \in Tabs, LoadSnapshot(t) \/ LoadDelta(t)
    PROVE  BoardInv'
  <1>1. /\ tab[t] # None /\ UNCHANGED <<conns, lamport, ops, snapshots, pen, disturbed>>
        /\ BoardRows /\ Len(ops) \in Nat /\ tab[t] \in TabRow /\ Hydrated(t)
    BY BoardParts DEF LoadSnapshot, LoadDelta
  <1>2. PICK x \in TabRow : /\ tab' = [tab EXCEPT ![t] = x]
                            /\ x.since = tab[t].since /\ x.live = tab[t].live
                            /\ x.at = "delta" => x.version \in Nat
                            /\ x.at # "joining"
                            /\ x.at = "live" =>
                                 \/ x.version = None
                                 \/ x.version \in Nat /\ x.delta = DeltaOps(x.version)
    <2>1. CASE LoadSnapshot(t) /\ Latest = None
      <3>1. PICK x : x = [tab[t] EXCEPT !.at = "live"]
        OBVIOUS
      <3>2. tab[t].version = None
        BY <1>1, <2>1 DEF LoadSnapshot, Hydrated
      <3>3. /\ x \in TabRow /\ x.since = tab[t].since /\ x.live = tab[t].live
            /\ x.at = "live" /\ x.version = None
        BY <1>1, <3>1, <3>2 DEF TabRow
      <3>4. tab' = [tab EXCEPT ![t] = x]
        BY <2>1, <3>1 DEF LoadSnapshot
      <3> QED
        BY <3>3, <3>4
    <2>2. CASE LoadSnapshot(t) /\ Latest # None
      <3>1. PICK v : v = Latest
        OBVIOUS
      <3>2. v \in Nat
        BY <1>1, <2>2, <3>1, LatestIsOne
      <3>3. PICK x : x = [tab[t] EXCEPT !.at = "delta", !.version = v]
        OBVIOUS
      <3>4. /\ x \in TabRow /\ x.since = tab[t].since /\ x.live = tab[t].live
            /\ x.at = "delta" /\ x.version = v
        BY <1>1, <3>2, <3>3 DEF TabRow
      <3>5. tab' = [tab EXCEPT ![t] = x]
        BY <2>2, <3>1, <3>3 DEF LoadSnapshot
      <3> QED
        BY <3>2, <3>4, <3>5
    <2>3. CASE LoadDelta(t) /\ tab' = [tab EXCEPT ![t].at = "live", ![t].version = None]
      <3>1. PICK x : x = [tab[t] EXCEPT !.at = "live", !.version = None]
        OBVIOUS
      <3>2. /\ x \in TabRow /\ x.since = tab[t].since /\ x.live = tab[t].live
            /\ x.at = "live" /\ x.version = None
        BY <1>1, <3>1 DEF TabRow
      <3>3. tab' = [tab EXCEPT ![t] = x]
        BY <1>1, <2>3, <3>1 DEF BoardRows
      <3> QED
        BY <3>2, <3>3
    <2>4. CASE LoadDelta(t) /\ tab' = [tab EXCEPT ![t].at = "live",
                                                  ![t].delta = DeltaOps(tab[t].version)]
      <3>1. PICK ds : ds = DeltaOps(tab[t].version)
        OBVIOUS
      <3>2. ds \subseteq Nat
        BY <1>1, <3>1 DEF DeltaOps
      <3>3. PICK x : x = [tab[t] EXCEPT !.at = "live", !.delta = ds]
        OBVIOUS
      <3>4. /\ x \in TabRow /\ x.since = tab[t].since /\ x.live = tab[t].live
            /\ x.at = "live" /\ x.version = tab[t].version /\ x.delta = ds
        BY <1>1, <3>2, <3>3 DEF TabRow
      <3>5. tab' = [tab EXCEPT ![t] = x]
        BY <1>1, <2>4, <3>1, <3>3 DEF BoardRows
      <3>6. tab[t].version \in Nat
        BY <1>1, <2>4 DEF LoadDelta, Hydrated
      <3> QED
        BY <3>1, <3>4, <3>5, <3>6
    <2> QED
      BY <2>1, <2>2, <2>3, <2>4 DEF LoadDelta
  <1>3. tab'[t] = x /\ \A s \in Tabs : s # t => tab'[s] = tab[s]
    BY <1>1, <1>2 DEF BoardRows
  <1>4. BoardRows'
    BY <1>1, <1>2 DEF BoardRows
  <1>5. Hydrated(t)'
    <2>1. ASSUME NEW k \in 1..Len(ops), x.at = "live", x.version # None
          PROVE  k \in x.delta \/ ops[k].lamport <= x.version
      <3>1. x.version \in Nat /\ x.delta = DeltaOps(x.version) /\ ops[k].lamport \in Nat
        BY <1>1, <1>2, <2>1, BoardLens
      <3> QED
        BY <3>1 DEF DeltaOps
    <2> QED
      BY <1>1, <1>2, <1>3, <2>1 DEF Hydrated
  <1>6. x # None
    BY BoardAssumption
  <1>7. \A s \in Tabs : \/ tab'[s] = tab[s]
                        \/ /\ tab[s] # None /\ tab'[s] # None /\ Hydrated(s)'
                           /\ tab'[s].since = tab[s].since /\ tab'[s].live = tab[s].live
    BY <1>1, <1>2, <1>3, <1>5, <1>6
  <1>8. UNCHANGED <<conns, ops, disturbed, pen>>
    BY <1>1
  <1> QED
    BY <1>4, <1>7, <1>8, QuietStep

LEMMA DrawStep ==
    ASSUME BoardInv, (\E t \in Tabs : Draw(t)) \/ Snapshot \/ UNCHANGED boardVars
    PROVE  BoardInv'
  <1>0. BoardRows /\ lamport \in Nat /\ MaxOps \in Nat
    BY BoardParts
  <1>1. UNCHANGED <<conns, ops, disturbed, tab>>
    BY DEF Draw, Snapshot, boardVars
  <1>2. ASSUME NEW t \in Tabs, Draw(t) PROVE BoardInv'
    <2>1. PICK p : p = [at |-> "store", lamport |-> lamport + 1]
      OBVIOUS
    <2>2. p \in PenRow /\ p.at = "store"
      BY <1>0, <2>1 DEF PenRow
    <2>3. pen[t] = None /\ pen' = [pen EXCEPT ![t] = p] /\ lamport' \in 0..MaxOps
           /\ UNCHANGED snapshots
      BY <1>0, <1>2, <2>1 DEF Draw
    <2>4. BoardRows'
      BY <1>0, <1>1, <2>2, <2>3 DEF BoardRows
    <2>5. \A u \in Tabs : pen'[u] = IF u = t THEN p ELSE pen[u]
      BY <1>0, <2>3 DEF BoardRows
    <2>6. \A u \in Tabs, k \in 1..Len(ops) : Sends(u, k) => pen'[u] = pen[u]
      BY <2>3, <2>5 DEF Sends
    <2>7. \A u \in Tabs : pen'[u] = pen[u] \/ pen'[u] = None \/ pen'[u].at = "store"
      BY <2>2, <2>5
    <2> QED
      BY <1>1, <2>4, <2>6, <2>7, QuietStep
  <1>3. CASE Snapshot \/ UNCHANGED boardVars
    <2>1. UNCHANGED <<pen, lamport>> /\ snapshots' \subseteq 0..MaxOps
      BY <1>0, <1>3 DEF Snapshot, SaveSnapshot, boardVars, BoardRows
    <2>2. BoardRows'
      BY <1>0, <1>1, <2>1 DEF BoardRows
    <2> QED
      BY <1>1, <2>1, <2>2, QuietStep
  <1> QED
    BY <1>2, <1>3

LEMMA ConnectStep == ASSUME BoardInv, NEW t \in Tabs, Connect(t) PROVE BoardInv'
  <1>0. /\ BoardRows /\ ConnsFit /\ Len(ops) \in Nat /\ Len(conns) \in Nat /\ conns \in Seq(Tabs)
        /\ tab[t] = None /\ UNCHANGED <<lamport, ops, snapshots, pen, disturbed>>
        /\ conns' = Append(conns, t)
    BY BoardParts DEF Connect, BoardRows
  <1>1. PICK x : x = [at |-> "joining", since |-> Len(ops), version |-> None,
                      delta |-> {}, live |-> {}]
    OBVIOUS
  <1>2. x \in TabRow /\ x # None /\ x.at = "joining" /\ x.since = Len(ops) /\ x.version = None
    <2>1. x \in TabRow
      BY <1>0, <1>1 DEF TabRow
    <2> QED
      BY <1>1, <2>1, BoardAssumption
  <1>3. tab' = [tab EXCEPT ![t] = x] /\ \A s \in Tabs : tab'[s] = IF s = t THEN x ELSE tab[s]
    BY <1>0, <1>1 DEF Connect, BoardRows
  <1>4. /\ conns' \in Seq(Tabs) /\ Len(conns') = Len(conns) + 1
        /\ \A i \in 1..Len(conns) : conns'[i] = conns[i] /\ conns[i] \in Tabs
        /\ conns'[Len(conns) + 1] = t
    BY <1>0
  <1>5. BoardRows'
    BY <1>0, <1>2, <1>3, <1>4 DEF BoardRows
  <1>6. ConnsFit'
    <2>1. \A i \in 1..Len(conns) : conns[i] # t
      BY <1>0 DEF ConnsFit
    <2>2. ASSUME NEW i \in 1..Len(conns'), NEW j \in 1..Len(conns'), conns'[i] = conns'[j]
          PROVE  i = j
      BY <1>0, <1>4, <2>1, <2>2 DEF ConnsFit
    <2>3. ASSUME NEW i \in 1..Len(conns') PROVE tab'[conns'[i]] # None
      BY <1>0, <1>2, <1>3, <1>4 DEF ConnsFit
    <2> QED
      BY <2>2, <2>3 DEF ConnsFit
  <1>7. ASSUME NEW s \in Tabs PROVE PenFits(s)'
    <2>1. PenFits(s)
      BY BoardParts
    <2> QED
      BY <1>0, <2>1 DEF PenFits
  <1>8. ASSUME NEW s \in Tabs, tab'[s] # None PROVE Registered(s)' /\ Hydrated(s)'
    <2>1. CASE s = t
      <3>1. tab'[s] = x
        BY <1>3, <2>1
      <3>2. Registered(s)'
        BY <1>0, <1>2, <1>4, <2>1, <3>1 DEF Registered
      <3> QED
        BY <1>2, <3>1, <3>2 DEF Hydrated
    <2>2. CASE s # t
      <3>1. tab'[s] = tab[s]
        BY <1>3, <2>2
      <3>2. Registered(s) /\ Hydrated(s)
        BY <1>8, <3>1, BoardParts
      <3>3. ASSUME NEW k \in 1..Len(ops), k > tab[s].since PROVE Reached(s, k)'
        <4>1. Reached(s, k)
          BY <3>2, <3>3 DEF Registered
        <4>2. ASSUME NEW u \in Tabs, Ahead(u, k, s) PROVE Ahead(u, k, s)'
          <5>1. ASSUME NEW i \in 1..Len(conns'), conns'[i] = s PROVE pen[u].next <= i
            <6>1. i \in 1..Len(conns) /\ conns[i] = s
              BY <1>0, <1>4, <2>2, <5>1
            <6> QED
              BY <4>2, <6>1 DEF Ahead
          <5> QED
            BY <1>0, <4>2, <5>1 DEF Ahead, Sends
        <4> QED
          BY <1>0, <3>1, <4>1, <4>2 DEF Reached
      <3>4. \E i \in 1..Len(conns') : conns'[i] = s
        <4>1. PICK i \in 1..Len(conns) : conns[i] = s
          BY <3>2 DEF Registered
        <4>2. i \in 1..Len(conns') /\ conns'[i] = s
          BY <1>0, <1>4, <4>1
        <4> QED
          BY <4>2
      <3>5. Registered(s)'
        BY <1>0, <3>1, <3>2, <3>3, <3>4 DEF Registered
      <3> QED
        BY <1>0, <3>1, <3>2, <3>5 DEF Hydrated
    <2> QED
      BY <2>1, <2>2
  <1> QED
    BY <1>5, <1>6, <1>7, <1>8 DEF BoardInv, TabFits

LEMMA RestartStep == ASSUME BoardInv, Restart PROVE BoardInv'
  <1>1. BoardRows /\ MaxOps \in Nat /\ UNCHANGED <<ops, snapshots>> /\ conns' = <<>>
    BY BoardParts DEF Restart
  <1>2. \A t \in Tabs : tab'[t] = None /\ pen'[t] = None
    BY DEF Restart
  <1>3. BoardRows'
    BY <1>1 DEF BoardRows, Restart
  <1>4. ConnsFit'
    BY <1>1 DEF ConnsFit
  <1>5. \A t \in Tabs : TabFits(t)' /\ PenFits(t)'
    BY <1>2 DEF TabFits, PenFits
  <1> QED
    BY <1>3, <1>4, <1>5 DEF BoardInv

\* An operation is stored: every tab in the list is yet to be sent it.
LEMMA PersistStep == ASSUME BoardInv, NEW t \in Tabs, Persist(t) PROVE BoardInv'
  <1>0. /\ BoardRows /\ ConnsFit /\ Len(ops) \in Nat /\ Len(conns) \in Nat
        /\ UNCHANGED <<conns, lamport, snapshots, tab, disturbed>>
        /\ pen[t] \in PenRow /\ pen[t].at = "store"
    BY BoardParts DEF Persist
  <1>a. PICK n : n = pen[t].lamport
    OBVIOUS
  <1>1. PICK stored \in BOOLEAN :
          /\ IF stored THEN AppendOp(n, t) ELSE UNCHANGED ops
          /\ pen' = [pen EXCEPT ![t] = [at |-> "send", next |-> 1,
                                        op |-> IF stored THEN Len(ops) + 1 ELSE None]]
    BY <1>a DEF Persist
  <1>2. n \in Nat
    BY <1>0, <1>a DEF PenRow
  <1>3. PICK row, k, p : /\ row = [lamport |-> n, by |-> t]
                         /\ k = IF stored THEN Len(ops) + 1 ELSE None
                         /\ p = [at |-> "send", next |-> 1, op |-> k]
    OBVIOUS
  <1>4. row \in OpRow /\ row.by = t
    BY <1>2, <1>3 DEF OpRow
  <1>5. p \in PenRow /\ p.at = "send" /\ p.op = k /\ p.next = 1 /\ p # None
    <2>1. p \in PenRow
      BY <1>0, <1>3 DEF PenRow
    <2> QED
      BY <1>3, <2>1, BoardAssumption
  <1>6. pen' = [pen EXCEPT ![t] = p] /\ \A u \in Tabs : pen'[u] = IF u = t THEN p ELSE pen[u]
    <2>1. pen' = [pen EXCEPT ![t] = p]
      BY <1>1, <1>3
    <2> QED
      BY <1>0, <2>1 DEF BoardRows
  <1>7. /\ ops' \in Seq(OpRow) /\ Len(ops) <= Len(ops') /\ Len(ops') \in Nat
        /\ \A i \in 1..Len(ops) : ops'[i] = ops[i]
        /\ \A i \in 1..Len(ops') : i > Len(ops) => stored /\ i = Len(ops) + 1
        /\ stored => Len(ops') = Len(ops) + 1 /\ ops'[Len(ops) + 1] = row
    <2>1. ops \in Seq(OpRow)
      BY <1>0 DEF BoardRows
    <2>2. CASE stored
      <3>1. ops' = Append(ops, row)
        BY <1>1, <1>3, <2>2 DEF AppendOp
      <3> QED
        BY <1>0, <1>4, <2>1, <2>2, <3>1
    <2>3. CASE ~stored
      BY <1>0, <1>1, <2>1, <2>3
    <2> QED
      BY <2>2, <2>3
  <1>8. BoardRows'
    BY <1>0, <1>5, <1>6, <1>7 DEF BoardRows
  <1>9. ConnsFit'
    BY <1>0 DEF ConnsFit
  <1>10. ASSUME NEW u \in Tabs PROVE PenFits(u)'
    <2>1. CASE u = t
      <3>1. pen'[u] = p
        BY <1>6, <2>1
      <3>2. stored => k \in 1..Len(ops') /\ ops'[k].by = t
        BY <1>0, <1>3, <1>4, <1>7
      <3>3. ~stored => k = None
        BY <1>3
      <3> QED
        BY <1>5, <2>1, <3>1, <3>2, <3>3 DEF PenFits
    <2>2. CASE u # t
      <3>1. pen'[u] = pen[u] /\ PenFits(u)
        BY <1>6, <2>2, BoardParts
      <3> QED
        BY <1>0, <1>7, <3>1 DEF PenFits
    <2> QED
      BY <2>1, <2>2
  <1>11. ASSUME NEW s \in Tabs, tab'[s] # None PROVE Registered(s)' /\ Hydrated(s)'
    <2>1. tab'[s] = tab[s] /\ Registered(s) /\ Hydrated(s) /\ tab[s].since \in Nat
      BY <1>0, <1>11, BoardParts
    <2>2. tab[s].since <= Len(ops)
      BY <2>1 DEF Registered
    <2>3. ASSUME NEW i \in 1..Len(ops'), i > tab[s].since PROVE Reached(s, i)'
      <3>1. CASE i \in 1..Len(ops)
        <4>1. Reached(s, i)
          BY <2>1, <2>3, <3>1 DEF Registered
        <4>2. ASSUME NEW u \in Tabs, Ahead(u, i, s) PROVE Ahead(u, i, s)'
          <5>1. u # t
            BY <1>0, <4>2 DEF Ahead, Sends
          <5> QED
            BY <1>0, <1>6, <4>2, <5>1 DEF Ahead, Sends
        <4>3. ops'[i] = ops[i]
          BY <1>7, <3>1
        <4> QED
          BY <1>0, <4>1, <4>2, <4>3 DEF Reached
      <3>2. CASE i > Len(ops)
        <4>1. i = k
          BY <1>3, <1>7, <3>2
        <4>2. pen'[t] # None /\ pen'[t].at = "send" /\ pen'[t].op = i /\ pen'[t].next = 1
          BY <1>5, <1>6, <4>1
        <4>3. Ahead(t, i, s)'
          BY <1>0, <4>2 DEF Ahead, Sends
        <4> QED
          BY <4>3 DEF Reached
      <3> QED
        BY <1>0, <1>7, <3>1, <3>2
    <2>4. Registered(s)'
      BY <1>0, <1>7, <2>1, <2>2, <2>3 DEF Registered
    <2>5. Hydrated(s)'
      <3>1. ASSUME NEW i \in 1..Len(ops'), i <= tab[s].since
            PROVE  i \in 1..Len(ops) /\ ops'[i] = ops[i]
        BY <1>0, <1>7, <2>1, <2>2, <3>1
      <3> QED
        BY <2>1, <3>1 DEF Hydrated
    <2> QED
      BY <2>4, <2>5
  <1> QED
    BY <1>8, <1>9, <1>10, <1>11 DEF BoardInv, TabFits

\* One turn of the loop: the tab whose turn it is gets the operation.
LEMMA BroadcastStep == ASSUME BoardInv, NEW t \in Tabs, Broadcast(t) PROVE BoardInv'
  <1>0. /\ BoardRows /\ ConnsFit /\ Len(ops) \in Nat /\ Len(conns) \in Nat
        /\ UNCHANGED <<conns, lamport, ops, snapshots, disturbed>>
        /\ pen[t] # None /\ pen[t] \in PenRow /\ pen[t].at = "send" /\ PenFits(t)
    BY BoardParts DEF Broadcast
  <1>1. PICK b : b = pen[t]
    OBVIOUS
  <1>2. b \in [at : {"send"}, next : Nat \ {0}, op : {None} \cup Nat]
    BY <1>0, <1>1 DEF PenRow
  <1>3. CASE b.next > Len(conns)
    <2>1. pen' = [pen EXCEPT ![t] = None] /\ UNCHANGED tab
      BY <1>1, <1>3 DEF Broadcast
    <2>2. BoardRows' /\ ConnsFit'
      BY <1>0, <2>1 DEF BoardRows, ConnsFit
    <2>3. \A u \in Tabs : pen'[u] = IF u = t THEN None ELSE pen[u]
      BY <1>0, <2>1 DEF BoardRows
    <2>4. ASSUME NEW u \in Tabs PROVE PenFits(u)'
      <3>1. PenFits(u)
        BY BoardParts
      <3> QED
        BY <1>0, <2>3, <3>1 DEF PenFits
    <2>5. ASSUME NEW s \in Tabs, tab'[s] # None PROVE Registered(s)' /\ Hydrated(s)'
      <3>1. tab'[s] = tab[s] /\ Registered(s) /\ Hydrated(s)
        BY <2>1, <2>5, BoardParts
      <3>2. ASSUME NEW i \in 1..Len(ops), i > tab[s].since PROVE Reached(s, i)'
        <4>1. Reached(s, i) /\ \E j \in 1..Len(conns) : conns[j] = s
          BY <3>1, <3>2 DEF Registered
        <4>2. ASSUME NEW u \in Tabs, Ahead(u, i, s) PROVE Ahead(u, i, s)'
          <5>1. PICK j \in 1..Len(conns) : conns[j] = s
            BY <4>1
          <5>2. pen[u].next <= j /\ j \in Nat /\ j <= Len(conns)
            BY <1>0, <4>2, <5>1 DEF Ahead
          <5>3. u # t
            BY <1>0, <1>1, <1>2, <1>3, <5>2
          <5> QED
            BY <1>0, <2>3, <4>2, <5>3 DEF Ahead, Sends
        <4> QED
          BY <1>0, <3>1, <4>1, <4>2 DEF Reached
      <3>3. Registered(s)'
        BY <1>0, <3>1, <3>2 DEF Registered
      <3> QED
        BY <1>0, <3>1, <3>3 DEF Hydrated
    <2> QED
      BY <2>2, <2>4, <2>5 DEF BoardInv, TabFits
  <1>4. CASE ~(b.next > Len(conns))
    <2>1. PICK u : u = conns[b.next]
      OBVIOUS
    <2>2. PICK p : p = [b EXCEPT !.next = b.next + 1]
      OBVIOUS
    <2>3. /\ pen' = [pen EXCEPT ![t] = p]
          /\ tab' = IF u = t THEN tab ELSE [tab EXCEPT ![u].live = @ \cup {b.op}]
      BY <1>1, <1>4, <2>1, <2>2 DEF Broadcast
    <2>4. p \in PenRow /\ p # None /\ p.at = "send" /\ p.op = b.op /\ p.next = b.next + 1
      <3>1. p \in [at : {"send"}, next : Nat \ {0}, op : {None} \cup Nat]
        BY <1>2, <2>2
      <3>2. p \in PenRow
        BY <3>1 DEF PenRow
      <3> QED
        BY <1>2, <2>2, <3>2, BoardAssumption
    <2>5. pen' \in [Tabs -> {None} \cup PenRow] /\ \A v \in Tabs : pen'[v] = IF v = t THEN p ELSE pen[v]
      BY <1>0, <2>3, <2>4 DEF BoardRows
    <2>6. /\ tab' \in [Tabs -> {None} \cup TabRow]
          /\ \A s \in Tabs : tab[s] = None => tab'[s] = None
          /\ \A s \in Tabs : tab[s] # None =>
                /\ tab'[s] # None /\ tab'[s].at = tab[s].at /\ tab'[s].since = tab[s].since
                /\ tab'[s].version = tab[s].version /\ tab'[s].delta = tab[s].delta
                /\ tab[s].live \subseteq tab'[s].live
                /\ s = u /\ u # t => b.op \in tab'[s].live
      <3>1. CASE u = t
        BY <1>0, <2>3, <3>1 DEF BoardRows
      <3>2. CASE u # t
        <4>1. u \in Tabs /\ tab[u] # None
          BY <1>0, <1>2, <1>4, <2>1 DEF ConnsFit, BoardRows
        <4>2. tab[u] \in TabRow
          BY <4>1, BoardParts
        <4>3. PICK x : x = [tab[u] EXCEPT !.live = @ \cup {b.op}]
          OBVIOUS
        <4>4. /\ x \in TabRow /\ x.at = tab[u].at /\ x.since = tab[u].since
              /\ x.version = tab[u].version /\ x.delta = tab[u].delta
              /\ tab[u].live \subseteq x.live /\ b.op \in x.live
          BY <1>2, <4>2, <4>3 DEF TabRow
        <4>5. x # None
          BY <4>4, BoardAssumption
        <4>6. tab' = [tab EXCEPT ![u] = x]
          BY <2>3, <3>2, <4>3
        <4>7. tab' \in [Tabs -> {None} \cup TabRow] /\ \A s \in Tabs : tab'[s] = IF s = u THEN x ELSE tab[s]
          BY <1>0, <4>4, <4>6 DEF BoardRows
        <4> QED
          BY <4>1, <4>4, <4>5, <4>7
      <3> QED
        BY <3>1, <3>2
    <2>7. BoardRows'
      BY <1>0, <2>5, <2>6 DEF BoardRows
    <2>8. ConnsFit'
      <3>1. \A i \in 1..Len(conns) : conns[i] \in Tabs
        BY <1>0 DEF BoardRows
      <3> QED
        BY <1>0, <2>6, <3>1 DEF ConnsFit
    <2>9. ASSUME NEW v \in Tabs PROVE PenFits(v)'
      <3>1. PenFits(v)
        BY BoardParts
      <3> QED
        BY <1>0, <1>1, <2>4, <2>5, <3>1 DEF PenFits
    <2>10. ASSUME NEW s \in Tabs, tab'[s] # None PROVE Registered(s)' /\ Hydrated(s)'
      <3>1. tab[s] # None /\ Registered(s) /\ Hydrated(s)
        BY <2>6, <2>10, BoardParts
      <3>2. /\ tab'[s].at = tab[s].at /\ tab'[s].since = tab[s].since
            /\ tab'[s].version = tab[s].version /\ tab'[s].delta = tab[s].delta
            /\ tab[s].live \subseteq tab'[s].live
        BY <2>6, <3>1
      <3>3. ASSUME NEW i \in 1..Len(ops), i > tab[s].since PROVE Reached(s, i)'
        <4>1. Reached(s, i)
          BY <3>1, <3>3 DEF Registered
        <4>2. ASSUME NEW v \in Tabs, Ahead(v, i, s) PROVE Reached(s, i)'
          <5>1. CASE v # t
            <6>1. Ahead(v, i, s)'
              BY <1>0, <2>5, <4>2, <5>1 DEF Ahead, Sends
            <6> QED
              BY <6>1 DEF Reached
          <5>2. CASE v = t /\ u = s
            <6>1. b.op = i
              BY <1>1, <4>2, <5>2 DEF Ahead, Sends
            <6>2. CASE u # t
              <7>1. i \in tab'[s].live
                BY <2>6, <3>1, <5>2, <6>1, <6>2
              <7> QED
                BY <7>1 DEF Reached
            <6>3. CASE u = t
              <7>1. b.op # None
                BY <1>0, <6>1, BoardAssumption
              <7>2. ops[i].by = t
                BY <1>0, <1>1, <6>1, <7>1 DEF PenFits
              <7> QED
                BY <1>0, <5>2, <6>3, <7>2 DEF Reached
            <6> QED
              BY <6>2, <6>3
          <5>3. CASE v = t /\ u # s
            <6>1. ASSUME NEW j \in 1..Len(conns), conns[j] = s PROVE p.next <= j
              <7>1. b.next <= j
                BY <1>1, <4>2, <5>3, <6>1 DEF Ahead
              <7>2. b.next # j
                BY <2>1, <5>3, <6>1
              <7> QED
                BY <1>0, <1>2, <2>4, <7>1, <7>2
            <6>2. b.op = i
              BY <1>1, <4>2, <5>3 DEF Ahead, Sends
            <6>3. Ahead(t, i, s)'
              BY <1>0, <2>4, <2>5, <6>1, <6>2 DEF Ahead, Sends
            <6> QED
              BY <6>3 DEF Reached
          <5> QED
            BY <5>1, <5>2, <5>3
        <4>3. CASE i \in tab[s].live \cup disturbed \/ ops[i].by = s
          BY <1>0, <3>2, <4>3 DEF Reached
        <4> QED
          BY <4>1, <4>2, <4>3 DEF Reached
      <3>4. Registered(s)'
        BY <1>0, <3>1, <3>2, <3>3 DEF Registered
      <3> QED
        BY <1>0, <3>1, <3>2, <3>4 DEF Hydrated
    <2> QED
      BY <2>7, <2>8, <2>9, <2>10 DEF BoardInv, TabFits
  <1> QED
    BY <1>2, <1>3, <1>4

\* A tab leaves: what is being sent counts as disturbed from now on, and for
\* the others everything else has reached them already.
LEMMA DisconnectStep == ASSUME BoardInv, NEW t \in Tabs, Disconnect(t) PROVE BoardInv'
  <1>0. /\ BoardRows /\ ConnsFit /\ Len(ops) \in Nat /\ Len(conns) \in Nat /\ conns \in Seq(Tabs)
        /\ tab[t] # None /\ UNCHANGED <<lamport, ops, snapshots, pen>>
        /\ tab' = [tab EXCEPT ![t] = None]
    BY BoardParts DEF Disconnect, BoardRows
  <1>1. PICK n \in 1..Len(conns) : conns[n] = t
    <2>1. Registered(t)
      BY <1>0, BoardParts
    <2> QED
      BY <2>1 DEF Registered
  <1>2. /\ conns' \in Seq(Tabs) /\ Len(conns') = Len(conns) - 1
        /\ \A i \in 1..Len(conns') : conns'[i] = IF i < n THEN conns[i] ELSE conns[i + 1]
    <2>1. conns' = RemoveFirst(conns, conns[n])
      BY <1>1 DEF Disconnect
    <2>2. \A i, j \in 1..Len(conns) : conns[i] = conns[j] => i = j
      BY <1>0 DEF ConnsFit
    <2>3. PICK old, new : old = conns /\ new = RemoveFirst(old, old[n])
      OBVIOUS
    <2>4. /\ old \in Seq(Tabs) /\ n \in 1..Len(old)
          /\ \A i, j \in 1..Len(old) : old[i] = old[j] => i = j
      BY <1>0, <2>2, <2>3
    <2>5. /\ new \in Seq(Tabs) /\ Len(new) = Len(old) - 1
          /\ \A i \in 1..Len(new) : new[i] = IF i < n THEN old[i] ELSE old[i + 1]
      <3>1. new = RemoveFirst(old, old[n])
        BY <2>3
      <3>2. Len(new) = Len(old) - 1
        BY <2>4, <3>1, RemoveOne
      <3>3. new \in Seq(Tabs)
        BY <2>4, <3>1, RemoveOne
      <3>4. \A i \in 1..Len(new) : new[i] = IF i < n THEN old[i] ELSE old[i + 1]
        BY <2>4, <3>1, RemoveOne
      <3> QED
        BY <3>2, <3>3, <3>4
    <2> QED
      BY <2>1, <2>3, <2>5
  <1>3. \A s \in Tabs : tab'[s] = IF s = t THEN None ELSE tab[s]
    BY <1>0 DEF BoardRows
  <1>4. BoardRows'
    BY <1>0, <1>2 DEF BoardRows
  <1>5. \A i \in 1..Len(conns') : \E j \in 1..Len(conns) :
           conns'[i] = conns[j] /\ conns[j] # t /\ j = IF i < n THEN i ELSE i + 1
    <2> SUFFICES ASSUME NEW i \in 1..Len(conns')
                 PROVE  \E j \in 1..Len(conns) :
                           conns'[i] = conns[j] /\ conns[j] # t /\ j = IF i < n THEN i ELSE i + 1
      OBVIOUS
    <2>1. PICK j : j = IF i < n THEN i ELSE i + 1
      OBVIOUS
    <2>2. j \in 1..Len(conns) /\ j # n /\ conns'[i] = conns[j]
      BY <1>0, <1>1, <1>2, <2>1
    <2>3. conns[j] # t
      BY <1>0, <1>1, <2>2 DEF ConnsFit
    <2> QED
      BY <2>1, <2>2, <2>3
  <1>6. ConnsFit'
    <2>1. ASSUME NEW i \in 1..Len(conns') PROVE tab'[conns'[i]] # None
      <3>1. PICK j \in 1..Len(conns) : conns'[i] = conns[j] /\ conns[j] # t
        BY <1>5
      <3>2. conns[j] \in Tabs /\ tab[conns[j]] # None
        BY <1>0, <3>1 DEF ConnsFit
      <3> QED
        BY <1>3, <3>1, <3>2
    <2>2. ASSUME NEW i \in 1..Len(conns'), NEW j \in 1..Len(conns'), conns'[i] = conns'[j]
          PROVE  i = j
      <3>1. PICK a \in 1..Len(conns) : conns'[i] = conns[a] /\ a = IF i < n THEN i ELSE i + 1
        BY <1>5
      <3>2. PICK b \in 1..Len(conns) : conns'[j] = conns[b] /\ b = IF j < n THEN j ELSE j + 1
        BY <1>5
      <3>3. a = b
        BY <1>0, <2>2, <3>1, <3>2 DEF ConnsFit
      <3> QED
        BY <1>1, <1>2, <3>1, <3>2, <3>3
    <2> QED
      BY <2>1, <2>2 DEF ConnsFit
  <1>7. ASSUME NEW u \in Tabs PROVE PenFits(u)'
    <2>1. PenFits(u)
      BY BoardParts
    <2> QED
      BY <1>0, <2>1 DEF PenFits
  <1>8. ASSUME NEW s \in Tabs, tab'[s] # None PROVE Registered(s)' /\ Hydrated(s)'
    <2>1. s # t /\ tab'[s] = tab[s] /\ Registered(s) /\ Hydrated(s)
      BY <1>3, <1>8, BoardParts
    <2>2. \E i \in 1..Len(conns') : conns'[i] = s
      <3>1. PICK j \in 1..Len(conns) : conns[j] = s
        BY <2>1 DEF Registered
      <3>2. j # n
        BY <1>1, <2>1, <3>1
      <3>3. PICK i : i = IF j < n THEN j ELSE j - 1
        OBVIOUS
      <3>4. i \in 1..Len(conns') /\ conns'[i] = conns[j]
        <4>1. CASE j < n
          BY <1>0, <1>1, <1>2, <3>3, <4>1
        <4>2. CASE j > n
          <5>1. i = j - 1 /\ i \in 1..Len(conns') /\ ~(i < n) /\ i + 1 = j
            BY <1>0, <1>1, <1>2, <3>3, <4>2
          <5> QED
            BY <1>2, <5>1
        <4> QED
          BY <1>1, <3>2, <4>1, <4>2
      <3> QED
        BY <3>1, <3>4
    <2>3. ASSUME NEW i \in 1..Len(ops), i > tab[s].since PROVE Reached(s, i)'
      <3>1. Reached(s, i)
        BY <2>1, <2>3 DEF Registered
      <3>2. ASSUME NEW u \in Tabs, Ahead(u, i, s) PROVE i \in disturbed'
        BY <3>2 DEF Ahead, Sends, Disconnect
      <3>3. disturbed \subseteq disturbed'
        BY DEF Disconnect
      <3> QED
        BY <1>0, <2>1, <3>1, <3>2, <3>3 DEF Reached
    <2>4. Registered(s)'
      BY <1>0, <2>1, <2>2, <2>3 DEF Registered
    <2> QED
      BY <1>0, <2>1, <2>4 DEF Hydrated
  <1> QED
    BY <1>4, <1>6, <1>7, <1>8 DEF BoardInv, TabFits

LEMMA BoardSteps == ASSUME BoardInv, BoardNext \/ UNCHANGED boardVars PROVE BoardInv'
  BY HydrateStep, DrawStep, ConnectStep, RestartStep, PersistStep, BroadcastStep, DisconnectStep
     DEF BoardNext

\* What the invariant says of a live tab is the property.
LEMMA NoGap == ASSUME BoardInv PROVE JoinerHasNoGap
  <1> SUFFICES ASSUME NEW t \in Tabs, tab[t] # None, tab[t].at = "live", NEW k \in 1..Len(ops)
               PROVE  \/ k \in tab[t].delta \cup tab[t].live \cup disturbed
                      \/ \E u \in Tabs : pen[u] # None /\ pen[u].at = "send" /\ pen[u].op = k
                      \/ k > tab[t].since /\ ops[k].by = t
                      \/ k <= tab[t].since
                         /\ (tab[t].version = None \/ ops[k].lamport <= tab[t].version)
    BY DEF JoinerHasNoGap
  <1>1. Registered(t) /\ Hydrated(t) /\ tab[t].since \in Nat /\ k \in Nat
    BY BoardParts
  <1>2. CASE k > tab[t].since
    BY <1>1, <1>2 DEF Registered, Reached, Ahead, Sends
  <1>3. CASE k <= tab[t].since
    BY <1>1, <1>3 DEF Hydrated
  <1> QED
    BY <1>1, <1>2, <1>3

-----------------------------------------------------------------------------
(* Meetings *)

\* Two consents to m stand, when those of own are counted too.
TwoStand(m, own) == \E u, v \in Profiles : /\ u # v
                                           /\ consents[m][u] = "active" \/ u \in own
                                           /\ consents[m][v] = "active" \/ v \in own
Safe(m, own)     == m \in crossed \/ TwoStand(m, own)

Commits == {"update", "consented", "revoke", "dispatched", "ingest"}

\* The types of what a request holds in its slot.
SlotTyped(q) ==
    /\ q.op \in {"insert", "consent", "create_bot"} \cup Commits
    /\ q.op = "insert" => q.row \in MeetingRow /\ q.row.bot = "none"
    /\ q.op # "insert" => q.m \in 1..Len(meetings) /\ q.loaded \in MeetingRow
    /\ q.op \in {"consent", "consented", "revoke"} => q.p \in Profiles
    /\ q.op \in Commits => q.row \in MeetingRow
    /\ q.op \in {"create_bot", "dispatched"} => q.k \in 1..Len(dispatches)
    /\ q.op = "update" => q.send \subseteq {0}

\* The commit of q will make the bot wanted.
Wishes(q) == q.row.bot = "requested" /\ q.loaded.bot # "requested"
Owns(q)   == IF q.op = "consented" THEN {q.p} ELSE {}

\* A wish on its way has its two consents, as the bot on its way has; a
\* revocation that will not take the wish back has none to take back.
SlotSafe(q) ==
    /\ q.op \in {"update", "consented"} => (Wishes(q) => Safe(q.m, Owns(q)))
    /\ q.op = "update" => (Wishes(q) => q.send # {})
    /\ q.op = "create_bot" => Safe(q.m, {})
    /\ q.op \in {"dispatched", "ingest"} => ~Wishes(q)
    /\ q.op = "revoke" =>
          /\ q.row.bot = "none" /\ q.loaded.bot \in {"none", "requested"}
          /\ q.loaded.bot = "none" => q.m \in crossed \/ meetings[q.m].bot # "requested"

DispatchRow == [m : Nat, eta : {0} \cup Starts, state : {"queued", "running", "done"}]
BotRow      == [m : Nat, reported : SUBSET Codes]

MeetingRows == /\ meetings \in Seq(MeetingRow) /\ Len(meetings) <= MaxMeetings
               /\ calendar \in Seq(Starts) /\ bots \in Seq(BotRow)
               /\ consents \in [1..MaxMeetings -> [Profiles -> ConsentRow]]
               /\ dispatches \in Seq(DispatchRow)
               /\ \A k \in 1..Len(dispatches) : dispatches[k].m \in 1..Len(meetings)

RequestedByTwo == \A m \in 1..Len(meetings) : meetings[m].bot = "requested" => Safe(m, {})

\* Where no overlap is remembered there is none.
Apart == \A c, d \in Slots :
             Asks(c) /\ Doing(d, "revoke") /\ work[c].m = work[d].m => work[c].m \in crossed

\* The inductive invariant of the meetings.  A bot is sent when the row says
\* "requested", so that is what two must stand behind, in the row and in every
\* write of it that is on its way.
MeetingInv == /\ MeetingRows /\ RequestedByTwo /\ Apart
              /\ \A c \in Slots : work[c] # None => SlotTyped(work[c]) /\ SlotSafe(work[c])
              /\ work = [c \in Slots |-> work[c]]

LEMMA MeetingLens ==
    ASSUME MeetingRows
    PROVE  /\ Len(meetings) \in Nat /\ Len(dispatches) \in Nat /\ Len(calendar) \in Nat
           /\ Len(bots) \in Nat /\ MaxMeetings \in Nat /\ MaxRequests \in Nat
           /\ \A m \in 1..Len(meetings) : m \in 1..MaxMeetings /\ meetings[m] \in MeetingRow
  <1>1. /\ Len(meetings) \in Nat /\ Len(dispatches) \in Nat /\ Len(calendar) \in Nat
        /\ Len(bots) \in Nat /\ MaxMeetings \in Nat /\ MaxRequests \in Nat
    BY MeetingAssumption DEF MeetingRows
  <1>2. \A m \in 1..Len(meetings) : m \in 1..MaxMeetings /\ meetings[m] \in MeetingRow
    BY <1>1 DEF MeetingRows
  <1> QED
    BY <1>1, <1>2

\* One entry of a sequence is replaced; an index it does not have changes nothing.
LEMMA SeqExcept ==
    ASSUME NEW S, NEW s \in Seq(S), NEW i, NEW x \in S, NEW t, t = [s EXCEPT ![i] = x]
    PROVE  /\ t \in Seq(S) /\ Len(t) = Len(s)
           /\ \A j \in 1..Len(s) : t[j] = IF j = i THEN x ELSE s[j]
  <1>1. CASE i \in 1..Len(s)
    BY <1>1, ExceptSeq
  <1>2. CASE i \notin 1..Len(s)
    <2>1. t = s
      BY <1>2
    <2> QED
      BY <1>2, <2>1
  <1> QED
    BY <1>1, <1>2

\* Consents that stand and overlaps that happened are not forgotten.
LEMMA SafeStays ==
    ASSUME NEW m, NEW own, NEW more, Safe(m, own), crossed \subseteq crossed',
           \A p \in Profiles : consents[m][p] = "active" \/ p \in own =>
               consents'[m][p] = "active" \/ p \in more
    PROVE  Safe(m, more)'
  BY DEF Safe, TwoStand

\* Types outlive the growth of the tables.
LEMMA TypedStays ==
    ASSUME NEW q, SlotTyped(q), MeetingRows, MeetingRows', Len(meetings) <= Len(meetings'),
           Len(dispatches) <= Len(dispatches')
    PROVE  SlotTyped(q)'
  <1>0. /\ Len(meetings) \in Nat /\ Len(meetings') \in Nat
        /\ Len(dispatches) \in Nat /\ Len(dispatches') \in Nat
    BY DEF MeetingRows
  <1>1. q.op # "insert" => q.m \in 1..Len(meetings')
    BY <1>0 DEF SlotTyped
  <1>2. q.op \in {"create_bot", "dispatched"} => q.k \in 1..Len(dispatches')
    BY <1>0 DEF SlotTyped
  <1> QED
    BY <1>1, <1>2 DEF SlotTyped

LEMMA MeetingFrame ==
    ASSUME MeetingInv, MeetingRows', RequestedByTwo', Apart',
           Len(meetings) <= Len(meetings'), Len(dispatches) <= Len(dispatches'),
           work' = [c \in Slots |-> work'[c]],
           \A c \in Slots : work'[c] # None =>
               SlotSafe(work[c])' /\ (work'[c] = work[c] \/ SlotTyped(work[c])')
    PROVE  MeetingInv'
  <1>1. ASSUME NEW c \in Slots, work'[c] # None, work'[c] = work[c] PROVE SlotTyped(work[c])'
    <2>1. PICK q : q = work[c]
      OBVIOUS
    <2>2. SlotTyped(q)'
      BY <1>1, <2>1, TypedStays DEF MeetingInv
    <2> QED
      BY <1>1, <2>1, <2>2 DEF SlotTyped
  <1> QED
    BY <1>1 DEF MeetingInv

\* What a slot holds stays safe while no consent falls and no bot becomes wanted.
LEMMA SafeSlot ==
    ASSUME NEW q, SlotSafe(q), crossed \subseteq crossed',
           \A p \in Profiles : consents[q.m][p] = "active" => consents'[q.m][p] = "active",
           q.op = "revoke" /\ q.loaded.bot = "none" =>
               q.m \in crossed' \/ meetings'[q.m].bot # "requested"
    PROVE  SlotSafe(q)'
  <1>1. ASSUME NEW own, Safe(q.m, own) PROVE Safe(q.m, own)'
    BY <1>1, SafeStays
  <1>2. PICK own : own = Owns(q)
    OBVIOUS
  <1>3. Safe(q.m, Owns(q)) => Safe(q.m, Owns(q))'
    <2>1. Safe(q.m, own) => Safe(q.m, own)'
      BY <1>1
    <2> QED
      BY <1>2, <2>1 DEF Owns
  <1>4. Safe(q.m, {}) => Safe(q.m, {})'
    BY <1>1
  <1> QED
    BY <1>3, <1>4 DEF SlotSafe, Wishes

\* The rows stay; requests move, events and messages come.
LEMMA MeetingStays ==
    ASSUME MeetingInv, MeetingRows', UNCHANGED <<meetings, consents>>, crossed \subseteq crossed',
           Apart', Len(dispatches) <= Len(dispatches'), work' = [c \in Slots |-> work'[c]],
           \A c \in Slots : \/ work'[c] \in {None, work[c]}
                            \/ SlotTyped(work[c])' /\ SlotSafe(work[c])'
    PROVE  MeetingInv'
  <1>1. RequestedByTwo'
    <2>1. ASSUME NEW m \in 1..Len(meetings), meetings[m].bot = "requested" PROVE Safe(m, {})'
      BY <2>1, SafeStays DEF MeetingInv, RequestedByTwo
    <2> QED
      BY <2>1 DEF RequestedByTwo
  <1>2. ASSUME NEW c \in Slots, work'[c] # None, work'[c] = work[c] PROVE SlotSafe(work[c])'
    <2>1. PICK q : q = work[c]
      OBVIOUS
    <2>2. SlotSafe(q)
      BY <1>2, <2>1 DEF MeetingInv
    <2>3. q.op = "revoke" /\ q.loaded.bot = "none" =>
             q.m \in crossed' \/ meetings'[q.m].bot # "requested"
      BY <2>2 DEF SlotSafe
    <2>4. SlotSafe(q)'
      BY <2>2, <2>3, SafeSlot
    <2> QED
      BY <1>2, <2>1, <2>4 DEF SlotSafe, Wishes, Owns, Safe, TwoStand
  <1>3. Len(meetings) <= Len(meetings')
    <2>1. Len(meetings) \in Nat
      BY MeetingLens DEF MeetingInv
    <2> QED
      BY <2>1
  <1>4. \A c \in Slots : work'[c] # None =>
           SlotSafe(work[c])' /\ (work'[c] = work[c] \/ SlotTyped(work[c])')
    BY <1>2
  <1> QED
    BY <1>1, <1>3, <1>4, MeetingFrame

AskRec(q) == /\ q # None
             /\ \/ q.op \in {"consent", "consented", "create_bot", "dispatched"}
                \/ q.op = "update" /\ q.send # {}

\* One slot moves: an overlap that begins is remembered.
LEMMA ApartMoves ==
    ASSUME MeetingInv, crossed \subseteq crossed', NEW c \in Slots, NEW w,
           work' = [work EXCEPT ![c] = w],
           AskRec(w) => \/ AskRec(work[c]) /\ work[c].m = w.m
                        \/ Revoking(w.m) => w.m \in crossed',
           w # None /\ w.op = "revoke" => (Asking(w.m) => w.m \in crossed')
    PROVE  Apart'
  <1>1. work'[c] = w /\ \A d \in Slots : d # c => work'[d] = work[d]
    BY DEF MeetingInv
  <1>2. \A d \in Slots : /\ Asks(d) <=> AskRec(work[d])
                         /\ Asks(d)' <=> AskRec(work'[d])
                         /\ Doing(d, "revoke")' <=> work'[d] # None /\ work'[d].op = "revoke"
    BY DEF Asks, AskRec, Doing
  <1>3. ASSUME NEW a \in Slots, NEW d \in Slots, Asks(a)', Doing(d, "revoke")',
               work'[a].m = work'[d].m
        PROVE  work'[a].m \in crossed'
    <2>1. AskRec(work'[a]) /\ work'[d] # None /\ work'[d].op = "revoke"
      BY <1>2, <1>3
    <2>2. CASE a = c /\ d = c
      BY <2>1, <2>2 DEF AskRec
    <2>3. CASE a = c /\ d # c
      <3>1. work'[d] = work[d] /\ Doing(d, "revoke") /\ Revoking(w.m)
        BY <1>1, <1>3, <2>1, <2>3 DEF Doing, Revoking
      <3>2. CASE AskRec(work[c]) /\ work[c].m = w.m
        <4>1. Asks(c) /\ work[c].m = work[d].m
          BY <1>1, <1>2, <1>3, <2>3, <3>1, <3>2
        <4>2. work[c].m \in crossed
          BY <3>1, <4>1 DEF MeetingInv, Apart
        <4> QED
          BY <1>1, <2>3, <3>2, <4>2
      <3> QED
        BY <1>1, <2>1, <2>3, <3>1, <3>2
    <2>4. CASE a # c /\ d = c
      <3>1. work'[a] = work[a] /\ Asks(a) /\ w.m = work[a].m
        BY <1>1, <1>2, <1>3, <2>4
      <3>2. Asking(w.m)
        BY <3>1 DEF Asking
      <3> QED
        BY <1>1, <2>1, <2>4, <3>1, <3>2
    <2>5. CASE a # c /\ d # c
      <3>1. work'[a] = work[a] /\ work'[d] = work[d] /\ Asks(a) /\ Doing(d, "revoke")
        BY <1>1, <1>2, <2>1, <2>5 DEF Doing
      <3>2. work[a].m \in crossed
        BY <1>3, <3>1 DEF MeetingInv, Apart
      <3> QED
        BY <3>1, <3>2
    <2> QED
      BY <2>2, <2>3, <2>4, <2>5
  <1> QED
    BY <1>3 DEF Apart

\* A slot takes up or goes on with its request; no row changes.
LEMMA MeetingMoves ==
    ASSUME MeetingInv, UNCHANGED <<meetings, consents>>, MeetingRows', crossed \subseteq crossed',
           Len(dispatches) <= Len(dispatches'),
           NEW c \in Slots, NEW w, work' = [work EXCEPT ![c] = w],
           w = None \/ (SlotTyped(w)' /\ SlotSafe(w)'),
           AskRec(w) => \/ AskRec(work[c]) /\ work[c].m = w.m
                        \/ Revoking(w.m) => w.m \in crossed',
           w # None /\ w.op = "revoke" => (Asking(w.m) => w.m \in crossed')
    PROVE  MeetingInv'
  <1>1. Apart'
    BY ApartMoves
  <1>2. /\ work' = [d \in Slots |-> work'[d]] /\ work'[c] = w
        /\ \A d \in Slots : d # c => work'[d] = work[d]
    BY DEF MeetingInv
  <1>3. w = None \/ (SlotTyped(work[c])' /\ SlotSafe(work[c])')
    BY <1>2 DEF SlotTyped, SlotSafe, Wishes, Owns, Safe, TwoStand
  <1>4. \A d \in Slots : \/ work'[d] \in {None, work[d]}
                         \/ SlotTyped(work[d])' /\ SlotSafe(work[d])'
    BY <1>2, <1>3
  <1> QED
    BY <1>1, <1>2, <1>4, MeetingStays

\* The tables a request that only reads leaves as they are.
LEMMA RowsIdle ==
    ASSUME MeetingInv, UNCHANGED <<meetings, consents, calendar, bots, dispatches>>
    PROVE  MeetingRows' /\ Len(dispatches) <= Len(dispatches')
  <1>1. MeetingRows /\ Len(dispatches) \in Nat
    BY MeetingLens DEF MeetingInv
  <1> QED
    BY <1>1 DEF MeetingRows

\* The UPDATE leaves the bot's status as it is, or writes it when the request
\* changed it.
LEMMA FlushRow ==
    ASSUME NEW cur \in MeetingRow, NEW loaded \in MeetingRow, NEW row \in MeetingRow,
           NEW r, r = Flush(cur, loaded, row)
    PROVE  r \in MeetingRow /\ r.bot = IF row.bot = loaded.bot THEN cur.bot ELSE row.bot
  <1>1. DOMAIN cur = {"at", "duration", "event", "ics", "status", "enabled", "bot", "botId"}
    BY DEF MeetingRow
  <1>2. /\ r.at \in {cur.at, row.at} /\ r.duration \in {cur.duration, row.duration}
        /\ r.event \in {cur.event, row.event} /\ r.ics \in {cur.ics, row.ics}
        /\ r.status \in {cur.status, row.status} /\ r.enabled \in {cur.enabled, row.enabled}
        /\ r.bot = IF row.bot = loaded.bot THEN cur.bot ELSE row.bot
        /\ r.botId \in {cur.botId, row.botId}
    BY <1>1 DEF Flush
  <1>3. r = [f \in {"at", "duration", "event", "ics", "status", "enabled", "bot", "botId"} |-> r[f]]
    BY <1>1 DEF Flush
  <1>4. r = [at |-> r.at, duration |-> r.duration, event |-> r.event, ics |-> r.ics,
             status |-> r.status, enabled |-> r.enabled, bot |-> r.bot, botId |-> r.botId]
    BY <1>3
  <1>5. /\ r.at \in Starts /\ r.duration \in Durations
        /\ r.event \in 1..(MaxMeetings + MaxRequests) /\ r.ics \in BOOLEAN
        /\ r.status \in MeetingStatuses /\ r.enabled \in BOOLEAN
        /\ r.bot \in BotStatuses /\ r.botId \in {None} \cup 1..MaxBots
    BY <1>2 DEF MeetingRow
  <1> QED
    BY <1>2, <1>4, <1>5 DEF MeetingRow

\* What a request in its slot knows when it commits.
LEMMA Committing ==
    ASSUME MeetingInv, NEW c \in Slots, NEW op \in Commits, Doing(c, op)
    PROVE  /\ work[c] # None /\ work[c].op = op /\ work[c].m \in 1..Len(meetings)
           /\ work[c].loaded \in MeetingRow /\ work[c].row \in MeetingRow
           /\ SlotSafe(work[c])
           /\ op \in {"consented", "revoke"} => work[c].p \in Profiles
           /\ op = "dispatched" => work[c].k \in 1..Len(dispatches)
           /\ op = "update" => work[c].send \subseteq {0}
  <1>1. SlotTyped(work[c]) /\ SlotSafe(work[c]) /\ work[c] # None /\ work[c].op = op
    BY DEF MeetingInv, Doing
  <1>2. op # "insert" /\ op \in {"update", "consented", "revoke", "dispatched", "ingest"}
    BY DEF Commits
  <1> QED
    BY <1>1, <1>2 DEF SlotTyped

\* The row is written; its bot is as it was or as the request wants it.
LEMMA CommitRow ==
    ASSUME MeetingInv, NEW c \in Slots, NEW op \in Commits, Doing(c, op),
           meetings' = [meetings EXCEPT ![work[c].m] = Flush(@, work[c].loaded, work[c].row)]
    PROVE  /\ meetings' \in Seq(MeetingRow) /\ Len(meetings') = Len(meetings)
           /\ \A i \in 1..Len(meetings) : i # work[c].m => meetings'[i] = meetings[i]
           /\ meetings'[work[c].m].bot = IF work[c].row.bot = work[c].loaded.bot
                                         THEN meetings[work[c].m].bot ELSE work[c].row.bot
  <1>1. PICK m, loaded, row : m = work[c].m /\ loaded = work[c].loaded /\ row = work[c].row
    OBVIOUS
  <1>2. m \in 1..Len(meetings) /\ loaded \in MeetingRow /\ row \in MeetingRow
    BY <1>1, Committing
  <1>3. meetings[m] \in MeetingRow /\ meetings \in Seq(MeetingRow) /\ Len(meetings) \in Nat
    BY <1>2, MeetingLens DEF MeetingInv, MeetingRows
  <1>4. PICK r : r = Flush(meetings[m], loaded, row)
    OBVIOUS
  <1>5. r \in MeetingRow /\ r.bot = IF row.bot = loaded.bot THEN meetings[m].bot ELSE row.bot
    BY <1>2, <1>3, <1>4, FlushRow
  <1>6. PICK t : t = [meetings EXCEPT ![m] = r]
    OBVIOUS
  <1>7. t \in Seq(MeetingRow)
    BY <1>3, <1>5, <1>6, SeqExcept
  <1>8. Len(t) = Len(meetings)
    BY <1>3, <1>5, <1>6, SeqExcept
  <1>9. \A i \in 1..Len(meetings) : t[i] = IF i = m THEN r ELSE meetings[i]
    BY <1>3, <1>5, <1>6, SeqExcept
  <1>10. meetings' = t
    BY <1>1, <1>4, <1>6
  <1>11. t[m] = r /\ \A i \in 1..Len(meetings) : i # m => t[i] = meetings[i]
    BY <1>2, <1>9
  <1> QED
    BY <1>1, <1>5, <1>7, <1>8, <1>10, <1>11

\* A webhook never asks for a bot.
LEMMA ProgressedRow ==
    ASSUME NEW row \in MeetingRow, NEW code, NEW r, r = Progressed(row, code)
    PROVE  r \in MeetingRow /\ (r.bot = "requested" => row.bot = "requested")
  <1>1. PICK mapped : mapped = IF code \in DOMAIN StatusMap THEN [row EXCEPT !.bot = StatusMap[code]]
                                                            ELSE row
    OBVIOUS
  <1>2. \A k \in DOMAIN StatusMap : StatusMap[k] \in BotStatuses \ {"requested"}
    BY DEF StatusMap, BotStatuses
  <1>3. mapped \in MeetingRow /\ (mapped.bot = "requested" => row.bot = "requested")
    <2>1. CASE code \in DOMAIN StatusMap
      <3>1. PICK s : s = StatusMap[code]
        OBVIOUS
      <3>2. s \in BotStatuses /\ s # "requested" /\ mapped = [row EXCEPT !.bot = s]
        BY <1>1, <1>2, <2>1, <3>1
      <3> QED
        BY <3>2 DEF MeetingRow
    <2>2. CASE code \notin DOMAIN StatusMap
      BY <1>1, <2>2
    <2> QED
      BY <2>1, <2>2
  <1>4. r = IF code = "done" THEN [mapped EXCEPT !.status = "ended", !.bot = "left"] ELSE mapped
    BY <1>1 DEF Progressed
  <1>5. CASE code = "done"
    <2>1. r = [mapped EXCEPT !.status = "ended", !.bot = "left"]
      BY <1>4, <1>5
    <2> QED
      BY <1>3, <2>1 DEF MeetingRow, MeetingStatuses, BotStatuses
  <1>6. CASE code # "done"
    BY <1>3, <1>4, <1>6
  <1> QED
    BY <1>5, <1>6

LEMMA CreateMeetingStep ==
    ASSUME MeetingInv, NEW c \in Slots, NEW at \in Starts, NEW duration \in Durations,
           NEW enabled \in BOOLEAN, CreateMeeting(c, at, duration, enabled)
    PROVE  MeetingInv'
  <1>1. PICK ics \in BOOLEAN :
           Begin(c, [op |-> "insert", row |-> [at |-> at, duration |-> duration,
                     event |-> Len(calendar) + 1, ics |-> ics, status |-> "scheduled",
                     enabled |-> enabled, bot |-> "none", botId |-> None]])
    BY DEF CreateMeeting
  <1>2. /\ UNCHANGED <<meetings, consents, crossed, bots, dispatches>>
        /\ calendar' = Append(calendar, at) /\ Len(calendar) < MaxMeetings + MaxRequests
    BY DEF CreateMeeting, CreateEvent, BotVars
  <1>3. MeetingRows /\ Len(dispatches) \in Nat /\ Len(calendar) \in Nat
        /\ MaxMeetings \in Nat /\ MaxRequests \in Nat
    BY MeetingLens DEF MeetingInv
  <1>4. MeetingRows' /\ Len(dispatches) <= Len(dispatches')
    BY <1>2, <1>3 DEF MeetingRows
  <1>5. PICK row : row = [at |-> at, duration |-> duration, event |-> Len(calendar) + 1,
                          ics |-> ics, status |-> "scheduled", enabled |-> enabled,
                          bot |-> "none", botId |-> None]
    OBVIOUS
  <1>6. row \in MeetingRow /\ row.bot = "none"
    <2>1. Len(calendar) + 1 \in 1..(MaxMeetings + MaxRequests)
      BY <1>2, <1>3
    <2> QED
      BY <1>5, <2>1 DEF MeetingRow, MeetingStatuses, BotStatuses
  <1>7. PICK w : w = [op |-> "insert", row |-> row]
    OBVIOUS
  <1>8. work' = [work EXCEPT ![c] = w]
    BY <1>1, <1>5, <1>7 DEF Begin
  <1>9. SlotTyped(w)' /\ SlotSafe(w)' /\ ~AskRec(w) /\ w.op # "revoke"
    BY <1>6, <1>7 DEF SlotTyped, SlotSafe, Commits, AskRec
  <1> QED
    BY <1>2, <1>4, <1>8, <1>9, MeetingMoves

LEMMA InsertMeetingStep == ASSUME MeetingInv, NEW c \in Slots, InsertMeeting(c) PROVE MeetingInv'
  <1>1. PICK row : row = work[c].row
    OBVIOUS
  <1>2. row \in MeetingRow /\ row.bot = "none"
    BY <1>1 DEF MeetingInv, SlotTyped, InsertMeeting, Doing
  <1>3. /\ meetings' = Append(meetings, row) /\ Len(meetings) < MaxMeetings
        /\ work' = [work EXCEPT ![c] = None]
        /\ UNCHANGED <<consents, crossed, calendar, bots, dispatches>>
    BY <1>1 DEF InsertMeeting, End, BotVars
  <1>4. MeetingRows /\ Len(meetings) \in Nat /\ Len(dispatches) \in Nat /\ MaxMeetings \in Nat
    BY MeetingLens DEF MeetingInv
  <1>5. /\ meetings' \in Seq(MeetingRow) /\ Len(meetings') = Len(meetings) + 1
        /\ \A m \in 1..Len(meetings) : meetings'[m] = meetings[m]
    BY <1>2, <1>3, <1>4 DEF MeetingRows
  <1>6. MeetingRows' /\ Len(dispatches) <= Len(dispatches') /\ Len(meetings) <= Len(meetings')
    BY <1>3, <1>4, <1>5 DEF MeetingRows
  <1>7. RequestedByTwo'
    <2>1. ASSUME NEW m \in 1..Len(meetings'), meetings'[m].bot = "requested" PROVE Safe(m, {})'
      <3>1. m \in 1..Len(meetings) /\ meetings[m].bot = "requested"
        BY <1>2, <1>3, <1>4, <1>5, <2>1 DEF MeetingRows
      <3> QED
        BY <1>3, <3>1, SafeStays DEF MeetingInv, RequestedByTwo
    <2> QED
      BY <2>1 DEF RequestedByTwo
  <1>8. Apart'
    BY <1>3, ApartMoves DEF AskRec
  <1>9. ASSUME NEW d \in Slots, work[d] # None, work'[d] = work[d] PROVE SlotSafe(work[d])'
    <2>1. PICK q : q = work[d]
      OBVIOUS
    <2>2. SlotSafe(q) /\ SlotTyped(q)
      BY <1>9, <2>1 DEF MeetingInv
    <2>3. q.op = "revoke" /\ q.loaded.bot = "none" =>
             q.m \in crossed' \/ meetings'[q.m].bot # "requested"
      BY <1>3, <1>5, <2>2 DEF SlotSafe, SlotTyped
    <2>4. SlotSafe(q)'
      BY <1>3, <2>2, <2>3, SafeSlot
    <2> QED
      BY <1>9, <2>1, <2>4 DEF SlotSafe, Wishes, Owns, Safe, TwoStand
  <1>10. /\ work' = [d \in Slots |-> work'[d]] /\ work'[c] = None
         /\ \A d \in Slots : d # c => work'[d] = work[d]
    BY <1>3 DEF MeetingInv
  <1>11. \A d \in Slots : work'[d] # None =>
           SlotSafe(work[d])' /\ (work'[d] = work[d] \/ SlotTyped(work[d])')
    BY <1>9, <1>10
  <1> QED
    BY <1>6, <1>7, <1>8, <1>10, <1>11, MeetingFrame

\* A request other than a revocation ends with the commit of its row: a bot
\* that becomes wanted has its two, and no revocation that overlooks it.
LEMMA MeetingCommits ==
    ASSUME MeetingInv, NEW c \in Slots, NEW op \in Commits \ {"revoke"}, Doing(c, op),
           meetings' = [meetings EXCEPT ![work[c].m] = Flush(@, work[c].loaded, work[c].row)],
           work' = [work EXCEPT ![c] = None], UNCHANGED <<calendar, bots, crossed>>,
           consents' \in [1..MaxMeetings -> [Profiles -> ConsentRow]],
           \A n \in 1..MaxMeetings, p \in Profiles :
               consents[n][p] = "active" => consents'[n][p] = "active",
           op = "consented" => consents'[work[c].m][work[c].p] = "active",
           dispatches' \in Seq(DispatchRow), Len(dispatches) <= Len(dispatches'),
           \A k \in 1..Len(dispatches') : dispatches'[k].m \in 1..Len(meetings)
    PROVE  MeetingInv'
  <1>0. PICK m, own : m = work[c].m /\ own = Owns(work[c])
    OBVIOUS
  <1>1. /\ meetings' \in Seq(MeetingRow) /\ Len(meetings') = Len(meetings)
        /\ \A i \in 1..Len(meetings) : i # m => meetings'[i] = meetings[i]
        /\ meetings'[m].bot = IF work[c].row.bot = work[c].loaded.bot
                              THEN meetings[m].bot ELSE work[c].row.bot
    BY <1>0, CommitRow
  <1>2. MeetingRows /\ Len(meetings) \in Nat
        /\ \A n \in 1..Len(meetings) : n \in 1..MaxMeetings
    BY MeetingLens DEF MeetingInv
  <1>3. MeetingRows' /\ Len(meetings) <= Len(meetings')
    BY <1>1, <1>2 DEF MeetingRows
  <1>4. /\ work[c].op = op /\ m \in 1..Len(meetings) /\ SlotSafe(work[c])
        /\ op = "update" => work[c].send \subseteq {0}
    BY <1>0, Committing
  <1>5. ASSUME Wishes(work[c]) PROVE Asks(c) /\ Safe(m, {})'
    <2>1. op \in {"update", "consented"} /\ Safe(m, own) /\ (op = "update" => work[c].send # {})
      BY <1>0, <1>4, <1>5 DEF SlotSafe, Commits
    <2>2. \A p \in own : op = "consented" /\ p = work[c].p
      BY <1>0, <1>4 DEF Owns
    <2>3. \A p \in Profiles : consents[m][p] = "active" \/ p \in own => consents'[m][p] = "active"
      BY <1>0, <1>2, <1>4, <2>2
    <2>4. Safe(m, {})'
      BY <2>1, <2>3, SafeStays
    <2>5. Asks(c)
      BY <2>1 DEF Asks
    <2> QED
      BY <2>4, <2>5
  <1>6. ASSUME NEW n \in 1..Len(meetings), meetings'[n].bot = "requested"
        PROVE  meetings[n].bot = "requested" \/ (n = m /\ Wishes(work[c]))
    BY <1>1, <1>6 DEF Wishes
  <1>7. RequestedByTwo'
    <2>1. ASSUME NEW n \in 1..Len(meetings'), meetings'[n].bot = "requested" PROVE Safe(n, {})'
      <3>1. CASE meetings[n].bot = "requested"
        <4>1. Safe(n, {})
          BY <1>1, <2>1, <3>1 DEF MeetingInv, RequestedByTwo
        <4> QED
          BY <1>1, <1>2, <2>1, <4>1, SafeStays
      <3>2. CASE n = m /\ Wishes(work[c])
        BY <1>5, <3>2
      <3> QED
        BY <1>1, <1>6, <2>1, <3>1, <3>2
    <2> QED
      BY <2>1 DEF RequestedByTwo
  <1>8. Apart'
    BY ApartMoves DEF AskRec
  <1>9. ASSUME NEW d \in Slots, work[d] # None, work'[d] = work[d] PROVE SlotSafe(work[d])'
    <2>1. PICK q : q = work[d]
      OBVIOUS
    <2>2. SlotSafe(q) /\ SlotTyped(q)
      BY <1>9, <2>1 DEF MeetingInv
    <2>3. CASE q.op = "insert"
      <3>1. SlotSafe(q)'
        BY <2>3 DEF SlotSafe
      <3> QED
        BY <1>9, <2>1, <3>1 DEF SlotSafe, Wishes, Owns, Safe, TwoStand
    <2>4. CASE q.op # "insert"
      <3>1. q.m \in 1..Len(meetings)
        BY <2>2, <2>4 DEF SlotTyped
      <3>2. ASSUME q.op = "revoke", q.loaded.bot = "none", meetings'[q.m].bot = "requested"
            PROVE  q.m \in crossed'
        <4>1. CASE meetings[q.m].bot = "requested"
          BY <2>2, <3>2, <4>1 DEF SlotSafe
        <4>2. CASE q.m = m /\ Wishes(work[c])
          <5>1. Asks(c) /\ Doing(d, "revoke") /\ work[c].m = work[d].m
            BY <1>0, <1>5, <1>9, <2>1, <3>2, <4>2 DEF Doing
          <5> QED
            BY <1>0, <4>2, <5>1 DEF MeetingInv, Apart
        <4> QED
          BY <1>6, <3>1, <3>2, <4>1, <4>2
      <3>3. \A p \in Profiles : consents[q.m][p] = "active" => consents'[q.m][p] = "active"
        BY <1>2, <3>1
      <3>4. SlotSafe(q)'
        BY <2>2, <3>2, <3>3, SafeSlot
      <3> QED
        BY <1>9, <2>1, <3>4 DEF SlotSafe, Wishes, Owns, Safe, TwoStand
    <2> QED
      BY <2>3, <2>4
  <1>10. /\ work' = [d \in Slots |-> work'[d]] /\ work'[c] = None
         /\ \A d \in Slots : d # c => work'[d] = work[d]
    BY DEF MeetingInv
  <1>11. \A d \in Slots : work'[d] # None =>
           SlotSafe(work[d])' /\ (work'[d] = work[d] \/ SlotTyped(work[d])')
    BY <1>9, <1>10
  <1> QED
    BY <1>3, <1>7, <1>8, <1>10, <1>11, MeetingFrame

\* A revocation ends: unless an overlap is remembered, the bot is not wanted
\* any more and nobody is about to want it.
LEMMA CommitRevokeStep == ASSUME MeetingInv, NEW c \in Slots, CommitRevoke(c) PROVE MeetingInv'
  <1>1. Doing(c, "revoke") /\ "revoke" \in Commits
    BY DEF CommitRevoke, Commits
  <1>2. /\ meetings' = [meetings EXCEPT ![work[c].m] = Flush(@, work[c].loaded, work[c].row)]
        /\ work' = [work EXCEPT ![c] = None] /\ UNCHANGED <<calendar, bots, dispatches, crossed>>
    BY DEF CommitRevoke, End, BotVars
  <1>3. PICK m, p : m = work[c].m /\ p = work[c].p
    OBVIOUS
  <1>4. m \in 1..Len(meetings) /\ p \in Profiles /\ SlotSafe(work[c]) /\ work[c].op = "revoke"
    BY <1>1, <1>3, Committing
  <1>5. /\ consents \in [1..MaxMeetings -> [Profiles -> ConsentRow]] /\ m \in 1..MaxMeetings
        /\ MeetingRows /\ Len(dispatches) \in Nat /\ Len(meetings) \in Nat
        /\ \A n \in 1..Len(meetings) : n \in 1..MaxMeetings
    BY <1>4, MeetingLens DEF MeetingInv, MeetingRows
  <1>6. /\ consents' \in [1..MaxMeetings -> [Profiles -> ConsentRow]]
        /\ \A n \in 1..MaxMeetings : n # m => consents'[n] = consents[n]
    BY <1>3, <1>4, <1>5 DEF CommitRevoke, ConsentRow
  <1>7. /\ meetings' \in Seq(MeetingRow) /\ Len(meetings') = Len(meetings)
        /\ \A i \in 1..Len(meetings) : i # m => meetings'[i] = meetings[i]
        /\ meetings'[m].bot = IF work[c].row.bot = work[c].loaded.bot
                              THEN meetings[m].bot ELSE work[c].row.bot
    BY <1>1, <1>2, <1>3, CommitRow
  <1>8. MeetingRows' /\ Len(meetings) <= Len(meetings') /\ Len(dispatches) <= Len(dispatches')
    BY <1>2, <1>5, <1>6, <1>7 DEF MeetingRows
  <1>9. m \in crossed \/ meetings'[m].bot # "requested"
    BY <1>3, <1>4, <1>7 DEF SlotSafe
  <1>10. RequestedByTwo'
    <2>1. ASSUME NEW n \in 1..Len(meetings'), meetings'[n].bot = "requested" PROVE Safe(n, {})'
      <3>1. CASE n \in crossed
        BY <1>2, <3>1 DEF Safe
      <3>2. CASE n # m
        <4>1. Safe(n, {}) /\ consents'[n] = consents[n]
          BY <1>5, <1>6, <1>7, <2>1, <3>2 DEF MeetingInv, RequestedByTwo
        <4> QED
          BY <1>2, <4>1, SafeStays
      <3> QED
        BY <1>9, <2>1, <3>1, <3>2
    <2> QED
      BY <2>1 DEF RequestedByTwo
  <1>11. Apart'
    BY <1>2, ApartMoves DEF AskRec
  <1>12. ASSUME NEW d \in Slots, work[d] # None, work'[d] = work[d] PROVE SlotSafe(work[d])'
    <2>1. PICK q : q = work[d]
      OBVIOUS
    <2>2. SlotSafe(q) /\ SlotTyped(q)
      BY <1>12, <2>1 DEF MeetingInv
    <2>3. ASSUME q.op = "insert" PROVE SlotSafe(q)'
      BY <2>3 DEF SlotSafe
    <2>4. ASSUME q.op # "insert", q.m # m PROVE SlotSafe(q)'
      <3>1. q.m \in 1..Len(meetings) /\ q.m \in 1..MaxMeetings
        BY <1>5, <2>2, <2>4 DEF SlotTyped
      <3>2. consents'[q.m] = consents[q.m] /\ meetings'[q.m] = meetings[q.m]
        BY <1>6, <1>7, <2>4, <3>1
      <3>3. q.op = "revoke" /\ q.loaded.bot = "none" =>
               q.m \in crossed' \/ meetings'[q.m].bot # "requested"
        BY <1>2, <2>2, <3>2 DEF SlotSafe
      <3> QED
        BY <1>2, <2>2, <3>2, <3>3, SafeSlot
    <2>5. ASSUME q.op # "insert", q.m = m, m \in crossed PROVE SlotSafe(q)'
      BY <1>2, <2>2, <2>5 DEF SlotSafe, Wishes, Owns, Safe
    <2>6. ASSUME q.op # "insert", q.m = m, m \notin crossed PROVE SlotSafe(q)'
      <3>1. ~Asks(d)
        BY <1>1, <1>3, <2>1, <2>6 DEF MeetingInv, Apart
      <3>2. /\ q.op \notin {"consent", "consented", "create_bot", "dispatched"}
            /\ q.op = "update" => q.send = {}
        BY <1>12, <2>1, <3>1 DEF Asks, Doing
      <3> QED
        BY <1>9, <2>2, <2>6, <3>2 DEF SlotSafe, Wishes
    <2>7. SlotSafe(q)'
      BY <2>3, <2>4, <2>5, <2>6
    <2> QED
      BY <1>12, <2>1, <2>7 DEF SlotSafe, Wishes, Owns, Safe, TwoStand
  <1>13. /\ work' = [d \in Slots |-> work'[d]] /\ work'[c] = None
         /\ \A d \in Slots : d # c => work'[d] = work[d]
    BY <1>2 DEF MeetingInv
  <1>14. \A d \in Slots : work'[d] # None =>
           SlotSafe(work[d])' /\ (work'[d] = work[d] \/ SlotTyped(work[d])')
    BY <1>12, <1>13
  <1> QED
    BY <1>8, <1>10, <1>11, <1>13, <1>14, MeetingFrame

LEMMA PatchMeetingStep ==
    ASSUME MeetingInv, NEW c \in Slots, NEW m \in 1..Len(meetings), PatchMeeting(c, m)
    PROVE  MeetingInv'
  <1>1. PICK row : row = meetings[m]
    OBVIOUS
  <1>2. row \in MeetingRow /\ MeetingRows /\ Len(dispatches) \in Nat
    BY <1>1, MeetingLens DEF MeetingInv
  <1>3. UNCHANGED <<meetings, consents, crossed, bots, dispatches>>
    BY DEF PatchMeeting, BotVars
  <1>4. ASSUME NEW new \in MeetingRow, new.bot = row.bot, calendar' \in Seq(Starts),
               work' = [work EXCEPT ![c] = [op |-> "update", m |-> m, loaded |-> row, row |-> new,
                                            send |-> {}]]
        PROVE  MeetingInv'
    <2>1. PICK w : w = [op |-> "update", m |-> m, loaded |-> row, row |-> new, send |-> {}]
      OBVIOUS
    <2>2. ~Wishes(w)
      BY <1>4, <2>1 DEF Wishes
    <2>3. /\ SlotSafe(w)' /\ ~AskRec(w) /\ w.op # "revoke" /\ SlotTyped(w)'
          /\ crossed \subseteq crossed'
      <3>1. w.op = "update" /\ w.send = {}
        BY <2>1
      <3>2. SlotSafe(w)'
        BY <2>2, <3>1 DEF SlotSafe, Wishes
      <3>3. SlotTyped(w)'
        BY <1>2, <1>3, <1>4, <2>1 DEF SlotTyped, Commits
      <3> QED
        BY <1>3, <3>1, <3>2, <3>3 DEF AskRec
    <2>4. MeetingRows' /\ Len(dispatches) <= Len(dispatches')
      <3>1. calendar' \in Seq(Starts)
        BY <1>4
      <3>2. /\ meetings' = meetings /\ consents' = consents /\ bots' = bots
            /\ dispatches' = dispatches
        BY <1>3
      <3>3. meetings' \in Seq(MeetingRow) /\ Len(meetings') <= MaxMeetings
        BY <1>2, <3>2 DEF MeetingRows
      <3>4. bots' \in Seq(BotRow) /\ consents' \in [1..MaxMeetings -> [Profiles -> ConsentRow]]
        BY <1>2, <3>2 DEF MeetingRows
      <3>5. /\ dispatches' \in Seq(DispatchRow)
            /\ \A k \in 1..Len(dispatches') : dispatches'[k].m \in 1..Len(meetings')
        BY <1>2, <3>2 DEF MeetingRows
      <3>6. Len(dispatches) <= Len(dispatches')
        BY <1>2, <3>2
      <3> QED
        BY <3>1, <3>3, <3>4, <3>5, <3>6 DEF MeetingRows
    <2>5. work' = [work EXCEPT ![c] = w]
      BY <1>4, <2>1
    <2> QED
      BY <1>3, <2>3, <2>4, <2>5, MeetingMoves
  <1>5. CASE /\ Begin(c, [op |-> "update", m |-> m, loaded |-> row, row |-> Cancelled(row),
                          send |-> {}])
             /\ UNCHANGED calendar
    <2>1. PICK new : new = Cancelled(row)
      OBVIOUS
    <2>2. new \in MeetingRow /\ new.bot = row.bot
      BY <1>2, <2>1 DEF Cancelled, MeetingRow, MeetingStatuses
    <2>3. /\ calendar' \in Seq(Starts)
          /\ work' = [work EXCEPT ![c] = [op |-> "update", m |-> m, loaded |-> row, row |-> new,
                                          send |-> {}]]
      BY <1>2, <1>5, <2>1 DEF Begin, MeetingRows
    <2> QED
      BY <1>4, <2>2, <2>3
  <1>6. ASSUME NEW at \in Starts, NEW duration \in Durations,
               Begin(c, [op |-> "update", m |-> m, loaded |-> row,
                         row |-> Moved(row, at, duration), send |-> {}]),
               MoveEvent(row.event, at)
        PROVE  MeetingInv'
    <2>1. PICK new : new = Moved(row, at, duration)
      OBVIOUS
    <2>2. new \in MeetingRow /\ new.bot = row.bot
      BY <1>2, <2>1 DEF Moved, MeetingRow
    <2>3. work' = [work EXCEPT ![c] = [op |-> "update", m |-> m, loaded |-> row, row |-> new,
                                       send |-> {}]]
      BY <1>6, <2>1 DEF Begin
    <2>4. PICK e, cal : e = row.event /\ cal = [calendar EXCEPT ![e] = at]
      OBVIOUS
    <2>5. calendar \in Seq(Starts)
      BY <1>2 DEF MeetingRows
    <2>6. cal \in Seq(Starts)
      BY <2>4, <2>5, SeqExcept
    <2>7. calendar' \in Seq(Starts)
      BY <1>6, <2>4, <2>6 DEF MoveEvent
    <2> QED
      BY <1>4, <2>2, <2>3, <2>7
  <1> QED
    BY <1>1, <1>5, <1>6 DEF PatchMeeting

LEMMA CommitMeetingStep == ASSUME MeetingInv, NEW c \in Slots, CommitMeeting(c) PROVE MeetingInv'
  <1>1. Doing(c, "update") /\ "update" \in Commits \ {"revoke"}
    BY DEF CommitMeeting, Commits
  <1>2. /\ meetings' = [meetings EXCEPT ![work[c].m] = Flush(@, work[c].loaded, work[c].row)]
        /\ work' = [work EXCEPT ![c] = None] /\ UNCHANGED <<calendar, bots, crossed, consents>>
    BY DEF CommitMeeting, End
  <1>3. /\ consents' \in [1..MaxMeetings -> [Profiles -> ConsentRow]]
        /\ \A n \in 1..MaxMeetings, p \in Profiles :
               consents[n][p] = "active" => consents'[n][p] = "active"
    BY <1>2 DEF MeetingInv, MeetingRows
  <1>4. PICK m, send : m = work[c].m /\ send = work[c].send
    OBVIOUS
  <1>5. m \in 1..Len(meetings) /\ send \subseteq {0}
    BY <1>1, <1>4, Committing
  <1>6. /\ dispatches \in Seq(DispatchRow) /\ Len(dispatches) \in Nat /\ Len(meetings) \in Nat
        /\ \A k \in 1..Len(dispatches) : dispatches[k].m \in 1..Len(meetings)
    BY MeetingLens DEF MeetingInv, MeetingRows
  <1>7. PICK d : d = [m |-> m, eta |-> 0, state |-> "queued"]
    OBVIOUS
  <1>8. d \in DispatchRow /\ d.m = m
    BY <1>5, <1>6, <1>7 DEF DispatchRow
  <1>9. dispatches' = dispatches \/ dispatches' = Append(dispatches, d)
    BY <1>4, <1>5, <1>7 DEF CommitMeeting
  <1>10. /\ dispatches' \in Seq(DispatchRow) /\ Len(dispatches) <= Len(dispatches')
         /\ \A k \in 1..Len(dispatches') : dispatches'[k].m \in 1..Len(meetings)
    BY <1>5, <1>6, <1>8, <1>9
  <1>11. "update" # "consented"
    OBVIOUS
  <1> QED
    BY <1>1, <1>2, <1>3, <1>10, <1>11, MeetingCommits

LEMMA LoadConsentStep ==
    ASSUME MeetingInv, NEW c \in Slots, NEW m \in 1..Len(meetings), NEW p \in Profiles,
           LoadConsent(c, m, p)
    PROVE  MeetingInv'
  <1>1. PICK w : w = [op |-> "consent", m |-> m, p |-> p, loaded |-> meetings[m]]
    OBVIOUS
  <1>2. /\ work' = [work EXCEPT ![c] = w] /\ Crossing(m, Revoking(m))
        /\ UNCHANGED <<meetings, consents, calendar, bots, dispatches>>
    BY <1>1 DEF LoadConsent, Begin, BotVars
  <1>3. crossed \subseteq crossed' /\ (Revoking(m) => m \in crossed')
    BY <1>2 DEF Crossing
  <1>4. meetings[m] \in MeetingRow
    BY MeetingLens DEF MeetingInv
  <1>5. SlotTyped(w)' /\ SlotSafe(w)' /\ w.m = m /\ w.op # "revoke"
    BY <1>1, <1>2, <1>4 DEF SlotTyped, SlotSafe, Commits
  <1>6. MeetingRows' /\ Len(dispatches) <= Len(dispatches')
    BY <1>2, RowsIdle
  <1> QED
    BY <1>2, <1>3, <1>5, <1>6, MeetingMoves

\* Consents that are active were counted, so a count of two is two that stand.
LEMMA BothStand ==
    ASSUME NEW m, NEW own \in SUBSET Profiles, Both(m, own)
    PROVE  TwoStand(m, own)
  <1>1. Active(m) \cup own \subseteq Profiles
    BY DEF Active
  <1>2. IsFiniteSet(Active(m) \cup own)
    BY <1>1, MeetingAssumption, FS_Subset
  <1>3. PICK u \in Active(m) \cup own, v \in Active(m) \cup own : u # v
    BY <1>2, TwoCount DEF Both
  <1> QED
    BY <1>1, <1>3 DEF TwoStand, Active

LEMMA StartBotStep ==
    ASSUME MeetingInv, NEW c \in Slots, NEW m \in 1..Len(meetings), StartBot(c, m)
    PROVE  MeetingInv'
  <1>1. PICK row : row = [meetings[m] EXCEPT !.bot = "requested"]
    OBVIOUS
  <1>2. meetings[m] \in MeetingRow
    BY MeetingLens DEF MeetingInv
  <1>3. row \in MeetingRow
    BY <1>1, <1>2 DEF MeetingRow, BotStatuses
  <1>4. PICK w : w = [op |-> "update", m |-> m, loaded |-> meetings[m], row |-> row, send |-> {0}]
    OBVIOUS
  <1>5. /\ work' = [work EXCEPT ![c] = w] /\ Crossing(m, Revoking(m))
        /\ UNCHANGED <<meetings, consents, calendar, bots, dispatches>>
    BY <1>1, <1>4 DEF StartBot, Begin, BotVars
  <1>6. crossed \subseteq crossed' /\ (Revoking(m) => m \in crossed')
    BY <1>5 DEF Crossing
  <1>7. Safe(m, {})'
    <2>1. Both(m, {}) /\ {} \in SUBSET Profiles
      BY DEF StartBot
    <2>2. TwoStand(m, {})
      BY <2>1, BothStand
    <2> QED
      BY <1>5, <2>2 DEF Safe, TwoStand
  <1>8. w.m = m /\ w.op = "update" /\ Owns(w) = {} /\ w.send # {}
    BY <1>4 DEF Owns
  <1>9. SlotSafe(w)'
    BY <1>7, <1>8 DEF SlotSafe, Owns, Wishes
  <1>10. SlotTyped(w)'
    BY <1>2, <1>3, <1>4, <1>5 DEF SlotTyped, Commits
  <1>11. MeetingRows' /\ Len(dispatches) <= Len(dispatches')
    BY <1>5, RowsIdle
  <1> QED
    BY <1>5, <1>6, <1>8, <1>9, <1>10, <1>11, MeetingMoves

\* The messages change, the rows do not, and a slot goes on or ends.
LEMMA DispatchMoves ==
    ASSUME MeetingInv, UNCHANGED <<meetings, consents, calendar, bots>>,
           crossed \subseteq crossed',
           dispatches' \in Seq(DispatchRow), Len(dispatches) <= Len(dispatches'),
           \A k \in 1..Len(dispatches') : dispatches'[k].m \in 1..Len(meetings),
           NEW c \in Slots, NEW w, work' = [work EXCEPT ![c] = w],
           w = None \/ (SlotTyped(w)' /\ SlotSafe(w)'),
           AskRec(w) => \/ AskRec(work[c]) /\ work[c].m = w.m
                        \/ Revoking(w.m) => w.m \in crossed',
           w # None => w.op # "revoke"
    PROVE  MeetingInv'
  <1>1. MeetingRows'
    BY DEF MeetingInv, MeetingRows
  <1> QED
    BY <1>1, MeetingMoves

LEMMA GiveConsentStep == ASSUME MeetingInv, NEW c \in Slots, GiveConsent(c) PROVE MeetingInv'
  <1>1. PICK m, p, loaded : m = work[c].m /\ p = work[c].p /\ loaded = work[c].loaded
    OBVIOUS
  <1>2. m \in 1..Len(meetings) /\ p \in Profiles /\ loaded \in MeetingRow /\ AskRec(work[c])
    BY <1>1 DEF MeetingInv, SlotTyped, GiveConsent, Doing, Commits, AskRec
  <1>3. UNCHANGED <<meetings, consents, crossed, calendar, bots>>
    BY DEF GiveConsent
  <1>4. PICK send \in BOOLEAN : send = (Both(m, {p}) /\ loaded.bot = "none")
    OBVIOUS
  <1>5. PICK row : row = IF send THEN [loaded EXCEPT !.bot = "requested"] ELSE loaded
    OBVIOUS
  <1>6. PICK w : w = [op |-> "consented", m |-> m, p |-> p, loaded |-> loaded, row |-> row]
    OBVIOUS
  <1>7. work' = [work EXCEPT ![c] = w]
    BY <1>1, <1>4, <1>5, <1>6 DEF GiveConsent, Step
  <1>8. row \in MeetingRow
    BY <1>2, <1>5 DEF MeetingRow, BotStatuses
  <1>9. Wishes(w) => Safe(m, {p})'
    <2>1. CASE send
      <3>1. Both(m, {p}) /\ {p} \in SUBSET Profiles
        BY <1>2, <1>4, <2>1
      <3>2. TwoStand(m, {p})
        BY <3>1, BothStand
      <3> QED
        BY <1>3, <3>2 DEF Safe, TwoStand
    <2>2. CASE ~send
      BY <1>5, <1>6, <2>2 DEF Wishes
    <2> QED
      BY <2>1, <2>2
  <1>10. w.m = m /\ w.op = "consented" /\ Owns(w) = {p} /\ w.p = p
    BY <1>6 DEF Owns
  <1>11. SlotSafe(w)'
    BY <1>9, <1>10 DEF SlotSafe, Owns, Wishes
  <1>12. SlotTyped(w)'
    BY <1>2, <1>3, <1>6, <1>8 DEF SlotTyped, Commits
  <1>13. /\ dispatches \in Seq(DispatchRow) /\ Len(dispatches) \in Nat /\ Len(meetings) \in Nat
         /\ \A k \in 1..Len(dispatches) : dispatches[k].m \in 1..Len(meetings)
    BY MeetingLens DEF MeetingInv, MeetingRows
  <1>14. PICK d : d = [m |-> m, eta |-> loaded.at, state |-> "queued"]
    OBVIOUS
  <1>15. d \in DispatchRow /\ d.m = m
    <2>1. loaded.at \in Starts /\ m \in Nat
      BY <1>2, <1>13 DEF MeetingRow
    <2> QED
      BY <1>14, <2>1 DEF DispatchRow
  <1>16. dispatches' = dispatches \/ dispatches' = Append(dispatches, d)
    BY <1>1, <1>4, <1>14 DEF GiveConsent
  <1>17. /\ dispatches' \in Seq(DispatchRow) /\ Len(dispatches) <= Len(dispatches')
         /\ \A k \in 1..Len(dispatches') : dispatches'[k].m \in 1..Len(meetings)
    <2>1. CASE dispatches' = dispatches
      BY <1>13, <2>1
    <2>2. CASE dispatches' = Append(dispatches, d)
      <3>1. dispatches' \in Seq(DispatchRow) /\ Len(dispatches') = Len(dispatches) + 1
        BY <1>13, <1>15, <2>2
      <3>2. \A k \in 1..Len(dispatches') : dispatches'[k].m \in 1..Len(meetings)
        BY <1>2, <1>13, <1>15, <2>2, <3>1
      <3> QED
        BY <1>13, <3>1, <3>2
    <2> QED
      BY <1>16, <2>1, <2>2
  <1>18. /\ crossed \subseteq crossed' /\ w.op # "revoke"
         /\ AskRec(work[c]) /\ work[c].m = w.m
    BY <1>1, <1>2, <1>3, <1>10
  <1> QED
    BY <1>3, <1>7, <1>11, <1>12, <1>17, <1>18, DispatchMoves

LEMMA CommitConsentStep == ASSUME MeetingInv, NEW c \in Slots, CommitConsent(c) PROVE MeetingInv'
  <1>1. Doing(c, "consented") /\ "consented" \in Commits \ {"revoke"}
    BY DEF CommitConsent, Commits
  <1>2. /\ meetings' = [meetings EXCEPT ![work[c].m] = Flush(@, work[c].loaded, work[c].row)]
        /\ work' = [work EXCEPT ![c] = None] /\ UNCHANGED <<calendar, bots, dispatches, crossed>>
    BY DEF CommitConsent, End, BotVars
  <1>3. PICK m, p : m = work[c].m /\ p = work[c].p
    OBVIOUS
  <1>4. m \in 1..Len(meetings) /\ p \in Profiles
    BY <1>1, <1>3, Committing
  <1>5. consents' = [consents EXCEPT ![m][p] = "active"]
    BY <1>3 DEF CommitConsent
  <1>6. /\ consents \in [1..MaxMeetings -> [Profiles -> ConsentRow]] /\ m \in 1..MaxMeetings
        /\ dispatches \in Seq(DispatchRow) /\ Len(dispatches) \in Nat
        /\ \A k \in 1..Len(dispatches) : dispatches[k].m \in 1..Len(meetings)
    BY <1>4, MeetingLens DEF MeetingInv, MeetingRows
  <1>7. consents' \in [1..MaxMeetings -> [Profiles -> ConsentRow]]
    BY <1>4, <1>5, <1>6 DEF ConsentRow
  <1>8. /\ consents'[m][p] = "active"
        /\ \A n \in 1..MaxMeetings, u \in Profiles :
               consents[n][u] = "active" => consents'[n][u] = "active"
    BY <1>4, <1>5, <1>6
  <1>9. consents'[work[c].m][work[c].p] = "active"
    BY <1>3, <1>8
  <1>10. /\ dispatches' \in Seq(DispatchRow) /\ Len(dispatches) <= Len(dispatches')
         /\ \A k \in 1..Len(dispatches') : dispatches'[k].m \in 1..Len(meetings)
    BY <1>2, <1>6
  <1> QED
    BY <1>1, <1>2, <1>7, <1>8, <1>9, <1>10, MeetingCommits

LEMMA RevokeConsentStep ==
    ASSUME MeetingInv, NEW c \in Slots, NEW m \in 1..Len(meetings), NEW p \in Profiles,
           RevokeConsent(c, m, p)
    PROVE  MeetingInv'
  <1>1. PICK row : row = [meetings[m] EXCEPT !.bot = "none"]
    OBVIOUS
  <1>2. meetings[m] \in MeetingRow
    BY MeetingLens DEF MeetingInv
  <1>3. row \in MeetingRow /\ row.bot = "none"
    BY <1>1, <1>2 DEF MeetingRow, BotStatuses
  <1>4. PICK w : w = [op |-> "revoke", m |-> m, p |-> p, loaded |-> meetings[m], row |-> row]
    OBVIOUS
  <1>5. /\ work' = [work EXCEPT ![c] = w] /\ Crossing(m, Asking(m))
        /\ UNCHANGED <<meetings, consents, calendar, bots, dispatches>>
        /\ meetings[m].bot \in {"none", "requested"}
    BY <1>1, <1>4 DEF RevokeConsent, Begin, BotVars
  <1>6. crossed \subseteq crossed' /\ (Asking(m) => m \in crossed')
    BY <1>5 DEF Crossing
  <1>7. w.m = m /\ w.op = "revoke" /\ ~AskRec(w)
    BY <1>4 DEF AskRec
  <1>8. SlotSafe(w)'
    BY <1>3, <1>4, <1>5, <1>7 DEF SlotSafe
  <1>9. SlotTyped(w)'
    BY <1>2, <1>3, <1>4, <1>5 DEF SlotTyped, Commits
  <1>10. MeetingRows' /\ Len(dispatches) <= Len(dispatches')
    BY <1>5, RowsIdle
  <1> QED
    BY <1>5, <1>6, <1>7, <1>8, <1>9, <1>10, MeetingMoves

\* One message changes its state.
LEMMA MessageMoves ==
    ASSUME MeetingInv, NEW k \in 1..Len(dispatches), NEW s \in {"queued", "running", "done"},
           NEW ds, ds = [dispatches EXCEPT ![k].state = s]
    PROVE  /\ ds \in Seq(DispatchRow) /\ Len(ds) = Len(dispatches) /\ Len(dispatches) \in Nat
           /\ \A i \in 1..Len(ds) : ds[i].m \in 1..Len(meetings)
  <1>1. PICK d : d = [dispatches[k] EXCEPT !.state = s]
    OBVIOUS
  <1>2. /\ dispatches \in Seq(DispatchRow) /\ Len(dispatches) \in Nat
        /\ \A i \in 1..Len(dispatches) : dispatches[i].m \in 1..Len(meetings)
    BY MeetingLens DEF MeetingInv, MeetingRows
  <1>3. dispatches[k] \in DispatchRow
    BY <1>2
  <1>4. d \in DispatchRow /\ d.m = dispatches[k].m
    BY <1>1, <1>3 DEF DispatchRow
  <1>5. ds = [dispatches EXCEPT ![k] = d]
    BY <1>1
  <1>9. dispatches \in Seq(DispatchRow) /\ d \in DispatchRow
    BY <1>2, <1>4
  <1>6. ds \in Seq(DispatchRow) /\ Len(ds) = Len(dispatches)
    <2>1. ds \in Seq(DispatchRow)
      BY <1>5, <1>9, SeqExcept
    <2>2. Len(ds) = Len(dispatches)
      BY <1>5, <1>9, SeqExcept
    <2> QED
      BY <2>1, <2>2
  <1>7. \A i \in 1..Len(dispatches) : ds[i] = IF i = k THEN d ELSE dispatches[i]
    BY <1>5, <1>9, SeqExcept
  <1>8. \A i \in 1..Len(ds) : ds[i].m \in 1..Len(meetings)
    BY <1>2, <1>4, <1>6, <1>7
  <1> QED
    BY <1>2, <1>6, <1>8

LEMMA RunDispatchStep ==
    ASSUME MeetingInv, NEW c \in Slots, NEW k \in 1..Len(dispatches), RunDispatch(c, k)
    PROVE  MeetingInv'
  <1>1. PICK m : m = dispatches[k].m
    OBVIOUS
  <1>2. m \in 1..Len(meetings) /\ meetings[m] \in MeetingRow
        /\ (meetings[m].bot = "requested" => Safe(m, {}))
    <2>1. m \in 1..Len(meetings)
      BY <1>1 DEF MeetingInv, MeetingRows
    <2> QED
      BY <2>1, MeetingLens DEF MeetingInv, RequestedByTwo
  <1>3. UNCHANGED <<meetings, consents, calendar, bots>>
    BY DEF RunDispatch
  <1>4. PICK s \in {"running", "done"} :
           /\ dispatches' = [dispatches EXCEPT ![k].state = s]
           /\ \/ /\ meetings[m].bot = "requested" /\ Crossing(m, Revoking(m))
                 /\ work' = [work EXCEPT ![c] = [op |-> "create_bot", k |-> k, m |-> m,
                                                 loaded |-> meetings[m]]]
              \/ UNCHANGED <<work, crossed>>
    BY <1>1 DEF RunDispatch, Take, slotVars
  <1>5. PICK ds : ds = [dispatches EXCEPT ![k].state = s]
    OBVIOUS
  <1>6. /\ ds \in Seq(DispatchRow) /\ Len(ds) = Len(dispatches) /\ Len(dispatches) \in Nat
        /\ \A i \in 1..Len(ds) : ds[i].m \in 1..Len(meetings)
    BY <1>5, MessageMoves
  <1>7. /\ dispatches' \in Seq(DispatchRow) /\ Len(dispatches) <= Len(dispatches')
        /\ \A i \in 1..Len(dispatches') : dispatches'[i].m \in 1..Len(meetings)
        /\ k \in 1..Len(dispatches')
    BY <1>4, <1>5, <1>6
  <1>8. CASE UNCHANGED <<work, crossed>>
    <2>1. MeetingRows'
      BY <1>3, <1>7 DEF MeetingInv, MeetingRows
    <2>2. Apart'
      BY <1>8 DEF MeetingInv, Apart, Asks, Doing
    <2>3. /\ work' = [d \in Slots |-> work'[d]] /\ crossed \subseteq crossed'
          /\ \A d \in Slots : work'[d] \in {None, work[d]}
      BY <1>8 DEF MeetingInv
    <2> QED
      BY <1>3, <1>7, <2>1, <2>2, <2>3, MeetingStays
  <1>9. ASSUME meetings[m].bot = "requested", Crossing(m, Revoking(m)),
               work' = [work EXCEPT ![c] = [op |-> "create_bot", k |-> k, m |-> m,
                                            loaded |-> meetings[m]]]
        PROVE  MeetingInv'
    <2>1. PICK w : w = [op |-> "create_bot", k |-> k, m |-> m, loaded |-> meetings[m]]
      OBVIOUS
    <2>2. crossed \subseteq crossed' /\ (Revoking(m) => m \in crossed')
      BY <1>9 DEF Crossing
    <2>3. Safe(m, {})'
      BY <1>2, <1>3, <1>9, <2>2, SafeStays
    <2>4. w.m = m /\ w.op = "create_bot"
      BY <2>1
    <2>5. SlotSafe(w)'
      BY <2>3, <2>4 DEF SlotSafe
    <2>6. SlotTyped(w)'
      BY <1>2, <1>3, <1>7, <2>1 DEF SlotTyped, Commits
    <2>7. work' = [work EXCEPT ![c] = w]
      BY <1>9, <2>1
    <2> QED
      BY <1>3, <1>7, <2>2, <2>4, <2>5, <2>6, <2>7, DispatchMoves
  <1> QED
    BY <1>4, <1>8, <1>9

LEMMA CreateBotStep == ASSUME MeetingInv, NEW c \in Slots, CreateBot(c) PROVE MeetingInv'
  <1>1. PICK m, k, loaded : m = work[c].m /\ k = work[c].k /\ loaded = work[c].loaded
    OBVIOUS
  <1>2. /\ m \in 1..Len(meetings) /\ k \in 1..Len(dispatches) /\ loaded \in MeetingRow
        /\ AskRec(work[c])
    BY <1>1 DEF MeetingInv, SlotTyped, CreateBot, Doing, Commits, AskRec
  <1>3. PICK id : id = Len(bots) + 1
    OBVIOUS
  <1>4. PICK bot : bot = [m |-> m, reported |-> {}]
    OBVIOUS
  <1>5. /\ UNCHANGED <<meetings, consents, crossed, calendar, dispatches>>
        /\ bots' \in {bots, Append(bots, bot)} /\ id <= MaxBots
    BY <1>1, <1>3, <1>4 DEF CreateBot
  <1>6. MeetingRows /\ Len(meetings) \in Nat /\ Len(bots) \in Nat /\ Len(dispatches) \in Nat
    BY MeetingLens DEF MeetingInv
  <1>7. bot \in BotRow
    BY <1>2, <1>4, <1>6 DEF BotRow
  <1>8. bots' \in Seq(BotRow)
    <2>1. bots \in Seq(BotRow)
      BY <1>6 DEF MeetingRows
    <2>2. Append(bots, bot) \in Seq(BotRow)
      BY <1>7, <2>1
    <2> QED
      BY <1>5, <2>1, <2>2
  <1>9. MeetingRows' /\ Len(dispatches) <= Len(dispatches')
    BY <1>5, <1>6, <1>8 DEF MeetingRows
  <1>10. ASSUME NEW row \in MeetingRow, row.bot # "requested",
                work' = [work EXCEPT ![c] = [op |-> "dispatched", k |-> k, m |-> m,
                                             loaded |-> loaded, row |-> row]]
         PROVE  MeetingInv'
    <2>1. PICK w : w = [op |-> "dispatched", k |-> k, m |-> m, loaded |-> loaded, row |-> row]
      OBVIOUS
    <2>2. w.m = m /\ w.op = "dispatched" /\ ~Wishes(w)
      BY <1>10, <2>1 DEF Wishes
    <2>3. SlotSafe(w)'
      BY <2>2 DEF SlotSafe, Wishes
    <2>4. SlotTyped(w)'
      BY <1>2, <1>5, <1>10, <2>1 DEF SlotTyped, Commits
    <2>5. work' = [work EXCEPT ![c] = w] /\ crossed \subseteq crossed' /\ work[c].m = w.m
      BY <1>1, <1>5, <1>10, <2>1, <2>2
    <2> QED
      BY <1>2, <1>5, <1>9, <2>2, <2>3, <2>4, <2>5, MeetingMoves
  <1>11. CASE Step(c, [op |-> "dispatched", k |-> k, m |-> m, loaded |-> loaded,
                       row |-> [loaded EXCEPT !.botId = id, !.bot = "joining"]])
    <2>1. PICK row : row = [loaded EXCEPT !.botId = id, !.bot = "joining"]
      OBVIOUS
    <2>2. id \in 1..MaxBots
      BY <1>3, <1>5, <1>6
    <2>3. row \in MeetingRow /\ row.bot # "requested"
      BY <1>2, <2>1, <2>2 DEF MeetingRow, BotStatuses
    <2> QED
      BY <1>10, <1>11, <2>1, <2>3 DEF Step
  <1>12. CASE Step(c, [op |-> "dispatched", k |-> k, m |-> m, loaded |-> loaded,
                       row |-> [loaded EXCEPT !.bot = "failed"]])
    <2>1. PICK row : row = [loaded EXCEPT !.bot = "failed"]
      OBVIOUS
    <2>2. row \in MeetingRow /\ row.bot # "requested"
      BY <1>2, <2>1 DEF MeetingRow, BotStatuses
    <2> QED
      BY <1>10, <1>12, <2>1, <2>2 DEF Step
  <1> QED
    BY <1>1, <1>3, <1>11, <1>12 DEF CreateBot

LEMMA CommitDispatchStep == ASSUME MeetingInv, NEW c \in Slots, CommitDispatch(c) PROVE MeetingInv'
  <1>1. Doing(c, "dispatched") /\ "dispatched" \in Commits \ {"revoke"} /\ "dispatched" # "consented"
    BY DEF CommitDispatch, Commits
  <1>2. /\ meetings' = [meetings EXCEPT ![work[c].m] = Flush(@, work[c].loaded, work[c].row)]
        /\ work' = [work EXCEPT ![c] = None] /\ UNCHANGED <<calendar, bots, crossed, consents>>
    BY DEF CommitDispatch, End
  <1>3. /\ consents' \in [1..MaxMeetings -> [Profiles -> ConsentRow]]
        /\ \A n \in 1..MaxMeetings, p \in Profiles :
               consents[n][p] = "active" => consents'[n][p] = "active"
    BY <1>2 DEF MeetingInv, MeetingRows
  <1>4. PICK k : k = work[c].k
    OBVIOUS
  <1>5. k \in 1..Len(dispatches)
    BY <1>1, <1>4, Committing
  <1>6. PICK ds : ds = [dispatches EXCEPT ![k].state = "done"]
    OBVIOUS
  <1>7. /\ ds \in Seq(DispatchRow) /\ Len(ds) = Len(dispatches) /\ Len(dispatches) \in Nat
        /\ \A i \in 1..Len(ds) : ds[i].m \in 1..Len(meetings)
    BY <1>5, <1>6, MessageMoves
  <1>8. dispatches' = ds
    BY <1>4, <1>6 DEF CommitDispatch
  <1>9. /\ dispatches' \in Seq(DispatchRow) /\ Len(dispatches) <= Len(dispatches')
        /\ \A i \in 1..Len(dispatches') : dispatches'[i].m \in 1..Len(meetings)
    BY <1>7, <1>8
  <1> QED
    BY <1>1, <1>2, <1>3, <1>9, MeetingCommits

\* Slots keep what they hold, and no row changes.
LEMMA MeetingIdle ==
    ASSUME MeetingInv, MeetingRows', UNCHANGED <<meetings, consents, crossed, dispatches, work>>
    PROVE  MeetingInv'
  <1>1. Len(dispatches) <= Len(dispatches')
    <2>1. Len(dispatches) \in Nat
      BY MeetingLens DEF MeetingInv
    <2> QED
      BY <2>1
  <1>2. Apart'
    BY DEF MeetingInv, Apart, Asks, Doing
  <1>3. /\ work' = [d \in Slots |-> work'[d]] /\ crossed \subseteq crossed'
        /\ \A d \in Slots : work'[d] \in {None, work[d]}
    BY DEF MeetingInv
  <1> QED
    BY <1>1, <1>2, <1>3, MeetingStays

LEMMA RecallWebhookStep ==
    ASSUME MeetingInv, NEW b \in 1..Len(bots), NEW code \in Codes, RecallWebhook(b, code)
    PROVE  MeetingInv'
  <1>1. /\ UNCHANGED <<meetings, consents, crossed, calendar, dispatches, work>>
        /\ bots' = [bots EXCEPT ![b].reported = @ \cup {code}]
    BY DEF RecallWebhook, slotVars
  <1>2. MeetingRows
    BY DEF MeetingInv
  <1>3. PICK bot, new : /\ bot = [bots[b] EXCEPT !.reported = @ \cup {code}]
                        /\ new = [bots EXCEPT ![b] = bot]
    OBVIOUS
  <1>4. bots \in Seq(BotRow) /\ bot \in BotRow
    <2>1. bots \in Seq(BotRow) /\ bots[b] \in BotRow
      BY <1>2 DEF MeetingRows
    <2> QED
      BY <1>3, <2>1 DEF BotRow
  <1>5. new \in Seq(BotRow)
    BY <1>3, <1>4, SeqExcept
  <1>6. MeetingRows'
    BY <1>1, <1>2, <1>3, <1>5 DEF MeetingRows
  <1> QED
    BY <1>1, <1>6, MeetingIdle

LEMMA RunHookStep ==
    ASSUME MeetingInv, NEW c \in Slots, NEW k \in 1..Len(hooks), RunHook(c, k)
    PROVE  MeetingInv'
  <1>1. UNCHANGED <<meetings, consents, crossed, calendar, bots, dispatches>>
    BY DEF RunHook
  <1>2. MeetingRows' /\ Len(dispatches) <= Len(dispatches')
    BY <1>1, RowsIdle
  <1>3. CASE UNCHANGED slotVars
    BY <1>1, <1>2, <1>3, MeetingIdle DEF slotVars
  <1>4. ASSUME NEW m \in MeetingOf(hooks[k].b),
               Take(c, [op |-> "ingest", k |-> k, m |-> m, loaded |-> meetings[m],
                        row |-> Progressed(meetings[m], hooks[k].code)])
        PROVE  MeetingInv'
    <2>1. PICK code, row : code = hooks[k].code /\ row = Progressed(meetings[m], code)
      OBVIOUS
    <2>2. m \in 1..Len(meetings)
      BY DEF MeetingOf
    <2>3. PICK old : old = meetings[m]
      OBVIOUS
    <2>4. old \in MeetingRow
      BY <2>2, <2>3, MeetingLens DEF MeetingInv
    <2>5. row = Progressed(old, code)
      BY <2>1, <2>3
    <2>6. row \in MeetingRow /\ (row.bot = "requested" => old.bot = "requested")
      BY <2>4, <2>5, ProgressedRow
    <2>7. PICK w : w = [op |-> "ingest", k |-> k, m |-> m, loaded |-> old, row |-> row]
      OBVIOUS
    <2>8. work' = [work EXCEPT ![c] = w]
      BY <1>4, <2>1, <2>3, <2>7 DEF Take
    <2>9. w.op = "ingest" /\ ~Wishes(w) /\ ~AskRec(w) /\ crossed \subseteq crossed'
      BY <1>1, <2>6, <2>7 DEF Wishes, AskRec
    <2>10. SlotSafe(w)'
      BY <2>9 DEF SlotSafe, Wishes
    <2>11. SlotTyped(w)'
      BY <1>1, <2>2, <2>4, <2>6, <2>7 DEF SlotTyped, Commits
    <2> QED
      BY <1>1, <1>2, <2>8, <2>9, <2>10, <2>11, MeetingMoves
  <1> QED
    BY <1>3, <1>4 DEF RunHook

LEMMA CommitHookStep == ASSUME MeetingInv, NEW c \in Slots, CommitHook(c) PROVE MeetingInv'
  <1>1. Doing(c, "ingest") /\ "ingest" \in Commits \ {"revoke"} /\ "ingest" # "consented"
    BY DEF CommitHook, Commits
  <1>2. /\ meetings' = [meetings EXCEPT ![work[c].m] = Flush(@, work[c].loaded, work[c].row)]
        /\ work' = [work EXCEPT ![c] = None]
        /\ UNCHANGED <<calendar, bots, crossed, consents, dispatches>>
    BY DEF CommitHook, End
  <1>3. /\ consents' \in [1..MaxMeetings -> [Profiles -> ConsentRow]]
        /\ \A n \in 1..MaxMeetings, p \in Profiles :
               consents[n][p] = "active" => consents'[n][p] = "active"
    BY <1>2 DEF MeetingInv, MeetingRows
  <1>4. /\ dispatches \in Seq(DispatchRow) /\ Len(dispatches) \in Nat
        /\ \A k \in 1..Len(dispatches) : dispatches[k].m \in 1..Len(meetings)
    BY MeetingLens DEF MeetingInv, MeetingRows
  <1>5. /\ dispatches' \in Seq(DispatchRow) /\ Len(dispatches) <= Len(dispatches')
        /\ \A i \in 1..Len(dispatches') : dispatches'[i].m \in 1..Len(meetings)
    BY <1>2, <1>4
  <1> QED
    BY <1>1, <1>2, <1>3, <1>5, MeetingCommits

LEMMA MeetingCrashStep == ASSUME MeetingInv, NEW c \in Slots, MeetingCrash(c) PROVE MeetingInv'
  <1>1. UNCHANGED <<meetings, consents, crossed, calendar, bots>> /\ crossed \subseteq crossed'
    BY DEF MeetingCrash
  <1>2. work' = [work EXCEPT ![c] = None] /\ ~AskRec(None)
    BY DEF MeetingCrash, End, AskRec
  <1>3. CASE work[c].op \in {"create_bot", "dispatched"}
    <2>1. PICK k : k = work[c].k
      OBVIOUS
    <2>2. k \in 1..Len(dispatches)
      BY <1>3, <2>1 DEF MeetingCrash, MeetingInv, SlotTyped
    <2>3. PICK ds : ds = [dispatches EXCEPT ![k].state = "queued"]
      OBVIOUS
    <2>4. /\ ds \in Seq(DispatchRow) /\ Len(ds) = Len(dispatches) /\ Len(dispatches) \in Nat
          /\ \A i \in 1..Len(ds) : ds[i].m \in 1..Len(meetings)
      BY <2>2, <2>3, MessageMoves
    <2>5. dispatches' = ds
      BY <1>3, <2>1, <2>3 DEF MeetingCrash
    <2>6. /\ dispatches' \in Seq(DispatchRow) /\ Len(dispatches) <= Len(dispatches')
          /\ \A i \in 1..Len(dispatches') : dispatches'[i].m \in 1..Len(meetings)
      BY <2>4, <2>5
    <2> QED
      BY <1>1, <1>2, <2>6, DispatchMoves
  <1>4. CASE work[c].op \notin {"create_bot", "dispatched"}
    <2>1. UNCHANGED dispatches
      BY <1>4 DEF MeetingCrash
    <2>2. MeetingRows' /\ Len(dispatches) <= Len(dispatches')
      BY <1>1, <2>1, RowsIdle
    <2> QED
      BY <1>1, <1>2, <2>2, MeetingMoves
  <1> QED
    BY <1>3, <1>4

\* Every step of the meetings keeps their invariant.
LEMMA MeetingSteps ==
    ASSUME MeetingInv, MeetingNext \/ UNCHANGED <<meetingVars, work>>
    PROVE  MeetingInv'
  <1>1. CASE UNCHANGED <<meetingVars, work>>
    BY <1>1, RowsIdle, MeetingIdle DEF meetingVars, BotVars
  <1>2. ASSUME NEW c \in Slots, NEW at \in Starts, NEW duration \in Durations,
               NEW enabled \in BOOLEAN, CreateMeeting(c, at, duration, enabled)
        PROVE  MeetingInv'
    BY <1>2, CreateMeetingStep
  <1>3. ASSUME NEW c \in Slots,
               \/ InsertMeeting(c) \/ CommitMeeting(c) \/ GiveConsent(c) \/ CommitConsent(c)
               \/ CommitRevoke(c) \/ CreateBot(c) \/ CommitDispatch(c) \/ CommitHook(c)
               \/ MeetingCrash(c)
        PROVE  MeetingInv'
    BY <1>3, InsertMeetingStep, CommitMeetingStep, GiveConsentStep, CommitConsentStep,
       CommitRevokeStep, CreateBotStep, CommitDispatchStep, CommitHookStep, MeetingCrashStep
  <1>4. ASSUME NEW c \in Slots, NEW m \in 1..Len(meetings), PatchMeeting(c, m) \/ StartBot(c, m)
        PROVE  MeetingInv'
    BY <1>4, PatchMeetingStep, StartBotStep
  <1>5. ASSUME NEW c \in Slots, NEW m \in 1..Len(meetings), NEW p \in Profiles,
               LoadConsent(c, m, p) \/ RevokeConsent(c, m, p)
        PROVE  MeetingInv'
    BY <1>5, LoadConsentStep, RevokeConsentStep
  <1>6. ASSUME NEW c \in Slots, NEW k \in 1..Len(dispatches), RunDispatch(c, k) PROVE MeetingInv'
    BY <1>6, RunDispatchStep
  <1>7. ASSUME NEW c \in Slots, NEW k \in 1..Len(hooks), RunHook(c, k) PROVE MeetingInv'
    BY <1>7, RunHookStep
  <1>8. ASSUME NEW b \in 1..Len(bots), NEW code \in Codes, RecallWebhook(b, code) PROVE MeetingInv'
    BY <1>8, RecallWebhookStep
  <1>9. CASE MeetingTick
    BY <1>9, RowsIdle, MeetingIdle DEF MeetingTick, BotVars, slotVars
  <1> QED
    BY <1>1, <1>2, <1>3, <1>4, <1>5, <1>6, <1>7, <1>8, <1>9 DEF MeetingNext

\* What the invariant says of a row is what the property counts.
LEMMA WantedBacked ==
    ASSUME MeetingInv, NEW m \in 1..Len(meetings) \ crossed,
           meetings[m].bot = "requested" \/ Creating(m)
    PROVE  Backed(m)
  <1>1. TwoStand(m, {})
    <2>1. CASE meetings[m].bot = "requested"
      BY <2>1 DEF MeetingInv, RequestedByTwo, Safe
    <2>2. CASE Creating(m)
      <3>1. PICK c \in Slots : Doing(c, "create_bot") /\ work[c].m = m
        BY <2>2 DEF Creating
      <3>2. SlotSafe(work[c]) /\ work[c].op = "create_bot"
        BY <3>1 DEF MeetingInv, Doing
      <3> QED
        BY <3>1, <3>2 DEF SlotSafe, Safe
    <2> QED
      BY <2>1, <2>2
  <1>2. IsFiniteSet(Active(m))
    BY MeetingAssumption, FS_Subset DEF Active
  <1>3. PICK u \in Active(m), v \in Active(m) : u # v
    BY <1>1 DEF TwoStand, Active
  <1> QED
    BY <1>2, <1>3, TwoCount DEF Backed

-----------------------------------------------------------------------------
(* The five areas together *)

\* The inductive invariant of the system: that of its area, and nothing there
\* in the others.
WorkspaceInv == /\ area = "meeting" \/ meetings = <<>>
                /\ area = "mockups" \/ mockups = <<>>
                /\ area = "exports" \/ exports = <<>>
                /\ area = "board"   \/ \A t \in Tabs : tab[t] = None
                /\ area = "meeting" => MeetingInv
                /\ area = "mockups" => ConsentInv
                /\ area = "exports" => ExportInv
                /\ area = "board"   => BoardInv

LEMMA WorkspaceStarts == Init => WorkspaceInv
  <1> SUFFICES ASSUME Init PROVE WorkspaceInv
    OBVIOUS
  <1>1. work = [c \in Slots |-> None] /\ \A c \in Slots : work[c] = None
    BY DEF Init, SlotsInit
  <1>2. work = [c \in Slots |-> work[c]]
    BY <1>1
  <1>3. ExportInv
    <2>1. exports = <<>> /\ jobs = <<>>
      BY DEF Init, ExportInit
    <2>2. ExportRows /\ ReadyHasPdf
      BY <2>1 DEF ExportRows, ReadyHasPdf
    <2> QED
      BY <1>1, <1>2, <2>2 DEF ExportInv, ExportFits
  <1>4. ConsentInv
    <2>1. today = 0 /\ proposals = <<>> /\ mockups = <<>>
      BY DEF Init, ConsentInit
    <2>2. ConsentRows
      BY <2>1, ConsentAssumption DEF ConsentRows
    <2>3. \A c \in Slots : ConsentFits(c)
      BY <1>1 DEF ConsentFits
    <2> QED
      BY <1>2, <2>1, <2>2, <2>3 DEF ConsentInv
  <1>5. BoardInv
    <2>1. /\ conns = <<>> /\ lamport = 0 /\ ops = <<>> /\ snapshots = {}
          /\ tab = [t \in Tabs |-> None] /\ pen = [t \in Tabs |-> None]
      BY DEF Init, BoardInit
    <2>2. BoardRows
      BY <2>1, BoardAssumption DEF BoardRows
    <2>3. ConnsFit /\ \A t \in Tabs : TabFits(t) /\ PenFits(t)
      BY <2>1 DEF ConnsFit, TabFits, PenFits
    <2> QED
      BY <2>2, <2>3 DEF BoardInv
  <1>6. MeetingInv
    <2>1. /\ meetings = <<>> /\ calendar = <<>> /\ dispatches = <<>> /\ bots = <<>>
          /\ consents = [m \in 1..MaxMeetings |-> [p \in Profiles |-> "none"]]
      BY DEF Init, MeetingInit
    <2>2. MaxMeetings \in Nat
      BY MeetingAssumption
    <2>3. consents \in [1..MaxMeetings -> [Profiles -> ConsentRow]]
      BY <2>1 DEF ConsentRow
    <2>4. MeetingRows
      BY <2>1, <2>2, <2>3 DEF MeetingRows
    <2>5. RequestedByTwo /\ Apart
      BY <1>1, <2>1 DEF RequestedByTwo, Apart, Doing
    <2> QED
      BY <1>1, <1>2, <2>4, <2>5 DEF MeetingInv
  <1>7. meetings = <<>> /\ mockups = <<>> /\ exports = <<>> /\ \A t \in Tabs : tab[t] = None
    BY DEF Init, MeetingInit, ConsentInit, ExportInit, BoardInit
  <1> QED
    BY <1>3, <1>4, <1>5, <1>6, <1>7 DEF WorkspaceInv

LEMMA WorkspaceSteps == WorkspaceInv /\ [Next]_vars => WorkspaceInv'
  <1> SUFFICES ASSUME WorkspaceInv, [Next]_vars PROVE WorkspaceInv'
    OBVIOUS
  <1>0. UNCHANGED area
    BY DEF Next, vars
  <1>1. CASE area = "meeting"
    <2>1. (MeetingNext \/ UNCHANGED <<meetingVars, work>>) /\ UNCHANGED <<tab, exports, mockups>>
      BY <1>1 DEF Next, vars, slotVars, taskVars, boardVars, exportVars, consentVars
    <2>2. MeetingInv'
      BY <1>1, <2>1, MeetingSteps DEF WorkspaceInv
    <2> QED
      BY <1>0, <1>1, <2>1, <2>2 DEF WorkspaceInv
  <1>2. CASE area = "mockups"
    <2>1. (ConsentNext \/ UNCHANGED <<consentVars, work>>) /\ UNCHANGED <<tab, exports, meetings>>
      BY <1>2 DEF Next, vars, slotVars, taskVars, boardVars, exportVars, meetingVars
    <2>2. ConsentInv'
      BY <1>2, <2>1, ConsentSteps DEF WorkspaceInv
    <2> QED
      BY <1>0, <1>2, <2>1, <2>2 DEF WorkspaceInv
  <1>3. CASE area = "exports"
    <2>1. (ExportNext \/ UNCHANGED <<exportVars, work>>) /\ UNCHANGED <<tab, mockups, meetings>>
      BY <1>3 DEF Next, vars, slotVars, taskVars, boardVars, consentVars, meetingVars
    <2>2. ExportInv'
      BY <1>3, <2>1, ExportSteps DEF WorkspaceInv
    <2> QED
      BY <1>0, <1>3, <2>1, <2>2 DEF WorkspaceInv
  <1>4. CASE area = "board"
    <2>1. (BoardNext \/ UNCHANGED boardVars) /\ UNCHANGED <<exports, mockups, meetings>>
      BY <1>4 DEF Next, vars, slotVars, taskVars, exportVars, consentVars, meetingVars
    <2>2. BoardInv'
      BY <1>4, <2>1, BoardSteps DEF WorkspaceInv
    <2> QED
      BY <1>0, <1>4, <2>1, <2>2 DEF WorkspaceInv
  <1>5. CASE area \notin {"meeting", "mockups", "exports", "board"}
    <2>1. UNCHANGED <<tab, exports, mockups, meetings>>
      BY <1>5 DEF Next, vars, slotVars, taskVars, boardVars, exportVars, consentVars, meetingVars
    <2> QED
      BY <1>0, <1>5, <2>1 DEF WorkspaceInv
  <1> QED
    BY <1>1, <1>2, <1>3, <1>4, <1>5

\* The areas keep their invariants in every behaviour.
THEOREM WorkspaceKeeps == Spec => []WorkspaceInv
  BY WorkspaceStarts, WorkspaceSteps, PTL DEF Spec

\* Where no revocation overlapped a wish for the bot, a bot is wanted and
\* created only while two consents stand, whatever tasks a revocation left in
\* the broker, are delivered again or die; and no mockup is made without the
\* word of two (give_bot_consent, revoke_bot_consent, start_bot,
\* dispatch_recall_bot, mockup_consent).
THEOREM NothingByOneAlone == Spec => []AgreedByTwo
  <1>1. WorkspaceInv => AgreedByTwo
    <2> SUFFICES ASSUME WorkspaceInv PROVE AgreedByTwo
      OBVIOUS
    <2>1. ASSUME NEW m \in 1..Len(meetings) \ crossed,
                 meetings[m].bot = "requested" \/ Creating(m)
          PROVE  Backed(m)
      <3>1. CASE area = "meeting"
        BY <2>1, <3>1, WantedBacked DEF WorkspaceInv
      <3>2. CASE meetings = <<>>
        BY <3>2
      <3> QED
        BY <3>1, <3>2 DEF WorkspaceInv
    <2>2. ASSUME NEW i \in 1..Len(mockups)
          PROVE  /\ proposals[mockups[i].for].status = "approved"
                 /\ Cardinality({p \in Parties : <<mockups[i].for, p>> \in said}) >= 2
      <3>1. CASE area = "mockups"
        BY <3>1, MockupAgreed DEF WorkspaceInv
      <3>2. CASE mockups = <<>>
        BY <3>2
      <3> QED
        BY <3>1, <3>2 DEF WorkspaceInv
    <2> QED
      BY <2>1, <2>2 DEF AgreedByTwo
  <1> QED
    BY <1>1, WorkspaceKeeps, PTL

\* A tab that joins a board while others draw, leave and the server writes
\* snapshots misses no operation but the ones whose sending a tab left
\* (_send_initial_state, broadcast, disconnect of whiteboard_ws.py).
THEOREM JoinersMissNothing == Spec => []JoinerHasNoGap
  <1>1. WorkspaceInv => JoinerHasNoGap
    <2> SUFFICES ASSUME WorkspaceInv PROVE JoinerHasNoGap
      OBVIOUS
    <2>1. CASE area = "board"
      BY <2>1, NoGap DEF WorkspaceInv
    <2>2. CASE \A t \in Tabs : tab[t] = None
      BY <2>2 DEF JoinerHasNoGap
    <2> QED
      BY <2>1, <2>2 DEF WorkspaceInv
  <1> QED
    BY <1>1, WorkspaceKeeps, PTL

\* Whatever tasks overlap, die or are delivered again, an export that is
\* ready has its objects in the bucket (collab_export_generate).
THEOREM ReadyExportsHaveFiles == Spec => []ReadyHasPdf
  <1>1. WorkspaceInv => ReadyHasPdf
    <2> SUFFICES ASSUME WorkspaceInv PROVE ReadyHasPdf
      OBVIOUS
    <2>1. CASE area = "exports"
      BY <2>1 DEF WorkspaceInv, ExportInv
    <2>2. CASE exports = <<>>
      BY <2>2 DEF ReadyHasPdf
    <2> QED
      BY <2>1, <2>2 DEF WorkspaceInv
  <1> QED
    BY <1>1, WorkspaceKeeps, PTL

==============================================================================
