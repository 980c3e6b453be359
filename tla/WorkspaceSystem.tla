--------------------------- MODULE WorkspaceSystem ---------------------------
(***************************************************************************)
(* What two collaborators share once a collab is running: its meetings,    *)
(* its task list, its whiteboard, its exports and its mockups.  The five   *)
(* share no table, key or message, so an interleaving of two of them shows *)
(* nothing that each alone does not: a behaviour is one of the five, named *)
(* by "area".                                                              *)
(***************************************************************************)
EXTENDS MeetingBot, TaskBoard, Whiteboard, ExportJobs, MockupConsents

CONSTANT Areas

VARIABLE area

vars == <<area, slotVars, meetingVars, taskVars, boardVars, exportVars, consentVars>>

Init == /\ area \in Areas /\ SlotsInit
        /\ MeetingInit /\ TaskInit /\ BoardInit /\ ExportInit /\ ConsentInit
Next ==
    /\ UNCHANGED area
    /\ \/ /\ area = "meeting" /\ MeetingNext
          /\ UNCHANGED <<taskVars, boardVars, exportVars, consentVars>>
       \/ /\ area = "tasks" /\ TaskNext
          /\ UNCHANGED <<meetingVars, boardVars, exportVars, consentVars>>
       \/ /\ area = "board" /\ BoardNext
          /\ UNCHANGED <<meetingVars, taskVars, exportVars, consentVars>>
       \/ /\ area = "exports" /\ ExportNext
          /\ UNCHANGED <<meetingVars, taskVars, boardVars, consentVars>>
       \/ /\ area = "mockups" /\ ConsentNext
          /\ UNCHANGED <<meetingVars, taskVars, boardVars, exportVars>>

Spec == Init /\ [][Next]_vars

-----------------------------------------------------------------------------
(* Properties *)

\* Every row has its type and refers to rows that are there.
WorkspaceTypeOK ==
    /\ meetings \in Seq(MeetingRow)
    /\ \A m \in 1..Len(meetings) : meetings[m].event \in 1..Len(calendar)
    /\ consents \in [1..MaxMeetings -> [Profiles -> ConsentRow]]
    /\ artifacts \in Seq(MeetingArtifact)
    /\ \A a \in 1..Len(artifacts) : artifacts[a][1] <= Len(meetings)
    /\ tasks \in Seq(TaskRow) /\ comments \in Seq(TaskComment)
    /\ \A k \in 1..Len(comments) : comments[k] <= Len(tasks)
    /\ exports \in Seq(ChatExportRow \cup BoardExportRow)
    /\ \A j \in 1..Len(jobs) : /\ jobs[j].x \in 1..Len(exports)
                               /\ jobs[j].tries <= Retries(exports[jobs[j].x].kind)
    /\ proposals \in Seq(ProposalRow) /\ mockups \in Seq(MockupRow)
    /\ \A i \in 1..Len(mockups) : mockups[i].for \in 1..Len(proposals)

\* What needs the word of two participants has it.  While a bot is wanted,
\* and while one is being created, two consents stand: a revocation takes the
\* wish back, so that a task that is still queued, or delivered again, finds
\* nothing to do (give_bot_consent, revoke_bot_consent, start_bot,
\* dispatch_recall_bot).  Excepted are the meetings where a revocation
\* overlapped a consent, a start or a dispatch, which nothing keeps apart.  A
\* mockup is made only of a proposal that a second participant approved,
\* whatever expires meanwhile (mockup_consent).
Backed(m)   == Cardinality(Active(m)) >= 2
Creating(m) == \E c \in Slots : Doing(c, "create_bot") /\ work[c].m = m

AgreedByTwo ==
    /\ \A m \in 1..Len(meetings) \ crossed :
          meetings[m].bot = "requested" \/ Creating(m) => Backed(m)
    /\ \A i \in 1..Len(mockups) :
          /\ proposals[mockups[i].for].status = "approved"
          /\ Cardinality({p \in Parties : <<mockups[i].for, p>> \in said}) >= 2

\* The code does not promise the next three: see the README.
\* A bot is created only while two consents stand, overlaps or not.
BotNeedsTwo == \A m \in 1..Len(meetings) : Creating(m) => Backed(m)

\* An approval makes one mockup, also when party B's request comes twice.
OneMockupPerApproval ==
    \A i, j \in 1..Len(mockups) : mockups[i].for = mockups[j].for => i = j

\* A proposal that has expired stays expired.
ExpiredStaysExpired ==
    [][\A k \in 1..Len(proposals) :
          proposals[k].status = "expired" => proposals'[k].status = "expired"]_vars

\* A meeting ends, and has a transcript, only after a bot that was in it has
\* reported that it is done, although webhooks are repeated, reordered and
\* may come from a bot the row no longer names (process_recall_webhook).
EndedByItsBot ==
    \A m \in 1..Len(meetings) :
        meetings[m].status = "ended" \/ ListArtifacts(m) # <<>> =>
            \E b \in 1..Len(bots) : bots[b].m = m /\ "done" \in bots[b].reported

\* A task that is done has a closing time, whatever the two participants
\* write over each other (update_task writes the two columns only together).
DoneIsClosed == \A t \in 1..Len(tasks) : tasks[t].status = "done" => tasks[t].closed # None

\* A tab that was hydrated from a snapshot has every stored operation after
\* it: from the delta or live, or one is about to be sent.  Only an operation
\* during whose sending another tab left can be missed, because disconnect
\* shortens the list that broadcast iterates over.
JoinerHasNoGap ==
    \A t \in Tabs : tab[t] # None /\ tab[t].at = "live" =>
        \A k \in 1..Len(ops) :
            \/ k \in tab[t].delta \cup tab[t].live \cup disturbed
            \/ \E u \in Tabs : pen[u] # None /\ pen[u].at = "send" /\ pen[u].op = k
            \/ k > tab[t].since /\ ops[k].by = t
            \/ k <= tab[t].since
               /\ (tab[t].version = None \/ ops[k].lamport <= tab[t].version)

\* An export offers no object that was not uploaded, although tasks overlap,
\* die and are repeated (collab_export_generate).
ReadyHasPdf ==
    \A x \in 1..Len(exports) : exports[x].kind = "chat" =>
        /\ exports[x].status = "ready" => <<x, "pdf">> \in s3
        /\ exports[x].zip => <<x, "zip">> \in s3
===============================================================================
