--------------------------- MODULE ModerationSystem ---------------------------
(***************************************************************************)
(* moderation-svc as a whole: content scans, user reports and takedown     *)
(* notices open cases on one desk, where moderators, the SLA scan and the  *)
(* takedown task all write the same rows.                                  *)
(***************************************************************************)
EXTENDS DmcaNotices, ContentScan

moderationVars == <<deskVars, dmcaVars, scanVars>>

ModerationInit == DeskInit /\ DmcaInit /\ ScanInit
ModerationNext == \/ DeskNext /\ UNCHANGED <<dmcaVars, scanVars>>
                  \/ DmcaNext /\ UNCHANGED scanVars
                  \/ ScanNext /\ UNCHANGED dmcaVars

-----------------------------------------------------------------------------
(* Properties *)

\* Every row has its type; no case, action or report refers to a row that is
\* not there (the tables' columns and foreign keys).
ModerationTypeOK ==
    /\ cases \in Seq(CaseRow) /\ Len(cases) <= MaxCases
    /\ actions \in Seq(ActionRow) /\ notices \in Seq(NoticeRow) /\ reports \in Seq(ReportRow)
    /\ \A k \in 1..Len(actions) : actions[k].case \in 1..Len(cases)
    /\ \A k \in 1..Len(notices) : notices[k].case \in 1..Len(cases)
    /\ \A k \in 1..Len(reports) : cases[reports[k].case].kind = "report"
                                  /\ cases[reports[k].case].subject = reports[k].subject
    /\ throttle \in [Reporters -> Nat \cup {None}]
    /\ fate \in [Subjects -> Fates \cup {None}]
    /\ handled \cup tasks \subseteq (1..Len(actions)) \X (Services \cup {"dispatch"})

\* A case that ended has an action row of the kind that ended it, whatever
\* moderators, the takedown task and the SLA scan wrote over each other:
\* take_action and enact_dmca_hide write the case and the row together.
EndedHasAction ==
    \A k \in 1..Len(cases) : cases[k].status \in {"actioned", "dismissed"} =>
        \E a \in 1..Len(actions) :
            /\ actions[a].case = k
            /\ (actions[a].type = "dismiss") <=> (cases[k].status = "dismissed")

\* The day's report counter never runs ahead of the reports that were filed
\* nor past the limit (_check_and_increment_throttle).
CounterIsBacked ==
    \A u \in Reporters : throttle[u] # None =>
        throttle[u] \in 1..ReportLimit /\ throttle[u] <= Cardinality(MadeBy(u))

\* What lost updates let through: a count that k requests may hold, with room
\* for n more, is overtaken once by the slowest of them after all that the
\* others get through, and the k start again with room for one less.
Through[p \in Nat \X Nat] ==
    LET k == p[1]  n == p[2]
    IN  IF k = 0 \/ n = 0 THEN 1 ELSE Through[<<k - 1, n>>] + Through[<<k, n - 1>>]

\* The counter is backed, and a user files no more reports than requests under
\* way can carry past it: the unique key lets one first report of the day in,
\* every later one writes one more than the count it loaded.
ThrottleIsBacked ==
    /\ CounterIsBacked
    /\ \A u \in Reporters :
          Cardinality(MadeBy(u)) <= Through[<<Cardinality(Slots), ReportLimit - 1>>]

\* A takedown is enacted at most once per run of the task that can overlap,
\* and never before its 24 hours are over, although notices are rejected
\* and answered while the task is between its query and its commit.
HideOncePerWorker ==
    \A n \in 1..Len(notices) :
        LET hides == {a \in 1..Len(actions) : actions[a].case = notices[n].case
                                              /\ actions[a].by = "system"}
        IN /\ Cardinality(hides) <= Cardinality(BeatWorkers)
           /\ hides # {} => now >= notices[n].hideAt
           /\ notices[n].state = "hidden" => hides # {}

\* The caller is never milder than the tier the scan was routed to, although
\* it decides on the rounded score and the desk on the exact one.
Severity(tier) == CASE tier = "tier_0_allow" -> 0 [] tier = "tier_1_24h" -> 1
                    [] tier = "tier_2_6h" -> 2 [] OTHER -> 3
VerdictSeverity(f) == CASE f = "allowed" -> 0 [] f = "soft_warn" -> 1
                        [] f = "hidden" -> 2 [] OTHER -> 3
CallerNotMilder ==
    \A s \in Subjects : contentScans[s].at = "answered" /\ contentScans[s].flag = None =>
        VerdictSeverity(Verdict(CallerOf[s], Reported(contentScans[s].score)))
            >= Severity(RouteScan(contentScans[s].score, None))
===============================================================================
