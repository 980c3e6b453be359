------------------------------ MODULE ContentScan ------------------------------
(***************************************************************************)
(* moderation-svc's scan API (routers/internal.py, workers/scan_tasks.py,  *)
(* score.py) together with the services that call it: chat-svc and         *)
(* media-svc before a message is stored, invite-svc before an invite,      *)
(* ai-orchestrator-svc before a result.  A scan scores the content, routes *)
(* it to a tier and opens a case; the caller looks at the score it gets    *)
(* back, and every caller lets the content through when it gets none.      *)
(*                                                                         *)
(* Scores are counted in half rounding steps, ten steps being 1.0, so that *)
(* an odd number stands for a score that rounding moves over a threshold.  *)
(***************************************************************************)
EXTENDS ModerationDesk

CONSTANTS CallerOf,          \* the service behind each piece of content
          TextOf,            \* contents with the same text
          RawScores          \* what the tools may answer, in half steps

Callers == {"chat", "image", "audio_video", "invite", "ai"}
ASSUME ScanAssumption ==
    /\ CallerOf \in [Subjects -> Callers]
    /\ RawScores \subseteq 0..20

VARIABLES
    contentScans,   \* one scan under way per piece of content
    seenText,       \* Redis: texts scanned within the day
    fate            \* what the caller did with the content

scanVars == <<contentScans, seenText, fate>>

Fates == {"allowed", "soft_warn", "hidden", "auto_hidden", "rejected"}

ScanInit == /\ contentScans = [s \in Subjects |-> Idle]
            /\ seenText = {} /\ fate = [s \in Subjects |-> None]

Texts == {"chat", "invite"}

-----------------------------------------------------------------------------
(* score.py *)

DupBump == 6
Combined(raw, dup) == IF raw + DupBump > 20 /\ dup THEN 20 ELSE raw + (IF dup THEN DupBump ELSE 0)
\* round(score, 4): what the caller is told.
Reported(score) == (score + 1) \div 2

\* route: thresholds 0.4, 0.7 and 0.9; "tier_0_allow" opens no case.
Threshold(score) == IF score < 8 THEN "tier_0_allow" ELSE IF score < 14 THEN "tier_1_24h"
                    ELSE IF score < 18 THEN "tier_2_6h" ELSE "tier_3_1h"
RouteScan(score, flag) ==
    CASE flag = "csam"   -> "tier_3_1h"
      [] flag = "forced" /\ score < 8 -> "tier_1_24h"
      [] OTHER           -> Threshold(score)

\* The callers' own thresholds, on the reported score.
ScoreVerdict(reported) ==
    IF reported >= 9 THEN "auto_hidden" ELSE IF reported >= 7 THEN "hidden"
    ELSE IF reported >= 4 THEN "soft_warn" ELSE "allowed"
SynopsisVerdict(reported) == IF reported >= 4 THEN "rejected" ELSE "allowed"
Verdict(caller, reported) ==
    IF caller = "invite" THEN SynopsisVerdict(reported) ELSE ScoreVerdict(reported)

-----------------------------------------------------------------------------
\* What the tools may answer: a failed text scan counts as 0.5, a failed
\* image scan as nothing found.
TextScores  == RawScores \cup {10}
ImageScores == RawScores \cup {0}

\* The ctx that the request schema demands: ai-orchestrator-svc sends none.
SchemaAccepts(caller) == caller # "ai"
\* Audio and video scans return a job id, whose result no one collects.
AnsweredAtOnce(caller) == caller # "audio_video"

\* A text counts as a duplicate when it was scanned within the day.
Repeated(s) == CallerOf[s] \in Texts /\ TextOf[s] \in seenText

\* scan_text and scan_image up to their score.  pHash and pgvector never
\* match: the lookup that build_routing_result waits for is not there.
RunTools(s) ==
    LET text == CallerOf[s] \in Texts IN
    /\ SchemaAccepts(CallerOf[s]) /\ AnsweredAtOnce(CallerOf[s])
    /\ contentScans[s].at = "idle" /\ fate[s] = None /\ Accept
    /\ \E raw \in IF text THEN TextScores ELSE ImageScores, flag \in {None, "forced", "csam"} :
          /\ flag = "csam" => text
          /\ contentScans' = [contentScans EXCEPT ![s] = [at |-> "case", flag |-> flag,
                                           score |-> Combined(raw, Repeated(s))]]
    /\ \E embedded \in BOOLEAN :
          seenText' = IF text /\ embedded THEN seenText \cup {TextOf[s]} ELSE seenText
    /\ UNCHANGED <<now, cases, actions, reports, throttle, req, filing, scan, tasks, handled, fate>>

\* Only invite-svc names the subject and the owner of what it has scanned;
\* for the others the INSERT breaks a NOT NULL and the request fails.
NamesSubject(caller) == caller = "invite"
KeyedCases(s) == {k \in 1..Len(cases) : cases[k].key = s}

\* _create_case_from_routing and the commit; the scan log goes the same way.
ScanCase(s) ==
    LET q == contentScans[s]  tier == RouteScan(q.score, q.flag) IN
    /\ q.at = "case"
    /\ \/ /\ tier = "tier_0_allow" \/ KeyedCases(s) # {}
          /\ contentScans' = [contentScans EXCEPT ![s].at = "answered"]
          /\ UNCHANGED cases
       \/ /\ tier # "tier_0_allow" /\ KeyedCases(s) = {} /\ NamesSubject(CallerOf[s])
          /\ RoomFor(1)
          /\ cases' = Append(cases, [NewCase("auto", s, tier, q.flag # None) EXCEPT !.key = s])
          /\ contentScans' = [contentScans EXCEPT ![s].at = "answered"]
       \/ /\ tier # "tier_0_allow" /\ ~NamesSubject(CallerOf[s])
          /\ contentScans' = [contentScans EXCEPT ![s].at = "failed"]
          /\ UNCHANGED cases
    /\ UNCHANGED <<now, actions, reports, throttle, req, filing, scan, tasks, handled, slotVars,
                   seenText, fate>>

\* The caller acts on the answer it got in time; media-svc adds its own
\* bump when it finds the image in its table of hashes.
Decide(s) ==
    /\ contentScans[s].at = "answered" /\ fate[s] = None
    /\ \E bump \in IF CallerOf[s] = "image" THEN {0, 3} ELSE {0} :
          fate' = [fate EXCEPT ![s] = Verdict(CallerOf[s], Reported(contentScans[s].score) + bump)]
    /\ UNCHANGED <<slotVars, deskVars, contentScans, seenText>>

\* No answer: an error, a timeout with the scan still running, a service
\* that cannot be reached, a request its schema refuses (ai sends no ctx), or
\* a job id without a score (audio and video, whose result no one collects).
PassThrough(s) ==
    /\ fate[s] = None
    /\ \/ contentScans[s].at \in {"failed", "case"} /\ UNCHANGED slotVars
       \/ contentScans[s].at = "idle" /\ Accept
    /\ fate' = [fate EXCEPT ![s] = "allowed"]
    /\ UNCHANGED <<now, cases, actions, reports, throttle, req, filing, scan, tasks, handled,
                   contentScans, seenText>>

\* A later message, invite or upload with the same text: it is scanned anew.
Again(s) ==
    /\ fate[s] # None /\ contentScans[s].at # "case"
    /\ fate' = [fate EXCEPT ![s] = None]
    /\ contentScans' = [contentScans EXCEPT ![s] = Idle]
    /\ UNCHANGED <<slotVars, deskVars, seenText>>

ScanNext == \E s \in Subjects :
    RunTools(s) \/ ScanCase(s) \/ Decide(s) \/ PassThrough(s) \/ Again(s)
===============================================================================
