---------------------------- MODULE ModerationDesk ----------------------------
(***************************************************************************)
(* moderation-svc: reports, the case queue and what follows a decision.    *)
(* Users report content (routers/reports.py), moderators claim, release,   *)
(* escalate, decide and reopen cases (routers/cases.py), a beat task marks *)
(* cases that are late (workers/sla_tasks.py), and a decision is carried   *)
(* to the other services by Celery tasks (workers/propagation_tasks.py).   *)
(* Content scans and DMCA notices, which open cases too, are modules that  *)
(* extend this one.                                                        *)
(*                                                                         *)
(* Every request reads first and writes in one transaction at its end, so  *)
(* each is two steps; an endpoint is the relation between the row it read  *)
(* and the row it wants.  Events go to nobody (no service binds the        *)
(* moderation exchange), free text and evidence are left out.              *)
(***************************************************************************)
EXTENDS RequestSlots, Sequences, FiniteSets

CONSTANTS Moderators, Reporters, Subjects,
          ReportLimit,       \* settings.reports_per_user_per_day
          Services,          \* what a permanent ban is propagated to
          Decisions,         \* the action types the instance uses
          DueIn,             \* hours of each priority tier, in clock ticks
          MaxFilings,        \* bound: requests, decisions excepted
          MaxCases, MaxActions, MaxDispatches, MaxTime      \* bounds

ASSUME DeskAssumption ==
    /\ ReportLimit \in Nat \ {0}
    /\ {"chat_readonly", "admin_audit"} \subseteq Services
    /\ None \notin Nat \cup Moderators \cup Reporters \cup Decisions
    /\ IsFiniteSet(Slots)
    /\ MaxCases \in Nat /\ MaxActions \in Nat
    /\ MaxDispatches \in Nat /\ MaxTime \in Nat /\ MaxFilings \in Nat

VARIABLES
    now,        \* the clock
    cases,      \* moderation_cases
    actions,    \* moderation_actions: a trigger rejects UPDATE and DELETE
    reports,    \* reports
    throttle,   \* report_throttle of the day: None or the count
    req,        \* a moderator's request, between its SELECT and its COMMIT
    filing,     \* a user's report, between its SELECTs and its COMMIT
    scan,       \* the run of sla_scan, between its queries and its COMMIT
    tasks,      \* Celery: <<action, task>> waiting
    handled     \* Celery: <<action, task>> a worker has run and acknowledged

deskVars == <<now, cases, actions, reports, throttle, req, filing, scan, tasks, handled>>

Statuses    == {"open", "in_review", "actioned", "dismissed", "escalated"}
PriorityTiers       == {"tier_1_24h", "tier_2_6h", "tier_3_1h"}
DualReview  == {"permanent_ban", "delete_account"}
Mutes       == {"temp_mute_1h", "temp_mute_24h", "temp_mute_7d"}
ActionTypes == DualReview \cup Mutes \cup
               {"warn", "hide", "restore", "dismiss", "escalate_to_legal"}

CaseRow == [kind : {"auto", "report", "dmca"}, subject : Subjects, status : Statuses,
            tier : PriorityTiers, forced : BOOLEAN, due : Nat, breached : Nat \cup {None},
            claimed : Moderators \cup {None}, action : ActionTypes \cup {None},
            actor : Moderators \cup {None}, second : Moderators \cup {None},
            key : Subjects \cup {None}]
ActionRow == [case : Nat, type : ActionTypes, by : Moderators \cup {"system"}]
ReportRow == [by : Reporters, subject : Subjects, case : Nat]

NewCase(kind, s, tier, forced) ==
    [kind |-> kind, subject |-> s, status |-> "open", tier |-> tier, forced |-> forced,
     due |-> now + DueIn[tier], breached |-> None, claimed |-> None,
     action |-> None, actor |-> None, second |-> None, key |-> None]

Idle     == [at |-> "idle"]
NoScan   == [at |-> None, late |-> {}, urgent |-> {}]

DeskInit ==
    /\ now = 0 /\ cases = <<>> /\ actions = <<>> /\ reports = <<>>
    /\ throttle = [u \in Reporters |-> None]
    /\ req = [m \in Moderators |-> Idle]
    /\ filing = [c \in Reporters \X Slots |-> Idle]
    /\ scan = NoScan /\ tasks = {} /\ handled = {}

\* One more request reaches the service, a decision excepted; the locals of
\* a request are in req and filing, and a user has as many as there are slots.
Accept     == used < MaxFilings /\ used' = used + 1 /\ UNCHANGED work
RoomFor(n) == Len(cases) + n <= MaxCases

-----------------------------------------------------------------------------
(* POST /reports *)

ReportCases(s) == {k \in 1..Len(cases) :
    cases[k].kind = "report" /\ cases[k].subject = s /\ cases[k].status = "open"}
MadeBy(u) == {k \in 1..Len(reports) : reports[k].by = u}

\* 429 at the limit; scalar_one_or_none() raises when two open cases match.
LoadReport(c, s) ==
    LET u == c[1] IN
    /\ filing[c].at = "idle" /\ Accept
    /\ throttle[u] # None => throttle[u] < ReportLimit
    /\ Cardinality(ReportCases(s)) <= 1
    /\ filing' = [filing EXCEPT ![c] =
           [at |-> "commit", subject |-> s, count |-> throttle[u], found |-> ReportCases(s)]]
    /\ UNCHANGED <<now, cases, actions, reports, throttle, req, scan, tasks, handled>>

\* Faulty variant: the first report of the day is not counted.
CountedReportLate(c) ==
    throttle' = [throttle EXCEPT ![c[1]] = IF filing[c].count = None THEN 0
                                           ELSE filing[c].count + 1]
\* The throttle row is inserted or gets the count that was loaded plus one.
CountedReport(c) ==
    throttle' = [throttle EXCEPT ![c[1]] = IF filing[c].count = None THEN 1
                                           ELSE filing[c].count + 1]

\* uq_report_throttle_user_day: a second first report of the day fails whole.
CommitReport(c) ==
    LET f == filing[c]  u == c[1]
        clash == f.count = None /\ throttle[u] # None
        k == IF f.found = {} THEN Len(cases) + 1 ELSE CHOOSE x \in f.found : TRUE
    IN
    /\ f.at = "commit"
    /\ filing' = [filing EXCEPT ![c] = Idle]
    /\ \/ /\ clash /\ UNCHANGED <<cases, reports, throttle>>
       \/ /\ ~clash
          /\ CountedReport(c)
          /\ f.found = {} => RoomFor(1)
          /\ cases' = IF f.found # {} THEN cases
                      ELSE Append(cases, NewCase("report", f.subject, "tier_1_24h", FALSE))
          /\ reports' = Append(reports, [by |-> u, subject |-> f.subject, case |-> k])
    /\ UNCHANGED <<now, actions, req, scan, tasks, handled, slotVars>>

-----------------------------------------------------------------------------
(* The moderator's endpoints: a guard on the row that was read, and the row *)
(* the handler wants.                                                       *)

Claim(m, c)    == [ok |-> c.status = "open",
                   row |-> [c EXCEPT !.status = "in_review", !.claimed = m]]
Release(m, c)  == [ok |-> c.claimed = m,
                   row |-> [c EXCEPT !.status = "open", !.claimed = None]]
Escalate(m, c) == [ok |-> TRUE, row |-> [c EXCEPT !.status = "escalated"]]

MayAct(m, c, type, second) ==
    /\ c.status \in {"in_review", "escalated"}
    /\ type \in DualReview => second \notin {None, m}
    /\ type = "dismiss" => ~c.forced

Decided(m, c, type, second) ==
    [c EXCEPT !.action = type, !.actor = m, !.second = second,
              !.status = IF type = "dismiss" THEN "dismissed" ELSE "actioned"]

\* Claim, release and escalate: read the row, check, and go on to the commit.
LoadCase(m, k) ==
    /\ req[m].at = "idle" /\ Accept
    /\ \E op \in {Claim(m, cases[k]), Release(m, cases[k]), Escalate(m, cases[k])} :
          /\ op.ok
          /\ req' = [req EXCEPT ![m] = [at |-> "commit", case |-> k, loaded |-> cases[k],
                                        row |-> op.row, type |-> None]]
    /\ UNCHANGED <<now, cases, actions, reports, throttle, filing, scan, tasks, handled>>

\* POST /cases/{id}/action
LoadAction(m, k, type, second) ==
    /\ req[m].at = "idle" /\ Len(actions) < MaxActions
    /\ MayAct(m, cases[k], type, second)
    /\ req' = [req EXCEPT ![m] = [at |-> "commit", case |-> k, loaded |-> cases[k],
                   row |-> Decided(m, cases[k], type, second), type |-> type]]
    /\ UNCHANGED <<now, cases, actions, reports, throttle, filing, scan, tasks, handled, slotVars>>

\* The case and, for a decision, its action row in one transaction; what is
\* to be propagated is queued after the commit, by the same request.
CommitCase(m) ==
    LET q == req[m] IN
    /\ q.at = "commit"
    /\ cases' = [cases EXCEPT ![q.case] = Flush(@, q.loaded, q.row)]
    /\ IF q.type = None
       THEN actions' = actions /\ req' = [req EXCEPT ![m] = Idle]
       ELSE /\ actions' = Append(actions, [case |-> q.case, type |-> q.type, by |-> m])
            /\ req' = [req EXCEPT ![m] = [at |-> "dispatch", action |-> Len(actions) + 1]]
    /\ UNCHANGED <<now, reports, throttle, filing, scan, tasks, handled, slotVars>>

\* dispatch_action.apply_async; the broker may refuse it or the process die,
\* and as the case is decided by now nothing queues it again.
QueueDispatch(m, sent) ==
    /\ req[m].at = "dispatch"
    /\ sent => req[m].action <= MaxDispatches
    /\ tasks' = IF sent THEN tasks \cup {<<req[m].action, "dispatch">>} ELSE tasks
    /\ req' = [req EXCEPT ![m] = Idle]
    /\ UNCHANGED <<now, cases, actions, reports, throttle, filing, scan, handled, slotVars>>

\* POST /cases/{id}/reopen: a new case beside the old one, with its deadline.
Reopen(k) ==
    /\ Accept /\ RoomFor(1)
    /\ cases' = Append(cases, [NewCase(cases[k].kind, cases[k].subject, cases[k].tier,
                                       cases[k].forced) EXCEPT !.due = cases[k].due])
    /\ UNCHANGED <<now, actions, reports, throttle, req, filing, scan, tasks, handled>>

-----------------------------------------------------------------------------
(* sla_scan: late cases are marked, and a marked tier 3 case that nobody    *)
(* has claimed goes to the escalated queue half an hour later.              *)

Late(c)   == c.status \in {"open", "in_review"} /\ c.breached = None /\ c.due <= now
Urgent(c) == /\ c.tier = "tier_3_1h" /\ c.status = "open" /\ c.claimed = None
             /\ c.breached # None /\ c.breached < now
CasesThat(P(_)) == {k \in 1..Len(cases) : P(cases[k])}

ScanQueries ==
    /\ scan.at = None
    /\ CasesThat(Late) \cup CasesThat(Urgent) # {}
    /\ scan' = [at |-> now, late |-> CasesThat(Late), urgent |-> CasesThat(Urgent)]
    /\ UNCHANGED <<now, cases, actions, reports, throttle, req, filing, tasks, handled, slotVars>>

ScanCommit ==
    /\ scan.at # None
    /\ cases' = [k \in 1..Len(cases) |->
           [cases[k] EXCEPT !.breached = IF k \in scan.late THEN scan.at ELSE @,
                            !.status = IF k \in scan.urgent THEN "escalated" ELSE @]]
    /\ scan' = NoScan
    /\ UNCHANGED <<now, actions, reports, throttle, req, filing, tasks, handled, slotVars>>

-----------------------------------------------------------------------------
(* Celery: acks late, so a task whose worker dies is delivered again.       *)

FanOut(type) == IF type \in DualReview THEN Services
                ELSE IF type \in Mutes THEN {"chat_readonly", "admin_audit"}
                ELSE {"admin_audit"}

\* dispatch_action queues a task per service and is acknowledged when it
\* returns; a worker that dies on the way leaves it to be delivered again.
RunDispatch(a, sent) ==
    LET d == <<a, "dispatch">>  all == FanOut(actions[a].type) IN
    /\ d \in tasks /\ sent \subseteq all
    /\ tasks' = (IF sent = all THEN tasks \ {d} ELSE tasks) \cup {<<a, s>> : s \in sent}
    /\ handled' = IF sent = all THEN handled \cup {d} ELSE handled
    /\ UNCHANGED <<now, cases, actions, reports, throttle, req, filing, scan, slotVars>>

\* propagate_<service>: the event and the log row, both with their failures
\* swallowed, so that the task is acknowledged in any case.
RunPropagate(a, s) ==
    /\ <<a, s>> \in tasks /\ s # "dispatch"
    /\ tasks' = tasks \ {<<a, s>>}
    /\ handled' = handled \cup {<<a, s>>}
    /\ UNCHANGED <<now, cases, actions, reports, throttle, req, filing, scan, slotVars>>

Tick ==
    /\ now < MaxTime /\ now' = now + 1
    /\ UNCHANGED <<cases, actions, reports, throttle, req, filing, scan, tasks, handled, slotVars>>

ReportNext == \E c \in Reporters \X Slots : CommitReport(c) \/ \E s \in Subjects : LoadReport(c, s)
DeskNext ==
    \/ ReportNext
    \/ \E m \in Moderators :
          \/ CommitCase(m) \/ \E sent \in BOOLEAN : QueueDispatch(m, sent)
          \/ \E k \in 1..Len(cases) :
                \/ LoadCase(m, k)
                \/ \E t \in Decisions :
                      \E s \in IF t \in DualReview THEN Moderators \cup {None} ELSE {None} :
                         LoadAction(m, k, t, s)
    \/ \E k \in 1..Len(cases) : Reopen(k)
    \/ ScanQueries \/ ScanCommit \/ Tick
    \/ \E a \in 1..Len(actions) :
          \/ \E sent \in SUBSET Services : RunDispatch(a, sent)
          \/ \E s \in Services : RunPropagate(a, s)
===============================================================================
