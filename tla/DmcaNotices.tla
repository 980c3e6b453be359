------------------------------ MODULE DmcaNotices ------------------------------
(***************************************************************************)
(* moderation-svc: takedown notices.  A notice opens a case and is hidden  *)
(* by a beat task when its 24 hours are over; until then a moderator may   *)
(* reject it, and the user it is about may answer with a counter-notice    *)
(* (routers/dmca.py, routers/cases.py, workers/dmca_tasks.py).  Names,     *)
(* statements and signatures are left out, and so is the branch that       *)
(* stores a defective notice: the request schema demands every field that  *)
(* _validate_dmca_fields looks for, so it is never taken.                  *)
(***************************************************************************)
EXTENDS ModerationDesk

CONSTANTS BeatWorkers,       \* runs of enact_dmca_hide that may overlap
          HideAfter,         \* the 24 hours, in clock ticks
          MaxNotices

VARIABLES
    notices,    \* dmca_notices, each with its counter-notice
    notice,     \* requests about a notice, between SELECT and COMMIT
    hiding      \* enact_dmca_hide runs: the notices they selected

dmcaVars == <<notices, notice, hiding>>

NoticeStates == {"received", "hidden", "counter_pending", "restored", "permanent",
                 "rejected_defective"}
NoticeRow == [state : NoticeStates, case : Nat, subject : Subjects, hideAt : Nat,
              counter : {None, "received", "permanent_taken_down"}]

DmcaInit == notices = <<>> /\ notice = [c \in Slots |-> Idle] /\ hiding = [w \in BeatWorkers |-> {}]

\* The five notices a day and address: INCR, then compare.
UnderNoticeLimit == Len(notices) < MaxNotices

\* POST /dmca/notice
FileNotice(s) ==
    /\ Accept /\ RoomFor(1) /\ UnderNoticeLimit
    /\ cases' = Append(cases, NewCase("dmca", s, "tier_2_6h", TRUE))
    /\ notices' = Append(notices, [state |-> "received", case |-> Len(cases) + 1,
                      subject |-> s, hideAt |-> now + HideAfter, counter |-> None])
    /\ UNCHANGED <<now, actions, reports, throttle, req, filing, scan, tasks, handled,
                   notice, hiding>>

\* The endpoints: the guard on the notice that was read and what it becomes.
MarkDefective(n)  == [ok |-> n.state = "received",
                      row |-> [n EXCEPT !.state = "rejected_defective"]]
MarkSuitFiled(n)  == [ok |-> TRUE,
                      row |-> [n EXCEPT !.state = "permanent",
                          !.counter = IF @ = None THEN None ELSE "permanent_taken_down"]]
CounterNotice(n)  == [ok |-> n.state \in {"hidden", "received"} /\ n.counter = None,
                      row |-> [n EXCEPT !.state = "counter_pending", !.counter = "received"]]

LoadNotice(c, k) ==
    /\ notice[c].at = "idle" /\ Accept
    /\ \E op \in {MarkDefective(notices[k]), MarkSuitFiled(notices[k]), CounterNotice(notices[k])} :
          /\ op.ok
          /\ notice' = [notice EXCEPT ![c] = [at |-> "commit", id |-> k, loaded |-> notices[k],
                                             row |-> op.row]]
    /\ UNCHANGED <<now, cases, actions, reports, throttle, req, filing, scan, tasks, handled,
                   notices, hiding>>

\* counter_notices.dmca_id is UNIQUE: the second counter-notice fails whole.
CommitNotice(c) ==
    LET q == notice[c]
        twice == q.at = "commit" /\ q.row.counter = "received" /\ q.loaded.counter = None
                 /\ notices[q.id].counter # None
    IN
    /\ q.at = "commit"
    /\ notices' = IF twice THEN notices
                  ELSE [notices EXCEPT ![q.id] = Flush(@, q.loaded, q.row)]
    /\ notice' = [notice EXCEPT ![c] = Idle]
    /\ UNCHANGED <<slotVars, deskVars, hiding>>

\* Faulty variant: what was enacted already is enacted again.
DueNoticesAgain == {k \in 1..Len(notices) : /\ notices[k].state \in {"received", "hidden"}
                                           /\ notices[k].hideAt <= now}
\* enact_dmca_hide: the notices that are due, then one action row, the case
\* and the notice of each in one transaction.  No propagation is queued.
DueNotices == {k \in 1..Len(notices) : notices[k].state = "received" /\ notices[k].hideAt <= now}

HideQuery(w) ==
    /\ hiding[w] = {} /\ DueNotices # {}
    /\ hiding' = [hiding EXCEPT ![w] = DueNotices]
    /\ UNCHANGED <<slotVars, deskVars, notices, notice>>

HideCommit(w) ==
    LET due  == hiding[w]
        rows == [i \in 1..Cardinality(due) |->
                   [case |-> notices[CHOOSE k \in due :
                        Cardinality({j \in due : j <= k}) = i].case,
                    type |-> "hide", by |-> "system"]]
    IN
    /\ due # {}
    /\ actions' = actions \o rows
    /\ notices' = [k \in 1..Len(notices) |->
                     IF k \in due THEN [notices[k] EXCEPT !.state = "hidden"] ELSE notices[k]]
    /\ cases' = [k \in 1..Len(cases) |->
                   IF \E d \in due : notices[d].case = k
                   THEN [cases[k] EXCEPT !.status = "actioned", !.action = "hide"] ELSE cases[k]]
    /\ hiding' = [hiding EXCEPT ![w] = {}]
    /\ UNCHANGED <<now, reports, throttle, req, filing, scan, tasks, handled, slotVars, notice>>

\* scan_counter_window: the query asks DMCANotice for a column that only
\* CounterNotice has, so the run raises, rolls back and restores nothing.
ScanCounterWindow ==
    /\ \E k \in 1..Len(notices) : notices[k].counter = "received"
    /\ UNCHANGED <<slotVars, deskVars, dmcaVars>>

DmcaNext ==
    \/ \E s \in Subjects : FileNotice(s)
    \/ \E c \in Slots : CommitNotice(c) \/ \E k \in 1..Len(notices) : LoadNotice(c, k)
    \/ \E w \in BeatWorkers : HideQuery(w) \/ HideCommit(w)
    \/ ScanCounterWindow
===============================================================================
