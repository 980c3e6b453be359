------------------------------- MODULE TaskBoard -------------------------------
(***************************************************************************)
(* collab-svc: the task list of one collab (routers/tasks.py,              *)
(* services/task_service.py).  Both participants patch, delete, comment    *)
(* and reorder the same rows; a patch names only the fields it carries and *)
(* nothing is locked.  An order key is a letter, 0 for "a" to 25 for "z";  *)
(* titles, bodies and due dates are left out, and so are the task.*        *)
(* events, whose consumer posts to a route chat-svc does not have.         *)
(***************************************************************************)
EXTENDS RequestSlots, Sequences, FiniteSets

CONSTANTS TaskKeys,          \* the order keys clients choose
          MaxTasks, MaxComments

VARIABLES
    tasks,      \* collab.task
    comments    \* collab.task_comment: the task of each

taskVars == <<tasks, comments>>

TaskStatuses == {"todo", "in_progress", "done", "blocked"}
\* closed_at is the number of the request that set it: no two are equal.
TaskRow == [status : TaskStatuses, closed : {None} \cup 1..MaxRequests, deleted : BOOLEAN,
            key : 0..25]

TaskComment == 1..MaxTasks

TaskInit == tasks = <<>> /\ comments = <<>>

Live == {t \in 1..Len(tasks) : ~tasks[t].deleted}

CreateTask(key) ==
    /\ Len(tasks) < MaxTasks
    /\ tasks' = Append(tasks, [status |-> "todo", closed |-> None, deleted |-> FALSE, key |-> key])
    /\ AtOnce /\ UNCHANGED comments

\* update_task: closed_at follows the status the row was read with.
Patched(row, status, stamp) ==
    CASE status = row.status -> row
      [] status # row.status /\ status = "done" ->
           [row EXCEPT !.status = status, !.closed = stamp]
      [] status # row.status /\ row.status = "done" ->
           [row EXCEPT !.status = status, !.closed = None]
      [] OTHER -> [row EXCEPT !.status = status]

\* A request reads the live rows it is about, then commits what it made of
\* them: a patch or a delete of one row, a rebalance of all.
Edit(c, rows) == /\ Begin(c, [op |-> "edit", loaded |-> tasks, rows |-> rows])
                 /\ UNCHANGED taskVars

PatchTask(c, t, status) == Edit(c, [tasks EXCEPT ![t] = Patched(@, status, used + 1)])
MoveTask(c, t, key)     == Edit(c, [tasks EXCEPT ![t].key = key])
DeleteTask(c, t)        == Edit(c, [tasks EXCEPT ![t].deleted = TRUE])

\* _generate_balanced_keys: the i-th of n keys; from 26 tasks on the last
\* ones are all "z".
BalancedKey(i, n) == LET step == IF 26 \div (n + 1) > 1 THEN 26 \div (n + 1) ELSE 1
                     IN IF i * step < 25 THEN i * step ELSE 25

\* Rows of equal keys come in an order of the database's choosing.
InKeyOrder(rank) == /\ {rank[t] : t \in Live} = 1..Cardinality(Live)
                    /\ \A s, t \in Live : tasks[s].key < tasks[t].key => rank[s] < rank[t]

Rebalance(c) ==
    \E rank \in [Live -> 1..Cardinality(Live)] :
        /\ Live # {} /\ InKeyOrder(rank)
        /\ Edit(c, [t \in 1..Len(tasks) |->
              IF t \in Live THEN [tasks[t] EXCEPT !.key = BalancedKey(rank[t], Cardinality(Live))]
              ELSE tasks[t]])

CommitTask(c) ==
    LET q == work[c]
    IN
    /\ Doing(c, "edit")
    /\ tasks' = [t \in 1..Len(tasks) |->
                   IF t <= Len(q.rows) THEN Flush(tasks[t], q.loaded[t], q.rows[t]) ELSE tasks[t]]
    /\ End(c) /\ UNCHANGED comments

\* The task is read and its comment inserted; a task deleted in between
\* keeps the comment.
LoadComment(c, t)  == Begin(c, [op |-> "comment", t |-> t]) /\ UNCHANGED taskVars
CommitComment(c)   == /\ Doing(c, "comment") /\ Len(comments) < MaxComments
                      /\ comments' = Append(comments, work[c].t)
                      /\ End(c) /\ UNCHANGED tasks

TaskNext ==
    \/ \E key \in TaskKeys : CreateTask(key)
    \/ \E c \in Slots :
          \/ Rebalance(c) \/ CommitTask(c) \/ CommitComment(c)
          \/ \E t \in Live :
                \/ \E status \in TaskStatuses : PatchTask(c, t, status)
                \/ \E key \in TaskKeys : MoveTask(c, t, key)
                \/ DeleteTask(c, t) \/ LoadComment(c, t)
===============================================================================
