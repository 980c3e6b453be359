----------------------------- MODULE RequestSlots -----------------------------
(***************************************************************************)
(* Requests under way.  An endpoint or a task of these services is an      *)
(* async function: between two awaits it runs alone, at each await every   *)
(* other request may run.  A slot holds one request: None when it is free, *)
(* else a record whose "op" names the operation and the step it is at, and *)
(* whose other fields are the handler's local variables.  One slot is one  *)
(* request of a web process or one task of a Celery worker.                *)
(***************************************************************************)
EXTENDS Naturals

CONSTANT None                \* NULL in a column; a model value, equal to nothing else

(***************************************************************************)
(* How a SQLAlchemy session writes a row back.  A handler loads a row,     *)
(* assigns attributes and commits; the UPDATE names only the columns whose *)
(* value differs from the one that was loaded, and a column it does not    *)
(* name keeps whatever another transaction has put there in between.  The  *)
(* services run READ COMMITTED and take no lock unless a module says so.   *)
(***************************************************************************)

\* The row after the UPDATE: current is what the table holds at the commit,
\* loaded what the handler read, wanted what it made of it.
Flush(current, loaded, wanted) ==
    [f \in DOMAIN current |-> IF wanted[f] = loaded[f] THEN current[f] ELSE wanted[f]]

-----------------------------------------------------------------------------
CONSTANTS Slots,             \* web requests and worker tasks that may overlap
          MaxRequests        \* bound: requests that arrive in a behaviour

VARIABLES
    work,       \* [Slots -> None or the locals of the request]
    used        \* requests that arrived so far

slotVars == <<work, used>>

SlotsInit == work = [c \in Slots |-> None] /\ used = 0

Free(c)      == work[c] = None
Doing(c, op) == work[c] # None /\ work[c].op = op

\* A request arrives at a free slot; a task's delivery arrives there too but
\* is bounded by what was enqueued.  Then it moves on, or ends.
Begin(c, r) == /\ Free(c) /\ used < MaxRequests
               /\ work' = [work EXCEPT ![c] = r]
               /\ used' = used + 1
Take(c, r)  == /\ Free(c)
               /\ work' = [work EXCEPT ![c] = r]
               /\ UNCHANGED used
Step(c, r)  == work' = [work EXCEPT ![c] = r] /\ UNCHANGED used
End(c)      == work' = [work EXCEPT ![c] = None] /\ UNCHANGED used

\* A request whose statements commit at once, or that writes nothing.
AtOnce == used < MaxRequests /\ used' = used + 1 /\ UNCHANGED work
===============================================================================
