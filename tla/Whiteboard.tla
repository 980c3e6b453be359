------------------------------ MODULE Whiteboard ------------------------------
(***************************************************************************)
(* collab-svc: the whiteboard of one collab in one pod                     *)
(* (services/whiteboard_ws.py, services/whiteboard_service.py).  Each      *)
(* connection has a handler that stores an operation and then sends it to  *)
(* the others, one await after another; a joiner is registered first and   *)
(* hydrated from the last snapshot and the operations after it.  Nothing   *)
(* links the pods, so each has a board of its own.  The snapshot's bytes   *)
(* are a placeholder in the code: only its version is modelled.            *)
(***************************************************************************)
EXTENDS RequestSlots, Sequences, FiniteSets, SequencesExt

CONSTANTS Tabs,              \* browser tabs of the two participants
          MaxOps, MaxSnapshots

VARIABLES
    conns,      \* WhiteboardRoom._connections, a list that is iterated over
    lamport,    \* WhiteboardRoom._lamport: starts at 0 in every process
    armed,      \* the idle timer is running
    ops,        \* collab.whiteboard_op, in insertion order
    snapshots,  \* collab.whiteboard_snapshot: versions
    tab,        \* each tab's view: None, or what its handler has sent it
    pen,        \* each tab's operation under way, in its handler
    disturbed   \* history: operations during whose sending a tab left

boardVars == <<conns, lamport, armed, ops, snapshots, tab, pen, disturbed>>

TabRow == [at : {"joining", "delta", "live"}, since : Nat, version : {None} \cup Nat,
           delta : SUBSET Nat, live : SUBSET (Nat \cup {None})]
PenRow == [at : {"store"}, lamport : Nat]
             \cup [at : {"send"}, next : Nat \ {0}, op : {None} \cup Nat]

ASSUME BoardAssumption == MaxOps \in Nat /\ None \notin Nat \cup TabRow \cup PenRow

BoardInit ==
    /\ conns = <<>> /\ lamport = 0 /\ armed = FALSE /\ ops = <<>> /\ snapshots = {}
    /\ tab = [t \in Tabs |-> None] /\ pen = [t \in Tabs |-> None] /\ disturbed = {}

Latest == IF snapshots = {} THEN None
          ELSE CHOOSE v \in snapshots : \A w \in snapshots : w <= v

\* Faulty variant: the operations after the room's counter, not the snapshot's.
DeltaOpsFromNow(v) == {k \in 1..Len(ops) : ops[k].lamport > lamport}
\* Operations stored since the snapshot: get_delta_ops.
DeltaOps(v) == {k \in 1..Len(ops) : ops[k].lamport > v}

AppendOp(n, t)  == ops' = Append(ops, [lamport |-> n, by |-> t])
SaveSnapshot(n) == snapshots' = snapshots \cup {n}

\* connect: registered, and nothing has been sent yet.
Connect(t) ==
    /\ tab[t] = None /\ pen[t] = None
    /\ conns' = Append(conns, t) /\ armed' = TRUE
    /\ tab' = [tab EXCEPT ![t] = [at |-> "joining", since |-> Len(ops), version |-> None,
                                  delta |-> {}, live |-> {}]]
    /\ AtOnce
    /\ UNCHANGED <<lamport, ops, snapshots, pen, disturbed>>

\* _send_initial_state, in its two queries; without a snapshot, and after any
\* error, the tab gets nothing.
LoadSnapshot(t) ==
    /\ tab[t] # None /\ tab[t].at = "joining"
    /\ tab' = [tab EXCEPT ![t] = IF Latest = None THEN [@ EXCEPT !.at = "live"]
                                 ELSE [@ EXCEPT !.at = "delta", !.version = Latest]]
    /\ UNCHANGED <<conns, lamport, armed, ops, snapshots, pen, disturbed, slotVars>>

LoadDelta(t) ==
    /\ tab[t] # None /\ tab[t].at = "delta"
    /\ \/ tab' = [tab EXCEPT ![t].at = "live", ![t].delta = DeltaOps(tab[t].version)]
       \/ tab' = [tab EXCEPT ![t].at = "live", ![t].version = None]
    /\ UNCHANGED <<conns, lamport, armed, ops, snapshots, pen, disturbed, slotVars>>

\* An operation arrives: it is numbered, stored, and then sent.
Draw(t) ==
    /\ tab[t] # None /\ tab[t].at = "live" /\ pen[t] = None
    /\ lamport < MaxOps
    /\ lamport' = lamport + 1 /\ armed' = TRUE
    /\ pen' = [pen EXCEPT ![t] = [at |-> "store", lamport |-> lamport + 1]]
    /\ AtOnce
    /\ UNCHANGED <<conns, ops, snapshots, tab, disturbed>>

\* An insert that fails is only logged: the operation is sent all the same.
Persist(t) ==
    /\ pen[t] # None /\ pen[t].at = "store" /\ Len(ops) < MaxOps
    /\ \E stored \in BOOLEAN :
          /\ IF stored THEN AppendOp(pen[t].lamport, t) ELSE UNCHANGED ops
          /\ pen' = [pen EXCEPT ![t] = [at |-> "send", next |-> 1,
                                        op |-> IF stored THEN Len(ops) + 1 ELSE None]]
    /\ UNCHANGED <<conns, lamport, armed, snapshots, tab, disturbed, slotVars>>

\* broadcast: one turn of "for conn in self._connections".  The list is the
\* one that connect and disconnect change meanwhile.
Broadcast(t) ==
    LET b == pen[t]
    IN
    /\ b # None /\ b.at = "send"
    /\ IF b.next > Len(conns)
       THEN pen' = [pen EXCEPT ![t] = None] /\ UNCHANGED tab
       ELSE /\ pen' = [pen EXCEPT ![t].next = @ + 1]
            /\ tab' = IF conns[b.next] = t THEN tab
                      ELSE [tab EXCEPT ![conns[b.next]].live = @ \cup {b.op}]
    /\ UNCHANGED <<conns, lamport, armed, ops, snapshots, disturbed, slotVars>>

\* disconnect, by the tab's own handler or by a broadcast that failed on it;
\* an operation the tab's handler has begun is stored and sent all the same.
Disconnect(t) ==
    /\ tab[t] # None
    /\ conns' = RemoveFirst(conns, t)
    /\ armed' = (armed \/ conns' = <<>>)
    /\ disturbed' = disturbed \cup {pen[u].op : u \in {u \in Tabs :
                                       pen[u] # None /\ pen[u].at = "send"}}
    /\ tab' = [tab EXCEPT ![t] = None]
    /\ UNCHANGED <<lamport, ops, snapshots, pen, slotVars>>

\* The idle timer fires: the snapshot carries the counter, which includes
\* operations that are not stored yet.  It may fail.
Snapshot ==
    /\ armed /\ Cardinality(snapshots) < MaxSnapshots
    /\ armed' = FALSE
    /\ SaveSnapshot(lamport) \/ UNCHANGED snapshots
    /\ UNCHANGED <<conns, lamport, ops, tab, pen, disturbed, slotVars>>

\* The pod is replaced: connections and counter are gone, the rows stay.
Restart ==
    /\ lamport > 0
    /\ conns' = <<>> /\ lamport' = 0 /\ armed' = FALSE
    /\ tab' = [t \in Tabs |-> None] /\ pen' = [t \in Tabs |-> None] /\ disturbed' = {}
    /\ AtOnce
    /\ UNCHANGED <<ops, snapshots>>

BoardNext ==
    \/ \E t \in Tabs : \/ Connect(t) \/ LoadSnapshot(t) \/ LoadDelta(t) \/ Draw(t) \/ Persist(t)
                       \/ Broadcast(t) \/ Disconnect(t)
    \/ Snapshot \/ Restart
===============================================================================
