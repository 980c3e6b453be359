---------------------------- MODULE MockupConsents ----------------------------
(***************************************************************************)
(* ai-orchestrator-svc: mockups two collaborators agree to                 *)
(* (routers/consent.py) and the hourly jobs (workers/expire_tasks.py).     *)
(* One party asks, the other's request approves and starts a generation.   *)
(* The approval is flushed before billing-svc is asked, so its row stays   *)
(* locked until the transaction ends.  What becomes of a generation, in    *)
(* money and at Replicate, is AiCredits' matter: here it ends well, badly, *)
(* or is repeated.  collab-svc has no route for the participants, so the   *)
(* check of them passes.  Briefs, signed URLs and the screenshot audit are *)
(* left out.                                                               *)
(***************************************************************************)
EXTENDS RequestSlots, Sequences, FiniteSets

CONSTANTS Parties,                       \* the participants
          ConsentDays, Lifespans,         \* 48 h; lifespan_days
          MaxDays, MaxProposals, MaxMockups  \* bounds

ASSUME ConsentAssumption == IsFiniteSet(Parties) /\ Lifespans \subseteq Nat /\ MaxDays \in Nat

VARIABLES
    today,
    proposals,  \* ai.mockup_consent, in insertion order
    mockups,    \* ai.mockup_asset with the interaction it is made for
    said        \* history: who agreed to which proposal

consentVars == <<today, proposals, mockups, said>>

ProposalRow == [by : Parties, status : {"pending_b", "approved", "expired"},
                born : 0..MaxDays, life : Lifespans]
MockupRow   == [for : Nat, pending : BOOLEAN, stored : BOOLEAN, active : BOOLEAN,
                until : {None} \cup Nat]

ConsentInit == today = 0 /\ proposals = <<>> /\ mockups = <<>> /\ said = {}

\* The unique index: one proposal of the collab is pending or approved.
Current == {k \in 1..Len(proposals) : proposals[k].status \in {"pending_b", "approved"}}
\* The rows that transactions under way have written: a slot's field "k".
LockedRows == {work[c].k : c \in {c \in Slots : Doing(c, "bill") \/ Doing(c, "make")}}

\* Faulty variant: whoever calls again approves.
ApprovesAny(k, u) == proposals[k].status = "pending_b"
Approves(k, u) == proposals[k].status = "pending_b" /\ proposals[k].by # u

\* mockup_consent, up to its first write: approve, 409, or ask.
ReadConsent(c, u) ==
    /\ \/ \E k \in Current : Approves(k, u) /\ Begin(c, [op |-> "approve", u |-> u, k |-> k])
       \/ \E k \in Current : ~Approves(k, u) /\ proposals[k].by = u /\ AtOnce
       \/ /\ \A k \in Current : ~Approves(k, u) /\ proposals[k].by # u
          /\ \E life \in Lifespans : Begin(c, [op |-> "ask", u |-> u, life |-> life])
    /\ UNCHANGED consentVars

\* The INSERT of a new proposal; a current one makes it a 500, and a row that
\* may become current makes it wait.
Ask(c) ==
    LET q == work[c]
    IN
    /\ Doing(c, "ask") /\ (Current = {} => LockedRows = {})
    /\ IF Current = {}
       THEN /\ Len(proposals) < MaxProposals
            /\ proposals' = Append(proposals, [by |-> q.u, status |-> "pending_b",
                                               born |-> today, life |-> q.life])
            /\ said' = said \cup {<<Len(proposals) + 1, q.u>>}
       ELSE UNCHANGED <<proposals, said>>
    /\ End(c) /\ UNCHANGED <<today, mockups>>

\* The flush of the approval, by id and whatever the row says by now; the
\* index refuses it when a newer proposal has become current.
FlushApproval(c) ==
    LET q == work[c]
    IN
    /\ Doing(c, "approve") /\ q.k \notin LockedRows
    /\ IF Current \ {q.k} # {} THEN End(c) ELSE Step(c, [q EXCEPT !.op = "bill"])
    /\ UNCHANGED consentVars

Approved(q) == /\ proposals' = [proposals EXCEPT ![q.k].status = "approved"]
               /\ said' = said \cup {<<q.k, q.u>>}

\* check_entitlement and reserve_credits: an error rolls the approval back,
\* too few credits commit it without a mockup.
Bill(c) ==
    LET q == work[c]
    IN
    /\ Doing(c, "bill")
    /\ \/ Step(c, [q EXCEPT !.op = "make"]) /\ UNCHANGED consentVars
       \/ End(c) /\ UNCHANGED consentVars
       \/ Approved(q) /\ End(c) /\ UNCHANGED <<today, mockups>>

\* The asset takes replicate_prediction_id "pending", which is UNIQUE: one
\* that waits for its task, of this collab or another, makes this a 500.
MakeMockup(c) ==
    LET q == work[c]
    IN
    /\ Doing(c, "make")
    /\ \/ /\ \A i \in 1..Len(mockups) : ~mockups[i].pending
          /\ Len(mockups) < MaxMockups
          /\ Approved(q)
          /\ mockups' = Append(mockups, [for |-> q.k, pending |-> TRUE, stored |-> FALSE,
                                         active |-> TRUE, until |-> None])
          /\ UNCHANGED today
       \/ UNCHANGED consentVars
    /\ End(c)

-----------------------------------------------------------------------------
(* The generation, AiCredits in brief.  delay() may fail after the commit:   *)
(* then StartMockup never happens.                                           *)

StartMockup(i) ==
    /\ mockups[i].pending
    /\ mockups' = [mockups EXCEPT ![i].pending = FALSE]
    /\ UNCHANGED <<slotVars, today, proposals, said>>

\* _handle_success takes the lifespan from the consent; a webhook that comes
\* again does it again.
StoreMockup(i) ==
    /\ ~mockups[i].pending
    /\ mockups' = [mockups EXCEPT ![i].stored = TRUE, ![i].active = TRUE,
                                  ![i].until = today + proposals[mockups[i].for].life]
    /\ UNCHANGED <<slotVars, today, proposals, said>>

\* Blocked or failed.
FailMockup(i) ==
    /\ ~mockups[i].pending /\ mockups[i].active
    /\ mockups' = [mockups EXCEPT ![i].active = FALSE]
    /\ UNCHANGED <<slotVars, today, proposals, said>>

-----------------------------------------------------------------------------
(* The hourly jobs *)

Overdue(p) == p.status = "pending_b" /\ p.born + ConsentDays <= today

\* One UPDATE: it waits for a row that is locked and looks at it again.
ExpireConsents ==
    LET due == {k \in 1..Len(proposals) : Overdue(proposals[k])}
    IN
    /\ due # {} /\ due \cap LockedRows = {}
    /\ proposals' = [k \in 1..Len(proposals) |->
                       IF k \in due THEN [proposals[k] EXCEPT !.status = "expired"]
                                    ELSE proposals[k]]
    /\ UNCHANGED <<slotVars, today, mockups, said>>

\* expire_mockup_assets reads the rows, then switches them off by id.
ReadExpired(c) ==
    /\ \E i \in 1..Len(mockups) :
          /\ mockups[i].active /\ mockups[i].until # None /\ mockups[i].until <= today
          /\ Begin(c, [op |-> "switch", i |-> i])
    /\ UNCHANGED consentVars

SwitchOff(c) ==
    /\ Doing(c, "switch")
    /\ mockups' = [mockups EXCEPT ![work[c].i].active = FALSE]
    /\ End(c) /\ UNCHANGED <<today, proposals, said>>

NextDay == today < MaxDays /\ today' = today + 1
           /\ UNCHANGED <<slotVars, proposals, mockups, said>>

ConsentNext ==
    \/ \E c \in Slots, u \in Parties : ReadConsent(c, u)
    \/ \E c \in Slots : \/ Ask(c) \/ FlushApproval(c) \/ Bill(c) \/ MakeMockup(c)
                        \/ ReadExpired(c) \/ SwitchOff(c)
    \/ \E i \in 1..Len(mockups) : StartMockup(i) \/ StoreMockup(i) \/ FailMockup(i)
    \/ ExpireConsents \/ NextDay
===============================================================================
